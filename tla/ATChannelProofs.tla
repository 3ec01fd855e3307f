--------------------------- MODULE ATChannelProofs ---------------------------
(* Theorems about ATChannel, for any callers, commands, texts and bounds;   *)
(* the last part proves that it implements ATService.                       *)
EXTENDS ATRefinement, SequenceTheorems, FiniteSetTheorems, WellFoundedInduction,
        TLAPS

USE DEF pending, callerVars, modemVars, history

(* A NULL pointer is neither a response nor does it hold a line. *)
LEMMA NullIsNoResponse == NULL.cmd = 0 /\ NULL \notin Responses
BY DEF NULL, NewResponse, Responses

(* Turning a list of lines round gives a list of lines. *)
LEMMA ReverseType == \A s \in Seq(Lines) : Reverse(s) \in Seq(Lines)
<1> SUFFICES ASSUME NEW s \in Seq(Lines)
             PROVE  Reverse(s) \in Seq(Lines)
    OBVIOUS
<1>1. \A i \in 1..Len(s) : Len(s) - i + 1 \in 1..Len(s)
    OBVIOUS
<1>2. \A i \in 1..Len(s) : s[Len(s) - i + 1] \in Lines
    BY <1>1
<1> QED BY <1>2, Len(s) \in Nat DEF Reverse

(* What a wrapper returns is an error code and a response or NULL. *)
LEMMA ResultType ==
    ASSUME NEW k \in Commands, NEW r \in Responses
    PROVE  Result(k, r) \in [err : Errors, resp : Responses \union {NULL}]
<1>1. [r EXCEPT !.p_intermediates = Reverse(r.p_intermediates)] \in Responses
    BY ReverseType DEF Responses
<1> QED BY <1>1, Zenon DEF Result, NoResult, Errors

(* Every line the modem says is a line, and rx stays a sequence of lines. *)
LEMMA SayType ==
    ASSUME TypeOK, NEW t \in Texts, NEW n \in Nat, Say(t, n)
    PROVE  rx' \in Seq(Lines)
BY DEF TypeOK, Say, Lines

LEMMA InitType == Init => TypeOK
<1> SUFFICES ASSUME Init PROVE TypeOK
    OBVIOUS
<1>1. (CHOOSE k \in Commands : TRUE) \in Commands
    BY CommandsAssumption
<1>2. /\ rx \in Seq(Lines) /\ inbox \in Seq(1..issued)
      /\ emitted \in Seq(Seq(InfoTexts)) /\ Len(emitted) = issued
    BY DEF Init
<1>3. /\ arg \in [Callers -> Commands] /\ id \in [Callers -> Nat]
      /\ pc \in [Callers -> {"idle", "lock", "waiting", "expired", "woken"}]
      /\ slice \in [Callers -> 1..Slices]
      /\ out \in [Callers -> [err : Errors, resp : Responses \union {NULL}]]
    BY <1>1, BoundsAssumption DEF Init, Errors
<1>4. calls \in 0..MaxCalls /\ unsol \in 0..MaxUnsol /\ spurious \in 0..MaxSpurious
    BY BoundsAssumption DEF Init
<1>5. /\ s_type \in Types /\ s_responsePrefix \in {k.prefix : k \in Commands} \union {NoPrefix}
      /\ sp_response \in Responses \union {NULL}
    BY DEF Init, Types
<1>6. /\ proc \in {"running", "crashed", "exited"} /\ s_fd \in {"open", "closed"}
      /\ rpc \in {"first", "second", "closing", "exiting"} /\ issued \in Nat
      /\ hungup \in BOOLEAN /\ refused \in BOOLEAN /\ lapsed \in BOOLEAN
    BY DEF Init
<1> QED BY <1>2, <1>3, <1>4, <1>5, <1>6 DEF TypeOK

(* Every action keeps the types. *)
LEMMA StepType == TypeOK /\ [Next]_vars => TypeOK'
<1> SUFFICES ASSUME TypeOK, [Next]_vars PROVE TypeOK'
    OBVIOUS
<1> USE DEF TypeOK
<1>0. NULL \in Responses \union {NULL} /\ NoPrefix \in {k.prefix : k \in Commands} \union {NoPrefix}
    OBVIOUS
<1>1. ASSUME NEW c \in Callers, NEW k \in Commands, Call(c, k) PROVE TypeOK'
    BY <1>1, BoundsAssumption DEF Call, Errors
<1>2. ASSUME NEW c \in Callers, SendPending(c) PROVE TypeOK'
    BY <1>2 DEF SendPending, ClearPendingCommand, Return, Errors
<1>3. ASSUME NEW c \in Callers, SendFails(c) PROVE TypeOK'
  <2>1. CASE Return(c, "CHANNEL_CLOSED", NULL)
      BY <1>3, <2>1 DEF SendFails, ClearPendingCommand, Return, Errors
  <2>2. CASE Return(c, "GENERIC", NULL)
      BY <1>3, <2>2 DEF SendFails, ClearPendingCommand, Return, Errors
  <2> QED BY <1>3, <2>1, <2>2 DEF SendFails
<1>4. ASSUME NEW c \in Callers, SendOk(c) PROVE TypeOK'
  <2>1. arg[c] \in Commands /\ arg[c].type \in Types
      BY CommandsAssumption
  <2>2. NewResponse(issued + 1) \in Responses
      BY DEF NewResponse, Responses
  <2>3. inbox' \in Seq(1..issued') /\ issued' \in Nat
      BY <1>4 DEF SendOk, WriteAndWait
  <2>4. emitted' \in Seq(Seq(InfoTexts)) /\ Len(emitted') = issued'
      BY <1>4 DEF SendOk, WriteAndWait
  <2> QED BY <1>4, <2>1, <2>2, <2>3, <2>4 DEF SendOk, WriteAndWait
<1>5. ASSUME NEW c \in Callers, SliceExpires(c) PROVE TypeOK'
    BY <1>5 DEF SliceExpires
<1>6. ASSUME NEW c \in Callers, NextSlice(c) PROVE TypeOK'
    BY <1>6, BoundsAssumption DEF NextSlice, TimedWait
<1>7. ASSUME NEW c \in Callers, Timeout(c) PROVE TypeOK'
    BY <1>7 DEF Timeout, ClearPendingCommand, Return, Errors
<1>8. ASSUME NEW c \in Callers, SpuriousWake(c) PROVE TypeOK'
    BY <1>8, BoundsAssumption DEF SpuriousWake
<1>9. ASSUME NEW c \in Callers, ResumeCrash(c) PROVE TypeOK'
    BY <1>9 DEF ResumeCrash
<1>10. ASSUME NEW c \in Callers, ResumeWait(c) PROVE TypeOK'
    BY <1>10, BoundsAssumption DEF ResumeWait, TimedWait
<1>11. ASSUME NEW c \in Callers, ResumeTake(c) PROVE TypeOK'
  <2>1. Result(arg[c], sp_response) \in [err : Errors, resp : Responses \union {NULL}]
      BY <1>11, ResultType DEF ResumeTake
  <2> QED BY <1>11, <2>1 DEF ResumeTake, Take, ClearPendingCommand, Return
<1>12. ASSUME ReadLine PROVE TypeOK'
  <2>1. Head(rx) \in Lines /\ rx' \in Seq(Lines)
      BY <1>12 DEF ReadLine
  <2>2. pc' \in [Callers -> {"idle", "lock", "waiting", "expired", "woken"}]
      BY <1>12 DEF ReadLine, ProcessLine, HandleFinalResponse, Signal
  <2>3. sp_response' \in Responses \union {NULL}
    <3>1. CASE UNCHANGED sp_response
        BY <3>1
    <3>2. CASE sp_response # NULL /\ AddIntermediate(Head(rx))
      <4>1. <<Head(rx)>> \o sp_response.p_intermediates \in Seq(Lines)
          BY <3>2, <2>1 DEF Responses
      <4> QED BY <3>2, <4>1 DEF AddIntermediate, Responses
    <3>3. CASE sp_response # NULL /\ HandleFinalResponse(Head(rx))
      <4>1. (Head(rx).text \in FinalResponsesSuccess) \in BOOLEAN
          OBVIOUS
      <4> QED BY <3>3, <2>1, <4>1 DEF HandleFinalResponse, Responses
    <3> QED BY <1>12, <3>1, <3>2, <3>3 DEF ReadLine, ProcessLine
  <2> QED BY <1>12, <2>1, <2>2, <2>3 DEF ReadLine
<1>13. ASSUME ReadSms PROVE TypeOK'
    BY <1>13 DEF ReadSms
<1>14. ASSUME ReadEof PROVE TypeOK'
    BY <1>14 DEF ReadEof
<1>15. ASSUME CloseSignals PROVE TypeOK'
    BY <1>15 DEF CloseSignals, Signal
<1>16. ASSUME ReaderExits PROVE TypeOK'
    BY <1>16 DEF ReaderExits
<1>17. ASSUME ModemInfo PROVE TypeOK'
  <2>1. PICK t \in InfoTexts :
            /\ Say(t, Head(inbox))
            /\ emitted' = [emitted EXCEPT ![Head(inbox)] = Append(@, t)]
      BY <1>17 DEF ModemInfo
  <2>2. Head(inbox) \in 1..issued
      BY <1>17, SMTT(20) DEF ModemInfo
  <2>3. rx' \in Seq(Lines)
    <3>1. t \in Texts /\ Head(inbox) \in Nat
        BY <2>2 DEF Texts
    <3> QED BY <2>1, <3>1, SayType
  <2>4. Append(emitted[Head(inbox)], t) \in Seq(InfoTexts)
      BY <2>2
  <2>5. emitted' \in Seq(Seq(InfoTexts)) /\ Len(emitted') = Len(emitted)
      BY <2>1, <2>2, <2>4
  <2> QED BY <1>17, <2>3, <2>5 DEF ModemInfo
<1>18. ASSUME ModemFinal PROVE TypeOK'
  <2>1. Head(inbox) \in 1..issued /\ inbox' \in Seq(1..issued)
      BY <1>18, SMTT(20) DEF ModemFinal
  <2>2. rx' \in Seq(Lines)
    <3>1. PICK t \in FinalTexts : Say(t, Head(inbox))
        BY <1>18 DEF ModemFinal
    <3>2. t \in Texts /\ Head(inbox) \in Nat
        BY <2>1 DEF Texts
    <3> QED BY <3>1, <3>2, SayType
  <2> QED BY <1>18, <2>1, <2>2 DEF ModemFinal
<1>19. ASSUME ModemIgnores PROVE TypeOK'
    BY <1>19 DEF ModemIgnores
<1>20. ASSUME ModemUnsolicited PROVE TypeOK'
  <2>1. rx' \in Seq(Lines)
      BY <1>20, SayType DEF ModemUnsolicited, Texts
  <2> QED BY <1>20, <2>1, BoundsAssumption DEF ModemUnsolicited
<1>21. ASSUME HangUp PROVE TypeOK'
    BY <1>21 DEF HangUp
<1>22. CASE UNCHANGED vars
    BY <1>22 DEF vars
<1> QED
    BY <1>1, <1>2, <1>3, <1>4, <1>5, <1>6, <1>7, <1>8, <1>9, <1>10, <1>11,
       <1>12, <1>13, <1>14, <1>15, <1>16, <1>17, <1>18, <1>19, <1>20, <1>21,
       <1>22 DEF Next, SendCommand, Waits, Resume, Reader, Modem

(* The channel's variables never leave their types and bounds. *)
THEOREM TypeCorrect == Spec => []TypeOK
BY InitType, StepType, PTL DEF Spec

----------------------------------------------------------------------------
(* Who owns the pending response.                                           *)

(* While nobody has been refused, at most one thread is inside its call, and *)
(* the pending response is there and is that thread's.                       *)
OneAtATime ==
    ~refused =>
        /\ proc # "crashed"
        /\ \A c \in Callers : InCall(c) =>
             /\ sp_response # NULL /\ sp_response.cmd = id[c]
             /\ \A d \in Callers : InCall(d) => d = c

OwnInv == PendingOwned /\ OneAtATime /\ SoleCallerServed

(* A signal moves at most one caller, from one state inside its call to      *)
(* another.                                                                  *)
LEMMA SignalInCall ==
    ASSUME TypeOK, Signal
    PROVE  \A c \in Callers : InCall(c)' <=> InCall(c)
BY DEF TypeOK, Signal, InCall

(* Processing a line leaves the pending response where it is.                *)
LEMMA ProcessLineKeeps ==
    ASSUME TypeOK, NEW line \in Lines, ProcessLine(line)
    PROVE  /\ sp_response' = NULL <=> sp_response = NULL
           /\ sp_response'.cmd = sp_response.cmd
           /\ \A c \in Callers : InCall(c)' <=> InCall(c)
<1>1. CASE UNCHANGED <<sp_response, pc>>
    BY <1>1 DEF InCall
<1>2. CASE sp_response # NULL /\ AddIntermediate(line) /\ UNCHANGED pc
    BY <1>2, NullIsNoResponse DEF AddIntermediate, InCall, TypeOK, Responses
<1>3. CASE sp_response # NULL /\ HandleFinalResponse(line)
    BY <1>3, NullIsNoResponse, SignalInCall DEF HandleFinalResponse, TypeOK, Responses
<1> QED BY <1>1, <1>2, <1>3 DEF ProcessLine

LEMMA InitOwn == Init => OwnInv
BY DEF Init, OwnInv, PendingOwned, OneAtATime, SoleCallerServed, InCall

(* Every action keeps the ownership of the pending response.                 *)
LEMMA StepOwn == TypeOK /\ OwnInv /\ [Next]_vars => OwnInv'
<1> SUFFICES ASSUME TypeOK, OwnInv, [Next]_vars PROVE OwnInv'
    OBVIOUS
<1> USE DEF OwnInv, PendingOwned, OneAtATime, SoleCallerServed
<1>a. pc \in [Callers -> {"idle", "lock", "waiting", "expired", "woken"}]
      /\ id \in [Callers -> Nat] /\ issued \in Nat
    BY DEF TypeOK
(* Steps that leave the process, the response and every caller's being in   *)
(* its call alone.                                                           *)
<1>b. ASSUME proc' # "crashed", UNCHANGED <<id, refused>>,
             sp_response' = NULL <=> sp_response = NULL,
             sp_response'.cmd = sp_response.cmd,
             \A c \in Callers : InCall(c)' <=> InCall(c)
      PROVE  OwnInv'
    BY <1>b
(* Steps that end a call and clear the pending response.                     *)
<1>c. ASSUME NEW c \in Callers, NEW e, NEW r, ClearPendingCommand, Return(c, e, r),
             sp_response = NULL \/ refused' \/ InCall(c), UNCHANGED proc, proc # "crashed",
             refused => refused', refused' => refused \/ \E d \in Callers : d # c
      PROVE  OwnInv'
  <2>1. sp_response' = NULL /\ \A d \in Callers : InCall(d)' <=> InCall(d) /\ d # c
      BY <1>a, <1>c DEF ClearPendingCommand, Return, InCall
  <2> QED BY <1>a, <1>c, <2>1 DEF Return
<1>1. ASSUME NEW c \in Callers, NEW k \in Commands, Call(c, k), proc = "running" PROVE OwnInv'
    BY <1>1, <1>a DEF Call, InCall, history, pending
<1>2. ASSUME NEW c \in Callers, SendPending(c), proc = "running" PROVE OwnInv'
  <2>1. ~InCall(c)
      BY <1>2 DEF SendPending, InCall
  <2>2. \E d \in Callers : d # c
      BY <1>2, <2>1 DEF SendPending
  <2> QED BY <1>2, <1>c, <2>2 DEF SendPending
<1>3. ASSUME NEW c \in Callers, SendFails(c), proc = "running" PROVE OwnInv'
    BY <1>3, <1>c DEF SendFails
<1>4. ASSUME NEW c \in Callers, SendOk(c), proc = "running" PROVE OwnInv'
  <2>1. sp_response'.cmd = id'[c] /\ sp_response' # NULL /\ InCall(c)'
      BY <1>4, <1>a DEF SendOk, WriteAndWait, NewResponse, NULL, InCall
  <2>2. \A d \in Callers : d # c => (InCall(d)' <=> InCall(d))
      BY <1>4, <1>a DEF SendOk, WriteAndWait, InCall
  <2>3. ~refused => \A d \in Callers : ~InCall(d)
      BY <1>4 DEF SendOk
  <2> QED BY <1>4, <2>1, <2>2, <2>3 DEF SendOk, WriteAndWait
<1>5. ASSUME NEW c \in Callers, SliceExpires(c), proc = "running" PROVE OwnInv'
    BY <1>5, <1>a, <1>b DEF SliceExpires, InCall
<1>6. ASSUME NEW c \in Callers, NextSlice(c), proc = "running" PROVE OwnInv'
    BY <1>6, <1>a, <1>b DEF NextSlice, TimedWait, InCall
<1>7. ASSUME NEW c \in Callers, Timeout(c), proc = "running" PROVE OwnInv'
    BY <1>7, <1>c DEF Timeout, InCall
<1>8. ASSUME NEW c \in Callers, SpuriousWake(c), proc = "running" PROVE OwnInv'
    BY <1>8, <1>a, <1>b DEF SpuriousWake, InCall
<1>9. ASSUME NEW c \in Callers, ResumeCrash(c), proc = "running" PROVE OwnInv'
    BY <1>9 DEF ResumeCrash, InCall
<1>10. ASSUME NEW c \in Callers, ResumeWait(c), proc = "running" PROVE OwnInv'
    BY <1>10, <1>a, <1>b DEF ResumeWait, TimedWait, InCall
<1>11. ASSUME NEW c \in Callers, ResumeTake(c), proc = "running" PROVE OwnInv'
    BY <1>11, <1>c DEF ResumeTake, Take, InCall
<1>12. ASSUME ReadLine, proc = "running" PROVE OwnInv'
  <2>1. Head(rx) \in Lines
      BY <1>12 DEF ReadLine, TypeOK
  <2> QED BY <1>12, <2>1, <1>b, ProcessLineKeeps DEF ReadLine
<1>13. ASSUME CloseSignals, proc = "running" PROVE OwnInv'
    BY <1>13, <1>b, SignalInCall DEF CloseSignals
<1>14. ASSUME ReadSms \/ ReadEof \/ ReaderExits \/ Modem, proc = "running" PROVE OwnInv'
    BY <1>14, <1>b DEF ReadSms, ReadEof, ReaderExits, Modem, ModemInfo,
                       ModemFinal, ModemIgnores, ModemUnsolicited, HangUp, InCall
<1>15. CASE UNCHANGED vars
    BY <1>15 DEF vars, InCall
<1> QED
    BY <1>1, <1>2, <1>3, <1>4, <1>5, <1>6, <1>7, <1>8, <1>9, <1>10, <1>11,
       <1>12, <1>13, <1>14, <1>15 DEF Next, SendCommand, Waits, Resume, Reader

LEMMA OwnCorrect == Spec => []OwnInv
BY InitOwn, StepOwn, TypeCorrect, PTL DEF Spec

(* The pending response always belongs to a call in progress.                *)
THEOREM PendingIsOwned == Spec => []PendingOwned
<1>1. OwnInv => PendingOwned
    BY DEF OwnInv
<1> QED BY <1>1, OwnCorrect, PTL

(* No crash without a refusal: with any number of callers, the NULL          *)
(* dereference in the wait loop needs a call refused with COMMAND_PENDING.   *)
THEOREM CrashNeedsRefusal == Spec => []CrashOnlyAfterRefusal
<1>1. OwnInv => CrashOnlyAfterRefusal
    BY DEF OwnInv, OneAtATime, CrashOnlyAfterRefusal
<1> QED BY <1>1, OwnCorrect, PTL

(* A lone caller is never refused and never crashes.                         *)
THEOREM SoleCallerIsServed == Spec => []SoleCallerServed
<1>1. OwnInv => SoleCallerServed
    BY DEF OwnInv
<1> QED BY <1>1, OwnCorrect, PTL

----------------------------------------------------------------------------
(* Whose lines a response holds.                                            *)

Awaiting == sp_response # NULL /\ sp_response.finalResponse = NoLine

(* No line in flight ends an answer nobody asked for.                        *)
NoStrayFinalInRx == \A i \in 1..Len(rx) : rx[i].cmd = 0 => rx[i].text \notin Finals

(* A line in flight that answers a command answers the one being waited for. *)
RxIsForPending ==
    \A i \in 1..Len(rx) : rx[i].cmd # 0 => Awaiting /\ rx[i].cmd = sp_response.cmd

(* Nothing that answers a command comes after its final line.                *)
FinalIsLast ==
    \A i, j \in 1..Len(rx) : rx[i].text \in Finals /\ i < j => rx[j].cmd = 0

(* The modem is at work on the command being waited for or on none, and has  *)
(* not ended the answer it is giving.                                        *)
InboxIsPending ==
    inbox # <<>> => /\ Awaiting /\ Len(inbox) = 1 /\ inbox[1] = sp_response.cmd
                    /\ \A i \in 1..Len(rx) : rx[i].text \notin Finals

(* The pending response holds its own command's lines.                       *)
PendingIsOwn ==
    sp_response # NULL =>
        /\ sp_response.finalResponse # NoLine
             => sp_response.finalResponse.cmd = sp_response.cmd
        /\ \A i \in 1..Len(sp_response.p_intermediates) :
             sp_response.p_intermediates[i].cmd \in {0, sp_response.cmd}

SyncInv ==
    (~refused /\ ~lapsed /\ NoStrayFinals) =>
        /\ NoStrayFinalInRx /\ RxIsForPending /\ FinalIsLast /\ InboxIsPending
        /\ PendingIsOwn
        /\ \A c \in Callers : OwnOrUnsolicited(c)

(* Taking the first line off rx shifts the others.                           *)
LEMMA TailOfRx ==
    ASSUME TypeOK, rx # <<>>, rx' = Tail(rx)
    PROVE  /\ Len(rx') = Len(rx) - 1
           /\ \A i \in 1..Len(rx') : i + 1 \in 1..Len(rx) /\ rx'[i] = rx[i + 1]
BY DEF TypeOK

(* Saying a line leaves the lines before it in place.                        *)
LEMMA SayAppends ==
    ASSUME TypeOK, NEW t \in Texts, NEW n \in Nat, Say(t, n)
    PROVE  /\ Len(rx') = Len(rx) + 1
           /\ rx'[Len(rx')].text = t /\ rx'[Len(rx')].cmd = n
           /\ \A i \in 1..Len(rx) : rx'[i] = rx[i]
           /\ \A i \in 1..Len(rx') : i = Len(rx') \/ i \in 1..Len(rx)
<1>1. [text |-> t, cmd |-> n] \in Lines
    BY DEF Lines
<1> QED BY <1>1 DEF TypeOK, Say

(* The elements of a reversed list are elements of the list.                 *)
LEMMA ReverseElements ==
    ASSUME NEW s \in Seq(Lines)
    PROVE  /\ Len(Reverse(s)) = Len(s)
           /\ \A i \in 1..Len(Reverse(s)) :
                \E j \in 1..Len(s) : Reverse(s)[i] = s[j]
<1>1. \A i \in 1..Len(s) : Len(s) - i + 1 \in 1..Len(s)
    OBVIOUS
<1>2. Len(Reverse(s)) = Len(s)
    BY Len(s) \in Nat DEF Reverse
<1> QED BY <1>1, <1>2 DEF Reverse

(* Processing the first line of rx: a final line ends the response, another  *)
(* one may join it, and the rest of rx stays in step.                        *)
LEMMA ReadLineSync ==
    ASSUME TypeOK, SyncInv, ~refused, ~lapsed, NoStrayFinals, ReadLine
    PROVE  SyncInv'
<1> DEFINE line == Head(rx)
<1>1. rx # <<>> /\ rx' = Tail(rx) /\ line \in Lines /\ line = rx[1] /\ 1 \in 1..Len(rx)
    BY DEF ReadLine, TypeOK
<1>2. /\ Len(rx') = Len(rx) - 1
      /\ \A i \in 1..Len(rx') : i + 1 \in 1..Len(rx) /\ rx'[i] = rx[i + 1]
    BY <1>1, TailOfRx
<1>3. UNCHANGED <<inbox, out, id, refused, lapsed>>
    BY DEF ReadLine
<1>4. /\ NoStrayFinalInRx /\ RxIsForPending /\ FinalIsLast /\ InboxIsPending
      /\ PendingIsOwn /\ \A c \in Callers : OwnOrUnsolicited(c)
    BY DEF SyncInv
<1>5. NoStrayFinalInRx' /\ FinalIsLast'
  <2>1. Len(rx) \in Nat /\ Len(rx') \in Nat
      BY <1>2 DEF TypeOK
  <2>2. NoStrayFinalInRx'
      BY <1>2, <1>4 DEF NoStrayFinalInRx
  <2>3. ASSUME NEW i \in 1..Len(rx'), NEW j \in 1..Len(rx'),
               rx'[i].text \in Finals, i < j
        PROVE  rx'[j].cmd = 0
    <3>1. /\ i + 1 \in 1..Len(rx) /\ rx'[i] = rx[i + 1]
          /\ j + 1 \in 1..Len(rx) /\ rx'[j] = rx[j + 1] /\ i + 1 < j + 1
        BY <1>2, <2>1, <2>3
    <3> QED BY <1>4, <2>3, <3>1 DEF FinalIsLast
  <2> QED BY <2>2, <2>3 DEF FinalIsLast
<1>6. CASE UNCHANGED sp_response
    BY <1>1, <1>2, <1>3, <1>4, <1>5, <1>6
       DEF SyncInv, RxIsForPending, InboxIsPending, PendingIsOwn, Awaiting, OwnOrUnsolicited
<1>7. CASE sp_response # NULL /\ line.text \notin Finals /\ AddIntermediate(line)
  <2>1. sp_response \in Responses
      BY <1>7 DEF TypeOK
  <2>2. /\ sp_response'.cmd = sp_response.cmd
        /\ sp_response'.finalResponse = sp_response.finalResponse
        /\ sp_response'.p_intermediates = <<line>> \o sp_response.p_intermediates
        /\ sp_response' # NULL
      BY <1>7, <2>1, NullIsNoResponse DEF AddIntermediate, Responses
  <2>3. \A i \in 1..Len(sp_response'.p_intermediates) :
            sp_response'.p_intermediates[i].cmd \in {0, sp_response.cmd}
    <3>1. line.cmd \in {0, sp_response.cmd}
        BY <1>1, <1>4 DEF RxIsForPending
    <3>2. sp_response.p_intermediates \in Seq(Lines)
        BY <2>1 DEF Responses
    <3>3. \A i \in 1..Len(sp_response.p_intermediates) :
            sp_response.p_intermediates[i].cmd \in {0, sp_response.cmd}
        BY <1>4, <1>7 DEF PendingIsOwn
    <3>4. \A i \in 1..Len(<<line>> \o sp_response.p_intermediates) :
            \/ (<<line>> \o sp_response.p_intermediates)[i] = line
            \/ /\ i - 1 \in 1..Len(sp_response.p_intermediates)
               /\ (<<line>> \o sp_response.p_intermediates)[i]
                    = sp_response.p_intermediates[i - 1]
        BY <3>2, <1>1
    <3> QED BY <2>2, <3>1, <3>3, <3>4
  <2>4. Awaiting' <=> Awaiting
      BY <1>7, <2>2 DEF Awaiting
  <2>5. RxIsForPending' /\ InboxIsPending'
      BY <1>2, <1>3, <1>4, <2>2, <2>4 DEF RxIsForPending, InboxIsPending
  <2>6. PendingIsOwn'
      BY <1>4, <1>7, <2>2, <2>3 DEF PendingIsOwn
  <2> QED BY <1>3, <1>4, <1>5, <2>5, <2>6 DEF SyncInv, OwnOrUnsolicited
<1>8. CASE sp_response # NULL /\ line.text \in Finals /\ HandleFinalResponse(line)
  <2>1. sp_response \in Responses
      BY <1>8 DEF TypeOK
  <2>2. /\ sp_response'.cmd = sp_response.cmd
        /\ sp_response'.finalResponse = line
        /\ sp_response'.p_intermediates = sp_response.p_intermediates
      BY <1>8, <2>1 DEF HandleFinalResponse, Responses
  <2>3. line.cmd # 0 /\ line.cmd = sp_response.cmd
      BY <1>1, <1>4, <1>8 DEF NoStrayFinalInRx, RxIsForPending
  <2>4. \A i \in 1..Len(rx') : rx'[i].cmd = 0
    <3> SUFFICES ASSUME NEW i \in 1..Len(rx') PROVE rx'[i].cmd = 0
        OBVIOUS
    <3>1. i + 1 \in 1..Len(rx) /\ rx'[i] = rx[i + 1] /\ 1 < i + 1
        BY <1>2 DEF TypeOK
    <3> QED BY <1>1, <1>4, <1>8, <3>1 DEF FinalIsLast
  <2>5. inbox = <<>>
      BY <1>1, <1>4, <1>8 DEF InboxIsPending
  <2>6. RxIsForPending' /\ InboxIsPending'
      BY <1>3, <2>4, <2>5 DEF RxIsForPending, InboxIsPending
  <2>7. PendingIsOwn'
      BY <1>4, <1>8, <2>2, <2>3 DEF PendingIsOwn
  <2> QED BY <1>3, <1>4, <1>5, <2>6, <2>7 DEF SyncInv, OwnOrUnsolicited
<1> QED BY <1>6, <1>7, <1>8 DEF ReadLine, ProcessLine

(* A list of one element has an empty tail.                                  *)
LEMMA TailOfOne == ASSUME NEW S, NEW s \in Seq(S), Len(s) = 1 PROVE Tail(s) = <<>>
<1>1. Tail(s) \in Seq(S) /\ Len(Tail(s)) = 0
    OBVIOUS
<1> QED BY <1>1, EmptySeq

(* A caller inside a call holds no response yet.                             *)
OutCleared == \A c \in Callers : pc[c] # "idle" => out[c].resp = NULL

LEMMA ClearedCorrect == Spec => []OutCleared
<1>1. Init => OutCleared
    BY DEF Init, OutCleared
<1>2. TypeOK /\ OutCleared /\ [Next]_vars => OutCleared'
  <2> SUFFICES ASSUME TypeOK, OutCleared, [Next]_vars PROVE OutCleared'
      OBVIOUS
  <2>a. pc \in [Callers -> {"idle", "lock", "waiting", "expired", "woken"}]
        /\ DOMAIN out = Callers
      BY DEF TypeOK
  <2>b. ASSUME NEW c \in Callers, NEW e, NEW r, Return(c, e, r) PROVE OutCleared'
    <3> SUFFICES ASSUME NEW d \in Callers, pc'[d] # "idle" PROVE out'[d].resp = NULL
        BY DEF OutCleared
    <3>1. d # c
        BY <2>a, <2>b DEF Return
    <3> QED BY <2>a, <2>b, <3>1 DEF Return, OutCleared
  <2>c. ASSUME UNCHANGED out, \A c \in Callers : pc'[c] # "idle" => pc[c] # "idle"
        PROVE  OutCleared'
      BY <2>c DEF OutCleared
  <2>1. ASSUME NEW c \in Callers, NEW k \in Commands, Call(c, k) PROVE OutCleared'
      BY <2>1, <2>a DEF Call, OutCleared
  <2>2. ASSUME NEW c \in Callers,
               SendPending(c) \/ SendFails(c) \/ Timeout(c) \/ ResumeTake(c)
        PROVE  OutCleared'
      BY <2>2, <2>b DEF SendPending, SendFails, Timeout, ResumeTake, Take
  <2>3. ASSUME NEW c \in Callers,
               SendOk(c) \/ SliceExpires(c) \/ NextSlice(c) \/ SpuriousWake(c)
                 \/ ResumeCrash(c) \/ ResumeWait(c)
        PROVE  OutCleared'
      BY <2>3, <2>a, <2>c DEF SendOk, WriteAndWait, SliceExpires, NextSlice,
         TimedWait, SpuriousWake, ResumeCrash, ResumeWait
  <2>4. ASSUME Signal, UNCHANGED out PROVE OutCleared'
      BY <2>4, <2>a, <2>c DEF Signal
  <2>5. ASSUME ReadLine \/ CloseSignals PROVE OutCleared'
    <3>1. UNCHANGED out /\ (Signal \/ UNCHANGED pc)
        BY <2>5 DEF ReadLine, ProcessLine, HandleFinalResponse, CloseSignals
    <3> QED BY <2>4, <2>c, <3>1
  <2>6. ASSUME ReadSms \/ ReadEof \/ ReaderExits \/ Modem PROVE OutCleared'
      BY <2>6, <2>c DEF ReadSms, ReadEof, ReaderExits, Modem, ModemInfo,
                        ModemFinal, ModemIgnores, ModemUnsolicited, HangUp
  <2>7. CASE UNCHANGED vars
      BY <2>7, <2>c DEF vars
  <2> QED BY <2>1, <2>2, <2>3, <2>5, <2>6, <2>7
          DEF Next, SendCommand, Waits, Resume, Reader
<1> QED BY <1>1, <1>2, TypeCorrect, PTL DEF Spec

(* A response that is taken goes to the call it belongs to.                  *)
LEMMA TakeSync ==
    ASSUME TypeOK, OwnInv, SyncInv, ~refused, ~lapsed, NoStrayFinals,
           NEW c \in Callers, ResumeTake(c)
    PROVE  SyncInv'
<1> DEFINE res == Result(arg[c], sp_response)
<1>1. /\ NoStrayFinalInRx /\ RxIsForPending /\ FinalIsLast /\ InboxIsPending
      /\ PendingIsOwn /\ \A d \in Callers : OwnOrUnsolicited(d)
    BY DEF SyncInv
<1>2. /\ UNCHANGED <<rx, inbox, id, refused, lapsed>> /\ sp_response' = NULL
      /\ out' = [out EXCEPT ![c] = [err |-> res.err, resp |-> res.resp]]
    BY DEF ResumeTake, Take, Return, ClearPendingCommand
<1>3. sp_response.cmd = id[c] /\ sp_response \in Responses /\ ~Awaiting
    BY DEF ResumeTake, OwnInv, OneAtATime, InCall, TypeOK, Awaiting
<1>4. /\ NoStrayFinalInRx' /\ RxIsForPending' /\ FinalIsLast' /\ InboxIsPending'
      /\ PendingIsOwn'
    BY <1>1, <1>2, <1>3 DEF NoStrayFinalInRx, RxIsForPending, FinalIsLast,
                            InboxIsPending, PendingIsOwn
<1>5. res.resp = NULL \/ res.resp = [sp_response EXCEPT
                            !.p_intermediates = Reverse(sp_response.p_intermediates)]
    BY DEF Result, NoResult
<1>6. res.resp # NULL =>
        /\ res.resp.finalResponse.cmd = id[c]
        /\ \A i \in 1..Len(res.resp.p_intermediates) :
             res.resp.p_intermediates[i].cmd \in {0, id[c]}
  <2> SUFFICES ASSUME res.resp # NULL
               PROVE  /\ res.resp.finalResponse.cmd = id[c]
                      /\ \A i \in 1..Len(res.resp.p_intermediates) :
                           res.resp.p_intermediates[i].cmd \in {0, id[c]}
      OBVIOUS
  <2>1. /\ res.resp.finalResponse = sp_response.finalResponse
        /\ res.resp.p_intermediates = Reverse(sp_response.p_intermediates)
        /\ sp_response.p_intermediates \in Seq(Lines)
      BY <1>3, <1>5 DEF Responses
  <2>2. /\ sp_response.finalResponse.cmd = id[c]
        /\ \A i \in 1..Len(sp_response.p_intermediates) :
             sp_response.p_intermediates[i].cmd \in {0, id[c]}
      BY <1>1, <1>3 DEF PendingIsOwn, ResumeTake
  <2> DEFINE held == sp_response.p_intermediates
  <2> DEFINE turned == res.resp.p_intermediates
  <2>3. /\ Len(turned) = Len(held)
        /\ \A i \in 1..Len(turned) : \E j \in 1..Len(held) : turned[i] = held[j]
      BY <2>1, ReverseElements
  <2>4. res.resp.finalResponse.cmd = id[c]
      BY <2>1, <2>2
  <2>5. \A j \in 1..Len(held) : held[j].cmd \in {0, id[c]}
      BY <2>2
  <2> HIDE DEF turned, held
  <2>6. \A i \in 1..Len(turned) : turned[i].cmd \in {0, id[c]}
      BY <2>3, <2>5
  <2> QED BY <2>4, <2>6 DEF turned
<1>7. \A d \in Callers : OwnOrUnsolicited(d)'
  <2> SUFFICES ASSUME NEW d \in Callers PROVE OwnOrUnsolicited(d)'
      OBVIOUS
  <2> HIDE DEF res
  <2>1. CASE d = c
    <3>1. out'[c].resp = res.resp
        BY <1>2 DEF TypeOK
    <3> QED BY <1>2, <1>6, <2>1, <3>1 DEF OwnOrUnsolicited
  <2>2. CASE d # c
    <3>1. out'[d] = out[d]
        BY <1>2, <2>2 DEF TypeOK
    <3> QED BY <1>1, <1>2, <3>1 DEF OwnOrUnsolicited
  <2> QED BY <2>1, <2>2
<1> QED BY <1>4, <1>7 DEF SyncInv

LEMMA InitSync == Init => SyncInv
BY DEF Init, SyncInv, NoStrayFinalInRx, RxIsForPending, FinalIsLast,
       InboxIsPending, PendingIsOwn, OwnOrUnsolicited

(* Every action keeps the channel in step until a call times out or is       *)
(* refused.                                                                  *)
LEMMA StepSync == TypeOK /\ OwnInv /\ OutCleared /\ SyncInv /\ [Next]_vars => SyncInv'
<1> SUFFICES ASSUME TypeOK, OwnInv, OutCleared, SyncInv, [Next]_vars,
                    ~refused', ~lapsed', NoStrayFinals
             PROVE  SyncInv'
    BY DEF SyncInv
<1>1. ~refused /\ ~lapsed
    BY DEF Next, vars, Call, SendCommand, SendPending, SendFails, SendOk,
           WriteAndWait, Waits, SliceExpires, NextSlice, TimedWait, Timeout,
           SpuriousWake, Resume, ResumeCrash, ResumeWait, ResumeTake, Take,
           Reader, ReadLine, ReadSms, ReadEof, CloseSignals, ReaderExits, Modem,
           ModemInfo, ModemFinal, ModemIgnores, ModemUnsolicited, HangUp
<1>2. /\ NoStrayFinalInRx /\ RxIsForPending /\ FinalIsLast /\ InboxIsPending
      /\ PendingIsOwn /\ \A c \in Callers : OwnOrUnsolicited(c)
    BY <1>1 DEF SyncInv
<1>b. ASSUME UNCHANGED <<sp_response, rx, inbox, out, id, refused, lapsed>>
      PROVE  SyncInv'
    BY <1>b DEF SyncInv, NoStrayFinalInRx, RxIsForPending, FinalIsLast,
                InboxIsPending, PendingIsOwn, Awaiting, OwnOrUnsolicited
(* Steps of a call that returns nothing.                                     *)
<1>c. ASSUME NEW c \in Callers, UNCHANGED <<sp_response, rx, inbox, refused, lapsed>>,
             out'[c].resp = NULL,
             \A d \in Callers : d # c => out'[d] = out[d] /\ id'[d] = id[d]
      PROVE  SyncInv'
    BY <1>2, <1>c DEF SyncInv, NoStrayFinalInRx, RxIsForPending, FinalIsLast,
                InboxIsPending, PendingIsOwn, Awaiting, OwnOrUnsolicited
(* Steps of the modem, which touch rx and inbox only.                        *)
<1>d. ASSUME UNCHANGED <<sp_response, out, id, refused, lapsed>>,
             NoStrayFinalInRx', RxIsForPending', FinalIsLast', InboxIsPending'
      PROVE  SyncInv'
    BY <1>2, <1>d DEF SyncInv, PendingIsOwn, OwnOrUnsolicited
<1>3. ASSUME NEW c \in Callers, NEW k \in Commands, Call(c, k) PROVE SyncInv'
    BY <1>3, <1>c DEF Call, TypeOK
<1>4. ASSUME NEW c \in Callers, SendPending(c) \/ Timeout(c) PROVE SyncInv'
    BY <1>4 DEF SendPending, Timeout
<1>5. ASSUME NEW c \in Callers, SendFails(c) PROVE SyncInv'
  <2>1. PICK e \in {"CHANNEL_CLOSED", "GENERIC"} : Return(c, e, NULL)
      BY <1>5 DEF SendFails
  <2>2. UNCHANGED <<sp_response, rx, inbox, refused, lapsed, id>>
      BY <1>5, <2>1 DEF SendFails, Return, ClearPendingCommand
  <2>3. out'[c].resp = NULL /\ \A d \in Callers : d # c => out'[d] = out[d]
      BY <2>1 DEF Return, TypeOK
  <2> QED BY <1>c, <2>2, <2>3
<1>6. ASSUME NEW c \in Callers, SendOk(c) PROVE SyncInv'
  <2>1. /\ UNCHANGED <<rx, out, refused, lapsed>> /\ issued \in Nat
        /\ sp_response' = NewResponse(issued + 1)
        /\ \A d \in Callers : d # c => id'[d] = id[d]
      BY <1>6 DEF SendOk, WriteAndWait, TypeOK
  <2>2. (\A i \in 1..Len(rx) : rx[i].cmd = 0) /\ inbox = <<>>
      BY <1>2, <1>6 DEF SendOk, RxIsForPending, InboxIsPending, Awaiting
  <2>3. inbox' = <<issued + 1>> /\ Awaiting' /\ sp_response'.cmd = issued + 1
      BY <1>6, <2>1, <2>2 DEF SendOk, WriteAndWait, NewResponse, NULL, Awaiting
  <2>4. /\ NoStrayFinalInRx' /\ RxIsForPending' /\ FinalIsLast' /\ InboxIsPending'
        /\ PendingIsOwn'
      BY <1>2, <2>1, <2>2, <2>3 DEF NoStrayFinalInRx, RxIsForPending,
         FinalIsLast, InboxIsPending, PendingIsOwn, NewResponse
  <2>5. out[c].resp = NULL
      BY <1>6 DEF SendOk, OutCleared
  <2> QED BY <1>2, <2>1, <2>4, <2>5 DEF SyncInv, OwnOrUnsolicited
<1>7. ASSUME NEW c \in Callers,
             SliceExpires(c) \/ NextSlice(c) \/ SpuriousWake(c) \/ ResumeCrash(c) \/ ResumeWait(c)
      PROVE  SyncInv'
    BY <1>7, <1>b DEF SliceExpires, NextSlice, TimedWait, SpuriousWake,
                      ResumeCrash, ResumeWait
<1>8. ASSUME NEW c \in Callers, ResumeTake(c) PROVE SyncInv'
    BY <1>1, <1>8, TakeSync
<1>9. ASSUME ReadLine PROVE SyncInv'
    BY <1>1, <1>9, ReadLineSync
<1>10. ASSUME ReadSms PROVE SyncInv'
  <2>1. /\ rx # <<>> /\ rx' = Tail(rx)
        /\ UNCHANGED <<sp_response, inbox, out, id, refused, lapsed>>
      BY <1>10 DEF ReadSms
  <2>2. /\ Len(rx') = Len(rx) - 1 /\ Len(rx) \in Nat
        /\ \A i \in 1..Len(rx') : i + 1 \in 1..Len(rx) /\ rx'[i] = rx[i + 1]
      BY <2>1, TailOfRx DEF TypeOK
  <2>3. NoStrayFinalInRx' /\ RxIsForPending' /\ InboxIsPending'
      BY <1>2, <2>1, <2>2 DEF NoStrayFinalInRx, RxIsForPending, InboxIsPending, Awaiting
  <2>4. ASSUME NEW i \in 1..Len(rx'), NEW j \in 1..Len(rx'),
               rx'[i].text \in Finals, i < j
        PROVE  rx'[j].cmd = 0
    <3>1. /\ i + 1 \in 1..Len(rx) /\ rx'[i] = rx[i + 1]
          /\ j + 1 \in 1..Len(rx) /\ rx'[j] = rx[j + 1] /\ i + 1 < j + 1
        BY <2>2, <2>4
    <3> QED BY <1>2, <2>4, <3>1 DEF FinalIsLast
  <2> QED BY <1>d, <2>1, <2>3, <2>4 DEF FinalIsLast
<1>11. ASSUME ReadEof \/ CloseSignals \/ ReaderExits \/ HangUp PROVE SyncInv'
    BY <1>11, <1>b DEF ReadEof, CloseSignals, ReaderExits, HangUp
<1>12. ASSUME ModemInfo PROVE SyncInv'
  <2>1. PICK t \in InfoTexts : Say(t, Head(inbox))
      BY <1>12 DEF ModemInfo
  <2>2. inbox # <<>> /\ UNCHANGED <<sp_response, inbox, out, id, refused, lapsed>>
      BY <1>12 DEF ModemInfo
  <2>3. Head(inbox) = inbox[1] /\ inbox[1] \in Nat \ {0}
      BY <2>2 DEF TypeOK
  <2>4. t \in Texts /\ t \notin Finals
      BY TextsAssumption DEF Texts
  <2>5. /\ Len(rx') = Len(rx) + 1
        /\ rx'[Len(rx')].text = t /\ rx'[Len(rx')].cmd = inbox[1]
        /\ \A i \in 1..Len(rx) : rx'[i] = rx[i]
        /\ \A i \in 1..Len(rx') : i = Len(rx') \/ i \in 1..Len(rx)
      BY <2>1, <2>3, <2>4, SayAppends
  <2>6. NoStrayFinalInRx' /\ RxIsForPending' /\ InboxIsPending' /\ FinalIsLast'
      BY <1>2, <2>2, <2>3, <2>4, <2>5
         DEF NoStrayFinalInRx, RxIsForPending, InboxIsPending, FinalIsLast, Awaiting
  <2> QED BY <1>d, <2>2, <2>6
<1>13. ASSUME ModemFinal PROVE SyncInv'
  <2>1. PICK t \in FinalTexts : Say(t, Head(inbox))
      BY <1>13 DEF ModemFinal
  <2>2. /\ inbox # <<>> /\ UNCHANGED <<sp_response, out, id, refused, lapsed>>
        /\ inbox' = Tail(inbox)
      BY <1>13 DEF ModemFinal
  <2>3. Head(inbox) = inbox[1] /\ inbox[1] \in Nat \ {0} /\ inbox' = <<>>
    <3>1. inbox \in Seq(1..issued) /\ Len(inbox) = 1
        BY <1>2, <2>2 DEF TypeOK, InboxIsPending
    <3> QED BY <2>2, <3>1, TailOfOne DEF TypeOK
  <2>4. /\ Len(rx') = Len(rx) + 1 /\ Len(rx) \in Nat
        /\ rx'[Len(rx')].text = t /\ rx'[Len(rx')].cmd = inbox[1]
        /\ \A i \in 1..Len(rx) : rx'[i] = rx[i]
        /\ \A i \in 1..Len(rx') : i = Len(rx') \/ i \in 1..Len(rx)
    <3>1. t \in Texts /\ Head(inbox) \in Nat
        BY <2>3 DEF Texts
    <3>2. rx \in Seq(Lines)
        BY DEF TypeOK
    <3> QED BY <2>1, <2>3, <3>1, <3>2, SayAppends
  <2>5. \A i \in 1..Len(rx) : rx'[i].text \notin Finals
      BY <1>2, <2>2, <2>4 DEF InboxIsPending
  <2>6. NoStrayFinalInRx' /\ RxIsForPending' /\ InboxIsPending' /\ FinalIsLast'
      BY <1>2, <2>2, <2>3, <2>4, <2>5
         DEF NoStrayFinalInRx, RxIsForPending, InboxIsPending, FinalIsLast, Awaiting
  <2> QED BY <1>d, <2>2, <2>6
<1>14. ASSUME ModemIgnores PROVE SyncInv'
  <2>1. /\ UNCHANGED <<rx, sp_response, out, id, refused, lapsed>>
        /\ inbox' = Tail(inbox) /\ inbox # <<>>
      BY <1>14 DEF ModemIgnores
  <2>2. inbox' = <<>>
    <3>1. inbox \in Seq(1..issued) /\ Len(inbox) = 1
        BY <1>2, <2>1 DEF TypeOK, InboxIsPending
    <3> QED BY <2>1, <3>1, TailOfOne
  <2> QED BY <1>2, <1>d, <2>1, <2>2
          DEF NoStrayFinalInRx, RxIsForPending, InboxIsPending, FinalIsLast, Awaiting
<1>15. ASSUME ModemUnsolicited PROVE SyncInv'
  <2>1. PICK t \in UnsolTexts : Say(t, 0)
      BY <1>15 DEF ModemUnsolicited
  <2>2. UNCHANGED <<sp_response, inbox, out, id, refused, lapsed>>
      BY <1>15 DEF ModemUnsolicited
  <2>3. t \notin Finals
      BY DEF NoStrayFinals
  <2>4. /\ Len(rx') = Len(rx) + 1 /\ Len(rx) \in Nat
        /\ rx'[Len(rx')].text = t /\ rx'[Len(rx')].cmd = 0
        /\ \A i \in 1..Len(rx) : rx'[i] = rx[i]
        /\ \A i \in 1..Len(rx') : i = Len(rx') \/ i \in 1..Len(rx)
      BY <2>1, SayAppends DEF Texts, TypeOK
  <2>5. NoStrayFinalInRx' /\ RxIsForPending' /\ InboxIsPending' /\ FinalIsLast'
      BY <1>2, <2>2, <2>3, <2>4
         DEF NoStrayFinalInRx, RxIsForPending, InboxIsPending, FinalIsLast, Awaiting
  <2> QED BY <1>d, <2>2, <2>5
<1>16. CASE UNCHANGED vars
    BY <1>16, <1>b DEF vars
<1> QED
    BY <1>3, <1>4, <1>5, <1>6, <1>7, <1>8, <1>9, <1>10, <1>11, <1>12, <1>13,
       <1>14, <1>15, <1>16 DEF Next, SendCommand, Waits, Resume, Reader, Modem

(* Until a call times out or is refused, a call returns lines of its own     *)
(* answer and lines the modem volunteered, and no others, for any number of  *)
(* callers and any traffic.                                                  *)
THEOREM InSyncCorrect == Spec => []InSync
<1>1. SyncInv => InSync
    BY DEF SyncInv, InSync
<1> QED BY <1>1, InitSync, StepSync, OwnCorrect, ClearedCorrect, TypeCorrect, PTL DEF Spec

----------------------------------------------------------------------------
(* A success of a single-line command has its one line.                     *)

OneLineTypes == {"SINGLELINE", "NUMERIC"}

(* While nobody has been refused, the switch of processLine goes by the type *)
(* of the command being waited for, and takes at most one line for a type    *)
(* that has one.                                                             *)
OneLineTaken ==
    ~refused => \A c \in Callers : InCall(c) =>
        /\ s_type = arg[c].type
        /\ s_type \in OneLineTypes => Len(sp_response.p_intermediates) <= 1

LineInv == OneLineTaken /\ SuccessHasLine

(* What a wrapper returns as a success has the line, if the response taken   *)
(* has at most one.                                                          *)
LEMMA ResultHasLine ==
    ASSUME NEW k \in Commands, NEW r \in Responses,
           k.type \in OneLineTypes => Len(r.p_intermediates) <= 1,
           Result(k, r).resp # NULL, Result(k, r).resp.success,
           k.type \in OneLineTypes
    PROVE  Len(Result(k, r).resp.p_intermediates) = 1
<1>1. /\ r.p_intermediates \in Seq(Lines)
      /\ Result(k, r).resp = [r EXCEPT !.p_intermediates = Reverse(r.p_intermediates)]
      /\ ~(r.success /\ r.p_intermediates = <<>>)
    BY DEF Result, NoResult, OneLineTypes, Responses
<1>2. /\ Result(k, r).resp.success = r.success
      /\ Result(k, r).resp.p_intermediates = Reverse(r.p_intermediates)
    BY <1>1 DEF Responses
<1>3. r.p_intermediates # <<>>
    BY <1>1, <1>2
<1>4. Len(r.p_intermediates) \in Nat /\ Len(r.p_intermediates) # 0
  <2> DEFINE s == r.p_intermediates
  <2>1. s \in Seq(Lines) /\ s # <<>>
      BY <1>1, <1>3
  <2> HIDE DEF s
  <2>2. Len(s) \in Nat /\ Len(s) # 0
      BY <2>1
  <2> QED BY <2>2 DEF s
<1>5. Len(Reverse(r.p_intermediates)) = Len(r.p_intermediates)
    BY <1>1, ReverseElements
<1>6. Len(r.p_intermediates) = 1
  <2> DEFINE n == Len(r.p_intermediates)
  <2>1. n \in Nat /\ n # 0 /\ n <= 1
      BY <1>4
  <2> HIDE DEF n
  <2>2. n = 1
      BY <2>1
  <2> QED BY <2>2 DEF n
<1> QED BY <1>2, <1>5, <1>6

(* A line that is processed joins a response of a single-line command only   *)
(* when it has none yet.                                                     *)
LEMMA ProcessLineTakesOne ==
    ASSUME TypeOK, NEW line \in Lines, ProcessLine(line), sp_response # NULL,
           s_type \in OneLineTypes, Len(sp_response.p_intermediates) <= 1
    PROVE  Len(sp_response'.p_intermediates) <= 1
<1>0. sp_response \in Responses
    BY DEF TypeOK
<1>1. CASE UNCHANGED sp_response
    BY <1>1
<1>2. CASE Accepts(line.text) /\ AddIntermediate(line)
  <2>1. sp_response.p_intermediates = <<>>
      BY <1>2 DEF Accepts, OneLineTypes
  <2>2. sp_response'.p_intermediates = <<line>> \o <<>>
      BY <1>0, <1>2, <2>1 DEF AddIntermediate, Responses
  <2> QED BY <2>2
<1>3. CASE HandleFinalResponse(line)
    BY <1>0, <1>3 DEF HandleFinalResponse, Responses
<1> QED BY <1>1, <1>2, <1>3 DEF ProcessLine

LEMMA InitLine == Init => LineInv
BY DEF Init, LineInv, OneLineTaken, SuccessHasLine, InCall

LEMMA StepLine ==
    TypeOK /\ OwnInv /\ OutCleared /\ LineInv /\ [Next]_vars => LineInv'
<1> SUFFICES ASSUME TypeOK, OwnInv, OutCleared, LineInv, [Next]_vars, ~refused'
             PROVE  LineInv'
    BY DEF LineInv, OneLineTaken, SuccessHasLine
<1>0. ~refused
    BY DEF Next, SendCommand, Waits, Resume, Reader, Modem, Call, SendPending,
           SendFails, SendOk, WriteAndWait, SliceExpires, NextSlice, TimedWait,
           Timeout, SpuriousWake, ResumeCrash, ResumeWait, ResumeTake, Take,
           ReadLine, ReadSms, ReadEof, CloseSignals, ReaderExits, ModemInfo,
           ModemFinal, ModemIgnores, ModemUnsolicited, HangUp, vars
<1>a. /\ pc \in [Callers -> {"idle", "lock", "waiting", "expired", "woken"}]
      /\ arg \in [Callers -> Commands] /\ DOMAIN out = Callers
    BY DEF TypeOK
<1>b. \A c \in Callers : InCall(c) =>
        /\ sp_response # NULL /\ \A d \in Callers : InCall(d) => d = c
        /\ s_type = arg[c].type
        /\ s_type \in OneLineTypes => Len(sp_response.p_intermediates) <= 1
    BY <1>0 DEF OwnInv, OneAtATime, LineInv, OneLineTaken
<1>c. \A c \in Callers :
        (out[c].resp # NULL /\ out[c].resp.success /\ arg[c].type \in OneLineTypes)
          => Len(out[c].resp.p_intermediates) = 1
    BY <1>0 DEF LineInv, SuccessHasLine, OneLineTypes
(* Steps that change nothing the invariant looks at, but where a caller is.  *)
<1>d. ASSUME UNCHANGED <<out, arg, s_type, sp_response>>,
             \A c \in Callers : InCall(c)' => InCall(c)
      PROVE  LineInv'
    BY <1>b, <1>c, <1>d DEF LineInv, OneLineTaken, SuccessHasLine, OneLineTypes
(* Steps that end the only call in progress, or one that never began.        *)
<1>e. ASSUME NEW c \in Callers, NEW e, NEW r, Return(c, e, r),
             InCall(c) \/ sp_response = NULL,
             (r # NULL /\ r.success /\ arg[c].type \in OneLineTypes)
               => Len(r.p_intermediates) = 1
      PROVE  LineInv'
  <2>1. \A d \in Callers : ~InCall(d)'
      BY <1>a, <1>b, <1>e DEF Return, InCall
  <2>2. /\ out'[c].resp = r /\ UNCHANGED arg
        /\ \A d \in Callers : d # c => out'[d] = out[d]
      BY <1>a, <1>e DEF Return
  <2>3. SuccessHasLine'
      BY <1>c, <1>e, <2>2 DEF SuccessHasLine, OneLineTypes
  <2> QED BY <2>1, <2>3 DEF LineInv, OneLineTaken
<1>1. ASSUME NEW c \in Callers, NEW k \in Commands, Call(c, k) PROVE LineInv'
  <2>1. /\ out'[c].resp = NULL /\ ~InCall(c)'
        /\ \A d \in Callers : d # c =>
             /\ out'[d] = out[d] /\ arg'[d] = arg[d] /\ (InCall(d)' <=> InCall(d))
      BY <1>1, <1>a DEF Call, InCall
  <2>2. UNCHANGED <<sp_response, s_type>>
      BY <1>1 DEF Call
  <2>3. SuccessHasLine'
      BY <1>c, <2>1 DEF SuccessHasLine, OneLineTypes
  <2>4. OneLineTaken'
      BY <1>b, <2>1, <2>2 DEF OneLineTaken
  <2> QED BY <2>3, <2>4 DEF LineInv
<1>2. ASSUME NEW c \in Callers, SendPending(c) PROVE FALSE
    BY <1>2 DEF SendPending
<1>3. ASSUME NEW c \in Callers, SendFails(c) PROVE LineInv'
    BY <1>3, <1>e DEF SendFails
<1>4. ASSUME NEW c \in Callers, SendOk(c) PROVE LineInv'
  <2>1. /\ UNCHANGED <<out, arg>> /\ s_type' = arg[c].type
        /\ sp_response'.p_intermediates = <<>>
      BY <1>4 DEF SendOk, WriteAndWait, NewResponse
  <2>2. \A d \in Callers : InCall(d)' => d = c
      BY <1>4, <1>a, <1>b DEF SendOk, WriteAndWait, InCall
  <2>3. SuccessHasLine'
      BY <1>c, <2>1 DEF SuccessHasLine, OneLineTypes
  <2>4. OneLineTaken'
      BY <2>1, <2>2 DEF OneLineTaken
  <2> QED BY <2>3, <2>4 DEF LineInv
<1>5. ASSUME NEW c \in Callers,
             SliceExpires(c) \/ NextSlice(c) \/ SpuriousWake(c) \/ ResumeCrash(c)
               \/ ResumeWait(c)
      PROVE  LineInv'
  <2>1. /\ UNCHANGED <<out, arg, s_type, sp_response>>
        /\ \A d \in Callers : InCall(d)' => InCall(d)
      BY <1>5, <1>a DEF SliceExpires, NextSlice, TimedWait, SpuriousWake,
                        ResumeCrash, ResumeWait, InCall
  <2> QED BY <2>1, <1>d
<1>6. ASSUME NEW c \in Callers, Timeout(c) PROVE LineInv'
    BY <1>6, <1>e DEF Timeout, InCall
<1>7. ASSUME NEW c \in Callers, ResumeTake(c) PROVE LineInv'
  <2>1. InCall(c) /\ sp_response \in Responses /\ arg[c] \in Commands
      BY <1>7, <1>a DEF ResumeTake, InCall, TypeOK
  <2>2. arg[c].type \in OneLineTypes => Len(sp_response.p_intermediates) <= 1
      BY <1>b, <2>1
  <2> DEFINE r == Result(arg[c], sp_response).resp
  <2>3. (r # NULL /\ r.success /\ arg[c].type \in OneLineTypes)
          => Len(r.p_intermediates) = 1
      BY <2>1, <2>2, ResultHasLine
  <2>4. Return(c, Result(arg[c], sp_response).err, r)
      BY <1>7 DEF ResumeTake, Take
  <2> HIDE DEF r
  <2> QED BY <2>1, <2>3, <2>4, <1>e
<1>8. ASSUME ReadLine PROVE LineInv'
  <2>1. Head(rx) \in Lines /\ ProcessLine(Head(rx)) /\ UNCHANGED <<out, arg, s_type>>
      BY <1>8 DEF ReadLine, TypeOK
  <2>2. \A d \in Callers : InCall(d)' <=> InCall(d)
      BY <2>1, ProcessLineKeeps
  <2>3. OneLineTaken'
    <3> SUFFICES ASSUME NEW c \in Callers, InCall(c)'
                 PROVE  /\ s_type' = arg'[c].type
                        /\ (s_type' \in OneLineTypes
                              => Len(sp_response'.p_intermediates) <= 1)
        BY DEF OneLineTaken
    <3>1. InCall(c)
        BY <2>2
    <3> QED BY <3>1, <1>b, <2>1, ProcessLineTakesOne
  <2>4. SuccessHasLine'
      BY <1>c, <2>1 DEF SuccessHasLine, OneLineTypes
  <2> QED BY <2>3, <2>4 DEF LineInv
<1>9. ASSUME CloseSignals PROVE LineInv'
    BY <1>9, <1>d, SignalInCall DEF CloseSignals
<1>10. ASSUME ReadSms \/ ReadEof \/ ReaderExits \/ Modem PROVE LineInv'
  <2>1. /\ UNCHANGED <<out, arg, s_type, sp_response, pc>>
      BY <1>10 DEF ReadSms, ReadEof, ReaderExits, Modem, ModemInfo, ModemFinal,
                   ModemIgnores, ModemUnsolicited, HangUp
  <2> QED BY <2>1, <1>d DEF InCall
<1>11. CASE UNCHANGED vars
    BY <1>11, <1>d DEF vars, InCall
<1> QED BY <1>1, <1>2, <1>3, <1>4, <1>5, <1>6, <1>7, <1>8, <1>9, <1>10, <1>11
        DEF Next, SendCommand, Waits, Resume, Reader

(* While no call has been refused, a single-line command that succeeds       *)
(* returns exactly one line: the wrapper's check and the switch of           *)
(* processLine between them leave neither none nor two, whatever unasked     *)
(* lines come in between.                                                    *)
THEOREM SuccessIsOneLine == Spec => []SuccessHasLine
<1>1. LineInv => SuccessHasLine
    BY DEF LineInv
<1> QED BY <1>1, InitLine, StepLine, TypeCorrect, OwnCorrect, ClearedCorrect, PTL
        DEF Spec

----------------------------------------------------------------------------
(* What a response holds of the answer.                                     *)

Calm == ~refused /\ ~lapsed /\ NoStrayFinals /\ UnsolTexts \intersect SmsUnsoliciteds = {}

(* No line in flight starts an SMS notification, and none is being skipped.  *)
NoSms == rpc # "second" /\ \A i \in 1..Len(rx) : rx[i].text \notin SmsUnsoliciteds

(* Commands are numbered as they are written, one after the other's end.     *)
Numbered ==
    /\ sp_response # NULL => sp_response.cmd = issued
    /\ \A c \in Callers :
         out[c].resp # NULL =>
            id[c] \in 1..issued /\ (sp_response # NULL => id[c] < issued)

(* The reader goes by the command of the caller inside its call.             *)
GoesBy(k) == s_type = k.type /\ s_responsePrefix = k.prefix

(* at[i] lines of the answer to the last command have been said up to the    *)
(* i-th line in flight, at[0] of them have been read.                        *)
Said(line) == line.cmd = issued /\ line.text \notin Finals

Tracks(at) ==
    /\ at[Len(rx)] = Len(emitted[issued])
    /\ \A i \in 1..Len(rx) :
         /\ Said(rx[i]) => at[i] = at[i - 1] + 1 /\ rx[i].text = emitted[issued][at[i]]
         /\ ~Said(rx[i]) => at[i] = at[i - 1]
         /\ (rx[i].cmd = issued /\ rx[i].text \in Finals) => at[i] = Len(emitted[issued])

(* The places of the first n lines said that a caller should see.            *)
Sought(k, said, n) ==
    LET matching == {i \in 1..n : Matches(k, said[i])}
    IN  IF k.type = "MULTILINE" THEN matching
                                ELSE {i \in matching : \A j \in matching : i <= j}

(* held are the lines of said at those places, the latest first.             *)
LatestFirst(held, said, places) ==
    \E at \in [1..Len(held) -> places] :
        /\ \A p \in places : \E i \in 1..Len(held) : at[i] = p
        /\ \A i, j \in 1..Len(held) : i < j => at[j] < at[i]
        /\ \A i \in 1..Len(held) : held[i].text = said[at[i]]

(* The pending response holds what it should of the first n lines said,      *)
(* unless it holds a line that nobody asked for.                             *)
Holding(k, n) ==
    (\A i \in 1..Len(sp_response.p_intermediates) : sp_response.p_intermediates[i].cmd # 0) =>
        LatestFirst(sp_response.p_intermediates, emitted[issued], Sought(k, emitted[issued], n))

(* While an answer is awaited the response holds what it should of the part  *)
(* that has been read, and of all of it once its final line has been.        *)
Filled ==
    \A c \in Callers : InCall(c) =>
        /\ GoesBy(arg[c])
        /\ Awaiting => \E at \in [0..Len(rx) -> 0..Len(emitted[issued])] :
                          Tracks(at) /\ Holding(arg[c], at[0])
        /\ ~Awaiting => Holding(arg[c], Len(emitted[issued]))

Delivered(c) ==
    (out[c].resp # NULL /\
        \A i \in 1..Len(out[c].resp.p_intermediates) : out[c].resp.p_intermediates[i].cmd # 0)
    => LinesAt(out[c].resp.p_intermediates, emitted[id[c]], Wanted(arg[c], emitted[id[c]]))

DeliverInv == Calm => NoSms /\ Numbered /\ Filled /\ \A c \in Callers : Delivered(c)

(* A set of numbers that is not empty has a least one.                       *)
LEMMA Least ==
    ASSUME NEW T, T \subseteq Nat, T # {}
    PROVE  \E x \in T : \A y \in T : x <= y
<1> DEFINE R == {ss \in Nat \X Nat : ss[1] < ss[2]}
<1>1. IsWellFoundedOn(R, Nat)
    BY NatLessThanWellFounded DEF OpToRel
<1>2. PICK x \in T : \A y \in T : ~(<<y, x>> \in R)
    BY <1>1, WFMin
<1>3. ASSUME NEW y \in T PROVE x <= y
  <2>1. <<y, x>> \in Nat \X Nat
      OBVIOUS
  <2>2. ~(y < x)
      BY <1>2, <2>1
  <2> QED BY <2>2
<1> QED BY <1>3

(* What is sought of one line more.                                          *)
LEMMA SoughtOfMore ==
    ASSUME NEW k, NEW said, NEW n \in Nat
    PROVE  /\ ~Matches(k, said[n + 1]) => Sought(k, said, n + 1) = Sought(k, said, n)
           /\ Matches(k, said[n + 1]) /\ (k.type = "MULTILINE" \/ Sought(k, said, n) = {})
                => Sought(k, said, n + 1) = Sought(k, said, n) \union {n + 1}
           /\ k.type # "MULTILINE" /\ Sought(k, said, n) # {}
                => Sought(k, said, n + 1) = Sought(k, said, n)
<1> DEFINE m(j) == {i \in 1..j : Matches(k, said[i])}
           first(S) == {i \in S : \A j \in S : i <= j}
<1>1. m(n + 1) = IF Matches(k, said[n + 1]) THEN m(n) \union {n + 1} ELSE m(n)
    OBVIOUS
<1>2. \A j : Sought(k, said, j) = IF k.type = "MULTILINE" THEN m(j) ELSE first(m(j))
    BY DEF Sought
<1>3. m(n) \subseteq 1..n
    OBVIOUS
<1> HIDE DEF m
<1>4. first(m(n)) = {} => m(n) = {}
    BY <1>3, Least
<1>5. m(n) # {} => first(m(n) \union {n + 1}) = first(m(n))
    BY <1>3
<1>6. first({} \union {n + 1}) = {n + 1} /\ first({}) = {}
    OBVIOUS
<1> HIDE DEF first
<1> QED BY <1>1, <1>2, <1>4, <1>5, <1>6

(* What is sought lies among the lines said.                                 *)
LEMMA SoughtAmong ==
    ASSUME NEW k, NEW said, NEW n \in Nat
    PROVE  Sought(k, said, n) \subseteq 1..n
BY DEF Sought

(* Lines said later do not change what is sought of the first ones.          *)
LEMMA SoughtKept ==
    ASSUME NEW k, NEW said, NEW more, NEW n \in Nat, \A i \in 1..n : more[i] = said[i]
    PROVE  Sought(k, more, n) = Sought(k, said, n)
<1> DEFINE m(s) == {i \in 1..n : Matches(k, s[i])}
<1>1. m(more) = m(said)
    OBVIOUS
<1> QED BY <1>1 DEF Sought

(* No lines are held just when none are sought.                              *)
LEMMA NoneHeld ==
    ASSUME NEW held \in Seq(Lines), NEW said, NEW places, LatestFirst(held, said, places)
    PROVE  held = <<>> <=> places = {}
<1>1. PICK at \in [1..Len(held) -> places] : \A p \in places : \E i \in 1..Len(held) : at[i] = p
    BY DEF LatestFirst
<1>2. held = <<>> => places = {}
    BY <1>1
<1>3. held # <<>> => 1 \in 1..Len(held)
    OBVIOUS
<1> QED BY <1>1, <1>2, <1>3

LEMMA HoldsNone == ASSUME NEW said PROVE LatestFirst(<<>>, said, {})
<1> DEFINE at == [i \in 1..0 |-> i]
<1>1. Len(<<>>) = 0 /\ at \in [1..0 -> {}]
    OBVIOUS
<1> HIDE DEF at
<1> QED BY <1>1 DEF LatestFirst

(* A line more, said after those that are held.                              *)
LEMMA HoldsMore ==
    ASSUME NEW held \in Seq(Lines), NEW said, NEW n \in Nat, NEW places \in SUBSET (1..n),
           LatestFirst(held, said, places), NEW line \in Lines, line.text = said[n + 1]
    PROVE  LatestFirst(<<line>> \o held, said, places \union {n + 1})
<1>1. PICK at \in [1..Len(held) -> places] :
          /\ \A p \in places : \E i \in 1..Len(held) : at[i] = p
          /\ \A i, j \in 1..Len(held) : i < j => at[j] < at[i]
          /\ \A i \in 1..Len(held) : held[i].text = said[at[i]]
    BY DEF LatestFirst
<1> DEFINE more == <<line>> \o held
           in == [i \in 1..Len(more) |-> IF i = 1 THEN n + 1 ELSE at[i - 1]]
<1>2. /\ Len(more) = Len(held) + 1 /\ Len(held) \in Nat /\ more[1] = line
      /\ \A i \in 1..Len(held) : more[i + 1] = held[i]
    OBVIOUS
<1>3. /\ in \in [1..Len(more) -> places \union {n + 1}]
      /\ in[1] = n + 1 /\ \A i \in 1..Len(held) : in[i + 1] = at[i]
    BY <1>2
<1>4. \A i \in 1..Len(more) : i = 1 \/ (i - 1 \in 1..Len(held) /\ i = (i - 1) + 1)
    BY <1>2
<1> HIDE DEF more, in
<1>5. 1 \in 1..Len(more) /\ \A i \in 1..Len(held) : i + 1 \in 1..Len(more)
    BY <1>2
<1>6. \A p \in places \union {n + 1} : \E i \in 1..Len(more) : in[i] = p
    BY <1>1, <1>3, <1>5
<1>7. ASSUME NEW i \in 1..Len(more), NEW j \in 1..Len(more), i < j PROVE in[j] < in[i]
  <2>1. j # 1 /\ j - 1 \in 1..Len(held) /\ j = (j - 1) + 1
      BY <1>2, <1>4, <1>7
  <2>4. in[j] = at[j - 1] /\ at[j - 1] \in 1..n
      BY <1>3, <2>1
  <2>2. CASE i = 1
      BY <1>3, <2>2, <2>4
  <2>3. CASE i # 1
    <3>1. i - 1 \in 1..Len(held) /\ in[i] = at[i - 1] /\ i - 1 < j - 1
        BY <1>3, <1>4, <1>7, <2>3
    <3> QED BY <1>1, <2>1, <2>4, <3>1
  <2> QED BY <2>2, <2>3
<1>8. ASSUME NEW i \in 1..Len(more) PROVE more[i].text = said[in[i]]
  <2>1. CASE i = 1
      BY <1>2, <1>3, <2>1
  <2>2. CASE i # 1
    <3>1. i - 1 \in 1..Len(held) /\ in[i] = at[i - 1] /\ more[i] = held[i - 1]
        BY <1>2, <1>3, <1>4, <2>2
    <3> QED BY <1>1, <3>1
  <2> QED BY <2>1, <2>2
<1>9. LatestFirst(more, said, places \union {n + 1})
    BY <1>3, <1>6, <1>7, <1>8 DEF LatestFirst
<1> QED BY <1>9 DEF more

(* What is held depends on the lines sought alone.                           *)
LEMMA HeldKept ==
    ASSUME NEW held, NEW said, NEW more, NEW places,
           \A p \in places : more[p] = said[p], LatestFirst(held, said, places)
    PROVE  LatestFirst(held, more, places)
BY DEF LatestFirst

(* Turned round, the lines come in the order in which they were said.        *)
LEMMA TurnedRound ==
    ASSUME NEW held \in Seq(Lines), NEW said, NEW places \in SUBSET Nat,
           LatestFirst(held, said, places)
    PROVE  LinesAt(Reverse(held), said, places)
<1> DEFINE len == Len(held)
           turned == Reverse(held)
<1>1. PICK at \in [1..Len(held) -> places] :
          /\ \A p \in places : \E i \in 1..Len(held) : at[i] = p
          /\ \A i, j \in 1..Len(held) : i < j => at[j] < at[i]
          /\ \A i \in 1..Len(held) : held[i].text = said[at[i]]
    BY DEF LatestFirst
<1>2. /\ len \in Nat /\ Len(turned) = len
      /\ \A i \in 1..len : turned[i] = held[len - i + 1]
    BY ReverseElements DEF Reverse
<1> DEFINE in == [i \in 1..len |-> at[len - i + 1]]
<1>3. \A i \in 1..len : /\ len - i + 1 \in 1..len /\ len - (len - i + 1) + 1 = i
                        /\ in[i] = at[len - i + 1]
    BY <1>2
<1>4. in \in [1..len -> places]
    BY <1>1, <1>3
<1> HIDE DEF len, turned, in
<1>5. \A p \in places : \E i \in 1..len : in[i] = p
  <2> SUFFICES ASSUME NEW p \in places PROVE \E i \in 1..len : in[i] = p
      OBVIOUS
  <2>1. PICK j \in 1..len : at[j] = p
      BY <1>1 DEF len
  <2> QED BY <1>3, <2>1
<1>6. ASSUME NEW i \in 1..len, NEW j \in 1..len, i < j PROVE in[i] < in[j]
  <2>1. len - j + 1 < len - i + 1
      BY <1>2, <1>6
  <2> QED BY <1>1, <1>3, <2>1 DEF len
<1>7. ASSUME NEW i \in 1..len PROVE turned[i].text = said[in[i]]
  <2>1. len - i + 1 \in 1..len /\ turned[i] = held[len - i + 1] /\ in[i] = at[len - i + 1]
      BY <1>2, <1>3
  <2>2. \A j \in 1..len : held[j].text = said[at[j]]
      BY <1>1 DEF len
  <2> QED BY <2>1, <2>2
<1>8. LinesAt(turned, said, places)
    BY <1>2, <1>4, <1>5, <1>6, <1>7 DEF LinesAt
<1> QED BY <1>8 DEF turned

(* processLine adds a line when it is one the command's caller should see,   *)
(* the first one unless the command is a multi-line one.                     *)
LEMMA AcceptsWhatMatches ==
    ASSUME NEW k \in Commands, GoesBy(k), NEW text
    PROVE  Accepts(text) <=> /\ Matches(k, text)
                             /\ k.type = "MULTILINE" \/ sp_response.p_intermediates = <<>>
<1>1. k.type \in Types
    BY CommandsAssumption
<1> QED BY <1>1 DEF Accepts, Matches, GoesBy, Types

(* The next line is read.                                                    *)
LEMMA TracksTail ==
    ASSUME TypeOK, issued \in DOMAIN emitted, rx # <<>>, rx' = Tail(rx),
           UNCHANGED <<issued, emitted>>,
           NEW at \in [0..Len(rx) -> 0..Len(emitted[issued])], Tracks(at)
    PROVE  \E next \in [0..Len(rx') -> 0..Len(emitted'[issued'])] :
              Tracks(next)' /\ next[0] = at[1]
<1>1. /\ Len(rx) \in Nat /\ Len(rx') \in Nat /\ Len(rx) = Len(rx') + 1
      /\ \A i \in 1..Len(rx') : i + 1 \in 1..Len(rx) /\ rx'[i] = rx[i + 1]
    BY TailOfRx DEF TypeOK
<1>2. PICK next \in [0..Len(rx') -> 0..Len(emitted[issued])] :
          \A i \in 0..Len(rx') : next[i] = at[i + 1]
  <2> DEFINE f == [i \in 0..Len(rx') |-> at[i + 1]]
  <2>1. f \in [0..Len(rx') -> 0..Len(emitted[issued])]
      BY <1>1
  <2>2. \A i \in 0..Len(rx') : f[i] = at[i + 1]
      OBVIOUS
  <2> HIDE DEF f
  <2> QED BY <2>1, <2>2
<1>3. next[Len(rx')] = Len(emitted[issued])
    BY <1>1, <1>2 DEF Tracks
<1>4. ASSUME NEW i \in 1..Len(rx')
      PROVE  /\ Said(rx'[i]) =>
                  next[i] = next[i - 1] + 1 /\ rx'[i].text = emitted[issued][next[i]]
             /\ ~Said(rx'[i]) => next[i] = next[i - 1]
             /\ (rx'[i].cmd = issued /\ rx'[i].text \in Finals)
                  => next[i] = Len(emitted[issued])
  <2>1. /\ i + 1 \in 1..Len(rx) /\ rx'[i] = rx[i + 1] /\ (i + 1) - 1 = i
        /\ i - 1 \in 0..Len(rx') /\ i \in 0..Len(rx') /\ (i - 1) + 1 = i
      BY <1>1
  <2>2. next[i] = at[i + 1] /\ next[i - 1] = at[i]
      BY <1>2, <2>1
  <2> QED BY <2>1, <2>2 DEF Tracks
<1>5. Tracks(next)' /\ next[0] = at[1]
    BY <1>1, <1>2, <1>3, <1>4 DEF Tracks, Said
<1> QED BY <1>2, <1>5

(* A line read joins the response if it should.                              *)
LEMMA ReadLineDelivers ==
    ASSUME TypeOK, OwnInv, SyncInv, DeliverInv, Calm, ReadLine
    PROVE  NoSms' /\ Numbered' /\ Filled' /\ \A c \in Callers : Delivered(c)'
<1> DEFINE line == Head(rx)
<1>1. /\ rx # <<>> /\ rx' = Tail(rx) /\ line \in Lines /\ line = rx[1] /\ 1 \in 1..Len(rx)
      /\ ProcessLine(line)
      /\ UNCHANGED <<out, arg, id, issued, emitted, s_type, s_responsePrefix, rpc>>
  <2>1. rx # <<>> /\ rx \in Seq(Lines)
      BY DEF ReadLine, TypeOK
  <2>2. line \in Lines /\ line = rx[1] /\ 1 \in 1..Len(rx)
      BY <2>1
  <2>3. ProcessLine(line) /\ rx' = Tail(rx)
      BY DEF ReadLine
  <2>4. UNCHANGED <<out, arg, id, issued, emitted, s_type, s_responsePrefix, rpc>>
      BY DEF ReadLine
  <2> QED BY <2>1, <2>2, <2>3, <2>4
<1>2. /\ Len(rx') = Len(rx) - 1
      /\ \A i \in 1..Len(rx') : i + 1 \in 1..Len(rx) /\ rx'[i] = rx[i + 1]
    BY <1>1, TailOfRx
<1>3. /\ sp_response' = NULL <=> sp_response = NULL
      /\ sp_response'.cmd = sp_response.cmd
      /\ \A c \in Callers : InCall(c)' <=> InCall(c)
    BY <1>1, ProcessLineKeeps
<1>4. NoSms /\ Numbered /\ Filled /\ \A c \in Callers : Delivered(c)
    BY DEF DeliverInv
<1>5. NoStrayFinalInRx /\ RxIsForPending
    BY DEF SyncInv, Calm
<1>6. NoSms' /\ Numbered' /\ \A c \in Callers : Delivered(c)'
    BY <1>1, <1>2, <1>3, <1>4 DEF NoSms, Numbered, Delivered
<1>7. ASSUME NEW c \in Callers, InCall(c)'
      PROVE  /\ GoesBy(arg[c])'
             /\ Awaiting' => \E at \in [0..Len(rx') -> 0..Len(emitted'[issued'])] :
                                 Tracks(at)' /\ Holding(arg[c], at[0])'
             /\ ~Awaiting' => Holding(arg[c], Len(emitted[issued]))'
  <2> DEFINE k == arg[c]
             held == sp_response.p_intermediates
             said == emitted[issued]
  <2>1. /\ sp_response # NULL /\ sp_response \in Responses /\ sp_response.cmd = issued
        /\ held \in Seq(Lines) /\ issued \in Nat \ {0} /\ k \in Commands /\ InCall(c)
    <3>1. InCall(c) /\ sp_response # NULL
        BY <1>3, <1>7 DEF OwnInv, OneAtATime, Calm
    <3> QED BY <1>4, <3>1 DEF TypeOK, Responses, Numbered
  <2>2. issued \in DOMAIN emitted /\ Len(said) \in Nat
      BY <2>1 DEF TypeOK
  <2>3. GoesBy(k) /\ GoesBy(arg[c])'
      BY <1>1, <1>4, <2>1 DEF Filled, GoesBy
  <2>4. line.cmd # 0 => line.cmd = issued /\ Awaiting
      BY <1>1, <1>5, <2>1 DEF RxIsForPending
  (* What is kept of the response in each case.                              *)
  <2>5. CASE line.text \in Finals /\ HandleFinalResponse(line)
    <3>1. line.cmd = issued /\ Awaiting /\ line # NoLine
      <4>1. line.cmd # 0
          BY <1>1, <1>5, <2>5 DEF NoStrayFinalInRx
      <4>2. NoLine.cmd = 0
          BY DEF NoLine
      <4> QED BY <2>4, <4>1, <4>2
    <3>2. sp_response'.finalResponse = line /\ sp_response'.p_intermediates = held
        BY <2>1, <2>5 DEF HandleFinalResponse, Responses
    <3>3. ~Awaiting'
        BY <3>1, <3>2 DEF Awaiting
    <3>4. PICK at \in [0..Len(rx) -> 0..Len(said)] : Tracks(at) /\ Holding(k, at[0])
        BY <1>4, <2>1, <3>1 DEF Filled
    <3>5. at[1 - 1] = Len(said)
        BY <1>1, <2>5, <3>1, <3>4 DEF Tracks, Said
    <3>6. Holding(k, Len(said))
        BY <3>4, <3>5
    <3>7. Holding(arg[c], Len(emitted[issued]))'
        BY <1>1, <3>2, <3>6 DEF Holding
    <3> QED BY <2>3, <3>3, <3>7
  <2>6. CASE line.text \notin Finals /\ Accepts(line.text) /\ AddIntermediate(line)
    <3>1. /\ sp_response'.finalResponse = sp_response.finalResponse
          /\ sp_response'.p_intermediates = <<line>> \o held
        BY <2>1, <2>6 DEF AddIntermediate, Responses
    <3>2. Awaiting' <=> Awaiting
        BY <1>3, <3>1 DEF Awaiting
    <3>3. /\ (<<line>> \o held)[1] = line /\ 1 \in 1..Len(<<line>> \o held)
          /\ \A i \in 1..Len(held) :
               i + 1 \in 1..Len(<<line>> \o held) /\ (<<line>> \o held)[i + 1] = held[i]
        BY <1>1, <2>1
    <3>4. CASE line.cmd = 0
      <4>1. \A n : Holding(arg[c], n)'
          BY <3>1, <3>3, <3>4 DEF Holding
      <4>2. ASSUME Awaiting'
            PROVE  \E at \in [0..Len(rx') -> 0..Len(emitted'[issued'])] : Tracks(at)'
        <5>1. PICK at \in [0..Len(rx) -> 0..Len(said)] : Tracks(at)
            BY <1>4, <2>1, <3>2, <4>2 DEF Filled
        <5> QED BY <1>1, <2>2, <5>1, TracksTail
      <4> QED BY <2>3, <4>1, <4>2
    <3>5. CASE line.cmd # 0
      <4>1. Awaiting /\ Awaiting' /\ Said(line)
          BY <2>4, <2>6, <3>2, <3>5 DEF Said
      <4>2. PICK at \in [0..Len(rx) -> 0..Len(said)] : Tracks(at) /\ Holding(k, at[0])
          BY <1>4, <2>1, <4>1 DEF Filled
      <4>3. at[1] = at[1 - 1] + 1 /\ line.text = said[at[1]]
          BY <1>1, <4>1, <4>2 DEF Tracks
      <4>4. at[0] \in Nat /\ at[1] = at[0] + 1
          BY <2>2, <4>2, <4>3
      <4>5. Matches(k, said[at[0] + 1]) /\ (k.type = "MULTILINE" \/ held = <<>>)
          BY <2>1, <2>3, <2>6, <4>3, <4>4, AcceptsWhatMatches
      <4>6. ASSUME \A i \in 1..Len(<<line>> \o held) : (<<line>> \o held)[i].cmd # 0
            PROVE  LatestFirst(<<line>> \o held, said, Sought(k, said, at[0] + 1))
        <5>1. LatestFirst(held, said, Sought(k, said, at[0]))
          <6>1. \A i \in 1..Len(held) : held[i].cmd # 0
              BY <3>3, <4>6
          <6> QED BY <4>2, <6>1 DEF Holding
        <5>2. held = <<>> => Sought(k, said, at[0]) = {}
            BY <2>1, <5>1, NoneHeld
        <5>3. Sought(k, said, at[0] + 1) = Sought(k, said, at[0]) \union {at[0] + 1}
            BY <4>4, <4>5, <5>2, SoughtOfMore
        <5>4. Sought(k, said, at[0]) \in SUBSET (1..at[0])
            BY <4>4, SoughtAmong
        <5> HIDE DEF k, held, said
        <5>5. LatestFirst(<<line>> \o held, said, Sought(k, said, at[0]) \union {at[0] + 1})
            BY <1>1, <2>1, <4>3, <4>4, <5>1, <5>4, HoldsMore
        <5> QED BY <5>3, <5>5
      <4>7. Holding(arg[c], at[1])'
          BY <1>1, <3>1, <4>4, <4>6 DEF Holding
      <4>8. PICK next \in [0..Len(rx') -> 0..Len(emitted'[issued'])] :
                Tracks(next)' /\ next[0] = at[1]
          BY <1>1, <2>2, <4>2, TracksTail
      <4> QED BY <2>3, <4>1, <4>7, <4>8
    <3> QED BY <3>4, <3>5
  <2>7. CASE line.text \notin Finals /\ ~Accepts(line.text) /\ UNCHANGED sp_response
    <3>1. Awaiting' <=> Awaiting
        BY <2>7 DEF Awaiting
    <3>2. ~Awaiting => Holding(arg[c], Len(emitted[issued]))'
        BY <1>1, <1>4, <2>1, <2>7 DEF Filled, Holding
    <3>3. ASSUME Awaiting
          PROVE  \E at \in [0..Len(rx') -> 0..Len(emitted'[issued'])] :
                    Tracks(at)' /\ Holding(arg[c], at[0])'
      <4>1. PICK at \in [0..Len(rx) -> 0..Len(said)] : Tracks(at) /\ Holding(k, at[0])
          BY <1>4, <2>1, <3>3 DEF Filled
      <4>2. Holding(k, at[1])
        <5>1. CASE line.cmd = 0
          <6>1. ~Said(rx[1])
              BY <1>1, <2>1, <5>1 DEF Said
          <6>2. at[1] = at[1 - 1]
              BY <1>1, <4>1, <6>1 DEF Tracks
          <6> QED BY <4>1, <6>2
        <5>2. CASE line.cmd # 0
          <6>1. Said(line)
              BY <2>4, <2>7, <5>2 DEF Said
          <6>2. at[1] = at[1 - 1] + 1 /\ line.text = said[at[1]]
              BY <1>1, <4>1, <6>1 DEF Tracks
          <6>3. at[0] \in Nat /\ at[1] = at[0] + 1
              BY <2>2, <4>1, <6>2
          <6>4. ~Matches(k, said[at[0] + 1]) \/ (k.type # "MULTILINE" /\ held # <<>>)
              BY <2>1, <2>3, <2>7, <6>2, <6>3, AcceptsWhatMatches
          <6>5. ASSUME \A i \in 1..Len(held) : held[i].cmd # 0
                PROVE  LatestFirst(held, said, Sought(k, said, at[0] + 1))
            <7>1. LatestFirst(held, said, Sought(k, said, at[0]))
                BY <4>1, <6>5 DEF Holding
            <7>2. held # <<>> => Sought(k, said, at[0]) # {}
                BY <2>1, <7>1, NoneHeld
            <7>3. Sought(k, said, at[0] + 1) = Sought(k, said, at[0])
                BY <6>3, <6>4, <7>2, SoughtOfMore
            <7> QED BY <7>1, <7>3
          <6> QED BY <6>3, <6>5 DEF Holding
        <5> QED BY <5>1, <5>2
      <4>3. Holding(arg[c], at[1])'
          BY <1>1, <2>7, <4>2 DEF Holding
      <4>4. PICK next \in [0..Len(rx') -> 0..Len(emitted'[issued'])] :
                Tracks(next)' /\ next[0] = at[1]
          BY <1>1, <2>2, <4>1, TracksTail
      <4> QED BY <4>3, <4>4
    <3> QED BY <2>3, <3>1, <3>2, <3>3
  <2> QED BY <1>1, <2>1, <2>5, <2>6, <2>7 DEF ProcessLine
<1>8. Filled'
    BY <1>7 DEF Filled
<1> QED BY <1>6, <1>8

(* A line more is said: one of the answer, or another one.                   *)
LEMMA TracksMore ==
    ASSUME TypeOK, issued \in DOMAIN emitted, issued \in DOMAIN emitted', UNCHANGED issued,
           NEW t \in Texts, NEW n \in Nat, Say(t, n),
           NEW at \in [0..Len(rx) -> 0..Len(emitted[issued])], Tracks(at),
           \/ /\ n = issued /\ t \notin Finals
              /\ Len(emitted'[issued]) = Len(emitted[issued]) + 1
              /\ \A i \in 1..Len(emitted[issued]) : emitted'[issued][i] = emitted[issued][i]
              /\ emitted'[issued][Len(emitted[issued]) + 1] = t
              /\ \A i \in 1..Len(rx) : rx[i].text \notin Finals
           \/ (n # issued \/ t \in Finals) /\ emitted'[issued] = emitted[issued]
    PROVE  \E next \in [0..Len(rx') -> 0..Len(emitted'[issued'])] :
              Tracks(next)' /\ next[0] = at[0]
<1> DEFINE m == Len(rx)
           was == emitted[issued]
           is == emitted'[issued]
<1>1. /\ m \in Nat /\ Len(rx') = m + 1 /\ Len(was) \in Nat
      /\ rx'[m + 1].text = t /\ rx'[m + 1].cmd = n
      /\ \A i \in 1..m : rx'[i] = rx[i]
    BY SayAppends DEF TypeOK
<1>2. /\ Len(is) \in Nat /\ Len(was) <= Len(is)
      /\ \A i \in 1..Len(was) : is[i] = was[i]
      /\ Said(rx'[m + 1]) => Len(is) = Len(was) + 1 /\ is[Len(was) + 1] = t
      /\ ~Said(rx'[m + 1]) => Len(is) = Len(was)
    BY <1>1 DEF Said
<1>3. \A i \in 1..m : rx[i].cmd = issued /\ rx[i].text \in Finals => Len(is) = Len(was)
    OBVIOUS
<1>4. PICK next \in [0..Len(rx') -> 0..Len(is)] :
          /\ \A i \in 0..m : next[i] = at[i]
          /\ next[m + 1] = Len(is)
  <2> DEFINE f == [i \in 0..Len(rx') |-> IF i = m + 1 THEN Len(is) ELSE at[i]]
  <2>1. \A i \in 0..m : at[i] \in 0..Len(is)
      BY <1>1, <1>2
  <2>2. \A i \in 0..Len(rx') : i = m + 1 \/ i \in 0..m
      BY <1>1
  <2>3. m + 1 \in 0..Len(rx') /\ \A i \in 0..m : i \in 0..Len(rx') /\ i # m + 1
      BY <1>1
  <2> HIDE DEF m, is
  <2>4. f \in [0..Len(rx') -> 0..Len(is)]
      BY <1>2, <2>1, <2>2
  <2>5. f[m + 1] = Len(is) /\ \A i \in 0..m : f[i] = at[i]
      BY <2>3
  <2> HIDE DEF f
  <2> QED BY <2>4, <2>5
<1>5. /\ at[m] = Len(was) /\ at \in [0..m -> 0..Len(was)]
      /\ \A i \in 1..m :
           /\ Said(rx[i]) => at[i] = at[i - 1] + 1 /\ rx[i].text = was[at[i]]
           /\ ~Said(rx[i]) => at[i] = at[i - 1]
           /\ (rx[i].cmd = issued /\ rx[i].text \in Finals) => at[i] = Len(was)
    BY DEF Tracks
<1> HIDE DEF m, was, is
<1>6. ASSUME NEW i \in 1..Len(rx')
      PROVE  /\ Said(rx'[i]) => next[i] = next[i - 1] + 1 /\ rx'[i].text = is[next[i]]
             /\ ~Said(rx'[i]) => next[i] = next[i - 1]
             /\ (rx'[i].cmd = issued /\ rx'[i].text \in Finals) => next[i] = Len(is)
  <2>1. CASE i = m + 1
    <3>1. i - 1 = m /\ m \in 0..m
        BY <1>1, <2>1
    <3>2. next[i - 1] = Len(was) /\ next[i] = Len(is)
        BY <1>4, <1>5, <2>1, <3>1
    <3> QED BY <1>1, <1>2, <2>1, <3>2 DEF Said
  <2>2. CASE i # m + 1
    <3>1. i \in 1..m /\ i \in 0..m /\ i - 1 \in 0..m
        BY <1>1, <2>2
    <3>2. next[i] = at[i] /\ next[i - 1] = at[i - 1] /\ rx'[i] = rx[i] /\ at[i] \in 0..Len(was)
        BY <1>1, <1>4, <1>5, <3>1
    <3>3. ASSUME Said(rx[i]) PROVE is[at[i]] = was[at[i]]
      <4>1. at[i] = at[i - 1] + 1 /\ at[i - 1] \in 0..Len(was)
          BY <1>5, <3>1, <3>3
      <4>2. at[i] \in 1..Len(was)
          BY <1>1, <3>2, <4>1
      <4> QED BY <1>2, <4>2
    <3> QED BY <1>3, <1>5, <3>1, <3>2, <3>3
  <2> QED BY <2>1, <2>2
<1>7. next[Len(rx')] = Len(is) /\ next[0] = at[0]
    BY <1>1, <1>4
<1>8. Tracks(next)'
    BY <1>6, <1>7 DEF Tracks, Said, is
<1> QED BY <1>4, <1>7, <1>8 DEF is

(* The response is not touched, and the lines it is held against stay.       *)
LEMMA HoldingKept ==
    ASSUME NEW k, NEW n \in Nat, UNCHANGED <<sp_response, issued>>,
           \A i \in 1..n : emitted'[issued][i] = emitted[issued][i], Holding(k, n)
    PROVE  Holding(k, n)'
<1> DEFINE held == sp_response.p_intermediates
<1> SUFFICES ASSUME \A i \in 1..Len(held) : held[i].cmd # 0
             PROVE  LatestFirst(held, emitted'[issued], Sought(k, emitted'[issued], n))
    BY DEF Holding
<1>1. LatestFirst(held, emitted[issued], Sought(k, emitted[issued], n))
    BY DEF Holding
<1>2. Sought(k, emitted'[issued], n) = Sought(k, emitted[issued], n)
    BY SoughtKept
<1>3. \A p \in Sought(k, emitted[issued], n) : emitted'[issued][p] = emitted[issued][p]
    BY SoughtAmong
<1> HIDE DEF held
<1> QED BY <1>1, <1>2, <1>3, HeldKept

(* What the modem says leaves what has been read as it was.                  *)
LEMMA ModemSaysDelivers ==
    ASSUME TypeOK, OwnInv, DeliverInv, Calm,
           UNCHANGED <<sp_response, s_type, s_responsePrefix, pc, arg, id, out, rpc, issued>>,
           NEW t \in Texts, t \notin SmsUnsoliciteds, NEW n \in Nat, Say(t, n),
           \/ (n # issued \/ t \in Finals) /\ UNCHANGED emitted
           \/ /\ n = issued /\ issued # 0 /\ t \in InfoTexts /\ t \notin Finals
              /\ sp_response # NULL /\ Awaiting
              /\ emitted' = [emitted EXCEPT ![issued] = Append(@, t)]
              /\ \A i \in 1..Len(rx) : rx[i].text \notin Finals
    PROVE  NoSms' /\ Numbered' /\ Filled' /\ \A c \in Callers : Delivered(c)'
<1>1. NoSms /\ Numbered /\ Filled /\ \A c \in Callers : Delivered(c)
    BY DEF DeliverInv
<1>2. /\ issued \in Nat /\ DOMAIN emitted = 1..issued /\ DOMAIN emitted' = 1..issued
      /\ \A i \in 1..issued : emitted[i] \in Seq(InfoTexts)
    BY DEF TypeOK
<1>3. NoSms'
  <2>1. /\ rx'[Len(rx')].text = t /\ \A i \in 1..Len(rx) : rx'[i] = rx[i]
        /\ \A i \in 1..Len(rx') : i = Len(rx') \/ i \in 1..Len(rx)
      BY SayAppends
  <2> QED BY <1>1, <2>1 DEF NoSms
<1>4. Numbered'
    BY <1>1 DEF Numbered
<1>5. \A i \in 1..issued : i # issued => emitted'[i] = emitted[i]
    BY <1>2
<1>6. ASSUME NEW c \in Callers PROVE Delivered(c)'
  <2>1. out[c].resp # NULL => emitted'[id[c]] = emitted[id[c]]
      BY <1>1, <1>2, <1>5 DEF Numbered
  <2> QED BY <1>1, <2>1 DEF Delivered
<1>7. issued \in 1..issued =>
        /\ Len(emitted[issued]) \in Nat
        /\ \A i \in 1..Len(emitted[issued]) : emitted'[issued][i] = emitted[issued][i]
        /\ \/ /\ n = issued /\ t \notin Finals
              /\ Len(emitted'[issued]) = Len(emitted[issued]) + 1
              /\ emitted'[issued][Len(emitted[issued]) + 1] = t
              /\ \A i \in 1..Len(rx) : rx[i].text \notin Finals
           \/ (n # issued \/ t \in Finals) /\ emitted'[issued] = emitted[issued]
  <2> SUFFICES ASSUME issued \in 1..issued
               PROVE  /\ Len(emitted[issued]) \in Nat
                      /\ \A i \in 1..Len(emitted[issued]) :
                            emitted'[issued][i] = emitted[issued][i]
                      /\ \/ /\ n = issued /\ t \notin Finals
                            /\ Len(emitted'[issued]) = Len(emitted[issued]) + 1
                            /\ emitted'[issued][Len(emitted[issued]) + 1] = t
                            /\ \A i \in 1..Len(rx) : rx[i].text \notin Finals
                         \/ (n # issued \/ t \in Finals) /\ emitted'[issued] = emitted[issued]
      OBVIOUS
  <2>1. emitted[issued] \in Seq(InfoTexts)
      BY <1>2
  <2>2. CASE (n # issued \/ t \in Finals) /\ UNCHANGED emitted
      BY <2>1, <2>2
  <2>3. CASE /\ n = issued /\ t \in InfoTexts /\ t \notin Finals
             /\ emitted' = [emitted EXCEPT ![issued] = Append(@, t)]
             /\ \A i \in 1..Len(rx) : rx[i].text \notin Finals
    <3>1. emitted'[issued] = Append(emitted[issued], t)
        BY <1>2, <2>3
    <3> QED BY <2>1, <2>3, <3>1
  <2> QED BY <2>2, <2>3
<1>8. ASSUME NEW c \in Callers, InCall(c)'
      PROVE  /\ GoesBy(arg[c])'
             /\ Awaiting' => \E at \in [0..Len(rx') -> 0..Len(emitted'[issued'])] :
                                 Tracks(at)' /\ Holding(arg[c], at[0])'
             /\ ~Awaiting' => Holding(arg[c], Len(emitted[issued]))'
  <2>1. InCall(c)
      BY <1>8 DEF InCall
  <2>2. sp_response # NULL /\ issued \in 1..issued
    <3>1. sp_response # NULL /\ sp_response.cmd = issued
        BY <1>1, <2>1 DEF OwnInv, OneAtATime, Calm, Numbered
    <3>2. sp_response.cmd \in Nat \ {0}
        BY <3>1 DEF TypeOK, Responses
    <3> QED BY <3>1, <3>2
  <2>3. GoesBy(arg[c])'
      BY <1>1, <2>1 DEF Filled, GoesBy
  <2>4. Awaiting' <=> Awaiting
      BY DEF Awaiting
  <2>5. ASSUME Awaiting
        PROVE  \E at \in [0..Len(rx') -> 0..Len(emitted'[issued'])] :
                  Tracks(at)' /\ Holding(arg[c], at[0])'
    <3>1. PICK at \in [0..Len(rx) -> 0..Len(emitted[issued])] :
              Tracks(at) /\ Holding(arg[c], at[0])
        BY <1>1, <2>1, <2>5 DEF Filled
    <3>2. at[0] \in 0..Len(emitted[issued])
      <4>1. rx \in Seq(Lines)
          BY DEF TypeOK
      <4>2. 0 \in 0..Len(rx)
          BY <4>1
      <4> QED BY <3>1, <4>2
    <3>3. Holding(arg[c], at[0])'
      <4> DEFINE k == arg[c]
      <4>1. Len(emitted[issued]) \in Nat /\ at[0] \in Nat /\ at[0] <= Len(emitted[issued])
          BY <1>7, <2>2, <3>2
      <4>2. \A i \in 1..at[0] : emitted'[issued][i] = emitted[issued][i]
        <5>1. \A i \in 1..at[0] : i \in 1..Len(emitted[issued])
            BY <4>1
        <5> QED BY <1>7, <2>2, <5>1
      <4>3. k' = k
          OBVIOUS
      <4>4. Holding(k, at[0])
          BY <3>1
      <4> HIDE DEF k
      <4>5. ASSUME NEW j, j = k PROVE Holding(j, at[0])'
          BY <4>2, <4>1, <4>4, <4>5, HoldingKept
      <4> QED BY <4>3, <4>5 DEF k
    <3>4. PICK next \in [0..Len(rx') -> 0..Len(emitted'[issued'])] :
              Tracks(next)' /\ next[0] = at[0]
        BY <1>2, <1>7, <2>2, <3>1, TracksMore
    <3> QED BY <3>3, <3>4
  <2>6. ASSUME ~Awaiting PROVE Holding(arg[c], Len(emitted[issued]))'
    <3>1. UNCHANGED emitted
        BY <2>6
    <3>2. Holding(arg[c], Len(emitted[issued]))
        BY <1>1, <2>1, <2>6 DEF Filled
    <3> QED BY <3>1, <3>2 DEF Holding
  <2> QED BY <2>3, <2>4, <2>5, <2>6
<1>9. Filled'
    BY <1>8 DEF Filled
<1> QED BY <1>3, <1>4, <1>6, <1>9

(* The response that is taken is handed on with its lines turned round.      *)
LEMMA TakeDelivers ==
    ASSUME TypeOK, OwnInv, OutCleared, DeliverInv, Calm, NEW c \in Callers, ResumeTake(c)
    PROVE  NoSms' /\ Numbered' /\ Filled' /\ \A d \in Callers : Delivered(d)'
<1> DEFINE res == Result(arg[c], sp_response)
           held == sp_response.p_intermediates
<1>1. NoSms /\ Numbered /\ Filled /\ \A d \in Callers : Delivered(d)
    BY DEF DeliverInv
<1>2. /\ UNCHANGED <<rx, rpc, arg, id, issued, emitted>> /\ sp_response' = NULL
      /\ pc' = [pc EXCEPT ![c] = "idle"]
      /\ out' = [out EXCEPT ![c] = [err |-> res.err, resp |-> res.resp]]
    BY DEF ResumeTake, Take, Return, ClearPendingCommand
<1>3. /\ InCall(c) /\ sp_response # NULL /\ sp_response \in Responses /\ ~Awaiting
      /\ sp_response.cmd = id[c] /\ held \in Seq(Lines)
    BY DEF ResumeTake, OwnInv, OneAtATime, Calm, InCall, TypeOK, Awaiting, Responses
<1>4. id[c] = issued /\ issued \in 1..issued
    BY <1>1, <1>3 DEF Numbered, Responses, TypeOK
<1>5. \A d \in Callers : ~InCall(d)'
  <2>1. \A d \in Callers : d # c => ~InCall(d)
      BY <1>3 DEF OwnInv, OneAtATime, Calm
  <2> QED BY <1>2, <2>1 DEF InCall, TypeOK
<1>6. Filled' /\ NoSms'
    BY <1>1, <1>2, <1>5 DEF Filled, NoSms
<1>7. out'[c].resp = res.resp /\ \A d \in Callers : d # c => out'[d] = out[d]
    BY <1>2 DEF TypeOK
<1>8. Numbered'
    BY <1>1, <1>2, <1>4, <1>7 DEF Numbered
<1>9. Delivered(c)'
  <2> SUFFICES ASSUME res.resp # NULL,
                      \A i \in 1..Len(res.resp.p_intermediates) :
                          res.resp.p_intermediates[i].cmd # 0
               PROVE  LinesAt(res.resp.p_intermediates, emitted[issued],
                              Wanted(arg[c], emitted[issued]))
    <3> HIDE DEF res
    <3> QED BY <1>2, <1>4, <1>7 DEF Delivered
  <2>1. res.resp.p_intermediates = Reverse(held)
    <3>1. res.resp = [sp_response EXCEPT !.p_intermediates = Reverse(sp_response.p_intermediates)]
        BY DEF Result, NoResult
    <3> QED BY <1>3, <3>1 DEF Responses
  <2>2. \A i \in 1..Len(held) : held[i].cmd # 0
    <3>1. Len(Reverse(held)) = Len(held) /\ Len(held) \in Nat
        BY <1>3, ReverseElements
    <3>2. ASSUME NEW i \in 1..Len(held) PROVE held[i].cmd # 0
      <4>1. /\ Len(held) - i + 1 \in 1..Len(held)
            /\ Len(held) - (Len(held) - i + 1) + 1 = i
          BY <3>1
      <4>2. Reverse(held)[Len(held) - i + 1] = held[i]
          BY <4>1 DEF Reverse
      <4> QED BY <2>1, <3>1, <4>1, <4>2
    <3> QED BY <3>2
  <2>3. Holding(arg[c], Len(emitted[issued]))
      BY <1>1, <1>3 DEF Filled
  <2>4. LatestFirst(held, emitted[issued], Sought(arg[c], emitted[issued], Len(emitted[issued])))
      BY <2>2, <2>3 DEF Holding
  <2>5. Sought(arg[c], emitted[issued], Len(emitted[issued])) = Wanted(arg[c], emitted[issued])
      BY DEF Sought, Wanted
  <2>6. Wanted(arg[c], emitted[issued]) \in SUBSET Nat
      BY DEF Wanted
  <2> HIDE DEF held, res
  <2> QED BY <1>3, <2>1, <2>4, <2>5, <2>6, TurnedRound
<1>10. ASSUME NEW d \in Callers, d # c PROVE Delivered(d)'
    BY <1>1, <1>2, <1>7, <1>10 DEF Delivered
<1> QED BY <1>6, <1>8, <1>9, <1>10

LEMMA InitDeliver == Init => DeliverInv
<1>1. Init => NoSms /\ Numbered /\ Filled /\ \A c \in Callers : Delivered(c)
    BY DEF Init, NoSms, Numbered, Filled, Delivered, InCall
<1> QED BY <1>1 DEF DeliverInv

(* Every action keeps what responses hold of the answers.                    *)
LEMMA StepDeliver ==
    TypeOK /\ OwnInv /\ OutCleared /\ SyncInv /\ DeliverInv /\ [Next]_vars => DeliverInv'
<1> DEFINE Good == NoSms /\ Numbered /\ Filled /\ \A c \in Callers : Delivered(c)
<1> SUFFICES ASSUME TypeOK, OwnInv, OutCleared, SyncInv, DeliverInv, [Next]_vars, Calm'
             PROVE  Good'
    BY DEF DeliverInv
<1>1. Calm
    BY DEF Calm, Next, vars, Call, SendCommand, SendPending, SendFails, SendOk,
           WriteAndWait, Waits, SliceExpires, NextSlice, TimedWait, Timeout,
           SpuriousWake, Resume, ResumeCrash, ResumeWait, ResumeTake, Take,
           Reader, ReadLine, ReadSms, ReadEof, CloseSignals, ReaderExits, Modem,
           ModemInfo, ModemFinal, ModemIgnores, ModemUnsolicited, HangUp
<1>2. /\ NoSms /\ Numbered /\ Filled /\ \A c \in Callers : Delivered(c)
      /\ InboxIsPending
      /\ \A c \in Callers : InCall(c) => sp_response # NULL
    BY <1>1 DEF DeliverInv, SyncInv, Calm, OwnInv, OneAtATime
<1>3. /\ pc \in [Callers -> {"idle", "lock", "waiting", "expired", "woken"}]
      /\ DOMAIN out = Callers /\ DOMAIN arg = Callers /\ DOMAIN id = Callers
      /\ issued \in Nat /\ Len(rx) \in Nat /\ DOMAIN emitted = 1..issued
    BY DEF TypeOK
(* Steps that change nothing but where callers and the reader are.           *)
<1>a. ASSUME UNCHANGED <<sp_response, s_type, s_responsePrefix, issued, emitted, rx, out,
                         arg, id>>,
             rpc' # "second", \A c \in Callers : InCall(c)' => InCall(c)
      PROVE  Good'
  <2>1. NoSms' /\ Numbered' /\ \A c \in Callers : Delivered(c)'
      BY <1>2, <1>a DEF NoSms, Numbered, Delivered
  <2>2. Filled'
      BY <1>2, <1>a DEF Filled, GoesBy, Awaiting, Tracks, Said, Holding
  <2> QED BY <2>1, <2>2
<1>4. ASSUME NEW c \in Callers, NEW k \in Commands, Call(c, k) PROVE Good'
  <2>1. /\ out'[c].resp = NULL /\ ~InCall(c)'
        /\ \A d \in Callers : d # c =>
             /\ out'[d] = out[d] /\ arg'[d] = arg[d] /\ id'[d] = id[d]
             /\ InCall(d)' <=> InCall(d)
      BY <1>3, <1>4 DEF Call, InCall
  <2>2. UNCHANGED <<sp_response, s_type, s_responsePrefix, issued, emitted, rx, rpc>>
      BY <1>4 DEF Call
  <2>3. NoSms' /\ Numbered' /\ \A d \in Callers : Delivered(d)'
      BY <1>2, <2>1, <2>2 DEF NoSms, Numbered, Delivered
  <2>4. Filled'
    <3> SUFFICES ASSUME NEW d \in Callers, InCall(d)'
                 PROVE  /\ GoesBy(arg[d])'
                        /\ Awaiting' => \E at \in [0..Len(rx') -> 0..Len(emitted'[issued'])] :
                                           Tracks(at)' /\ Holding(arg[d], at[0])'
                        /\ ~Awaiting' => Holding(arg[d], Len(emitted[issued]))'
        BY DEF Filled
    <3>1. d # c /\ arg'[d] = arg[d] /\ InCall(d)
        BY <2>1
    <3> QED BY <1>2, <2>2, <3>1 DEF Filled, GoesBy, Awaiting, Tracks, Said, Holding
  <2> QED BY <2>3, <2>4
<1>5. ASSUME NEW c \in Callers, SendPending(c) \/ Timeout(c) PROVE FALSE
    BY <1>5 DEF SendPending, Timeout, Calm
<1>6. ASSUME NEW c \in Callers, SendFails(c) PROVE Good'
  <2>1. PICK e \in {"CHANNEL_CLOSED", "GENERIC"} : Return(c, e, NULL)
      BY <1>6 DEF SendFails
  <2>2. /\ UNCHANGED <<sp_response, rx, rpc, arg, id, issued, emitted>>
        /\ sp_response = NULL
      BY <1>6, <2>1 DEF SendFails, Return, ClearPendingCommand
  <2>3. /\ out'[c].resp = NULL /\ \A d \in Callers : d # c => out'[d] = out[d]
        /\ \A d \in Callers : ~InCall(d)'
      BY <1>2, <1>3, <2>1, <2>2 DEF Return, InCall
  <2>4. NoSms' /\ Numbered' /\ Filled'
      BY <1>2, <2>2, <2>3 DEF NoSms, Numbered, Filled
  <2>5. \A d \in Callers : Delivered(d)'
      BY <1>2, <2>2, <2>3 DEF Delivered
  <2> QED BY <2>4, <2>5
<1>7. ASSUME NEW c \in Callers, SendOk(c) PROVE Good'
  <2>1. /\ UNCHANGED <<rx, rpc, out, arg>> /\ issued' = issued + 1 /\ sp_response = NULL
        /\ sp_response' = NewResponse(issued + 1) /\ emitted' = Append(emitted, <<>>)
        /\ s_type' = arg[c].type /\ s_responsePrefix' = arg[c].prefix
        /\ id' = [id EXCEPT ![c] = issued + 1] /\ pc' = [pc EXCEPT ![c] = "waiting"]
        /\ out[c].resp = NULL
      BY <1>7 DEF SendOk, WriteAndWait, OutCleared
  <2>2. emitted'[issued + 1] = <<>> /\ \A i \in 1..issued : emitted'[i] = emitted[i]
      BY <2>1, SMTT(20) DEF TypeOK
  <2>3. \A d \in Callers : out[d].resp # NULL =>
            d # c /\ id'[d] = id[d] /\ id[d] \in 1..issued
      BY <1>2, <2>1 DEF Numbered
  <2>4. NoSms' /\ Numbered'
      BY <1>2, <1>3, <2>1, <2>3 DEF NoSms, Numbered, NewResponse
  <2>5. \A d \in Callers : Delivered(d)'
      BY <1>2, <2>1, <2>2, <2>3, ZenonT(30) DEF Delivered
  <2>6. \A d \in Callers : InCall(d)' => d = c
      BY <1>2, <1>3, <2>1 DEF InCall
  <2>7. \A i \in 1..Len(rx) : rx[i].cmd = 0
      BY <1>1, <2>1 DEF SyncInv, Calm, RxIsForPending, Awaiting
  <2>8. PICK at \in [0..Len(rx') -> 0..Len(emitted'[issued'])] : \A i \in 0..Len(rx) : at[i] = 0
    <3> DEFINE f == [i \in 0..Len(rx) |-> 0]
    <3>1. f \in [0..Len(rx') -> 0..Len(emitted'[issued'])]
        BY <2>1, <2>2
    <3> QED BY <3>1
  <2>9. Tracks(at)'
    <3>1. Len(rx) \in 0..Len(rx) /\ \A i \in 1..Len(rx) : i \in 0..Len(rx) /\ i - 1 \in 0..Len(rx)
        BY <1>3
    <3> QED BY <1>3, <2>1, <2>2, <2>7, <2>8, <3>1 DEF Tracks, Said
  <2>10. Holding(arg[c], at[0])'
    <3>1. at[0] = 0
        BY <1>3, <2>8
    <3>2. Sought(arg[c], <<>>, 0) = {}
        BY SoughtAmong
    <3>3. LatestFirst(<<>>, <<>>, {})
        BY HoldsNone
    <3> QED BY <2>1, <2>2, <3>1, <3>2, <3>3 DEF Holding, NewResponse
  <2>11. Awaiting' /\ GoesBy(arg[c])'
      BY <2>1, <1>3 DEF Awaiting, GoesBy, NewResponse, NULL
  <2>12. Filled'
      BY <2>6, <2>9, <2>10, <2>11 DEF Filled
  <2> QED BY <2>4, <2>5, <2>12
<1>8. ASSUME NEW c \in Callers,
             SliceExpires(c) \/ NextSlice(c) \/ SpuriousWake(c) \/ ResumeCrash(c) \/ ResumeWait(c)
      PROVE  Good'
  <2>1. /\ UNCHANGED <<sp_response, s_type, s_responsePrefix, issued, emitted, rx, out,
                       arg, id, rpc>>
        /\ \A d \in Callers : InCall(d)' => InCall(d)
      BY <1>3, <1>8 DEF SliceExpires, NextSlice, TimedWait, SpuriousWake,
                        ResumeCrash, ResumeWait, InCall
  <2> QED BY <1>2, <1>a, <2>1 DEF NoSms
<1>9. ASSUME NEW c \in Callers, ResumeTake(c) PROVE Good'
    BY <1>1, <1>9, TakeDelivers
<1>10. ASSUME ReadLine PROVE Good'
    BY <1>1, <1>10, ReadLineDelivers
<1>11. ASSUME ReadSms PROVE FALSE
  <2>1. Head(rx) = rx[1] /\ 1 \in 1..Len(rx)
      BY <1>11 DEF ReadSms, TypeOK
  <2> QED BY <1>2, <1>11, <2>1 DEF ReadSms, NoSms
<1>12. ASSUME CloseSignals PROVE Good'
  <2>1. \A c \in Callers : InCall(c)' => InCall(c)
      BY <1>12, SignalInCall DEF CloseSignals
  <2> QED BY <1>12, <1>a, <2>1 DEF CloseSignals
<1>13. ASSUME ReadEof \/ ReaderExits \/ HangUp \/ ModemIgnores \/ UNCHANGED vars PROVE Good'
  <2>1. /\ UNCHANGED <<sp_response, s_type, s_responsePrefix, issued, emitted, rx, out,
                       arg, id, pc>>
        /\ rpc' = rpc \/ rpc' = "closing"
      BY <1>13 DEF ReadEof, ReaderExits, HangUp, ModemIgnores, vars
  <2> QED BY <1>2, <1>a, <2>1 DEF NoSms, InCall
<1>14. ASSUME ModemInfo PROVE Good'
  <2>1. PICK t \in InfoTexts :
            /\ Say(t, Head(inbox))
            /\ emitted' = [emitted EXCEPT ![Head(inbox)] = Append(@, t)]
      BY <1>14 DEF ModemInfo
  <2>2. /\ UNCHANGED <<sp_response, s_type, s_responsePrefix, pc, arg, id, out, rpc, issued>>
        /\ inbox # <<>>
      BY <1>14 DEF ModemInfo
  <2>3. t \in Texts /\ t \notin Finals /\ t \notin SmsUnsoliciteds
      BY TextsAssumption DEF Texts
  <2>4. /\ Awaiting /\ sp_response # NULL /\ Head(inbox) = sp_response.cmd
        /\ \A i \in 1..Len(rx) : rx[i].text \notin Finals
      BY <1>2, <2>2 DEF InboxIsPending, Awaiting, TypeOK
  <2>5. Head(inbox) = issued /\ issued # 0 /\ issued \in Nat
      BY <1>2, <1>3, <2>2, <2>4 DEF Numbered, TypeOK
  <2> QED BY <1>1, <2>1, <2>2, <2>3, <2>4, <2>5, ModemSaysDelivers
<1>15. ASSUME ModemFinal PROVE Good'
  <2>1. PICK t \in FinalTexts : Say(t, Head(inbox))
      BY <1>15 DEF ModemFinal
  <2>2. /\ UNCHANGED <<sp_response, s_type, s_responsePrefix, pc, arg, id, out, rpc,
                       issued, emitted>>
        /\ inbox # <<>>
      BY <1>15 DEF ModemFinal
  <2>3. t \in Texts /\ t \in Finals /\ t \notin SmsUnsoliciteds
    <3>1. Finals \intersect SmsUnsoliciteds = {}
        BY DEF Finals, FinalResponsesError, FinalResponsesSuccess, SmsUnsoliciteds
    <3> QED BY <3>1, TextsAssumption DEF Texts
  <2>4. Head(inbox) \in Nat
      BY <2>2 DEF TypeOK
  <2> QED BY <1>1, <2>1, <2>2, <2>3, <2>4, ModemSaysDelivers
<1>16. ASSUME ModemUnsolicited PROVE Good'
  <2>1. PICK t \in UnsolTexts : Say(t, 0)
      BY <1>16 DEF ModemUnsolicited
  <2>2. UNCHANGED <<sp_response, s_type, s_responsePrefix, pc, arg, id, out, rpc,
                    issued, emitted>>
      BY <1>16 DEF ModemUnsolicited
  <2>3. t \in Texts /\ t \notin SmsUnsoliciteds
      BY <1>1 DEF Texts, Calm
  <2>4. CASE issued # 0
      BY <1>1, <2>1, <2>2, <2>3, <2>4, ModemSaysDelivers
  <2>5. CASE issued = 0
    <3>1. \A c \in Callers : ~InCall(c)
      <4>1. ASSUME NEW c \in Callers, InCall(c) PROVE FALSE
          BY <1>2, <2>5, <4>1 DEF Numbered, TypeOK, Responses
      <4> QED BY <4>1
    <3>2. /\ rx'[Len(rx')].text = t /\ \A i \in 1..Len(rx) : rx'[i] = rx[i]
          /\ \A i \in 1..Len(rx') : i = Len(rx') \/ i \in 1..Len(rx)
        BY <2>1, <2>3, SayAppends
    <3>3. NoSms' /\ Numbered' /\ Filled'
        BY <1>2, <2>2, <2>3, <3>1, <3>2 DEF NoSms, Numbered, Filled, InCall
    <3>4. \A c \in Callers : Delivered(c)'
        BY <1>2, <2>2 DEF Delivered
    <3> QED BY <3>3, <3>4
  <2> QED BY <2>4, <2>5
<1> HIDE DEF Good
<1> QED
    BY <1>4, <1>5, <1>6, <1>7, <1>8, <1>9, <1>10, <1>11, <1>12, <1>13, <1>14,
       <1>15, <1>16 DEF Next, SendCommand, Waits, Resume, Reader, Modem

(* Until a call times out or is refused, a call that returns a response      *)
(* returns all the lines of the answer its command asks for and nothing      *)
(* else of it, in the order they were said (or the first, if it asks for     *)
(* one): for any number of callers, any texts, answers of any length and any *)
(* lines that come in between, unless one of these took a place.             *)
THEOREM DeliveredCorrect == Spec => []DeliveredAsSpecified
<1>1. DeliverInv => DeliveredAsSpecified
    BY DEF DeliverInv, Calm, Delivered, DeliveredAsSpecified
<1> QED BY <1>1, InitDeliver, StepDeliver, OwnCorrect, ClearedCorrect, TypeCorrect,
           InitSync, StepSync, PTL DEF Spec

----------------------------------------------------------------------------
(****************************************************************************)
(* ATChannel implements ATService                                           *)
(****************************************************************************)
(* What the mapping makes of lists of lines and of responses.               *)

LEMMA CommandedEmpty == Commanded(<<>>) = {}
BY DEF Commanded

LEMMA CommandedAppend ==
    ASSUME NEW s \in Seq(Lines), NEW l \in Lines
    PROVE  Commanded(Append(s, l)) = Commanded(s) \cup {l.cmd}
<1>1. /\ Len(Append(s, l)) = Len(s) + 1 /\ Len(s) \in Nat
      /\ Append(s, l)[Len(s) + 1] = l
      /\ \A i \in 1..Len(s) : Append(s, l)[i] = s[i]
    OBVIOUS
<1>2. 1..(Len(s) + 1) = 1..Len(s) \cup {Len(s) + 1}
    BY <1>1
<1> QED BY <1>1, <1>2 DEF Commanded

LEMMA CommandedTail ==
    ASSUME NEW s \in Seq(Lines), s # <<>>
    PROVE  Commanded(s) = Commanded(Tail(s)) \cup {Head(s).cmd}
<1>a. Len(s) \in Nat \ {0} /\ Head(s) = s[1]
    OBVIOUS
<1>b. Len(Tail(s)) = Len(s) - 1
    OBVIOUS
<1>c. \A i \in 1..(Len(s) - 1) : Tail(s)[i] = s[i + 1]
    OBVIOUS
<1>1. /\ Len(Tail(s)) = Len(s) - 1 /\ Len(s) \in Nat \ {0} /\ Head(s) = s[1]
      /\ \A i \in 1..Len(Tail(s)) : Tail(s)[i] = s[i + 1] /\ i + 1 \in 1..Len(s)
    BY <1>a, <1>b, <1>c
<1>2. \A i \in 1..Len(s) : i = 1 \/ (i - 1 \in 1..Len(Tail(s)) /\ s[i] = Tail(s)[i - 1])
    BY <1>1
<1>3. ASSUME NEW k \in Commanded(s)
      PROVE  k \in Commanded(Tail(s)) \cup {Head(s).cmd}
  <2>1. PICK i \in 1..Len(s) : k = s[i].cmd
      BY <1>3 DEF Commanded
  <2>2. CASE i = 1
      BY <1>a, <2>1, <2>2
  <2>3. CASE i - 1 \in 1..Len(Tail(s)) /\ s[i] = Tail(s)[i - 1]
      BY <2>1, <2>3, Zenon DEF Commanded
  <2> QED BY <1>2, <2>2, <2>3
<1>4. ASSUME NEW k \in Commanded(Tail(s)) PROVE k \in Commanded(s)
  <2>1. PICK i \in 1..Len(Tail(s)) : k = Tail(s)[i].cmd
      BY <1>4 DEF Commanded
  <2>2. i + 1 \in 1..Len(s) /\ k = s[i + 1].cmd
      BY <1>1, <2>1
  <2> QED BY <2>2, Zenon DEF Commanded
<1>5. 1 \in 1..Len(s)
    BY <1>a
<1>6. Head(s).cmd \in Commanded(s)
    BY <1>a, <1>5, Zenon DEF Commanded
<1> QED BY <1>3, <1>4, <1>6

LEMMA CommandedCons ==
    ASSUME NEW s \in Seq(Lines), NEW l \in Lines
    PROVE  Commanded(<<l>> \o s) = Commanded(s) \cup {l.cmd}
<1>1. <<l>> \o s \in Seq(Lines) /\ <<l>> \o s # <<>>
      /\ Head(<<l>> \o s) = l /\ Tail(<<l>> \o s) = s
    OBVIOUS
<1> QED BY <1>1, CommandedTail

LEMMA CommandedReverse ==
    ASSUME NEW s \in Seq(Lines)
    PROVE  Commanded(Reverse(s)) = Commanded(s)
<1>1. \A i \in 1..Len(s) : /\ Len(s) - i + 1 \in 1..Len(s)
                           /\ s[i] = Reverse(s)[Len(s) - i + 1]
  <2> SUFFICES ASSUME NEW i \in 1..Len(s)
               PROVE  /\ Len(s) - i + 1 \in 1..Len(s)
                      /\ s[i] = Reverse(s)[Len(s) - i + 1]
      OBVIOUS
  <2>1. Len(s) - i + 1 \in 1..Len(s) /\ Len(s) - (Len(s) - i + 1) + 1 = i
      OBVIOUS
  <2> QED BY <2>1 DEF Reverse
<1>2. Len(Reverse(s)) = Len(s)
    BY ReverseElements
<1>3. Commanded(s) \subseteq Commanded(Reverse(s))
    BY <1>1, <1>2 DEF Commanded
<1>4. Commanded(Reverse(s)) \subseteq Commanded(s)
    BY ReverseElements DEF Commanded
<1> QED BY <1>3, <1>4

(* A response is pending for the service exactly when one is for the code.  *)
LEMMA HeldNull == Held(NULL) = Service!Nothing
BY CommandedEmpty DEF Held, NULL, NewResponse, NoLine, Done, Service!Nothing

LEMMA HeldResponse == \A r \in Responses : Held(r) # Service!Nothing
BY DEF Held, Responses, Service!Nothing

LEMMA PendingMaps ==
    ASSUME TypeOK
    PROVE  AbstractPending = Service!Nothing <=> sp_response = NULL
BY HeldNull, HeldResponse DEF TypeOK, AbstractPending

LEMMA SeenNull == \A e : Seen([err |-> e, resp |-> NULL]) = Service!Without(e)
BY CommandedEmpty DEF Seen, NULL, NewResponse, NoLine, Service!Without

(* A line that is final is not the missing one.                             *)
LEMMA FinalIsALine == \A l \in Lines : l.text \in Finals => l # NoLine
<1>1. "" \notin Finals
    BY DEF Finals, FinalResponsesError, FinalResponsesSuccess
<1>2. NoLine.text = ""
    BY DEF NoLine
<1> QED BY <1>1, <1>2

(* What a wrapper makes of a complete response is one of the service's      *)
(* outcomes.                                                                *)
LEMMA OutcomeMaps ==
    ASSUME NEW k \in Commands, NEW r \in Responses, r.finalResponse # NoLine
    PROVE  Seen(Result(k, r)) \in Service!Outcomes(Held(r))
<1>1. CASE ~k.wanted
    BY <1>1, SeenNull DEF Result, NoResult, Service!Outcomes
<1>2. CASE k.wanted /\ k.type \in {"SINGLELINE", "NUMERIC"}
             /\ r.success /\ r.p_intermediates = <<>>
  <2>1. Held(r).done = "ok" /\ Held(r).from = {}
      BY <1>2, CommandedEmpty DEF Held, Done
  <2>2. Seen(Result(k, r)) = Service!Without("INVALID_RESPONSE")
      BY <1>2, SeenNull DEF Result, NoResult
  <2> QED BY <2>1, <2>2 DEF Service!Outcomes
<1>3. CASE k.wanted /\ ~(/\ k.type \in {"SINGLELINE", "NUMERIC"}
                         /\ r.success /\ r.p_intermediates = <<>>)
  <2> DEFINE turned == [r EXCEPT !.p_intermediates = Reverse(r.p_intermediates)]
  <2>1. Result(k, r) = [err |-> "0", resp |-> turned]
      BY <1>3 DEF Result
  <2>2. /\ turned.cmd = r.cmd /\ turned.success = r.success
        /\ turned.finalResponse = r.finalResponse
        /\ turned.p_intermediates = Reverse(r.p_intermediates)
        /\ r.p_intermediates \in Seq(Lines) /\ r.cmd # 0
    <3>1. r \in [cmd : Nat \ {0}, success : BOOLEAN, finalResponse : Lines \union {NoLine},
                 p_intermediates : Seq(Lines)]
        BY DEF Responses
    <3> HIDE DEF NoLine
    <3> QED BY <3>1
  <2>3. turned # NULL
      BY <2>2, NullIsNoResponse
  <2>4. Commanded(turned.p_intermediates) = Commanded(r.p_intermediates)
      BY <2>2, CommandedReverse
  <2> HIDE DEF turned
  <2>5. Seen(Result(k, r)) = [err |-> "0", answer |-> Done(turned),
                              of |-> turned.finalResponse.cmd,
                              from |-> Commanded(turned.p_intermediates)]
      BY <2>1, <2>3 DEF Seen
  <2>6. Done(turned) = Done(r)
      BY <2>2 DEF Done
  <2>7. Seen(Result(k, r)) = Service!With(Held(r))
      BY <2>2, <2>4, <2>5, <2>6 DEF Held, Service!With
  <2> QED BY <2>7 DEF Service!Outcomes
<1> QED BY <1>1, <1>2, <1>3

----------------------------------------------------------------------------
(* The initial states map to the service's.                                 *)
LEMMA InitMaps == Init => Service!ServiceInit
<1> SUFFICES ASSUME Init PROVE Service!ServiceInit
    OBVIOUS
<1>1. AbstractOwed = {}
    BY DEF Init, AbstractOwed, Commanded
<1>2. AbstractPending = Service!Nothing
    BY HeldNull DEF Init, AbstractPending
<1>3. AbstractRet = [c \in Callers |-> Service!Without("0")]
    BY SeenNull DEF Init, AbstractRet
<1>4. AbstractAt = [c \in Callers |-> "out"]
    BY DEF Init, AbstractAt
<1>5. AbstractUpset = {}
    BY DEF Init, AbstractUpset
<1> QED BY <1>1, <1>2, <1>3, <1>4, <1>5 DEF Init, Service!ServiceInit

----------------------------------------------------------------------------
(* The steps of calls.                                                      *)

(* A call that returns and clears what is pending leaves the service.       *)
LEMMA LeaveMaps ==
    ASSUME TypeOK, NEW c \in Callers, NEW e, NEW r, Return(c, e, r),
           ClearPendingCommand, UNCHANGED <<proc, hungup, rx, inbox>>
    PROVE  Service!Leave(c, Seen([err |-> e, resp |-> r]))
<1>1. pc' = [pc EXCEPT ![c] = "idle"] /\ DOMAIN pc = Callers
      /\ out' = [out EXCEPT ![c] = [err |-> e, resp |-> r]] /\ DOMAIN out = Callers
      /\ id' = id
    BY DEF Return, TypeOK
<1>2. AbstractAt' = [AbstractAt EXCEPT ![c] = "out"]
    BY <1>1 DEF AbstractAt
<1>3. AbstractRet' = [AbstractRet EXCEPT ![c] = Seen([err |-> e, resp |-> r])]
    BY <1>1 DEF AbstractRet
<1>4. AbstractPending' = Service!Nothing
    BY HeldNull DEF ClearPendingCommand, AbstractPending
<1>5. AbstractOwed' = AbstractOwed
    BY DEF AbstractOwed
<1> QED BY <1>1, <1>2, <1>3, <1>4, <1>5 DEF Service!Leave

----------------------------------------------------------------------------
(* What the steps of the reader and of the modem rest on, whether or not    *)
(* calls time out or are refused.                                           *)

(* The descriptor is closed, and the reader on its way out, only after the   *)
(* line is dead.                                                             *)
LineGone == (s_fd = "closed" \/ rpc \in {"closing", "exiting"}) => hungup

(* Commands are numbered, answered and received in the order they are sent:  *)
(* nothing of a command comes after its final line or a later command's.     *)
RxKnown ==
    \A i \in 1..Len(rx) : /\ rx[i].cmd <= issued
                          /\ rx[i].cmd = 0 => rx[i].text \in UnsolTexts

(* How a line stands to the number of a command that comes later.            *)
Before(line, n) == /\ line.cmd <= n
                   /\ line.text \in Finals => line.cmd < n

RxSorted ==
    \A i, j \in 1..Len(rx) : i < j /\ rx[j].cmd # 0 => Before(rx[i], rx[j].cmd)

RxBeforeInbox ==
    \A i \in 1..Len(rx) : \A j \in 1..Len(inbox) : Before(rx[i], inbox[j])

InboxSorted == \A i, j \in 1..Len(inbox) : i < j => inbox[i] < inbox[j]

InOrder == RxKnown /\ RxSorted /\ RxBeforeInbox /\ InboxSorted

(* The calls made account for the commands sent and for those about to be.   *)
Unsent == {c \in Callers : pc[c] = "lock"}

Counted == IsFiniteSet(Unsent) /\ issued + Cardinality(Unsent) <= calls

LEMMA InitRest == Init => LineGone /\ InOrder /\ Counted
<1> SUFFICES ASSUME Init PROVE LineGone /\ InOrder /\ Counted
    OBVIOUS
<1>1. Unsent = {}
    BY DEF Init, Unsent
<1> QED BY <1>1, FS_EmptySet DEF Init, LineGone, InOrder, RxKnown, RxSorted,
       RxBeforeInbox, InboxSorted, Counted

LEMMA StepGone == TypeOK /\ LineGone /\ [Next]_vars => LineGone'
<1> SUFFICES ASSUME LineGone, [Next]_vars PROVE LineGone'
    OBVIOUS
<1>1. UNCHANGED <<s_fd, rpc, hungup>> => LineGone'
    BY DEF LineGone
<1>2. ASSUME ReadSms PROVE LineGone'
    BY <1>2 DEF ReadSms, LineGone
<1>3. ASSUME ReadEof PROVE LineGone'
    BY <1>3 DEF ReadEof, LineGone
<1>4. ASSUME CloseSignals PROVE LineGone'
    BY <1>4 DEF CloseSignals, LineGone
<1>5. ASSUME HangUp PROVE LineGone'
    BY <1>5 DEF HangUp, LineGone
<1>6. ASSUME NEW c \in Callers,
             \/ \E k \in Commands : Call(c, k)
             \/ SendCommand(c) \/ Waits(c) \/ SpuriousWake(c) \/ Resume(c)
      PROVE  UNCHANGED <<s_fd, rpc, hungup>>
    BY <1>6 DEF Call, SendCommand, SendPending, SendFails, SendOk, WriteAndWait,
           Waits, SliceExpires, NextSlice, TimedWait, Timeout, SpuriousWake,
           Resume, ResumeCrash, ResumeWait, ResumeTake, Take
<1>7. ASSUME ReadLine \/ ReaderExits \/ ModemInfo \/ ModemFinal \/ ModemIgnores
                \/ ModemUnsolicited \/ UNCHANGED vars
      PROVE  UNCHANGED <<s_fd, rpc, hungup>>
    BY <1>7 DEF ReadLine, ReaderExits, ModemInfo, ModemFinal, ModemIgnores,
           ModemUnsolicited, vars
<1> QED BY <1>1, <1>2, <1>3, <1>4, <1>5, <1>6, <1>7 DEF Next, Reader, Modem

LEMMA StepCounted == TypeOK /\ Counted /\ [Next]_vars => Counted'
<1> SUFFICES ASSUME TypeOK, Counted, [Next]_vars PROVE Counted'
    OBVIOUS
<1>a. /\ pc \in [Callers -> {"idle", "lock", "waiting", "expired", "woken"}]
      /\ issued \in Nat /\ calls \in Nat
      /\ IsFiniteSet(Unsent) /\ Cardinality(Unsent) \in Nat
    BY FS_CardinalityType, BoundsAssumption DEF TypeOK, Counted
<1>b. ASSUME NEW c \in Callers, pc' = [pc EXCEPT ![c] = pc'[c]], pc'[c] # "lock",
             issued' = issued \/ (pc[c] = "lock" /\ issued' = issued + 1), calls' = calls
      PROVE  Counted'
  <2>1. Unsent' = Unsent \ {c}
      BY <1>a, <1>b DEF Unsent
  <2>2. IsFiniteSet(Unsent') /\ Cardinality(Unsent')
            = IF pc[c] = "lock" THEN Cardinality(Unsent) - 1 ELSE Cardinality(Unsent)
      BY <1>a, <2>1, FS_RemoveElement DEF Unsent
  <2> QED BY <1>a, <1>b, <2>2 DEF Counted
<1>c. ASSUME Unsent' = Unsent, UNCHANGED <<issued, calls>> PROVE Counted'
    BY <1>c DEF Counted
<1>1. ASSUME NEW c \in Callers, NEW k \in Commands, Call(c, k) PROVE Counted'
  <2>1. Unsent' = Unsent \cup {c} /\ c \notin Unsent
      BY <1>1, <1>a DEF Call, Unsent
  <2>2. IsFiniteSet(Unsent') /\ Cardinality(Unsent') = Cardinality(Unsent) + 1
      BY <1>a, <2>1, FS_AddElement
  <2>3. issued' = issued /\ calls' = calls + 1
      BY <1>1 DEF Call
  <2> QED BY <1>a, <2>2, <2>3 DEF Counted
<1>2. ASSUME NEW c \in Callers,
             SendPending(c) \/ SendFails(c) \/ Timeout(c) \/ ResumeTake(c)
      PROVE  Counted'
  <2>1. pc' = [pc EXCEPT ![c] = "idle"] /\ UNCHANGED <<issued, calls>>
      BY <1>2 DEF SendPending, SendFails, Timeout, ResumeTake, Take, Return
  <2> QED BY <1>a, <1>b, <2>1
<1>3. ASSUME NEW c \in Callers, SendOk(c) PROVE Counted'
    BY <1>3, <1>a, <1>b DEF SendOk, WriteAndWait
<1>4. ASSUME NEW c \in Callers,
             SliceExpires(c) \/ NextSlice(c) \/ SpuriousWake(c) \/ ResumeWait(c)
      PROVE  Counted'
  <2>1. /\ \E p \in {"expired", "waiting", "woken"} : pc' = [pc EXCEPT ![c] = p]
        /\ UNCHANGED <<issued, calls>>
      BY <1>4 DEF SliceExpires, NextSlice, SpuriousWake, ResumeWait, TimedWait
  <2> QED BY <1>a, <1>b, <2>1
<1>5. ASSUME NEW c \in Callers, ResumeCrash(c) PROVE Counted'
    BY <1>5, <1>c DEF ResumeCrash, Unsent
<1>6. ASSUME Signal PROVE Unsent' = Unsent
    BY <1>6, <1>a DEF Signal, Unsent
<1>7. ASSUME ReadLine \/ CloseSignals PROVE Counted'
  <2>1. (Signal \/ UNCHANGED pc) /\ UNCHANGED <<issued, calls>>
      BY <1>7 DEF ReadLine, ProcessLine, HandleFinalResponse, CloseSignals
  <2> QED BY <1>6, <1>c, <2>1 DEF Unsent
<1>8. ASSUME ReadSms \/ ReadEof \/ ReaderExits \/ Modem \/ UNCHANGED vars PROVE Counted'
  <2>1. UNCHANGED <<pc, issued, calls>>
      BY <1>8 DEF ReadSms, ReadEof, ReaderExits, Modem, ModemInfo, ModemFinal,
                  ModemIgnores, ModemUnsolicited, HangUp, vars
  <2> QED BY <1>c, <2>1 DEF Unsent
<1> QED BY <1>1, <1>2, <1>3, <1>4, <1>5, <1>7, <1>8
        DEF Next, SendCommand, Waits, Resume, Reader

(* The first command in the inbox goes, or one joins it at the end.          *)
LEMMA InboxTail ==
    ASSUME TypeOK, inbox # <<>>
    PROVE  /\ Head(inbox) = inbox[1] /\ Len(inbox) \in Nat \ {0}
           /\ Head(inbox) \in Nat \ {0} /\ Head(inbox) <= issued
           /\ Len(Tail(inbox)) = Len(inbox) - 1
           /\ \A i \in 1..Len(Tail(inbox)) :
                 i + 1 \in 1..Len(inbox) /\ Tail(inbox)[i] = inbox[i + 1]
<1>1. inbox \in Seq(1..issued) /\ issued \in Nat
    BY DEF TypeOK
<1>2. Tail(inbox) \in Seq(1..issued) /\ Len(Tail(inbox)) = Len(inbox) - 1
      /\ Head(inbox) = inbox[1] /\ Len(inbox) \in Nat \ {0} /\ inbox[1] \in 1..issued
    BY <1>1
<1>3. \A i \in 1..Len(Tail(inbox)) : i + 1 \in 1..Len(inbox) /\ Tail(inbox)[i] = inbox[i + 1]
    BY <1>1, <1>2
<1> QED BY <1>1, <1>2, <1>3

LEMMA InboxAppend ==
    ASSUME TypeOK
    PROVE  /\ Len(Append(inbox, issued + 1)) = Len(inbox) + 1 /\ Len(inbox) \in Nat
           /\ Append(inbox, issued + 1)[Len(inbox) + 1] = issued + 1
           /\ \A i \in 1..Len(inbox) : /\ Append(inbox, issued + 1)[i] = inbox[i]
                                      /\ inbox[i] <= issued /\ inbox[i] \in Nat \ {0}
           /\ \A i \in 1..Len(Append(inbox, issued + 1)) :
                 i = Len(inbox) + 1 \/ i \in 1..Len(inbox)
<1>1. inbox \in Seq(1..issued) /\ issued \in Nat
    BY DEF TypeOK
<1>2. \A i \in 1..Len(inbox) : inbox[i] <= issued /\ inbox[i] \in Nat \ {0}
    BY <1>1
<1> QED BY <1>1, <1>2

LEMMA LineOfRx ==
    ASSUME TypeOK, NEW i \in 1..Len(rx)
    PROVE  rx[i] \in Lines /\ rx[i].cmd \in Nat /\ i \in Nat
<1>1. rx \in Seq(Lines)
    BY DEF TypeOK
<1>2. rx[i] \in Lines /\ i \in Nat
    BY <1>1
<1> QED BY <1>2 DEF Lines

LEMMA StepOrder == TypeOK /\ InOrder /\ [Next]_vars => InOrder'
<1> SUFFICES ASSUME TypeOK, InOrder, [Next]_vars PROVE InOrder'
    OBVIOUS
<1>p. RxKnown /\ RxSorted /\ RxBeforeInbox /\ InboxSorted /\ issued \in Nat
    BY DEF InOrder, TypeOK
<1>l. \A i \in 1..Len(rx) : rx[i].cmd \in Nat /\ i \in Nat
    BY LineOfRx
<1>a. ASSUME UNCHANGED <<rx, inbox, issued>> PROVE InOrder'
    BY <1>a, <1>p DEF InOrder, RxKnown, RxSorted, RxBeforeInbox, InboxSorted
(* A command is sent: its number is the largest.                             *)
<1>b. ASSUME rx' = rx, issued' = issued + 1, inbox' = Append(inbox, issued + 1)
      PROVE  InOrder'
  <2>1. RxKnown' /\ RxSorted'
      BY <1>b, <1>p, <1>l DEF RxKnown, RxSorted
  <2>2. RxBeforeInbox'
      BY <1>b, <1>p, <1>l, InboxAppend DEF RxKnown, RxBeforeInbox, Before
  <2>3. InboxSorted'
      BY <1>b, <1>p, InboxAppend DEF InboxSorted
  <2> QED BY <2>1, <2>2, <2>3 DEF InOrder
(* The reader takes a line.                                                  *)
<1>c. ASSUME rx # <<>>, rx' = Tail(rx), UNCHANGED <<inbox, issued>> PROVE InOrder'
  <2>1. /\ Len(rx') = Len(rx) - 1
        /\ \A i \in 1..Len(rx') : i + 1 \in 1..Len(rx) /\ rx'[i] = rx[i + 1]
      BY <1>c, TailOfRx
  <2>2. RxKnown' /\ RxBeforeInbox' /\ InboxSorted'
      BY <1>c, <1>p, <2>1 DEF RxKnown, RxBeforeInbox, InboxSorted
  <2>3. ASSUME NEW i \in 1..Len(rx'), NEW j \in 1..Len(rx'), i < j, rx'[j].cmd # 0
        PROVE  Before(rx'[i], rx'[j].cmd)
    <3>1. /\ i + 1 \in 1..Len(rx) /\ j + 1 \in 1..Len(rx) /\ i + 1 < j + 1
          /\ rx'[i] = rx[i + 1] /\ rx'[j] = rx[j + 1]
        BY <2>1, <2>3
    <3> QED BY <1>p, <2>3, <3>1 DEF RxSorted
  <2> QED BY <2>2, <2>3 DEF InOrder, RxSorted
(* The modem says a line, in answer to the first command of the inbox or to  *)
(* none.                                                                     *)
<1>d. ASSUME NEW t \in Texts, NEW n \in Nat, n <= issued,
             rx' = Append(rx, [text |-> t, cmd |-> n]),
             n = 0 => t \in UnsolTexts,
             n # 0 => inbox # <<>> /\ n = Head(inbox),
             issued' = issued, inbox' = inbox \/ (inbox # <<>> /\ inbox' = Tail(inbox)),
             n # 0 /\ t \in Finals => inbox # <<>> /\ inbox' = Tail(inbox)
      PROVE  InOrder'
  <2>1. /\ Len(rx') = Len(rx) + 1 /\ Len(rx) \in Nat
        /\ rx'[Len(rx')].text = t /\ rx'[Len(rx')].cmd = n
        /\ \A i \in 1..Len(rx) : rx'[i] = rx[i]
        /\ \A i \in 1..Len(rx') : i = Len(rx') \/ i \in 1..Len(rx)
    <3>1. Say(t, n) /\ Len(rx) \in Nat
        BY <1>d DEF Say, TypeOK
    <3> QED BY <3>1, <1>d, SayAppends
  <2>2. \A j \in 1..Len(inbox') :
            /\ \E k \in 1..Len(inbox) : inbox'[j] = inbox[k] /\ inbox'[j] \in Nat \ {0}
            /\ n <= inbox'[j]
            /\ n = 0 => n < inbox'[j]
            /\ (inbox' # inbox /\ n # 0) => n < inbox'[j]
    <3>1. \A k \in 1..Len(inbox) : inbox[k] \in Nat \ {0}
        BY InboxAppend
    <3>2. CASE inbox' = inbox
      <4>1. n # 0 => \A k \in 1..Len(inbox) : n <= inbox[k]
          BY <1>d, <1>p, <3>1, InboxTail DEF InboxSorted
      <4> QED BY <3>1, <3>2, <4>1, <1>d
    <3>3. CASE inbox # <<>> /\ inbox' = Tail(inbox)
      <4>1. \A j \in 1..Len(inbox') : /\ j + 1 \in 1..Len(inbox) /\ inbox'[j] = inbox[j + 1]
                                      /\ inbox[1] < inbox[j + 1]
          BY <1>p, <3>3, InboxTail DEF InboxSorted
      <4>2. n = 0 \/ n = inbox[1]
          BY <1>d, <3>3, InboxTail
      <4>3. \A j \in 1..Len(inbox') :
                inbox'[j] \in Nat \ {0} /\ (n = inbox[1] => n < inbox'[j])
          BY <3>1, <4>1
      <4> QED BY <1>d, <4>1, <4>2, <4>3
    <3> QED BY <1>d, <3>2, <3>3
  <2>3. RxKnown'
      BY <1>d, <1>p, <2>1 DEF RxKnown
  <2>4. RxSorted'
    <3> SUFFICES ASSUME NEW i \in 1..Len(rx'), NEW j \in 1..Len(rx'), i < j, rx'[j].cmd # 0
                 PROVE  Before(rx'[i], rx'[j].cmd)
        BY DEF RxSorted
    <3>1. i \in 1..Len(rx) /\ rx'[i] = rx[i]
        BY <2>1
    <3>2. CASE j \in 1..Len(rx)
        BY <1>p, <2>1, <3>1, <3>2 DEF RxSorted
    <3>3. CASE j = Len(rx')
      <4>1. n # 0 /\ rx'[j].cmd = inbox[1] /\ 1 \in 1..Len(inbox)
          BY <1>d, <2>1, <3>3, InboxTail
      <4> QED BY <1>p, <3>1, <4>1 DEF RxBeforeInbox
    <3> QED BY <2>1, <3>2, <3>3
  <2>5. RxBeforeInbox'
    <3> SUFFICES ASSUME NEW i \in 1..Len(rx'), NEW j \in 1..Len(inbox')
                 PROVE  Before(rx'[i], inbox'[j])
        BY DEF RxBeforeInbox
    <3>1. PICK k \in 1..Len(inbox) : inbox'[j] = inbox[k]
        BY <2>2
    <3>2. CASE i \in 1..Len(rx)
        BY <1>p, <2>1, <3>1, <3>2 DEF RxBeforeInbox
    <3>3. CASE i = Len(rx')
      <4>1. n <= inbox'[j] /\ (t \in Finals => n < inbox'[j])
        <5>1. CASE n = 0
            BY <2>2, <5>1
        <5>2. CASE n # 0 /\ t \notin Finals
            BY <2>2, <5>2
        <5>3. CASE n # 0 /\ t \in Finals
          <6>1. inbox' # inbox
              BY <1>d, <5>3, InboxTail
          <6> QED BY <2>2, <5>3, <6>1
        <5> QED BY <5>1, <5>2, <5>3
      <4> QED BY <2>1, <3>3, <4>1 DEF Before
    <3> QED BY <2>1, <3>2, <3>3
  <2>6. InboxSorted'
    <3>1. CASE inbox' = inbox
        BY <1>p, <3>1 DEF InboxSorted
    <3>2. CASE inbox # <<>> /\ inbox' = Tail(inbox)
      <4> SUFFICES ASSUME NEW i \in 1..Len(inbox'), NEW j \in 1..Len(inbox'), i < j
                   PROVE  inbox'[i] < inbox'[j]
          BY DEF InboxSorted
      <4>1. /\ i + 1 \in 1..Len(inbox) /\ j + 1 \in 1..Len(inbox) /\ i + 1 < j + 1
            /\ inbox'[i] = inbox[i + 1] /\ inbox'[j] = inbox[j + 1]
          BY <3>2, InboxTail
      <4> QED BY <1>p, <4>1 DEF InboxSorted
    <3> QED BY <1>d, <3>1, <3>2
  <2> QED BY <2>3, <2>4, <2>5, <2>6 DEF InOrder
<1>1. ASSUME NEW c \in Callers, SendOk(c) PROVE InOrder'
    BY <1>1, <1>b DEF SendOk, WriteAndWait
<1>2. ASSUME ReadLine \/ ReadSms PROVE InOrder'
    BY <1>2, <1>c DEF ReadLine, ReadSms
<1>3. ASSUME ModemInfo PROVE InOrder'
  <2>1. PICK t \in InfoTexts : rx' = Append(rx, [text |-> t, cmd |-> Head(inbox)])
      BY <1>3 DEF ModemInfo, Say
  <2>2. t \in Texts /\ t \notin Finals
      BY TextsAssumption DEF Texts
  <2>3. inbox # <<>> /\ UNCHANGED <<inbox, issued>>
      BY <1>3 DEF ModemInfo
  <2>4. Head(inbox) \in Nat /\ Head(inbox) <= issued /\ Head(inbox) # 0
      BY <2>3, InboxTail
  <2>5. issued' = issued /\ inbox' = inbox
      BY <2>3
  <2> QED BY <1>d, <2>1, <2>2, <2>3, <2>4, <2>5
<1>4. ASSUME ModemFinal PROVE InOrder'
  <2>1. PICK t \in FinalTexts : rx' = Append(rx, [text |-> t, cmd |-> Head(inbox)])
      BY <1>4 DEF ModemFinal, Say
  <2>2. t \in Texts
      BY DEF Texts
  <2>3. inbox # <<>> /\ inbox' = Tail(inbox) /\ issued' = issued
      BY <1>4 DEF ModemFinal
  <2> QED BY <1>d, <2>1, <2>2, <2>3, InboxTail
<1>5. ASSUME ModemIgnores PROVE InOrder'
  <2>1. inbox # <<>> /\ inbox' = Tail(inbox) /\ UNCHANGED <<rx, issued>>
      BY <1>5 DEF ModemIgnores
  <2>2. RxKnown' /\ RxSorted'
      BY <1>p, <2>1 DEF RxKnown, RxSorted
  <2>3. RxBeforeInbox' /\ InboxSorted'
      BY <1>p, <2>1, InboxTail DEF RxBeforeInbox, InboxSorted
  <2> QED BY <2>2, <2>3 DEF InOrder
<1>6. ASSUME ModemUnsolicited PROVE InOrder'
  <2>1. PICK t \in UnsolTexts : rx' = Append(rx, [text |-> t, cmd |-> 0])
      BY <1>6 DEF ModemUnsolicited, Say
  <2>2. t \in Texts
      BY DEF Texts
  <2>3. UNCHANGED <<inbox, issued>>
      BY <1>6 DEF ModemUnsolicited
  <2>4. 0 \in Nat /\ 0 <= issued
      BY <1>p
  <2>5. issued' = issued /\ inbox' = inbox
      BY <2>3
  <2> QED BY <1>d, <2>1, <2>2, <2>4, <2>5
<1>7. ASSUME NEW c \in Callers,
             \/ \E k \in Commands : Call(c, k)
             \/ SendPending(c) \/ SendFails(c) \/ Waits(c) \/ SpuriousWake(c) \/ Resume(c)
      PROVE  InOrder'
    BY <1>7, <1>a DEF Call, SendPending, SendFails, Waits, SliceExpires, NextSlice,
           TimedWait, Timeout, SpuriousWake, Resume, ResumeCrash, ResumeWait,
           ResumeTake, Take
<1>8. ASSUME ReadEof \/ CloseSignals \/ ReaderExits \/ HangUp \/ UNCHANGED vars
      PROVE  InOrder'
    BY <1>8, <1>a DEF ReadEof, CloseSignals, ReaderExits, HangUp, vars
<1> QED BY <1>1, <1>2, <1>3, <1>4, <1>5, <1>6, <1>7, <1>8
        DEF Next, SendCommand, Reader, Modem

----------------------------------------------------------------------------
(* What the mapping makes of the steps on rx and inbox.                      *)

LEMMA IssuedBound ==
    ASSUME TypeOK, Counted
    PROVE  /\ issued \in Nat /\ issued <= MaxCalls
           /\ \A c \in Callers : pc[c] = "lock" => issued + 1 \in AbstractNumbers
<1>1. /\ issued \in Nat /\ calls \in Nat /\ calls <= MaxCalls /\ MaxCalls \in Nat
      /\ IsFiniteSet(Unsent) /\ Cardinality(Unsent) \in Nat
      /\ issued + Cardinality(Unsent) <= calls
    BY FS_CardinalityType, BoundsAssumption DEF TypeOK, Counted
<1>2. ASSUME NEW c \in Callers, pc[c] = "lock" PROVE issued + 1 \in AbstractNumbers
  <2>1. Unsent # {}
      BY <1>2 DEF Unsent
  <2>2. Cardinality(Unsent) # 0
      BY <1>1, <2>1, FS_EmptySet
  <2> QED BY <1>1, <2>2 DEF AbstractNumbers
<1> QED BY <1>1, <1>2

LEMMA OwedKnown ==
    ASSUME TypeOK, InOrder
    PROVE  \A k \in AbstractOwed : k \in Nat \ {0} /\ k <= issued
<1>1. \A i \in 1..Len(rx) : rx[i].cmd \in Nat /\ rx[i].cmd <= issued
    BY LineOfRx DEF InOrder, RxKnown
<1>2. \A i \in 1..Len(inbox) : inbox[i] \in Nat \ {0} /\ inbox[i] <= issued
    BY InboxAppend
<1> QED BY <1>1, <1>2 DEF AbstractOwed, Commanded

LEMMA SendOwes ==
    ASSUME TypeOK, InOrder, rx' = rx, inbox' = Append(inbox, issued + 1)
    PROVE  /\ AbstractOwed' = AbstractOwed \cup {issued + 1}
           /\ \A k \in AbstractOwed : k < issued + 1
<1>1. issued \in Nat
    BY DEF TypeOK
<1>2. {inbox'[i] : i \in 1..Len(inbox')} = {inbox[i] : i \in 1..Len(inbox)} \cup {issued + 1}
  <2>1. \A i \in 1..Len(inbox') : i = Len(inbox) + 1 \/ i \in 1..Len(inbox)
      BY InboxAppend
  <2>2. /\ Len(inbox') = Len(inbox) + 1 /\ Len(inbox) \in Nat
        /\ inbox'[Len(inbox) + 1] = issued + 1
        /\ \A i \in 1..Len(inbox) : inbox'[i] = inbox[i] /\ i \in 1..Len(inbox')
      BY InboxAppend
  <2>3. Len(inbox) + 1 \in 1..Len(inbox')
      BY <2>2
  <2> QED BY <2>1, <2>2, <2>3
<1>3. AbstractOwed' = AbstractOwed \cup {issued + 1}
    BY <1>1, <1>2 DEF AbstractOwed
<1> QED BY <1>1, <1>3, OwedKnown

(* The line that is read is of the oldest command owed one.                  *)
LEMMA ReadOwes ==
    ASSUME TypeOK, InOrder, Counted, rx # <<>>, rx' = Tail(rx), inbox' = inbox,
           NEW n, n = Head(rx).cmd
    PROVE  /\ n \in AbstractNumbers \cup {0}
           /\ n = 0 \/ (n \in AbstractOwed /\ \A k \in AbstractOwed : n <= k)
           /\ AbstractOwed' = AbstractOwed \/ AbstractOwed' = AbstractOwed \ {n}
           /\ Head(rx).text \in Finals => AbstractOwed' = AbstractOwed \ {n}
<1>1. rx \in Seq(Lines) /\ Len(rx) \in Nat \ {0} /\ Head(rx) = rx[1] /\ 1 \in 1..Len(rx)
    BY DEF TypeOK
<1>2. n = rx[1].cmd /\ n \in Nat /\ n <= issued
    BY <1>1, LineOfRx DEF InOrder, RxKnown
<1>3. n \in AbstractNumbers \cup {0}
    BY <1>2, IssuedBound, BoundsAssumption DEF AbstractNumbers
<1>4. Commanded(rx) = Commanded(rx') \cup {n}
    BY <1>1, CommandedTail
<1>5. AbstractOwed \ {n} \subseteq AbstractOwed' /\ AbstractOwed' \subseteq AbstractOwed
    BY <1>4 DEF AbstractOwed
<1>6. /\ Len(rx') = Len(rx) - 1
      /\ \A i \in 1..Len(rx') : i + 1 \in 1..Len(rx) /\ rx'[i] = rx[i + 1]
    BY TailOfRx
<1>7. ASSUME NEW k \in AbstractOwed'
      PROVE  n <= k /\ (Head(rx).text \in Finals => n < k) /\ k \in Nat
  <2>1. k \in Nat \ {0}
      BY <1>5, <1>7, OwedKnown
  <2>2. CASE k \in Commanded(rx')
    <3>1. PICK i \in 1..Len(rx') : k = rx'[i].cmd
        BY <2>2 DEF Commanded
    <3>2. i + 1 \in 1..Len(rx) /\ k = rx[i + 1].cmd /\ 1 < i + 1
        BY <1>6, <3>1
    <3>3. Before(rx[1], k)
        BY <1>1, <2>1, <3>2 DEF InOrder, RxSorted
    <3> QED BY <1>1, <1>2, <2>1, <3>3 DEF Before
  <2>3. CASE k \in {inbox[i] : i \in 1..Len(inbox)}
    <3>1. Before(rx[1], k)
        BY <1>1, <2>3 DEF InOrder, RxBeforeInbox
    <3> QED BY <1>1, <1>2, <2>1, <3>1 DEF Before
  <2> QED BY <1>7, <2>2, <2>3 DEF AbstractOwed
<1>8. n # 0 => n \in AbstractOwed
    BY <1>4 DEF AbstractOwed
<1>9. \A k \in AbstractOwed : n <= k
    BY <1>2, <1>5, <1>7
<1>10. Head(rx).text \in Finals => AbstractOwed' = AbstractOwed \ {n}
  <2>1. Head(rx).text \in Finals => n \notin AbstractOwed'
      BY <1>2, <1>7
  <2> QED BY <1>5, <2>1
<1> QED BY <1>3, <1>5, <1>8, <1>9, <1>10

(* What the modem says changes nothing of what is owed.                      *)
LEMMA SayOwes ==
    ASSUME TypeOK, NEW t \in Texts, NEW n \in Nat, rx' = Append(rx, [text |-> t, cmd |-> n])
    PROVE  Commanded(rx') = Commanded(rx) \cup {n}
<1>1. [text |-> t, cmd |-> n] \in Lines /\ rx \in Seq(Lines)
    BY DEF Lines, TypeOK
<1> QED BY <1>1, CommandedAppend

LEMMA InboxHead ==
    ASSUME TypeOK, inbox # <<>>
    PROVE  {inbox[i] : i \in 1..Len(inbox)}
               = {Tail(inbox)[i] : i \in 1..Len(Tail(inbox))} \cup {Head(inbox)}
<1>1. Head(inbox) = inbox[1] /\ 1 \in 1..Len(inbox)
    BY InboxTail
<1>2. \A i \in 1..Len(Tail(inbox)) : i + 1 \in 1..Len(inbox) /\ Tail(inbox)[i] = inbox[i + 1]
    BY InboxTail
<1>3. ASSUME NEW i \in 1..Len(inbox), i # 1
      PROVE  \E j \in 1..Len(Tail(inbox)) : inbox[i] = Tail(inbox)[j]
  <2>1. i - 1 \in 1..Len(Tail(inbox)) /\ (i - 1) + 1 = i
      BY <1>3, InboxTail
  <2>2. Tail(inbox)[i - 1] = inbox[i]
      BY <1>2, <2>1
  <2> QED BY <2>1, <2>2
<1> DEFINE A == {inbox[i] : i \in 1..Len(inbox)}
           B == {Tail(inbox)[i] : i \in 1..Len(Tail(inbox))} \cup {Head(inbox)}
<1>4. A \subseteq B
    BY <1>1, <1>3, SMTT(20)
<1>5. B \subseteq A
    BY <1>1, <1>2
<1> QED BY <1>4, <1>5

----------------------------------------------------------------------------
(* Each step of the channel is a step of the service.                        *)

InWait == {"waiting", "expired", "woken"}

(* Where a caller is within its wait does not show.                          *)
LEMMA WaitMaps ==
    ASSUME TypeOK, NEW c \in Callers, NEW p \in InWait, pc[c] \in InWait,
           pc' = [pc EXCEPT ![c] = p]
    PROVE  AbstractAt' = AbstractAt
BY DEF TypeOK, InWait, AbstractAt

LEMMA SignalMaps ==
    ASSUME TypeOK, Signal
    PROVE  AbstractAt' = AbstractAt
<1>1. CASE UNCHANGED pc
    BY <1>1 DEF AbstractAt
<1>2. ASSUME NEW c \in Callers, pc[c] = "waiting", pc' = [pc EXCEPT ![c] = "woken"]
      PROVE  AbstractAt' = AbstractAt
    BY <1>2, WaitMaps DEF InWait
<1> QED BY <1>1, <1>2 DEF Signal

LEMMA StutterMaps ==
    ASSUME AbstractAt' = AbstractAt, AbstractOwed' = AbstractOwed,
           UNCHANGED <<proc, hungup, id, out, sp_response, refused, lapsed>>
    PROVE  UNCHANGED Service!serviceVars
<1>1. AbstractRet' = AbstractRet /\ AbstractPending' = AbstractPending
      /\ AbstractUpset' = AbstractUpset
    BY DEF AbstractRet, AbstractPending, AbstractUpset
<1> QED BY <1>1 DEF Service!serviceVars

LEMMA CallMaps ==
    ASSUME TypeOK, NEW c \in Callers, NEW k \in Commands, Call(c, k)
    PROVE  Service!Ask(c)
<1>1. /\ pc[c] = "idle" /\ DOMAIN pc = Callers /\ DOMAIN out = Callers
      /\ pc' = [pc EXCEPT ![c] = "lock"] /\ id' = [id EXCEPT ![c] = 0]
      /\ out' = [out EXCEPT ![c] = [err |-> "0", resp |-> NULL]]
      /\ UNCHANGED <<proc, hungup, sp_response, rx, inbox, refused, lapsed>>
    BY DEF Call, TypeOK
<1>2. AbstractAt[c] = "out" /\ AbstractAt' = [AbstractAt EXCEPT ![c] = "asking"]
    BY <1>1 DEF AbstractAt
<1>3. AbstractRet' = [AbstractRet EXCEPT ![c] = Service!Without("0")]
    BY <1>1, SeenNull DEF AbstractRet
<1>4. /\ AbstractPending' = AbstractPending /\ AbstractOwed' = AbstractOwed
      /\ AbstractUpset' = AbstractUpset
    BY <1>1 DEF AbstractPending, AbstractOwed, AbstractUpset
<1> QED BY <1>1, <1>2, <1>3, <1>4 DEF Service!Ask

LEMMA SendPendingMaps ==
    ASSUME TypeOK, NEW c \in Callers, SendPending(c)
    PROVE  Service!Refuse(c)
<1>1. /\ pc[c] = "lock" /\ sp_response # NULL /\ ClearPendingCommand
      /\ Return(c, "COMMAND_PENDING", NULL)
      /\ UNCHANGED <<proc, hungup, rx, inbox>>
      /\ refused' = TRUE /\ lapsed' = lapsed
    BY DEF SendPending
<1>2. Service!Leave(c, Service!Without("COMMAND_PENDING"))
    BY <1>1, LeaveMaps, SeenNull
<1>3. AbstractAt[c] = "asking" /\ AbstractPending # Service!Nothing
    BY <1>1, PendingMaps DEF AbstractAt
<1>4. AbstractUpset' = AbstractUpset \cup {"refused"}
    BY <1>1 DEF AbstractUpset
<1> QED BY <1>2, <1>3, <1>4 DEF Service!Refuse

LEMMA TimeoutMaps ==
    ASSUME TypeOK, NEW c \in Callers, Timeout(c)
    PROVE  Service!Expire(c)
<1>1. /\ pc[c] = "expired" /\ ClearPendingCommand /\ Return(c, "TIMEOUT", NULL)
      /\ UNCHANGED <<proc, hungup, rx, inbox>>
      /\ lapsed' = TRUE /\ refused' = refused
    BY DEF Timeout
<1>2. Service!Leave(c, Service!Without("TIMEOUT"))
    BY <1>1, LeaveMaps, SeenNull
<1>3. AbstractAt[c] = "waiting"
    BY <1>1 DEF AbstractAt
<1>4. AbstractUpset' = AbstractUpset \cup {"late"}
    BY <1>1 DEF AbstractUpset
<1> QED BY <1>2, <1>3, <1>4 DEF Service!Expire

LEMMA SendFailsMaps ==
    ASSUME TypeOK, LineGone, NEW c \in Callers, SendFails(c)
    PROVE  Service!Fail(c)
<1>1. PICK e \in {"CHANNEL_CLOSED", "GENERIC"} : Return(c, e, NULL)
    BY DEF SendFails
<1>2. /\ pc[c] = "lock" /\ sp_response = NULL /\ ClearPendingCommand /\ hungup
      /\ UNCHANGED <<proc, hungup, rx, inbox, refused, lapsed>>
    BY DEF SendFails, LineGone
<1>3. Service!Leave(c, Service!Without(e))
    BY <1>1, <1>2, LeaveMaps, SeenNull
<1>4. AbstractAt[c] = "asking" /\ AbstractPending = Service!Nothing
    BY <1>2, PendingMaps DEF AbstractAt
<1>5. AbstractUpset' = AbstractUpset
    BY <1>2 DEF AbstractUpset
<1> QED BY <1>2, <1>3, <1>4, <1>5 DEF Service!Fail

LEMMA SendOkMaps ==
    ASSUME TypeOK, InOrder, Counted, NEW c \in Callers, SendOk(c)
    PROVE  issued + 1 \in AbstractNumbers /\ Service!Send(c, issued + 1)
<1>1. /\ pc[c] = "lock" /\ sp_response = NULL /\ DOMAIN pc = Callers /\ issued \in Nat
      /\ pc' = [pc EXCEPT ![c] = "waiting"] /\ id' = [id EXCEPT ![c] = issued + 1]
      /\ sp_response' = NewResponse(issued + 1) /\ inbox' = Append(inbox, issued + 1)
      /\ UNCHANGED <<proc, hungup, out, rx, refused, lapsed>>
    BY DEF SendOk, WriteAndWait, TypeOK
<1>2. AbstractAt[c] = "asking" /\ AbstractAt' = [AbstractAt EXCEPT ![c] = "waiting"]
    BY <1>1 DEF AbstractAt
<1>3. AbstractPending = Service!Nothing
    BY <1>1, PendingMaps
<1>4. AbstractPending' = [Service!Nothing EXCEPT !.num = issued + 1]
  <2>1. AbstractPending' = Held(NewResponse(issued + 1))
      BY <1>1 DEF AbstractPending
  <2>2. Done(NewResponse(issued + 1)) = "no"
      BY DEF Done, NewResponse
  <2>3. Held(NewResponse(issued + 1)) = [num |-> issued + 1, done |-> "no",
                                         of |-> 0, from |-> {}]
      BY <2>2, CommandedEmpty DEF Held, NewResponse, NoLine
  <2> QED BY <2>1, <2>3 DEF Service!Nothing
<1>5. AbstractRet' = AbstractRet /\ AbstractUpset' = AbstractUpset
    BY <1>1 DEF AbstractRet, AbstractUpset
<1> QED BY <1>1, <1>2, <1>3, <1>4, <1>5, SendOwes, IssuedBound DEF Service!Send, Service!Sent

LEMMA ResumeMaps ==
    ASSUME TypeOK, NEW c \in Callers
    PROVE  /\ ResumeCrash(c) => Service!Crash(c)
           /\ ResumeTake(c) => \E r \in Service!Outcomes(AbstractPending) : Service!Take(c, r)
<1>1. ASSUME ResumeCrash(c) PROVE Service!Crash(c)
  <2>1. AbstractAt[c] = "waiting" /\ AbstractPending = Service!Nothing
      BY <1>1, PendingMaps DEF ResumeCrash, AbstractAt
  <2>2. /\ proc' = "crashed" /\ UNCHANGED <<hungup, id>>
        /\ AbstractAt' = AbstractAt /\ AbstractRet' = AbstractRet
        /\ AbstractPending' = AbstractPending /\ AbstractOwed' = AbstractOwed
        /\ AbstractUpset' = AbstractUpset
      BY <1>1 DEF ResumeCrash, AbstractAt, AbstractRet, AbstractPending, AbstractOwed,
                  AbstractUpset
  <2> QED BY <2>1, <2>2 DEF Service!Crash
<1>2. ASSUME ResumeTake(c)
      PROVE  \E r \in Service!Outcomes(AbstractPending) : Service!Take(c, r)
  <2> DEFINE res == Result(arg[c], sp_response)
  <2>1. /\ pc[c] = "woken" /\ sp_response \in Responses /\ arg[c] \in Commands
        /\ sp_response.finalResponse # NoLine /\ ClearPendingCommand
        /\ Return(c, res.err, res.resp)
        /\ UNCHANGED <<proc, hungup, rx, inbox, refused, lapsed>>
      BY <1>2 DEF ResumeTake, Take, TypeOK
  <2>2. Seen(res) \in Service!Outcomes(AbstractPending)
      BY <2>1, OutcomeMaps DEF AbstractPending
  <2>3. Seen([err |-> res.err, resp |-> res.resp]) = Seen(res)
      BY DEF Seen
  <2> HIDE DEF res
  <2>4. Service!Leave(c, Seen(res))
      BY <2>1, <2>3, LeaveMaps
  <2>5. AbstractAt[c] = "waiting" /\ AbstractUpset' = AbstractUpset
      BY <2>1 DEF AbstractAt, AbstractUpset
  <2>6. AbstractPending.done # "no"
      BY <2>1 DEF AbstractPending, Held, Done
  <2>7. Service!Take(c, Seen(res))
      BY <2>2, <2>4, <2>5, <2>6 DEF Service!Take
  <2> QED BY <2>2, <2>7
<1> QED BY <1>1, <1>2

(* A line that is read joins or ends the pending response, or is dropped.    *)
LEMMA ReadLineMaps ==
    ASSUME TypeOK, InOrder, Counted, ReadLine
    PROVE  Service!Modem
<1> DEFINE line == Head(rx)
           n == line.cmd
<1>1. /\ rx # <<>> /\ rx' = Tail(rx) /\ ProcessLine(line)
      /\ UNCHANGED <<proc, hungup, inbox, id, out, refused, lapsed>>
    BY DEF ReadLine
<1>2. line \in Lines /\ line = rx[1] /\ 1 \in 1..Len(rx) /\ n \in Nat
  <2>1. rx \in Seq(Lines)
      BY DEF TypeOK
  <2>2. line = rx[1] /\ 1 \in 1..Len(rx)
      BY <1>1, <2>1
  <2> HIDE DEF line
  <2> QED BY <2>2, LineOfRx
<1>3. /\ n \in AbstractNumbers \cup {0}
      /\ n = 0 \/ (n \in AbstractOwed /\ \A k \in AbstractOwed : n <= k)
      /\ AbstractOwed' = AbstractOwed \/ AbstractOwed' = AbstractOwed \ {n}
      /\ line.text \in Finals => AbstractOwed' = AbstractOwed \ {n}
    BY <1>1, ReadOwes
<1>4. n = 0 /\ line.text \in Finals => ~NoStrayFinals
    BY <1>2 DEF InOrder, RxKnown, NoStrayFinals
<1>5. AbstractRet' = AbstractRet /\ AbstractUpset' = AbstractUpset
    BY <1>1 DEF AbstractRet, AbstractUpset
<1>6. AbstractPending = Service!Nothing <=> sp_response = NULL
    BY PendingMaps
<1>7. PICK last \in BOOLEAN : AbstractOwed' = IF last THEN AbstractOwed \ {n} ELSE AbstractOwed
    BY <1>3
<1> HIDE DEF line, n
<1>a. CASE sp_response # NULL /\ line.text \in Finals /\ HandleFinalResponse(line)
  <2> DEFINE done == IF line.text \in FinalResponsesSuccess THEN "ok" ELSE "error"
  <2>1. AbstractAt' = AbstractAt
      BY <1>a, SignalMaps DEF HandleFinalResponse
  <2>2. sp_response \in Responses
      BY <1>a DEF TypeOK
  <2>3. /\ sp_response'.cmd = sp_response.cmd /\ sp_response'.finalResponse = line
        /\ sp_response'.success = (line.text \in FinalResponsesSuccess)
        /\ sp_response'.p_intermediates = sp_response.p_intermediates
      BY <1>a, <2>2 DEF HandleFinalResponse, Responses
  <2>4. Done(sp_response') = done
      BY <1>2, <1>a, <2>3, FinalIsALine DEF Done
  <2> DEFINE from == Commanded(sp_response.p_intermediates)
  <2>5. AbstractPending' = [AbstractPending EXCEPT !.done = done, !.of = n]
    <3>1. AbstractPending' = [num |-> sp_response.cmd, done |-> done, of |-> n, from |-> from]
        BY <2>3, <2>4 DEF AbstractPending, Held, n
    <3>2. AbstractPending = [num |-> sp_response.cmd, done |-> Done(sp_response),
                             of |-> sp_response.finalResponse.cmd, from |-> from]
        BY DEF AbstractPending, Held
    <3> DEFINE now == AbstractPending
               num == sp_response.cmd
               old == Done(sp_response)
               by  == sp_response.finalResponse.cmd
               ended == [now EXCEPT !.done = done]
    <3> HIDE DEF done, from, now, num, old, by
    <3>3. now = [num |-> num, done |-> old, of |-> by, from |-> from]
        BY <3>2 DEF now, num, old, by
    <3>4. ended = [num |-> num, done |-> done, of |-> by, from |-> from]
        BY <3>3
    <3>5. [now EXCEPT !.done = done, !.of = n] = [ended EXCEPT !.of = n]
        OBVIOUS
    <3> HIDE DEF ended
    <3>6. [ended EXCEPT !.of = n] = [num |-> num, done |-> done, of |-> n, from |-> from]
        BY <3>4
    <3>7. [now EXCEPT !.done = done, !.of = n] = AbstractPending'
        BY <3>1, <3>5, <3>6 DEF num
    <3> QED BY <3>7 DEF now
  <2>6. done \in {"ok", "error"}
      OBVIOUS
  <2> HIDE DEF done
  <2>7. Service!Final(n, done)
      BY <1>1, <1>3, <1>4, <1>5, <1>6, <1>a, <2>1, <2>5, <2>6 DEF Service!Final
  <2> QED BY <1>3, <2>6, <2>7 DEF Service!Modem
<1>b. CASE sp_response # NULL /\ AddIntermediate(line) /\ UNCHANGED pc
  <2>1. AbstractAt' = AbstractAt
      BY <1>b DEF AbstractAt
  <2>2. sp_response \in Responses /\ sp_response.p_intermediates \in Seq(Lines)
      BY <1>b DEF TypeOK, Responses
  <2>3. /\ sp_response'.cmd = sp_response.cmd
        /\ sp_response'.finalResponse = sp_response.finalResponse
        /\ sp_response'.success = sp_response.success
        /\ sp_response'.p_intermediates = <<line>> \o sp_response.p_intermediates
      BY <1>b, <2>2 DEF AddIntermediate, Responses
  <2>4. Commanded(sp_response'.p_intermediates)
            = Commanded(sp_response.p_intermediates) \cup {n}
      BY <1>2, <2>2, <2>3, CommandedCons DEF n
  <2>5. Done(sp_response') = Done(sp_response)
      BY <2>3 DEF Done
  <2>6. AbstractPending' = [AbstractPending EXCEPT !.from = @ \cup {n}]
    <3>1. AbstractPending' = [num |-> sp_response.cmd, done |-> Done(sp_response),
                              of |-> sp_response.finalResponse.cmd,
                              from |-> Commanded(sp_response.p_intermediates) \cup {n}]
        BY <2>3, <2>4, <2>5 DEF AbstractPending, Held
    <3>2. AbstractPending = [num |-> sp_response.cmd, done |-> Done(sp_response),
                             of |-> sp_response.finalResponse.cmd,
                             from |-> Commanded(sp_response.p_intermediates)]
        BY DEF AbstractPending, Held
    <3> QED BY <3>1, <3>2
  <2>7. Service!Line(n, TRUE, last)
      BY <1>1, <1>3, <1>5, <1>6, <1>7, <1>b, <2>1, <2>6 DEF Service!Line
  <2> QED BY <1>3, <2>7 DEF Service!Modem
<1>c. CASE UNCHANGED <<sp_response, pc>>
  <2>1. AbstractAt' = AbstractAt /\ AbstractPending' = AbstractPending
      BY <1>c DEF AbstractAt, AbstractPending
  <2>2. Service!Line(n, FALSE, last)
      BY <1>1, <1>3, <1>5, <1>7, <2>1 DEF Service!Line
  <2> QED BY <1>3, <2>2 DEF Service!Modem
<1> QED BY <1>1, <1>a, <1>b, <1>c DEF ProcessLine

(* A line that is dropped with an SMS notification is one not kept.          *)
LEMMA ReadSmsMaps ==
    ASSUME TypeOK, InOrder, Counted, ReadSms
    PROVE  Service!Modem
<1> DEFINE n == Head(rx).cmd
<1>1. /\ rx # <<>> /\ rx' = Tail(rx)
      /\ UNCHANGED <<proc, hungup, inbox, id, out, refused, lapsed, sp_response, pc>>
    BY DEF ReadSms
<1>2. /\ n \in AbstractNumbers \cup {0}
      /\ n = 0 \/ (n \in AbstractOwed /\ \A k \in AbstractOwed : n <= k)
      /\ AbstractOwed' = AbstractOwed \/ AbstractOwed' = AbstractOwed \ {n}
    BY <1>1, ReadOwes
<1>3. /\ AbstractRet' = AbstractRet /\ AbstractUpset' = AbstractUpset
      /\ AbstractAt' = AbstractAt /\ AbstractPending' = AbstractPending
    BY <1>1 DEF AbstractRet, AbstractUpset, AbstractAt, AbstractPending
<1> HIDE DEF n
<1>4. PICK last \in BOOLEAN : AbstractOwed' = IF last THEN AbstractOwed \ {n} ELSE AbstractOwed
    BY <1>2
<1>5. Service!Line(n, FALSE, last)
    BY <1>1, <1>2, <1>3, <1>4 DEF Service!Line
<1> QED BY <1>2, <1>5 DEF Service!Modem

(* What the modem says is not noticed until it is read; what it ignores is   *)
(* no longer owed, unless some of its answer is on the way.                  *)
LEMMA ModemMaps ==
    ASSUME TypeOK, Counted, Modem
    PROVE  Service!Modem \/ UNCHANGED Service!serviceVars
<1>1. UNCHANGED <<proc, pc, id, out, sp_response, refused, lapsed>>
    BY DEF Modem, ModemInfo, ModemFinal, ModemIgnores, ModemUnsolicited, HangUp
<1>2. AbstractAt' = AbstractAt
    BY <1>1 DEF AbstractAt
<1>3. ASSUME hungup' = hungup, AbstractOwed' = AbstractOwed
      PROVE  UNCHANGED Service!serviceVars
    BY <1>1, <1>2, <1>3, StutterMaps
<1> DEFINE waiting == {inbox[i] : i \in 1..Len(inbox)}
           others  == {Tail(inbox)[i] : i \in 1..Len(Tail(inbox))}
<1>4. ASSUME inbox # <<>> PROVE /\ waiting = others \cup {Head(inbox)}
                                /\ Head(inbox) \in Nat \ {0} /\ Head(inbox) <= issued
    BY <1>4, InboxHead, InboxTail
<1>5. AbstractOwed = (Commanded(rx) \cup waiting) \ {0}
    BY DEF AbstractOwed
<1>a. CASE ModemInfo
  <2>1. PICK t \in InfoTexts : rx' = Append(rx, [text |-> t, cmd |-> Head(inbox)])
      BY <1>a DEF ModemInfo, Say
  <2>2. inbox # <<>> /\ inbox' = inbox /\ hungup' = hungup
      BY <1>a DEF ModemInfo
  <2>3. Commanded(rx') = Commanded(rx) \cup {Head(inbox)}
      BY <1>4, <2>1, <2>2, SayOwes DEF Texts
  <2>4. AbstractOwed' = (Commanded(rx') \cup waiting) \ {0}
      BY <2>2 DEF AbstractOwed
  <2> HIDE DEF waiting, others
  <2>5. AbstractOwed' = AbstractOwed
      BY <1>4, <1>5, <2>2, <2>3, <2>4
  <2> QED BY <1>3, <2>2, <2>5
<1>b. CASE ModemFinal
  <2>1. PICK t \in FinalTexts : rx' = Append(rx, [text |-> t, cmd |-> Head(inbox)])
      BY <1>b DEF ModemFinal, Say
  <2>2. inbox # <<>> /\ inbox' = Tail(inbox) /\ hungup' = hungup
      BY <1>b DEF ModemFinal
  <2>3. Commanded(rx') = Commanded(rx) \cup {Head(inbox)}
      BY <1>4, <2>1, <2>2, SayOwes DEF Texts
  <2>4. AbstractOwed' = (Commanded(rx') \cup others) \ {0}
      BY <2>2 DEF AbstractOwed
  <2> HIDE DEF waiting, others
  <2>5. AbstractOwed' = AbstractOwed
      BY <1>4, <1>5, <2>2, <2>3, <2>4
  <2> QED BY <1>3, <2>2, <2>5
<1>c. CASE ModemIgnores
  <2>1. inbox # <<>> /\ inbox' = Tail(inbox) /\ hungup' = hungup /\ rx' = rx
      BY <1>c DEF ModemIgnores
  <2>2. AbstractOwed' = (Commanded(rx) \cup others) \ {0}
      BY <2>1 DEF AbstractOwed
  <2> HIDE DEF waiting, others
  <2>3. CASE AbstractOwed' = AbstractOwed
      BY <1>3, <2>1, <2>3
  <2>4. CASE AbstractOwed' # AbstractOwed
    <3>1. AbstractOwed' = AbstractOwed \ {Head(inbox)} /\ Head(inbox) \in AbstractOwed
        BY <1>4, <1>5, <2>1, <2>2, <2>4
    <3>2. Head(inbox) \in AbstractNumbers
        BY <1>4, <2>1, IssuedBound, BoundsAssumption DEF AbstractNumbers
    <3>3. /\ AbstractRet' = AbstractRet /\ AbstractUpset' = AbstractUpset
          /\ AbstractPending' = AbstractPending
        BY <1>1 DEF AbstractRet, AbstractUpset, AbstractPending
    <3>4. Service!Lost(Head(inbox))
        BY <1>1, <1>2, <2>1, <3>1, <3>3 DEF Service!Lost
    <3> QED BY <3>2, <3>4 DEF Service!Modem
  <2> QED BY <2>3, <2>4
<1>d. CASE ModemUnsolicited
  <2>1. PICK t \in UnsolTexts : rx' = Append(rx, [text |-> t, cmd |-> 0])
      BY <1>d DEF ModemUnsolicited, Say
  <2>2. inbox' = inbox /\ hungup' = hungup
      BY <1>d DEF ModemUnsolicited
  <2>3. Commanded(rx') = Commanded(rx) \cup {0}
      BY <2>1, SayOwes DEF Texts
  <2>4. AbstractOwed' = (Commanded(rx') \cup waiting) \ {0}
      BY <2>2 DEF AbstractOwed
  <2> HIDE DEF waiting, others
  <2>5. AbstractOwed' = AbstractOwed
      BY <1>5, <2>3, <2>4
  <2> QED BY <1>3, <2>2, <2>5
<1>e. CASE HangUp
  <2>1. hungup' = TRUE /\ UNCHANGED <<rx, inbox>>
      BY <1>e DEF HangUp
  <2>2. /\ AbstractRet' = AbstractRet /\ AbstractUpset' = AbstractUpset
        /\ AbstractPending' = AbstractPending /\ AbstractOwed' = AbstractOwed
      BY <1>1, <2>1 DEF AbstractRet, AbstractUpset, AbstractPending, AbstractOwed
  <2>3. Service!HangUp
      BY <1>1, <1>2, <2>1, <2>2 DEF Service!HangUp
  <2> QED BY <2>3 DEF Service!Modem
<1> QED BY <1>a, <1>b, <1>c, <1>d, <1>e DEF Modem

(* The way out of the reader.                                                *)
LEMMA ReaderMaps ==
    ASSUME TypeOK, LineGone
    PROVE  /\ ReadEof \/ CloseSignals => UNCHANGED Service!serviceVars
           /\ ReaderExits => Service!Exit
<1>1. ASSUME ReadEof \/ CloseSignals PROVE UNCHANGED Service!serviceVars
  <2>1. UNCHANGED <<proc, hungup, id, out, sp_response, refused, lapsed, rx, inbox>>
      BY <1>1 DEF ReadEof, CloseSignals
  <2>2. AbstractAt' = AbstractAt
      BY <1>1, SignalMaps DEF ReadEof, CloseSignals, AbstractAt
  <2>3. AbstractOwed' = AbstractOwed
      BY <2>1 DEF AbstractOwed
  <2> QED BY <2>1, <2>2, <2>3, StutterMaps
<1>2. ASSUME ReaderExits PROVE Service!Exit
  <2>1. /\ hungup /\ proc' = "exited"
        /\ UNCHANGED <<hungup, id, pc, out, sp_response, refused, lapsed, rx, inbox>>
      BY <1>2 DEF ReaderExits, LineGone
  <2>2. /\ AbstractRet' = AbstractRet /\ AbstractUpset' = AbstractUpset
        /\ AbstractPending' = AbstractPending /\ AbstractOwed' = AbstractOwed
        /\ AbstractAt' = AbstractAt
      BY <2>1 DEF AbstractRet, AbstractUpset, AbstractPending, AbstractOwed, AbstractAt
  <2> QED BY <2>1, <2>2 DEF Service!Exit
<1> QED BY <1>1, <1>2

(* The waits that do not end a call.                                         *)
LEMMA WaitsMap ==
    ASSUME TypeOK, NEW c \in Callers,
           SliceExpires(c) \/ NextSlice(c) \/ SpuriousWake(c) \/ ResumeWait(c)
    PROVE  UNCHANGED Service!serviceVars
<1>1. UNCHANGED <<proc, hungup, id, out, sp_response, refused, lapsed, rx, inbox>>
    BY DEF SliceExpires, NextSlice, SpuriousWake, ResumeWait, TimedWait
<1>2. /\ pc[c] \in InWait
      /\ \E p \in InWait : pc' = [pc EXCEPT ![c] = p]
    BY DEF SliceExpires, NextSlice, SpuriousWake, ResumeWait, TimedWait, InWait
<1>3. AbstractAt' = AbstractAt
    BY <1>2, WaitMaps
<1>4. AbstractOwed' = AbstractOwed
    BY <1>1 DEF AbstractOwed
<1> QED BY <1>1, <1>3, <1>4, StutterMaps

LEMMA StepMaps ==
    TypeOK /\ LineGone /\ InOrder /\ Counted /\ [Next]_vars
        => [Service!ServiceNext]_(Service!serviceVars)
<1> SUFFICES ASSUME TypeOK, LineGone, InOrder, Counted, [Next]_vars
             PROVE  Service!ServiceNext \/ UNCHANGED Service!serviceVars
    OBVIOUS
<1>1. ASSUME proc = "running", NEW c \in Callers, Service!Caller(c)
      PROVE  Service!ServiceNext
    BY <1>1 DEF Service!ServiceNext
<1>2. ASSUME proc = "running", Service!Modem \/ Service!Exit
      PROVE  Service!ServiceNext
    BY <1>2 DEF Service!ServiceNext
<1>3. ASSUME proc = "running", NEW c \in Callers,
             (\E k \in Commands : Call(c, k)) \/ SendCommand(c) \/ Timeout(c)
                \/ ResumeCrash(c) \/ ResumeTake(c)
      PROVE  Service!Caller(c)
    BY <1>3, CallMaps, SendPendingMaps, SendFailsMaps, SendOkMaps, TimeoutMaps, ResumeMaps
       DEF SendCommand, Service!Caller
<1>4. CASE UNCHANGED vars
  <2>1. UNCHANGED <<proc, hungup, id, out, sp_response, refused, lapsed, pc, rx, inbox>>
      BY <1>4 DEF vars
  <2>2. AbstractAt' = AbstractAt /\ AbstractOwed' = AbstractOwed
      BY <2>1 DEF AbstractAt, AbstractOwed
  <2> QED BY <2>1, <2>2, StutterMaps
<1> QED BY <1>1, <1>2, <1>3, <1>4, WaitsMap, ReadLineMaps, ReadSmsMaps, ReaderMaps, ModemMaps
        DEF Next, Waits, Resume, Reader

(* The channel, with its reader thread, its condition variable and its timed *)
(* waits, does nothing its callers could tell from the service: every        *)
(* response is handed over whole, at most once, to a call that waits.        *)
THEOREM ChannelImplementsService == Spec => ImplementsService
<1>1. Spec => []LineGone
    BY InitRest, StepGone, TypeCorrect, PTL DEF Spec
<1>2. Spec => []InOrder
    BY InitRest, StepOrder, TypeCorrect, PTL DEF Spec
<1>3. Spec => []Counted
    BY InitRest, StepCounted, TypeCorrect, PTL DEF Spec
<1> QED BY <1>1, <1>2, <1>3, InitMaps, StepMaps, TypeCorrect, PTL
        DEF Spec, ImplementsService, Service!ServiceSpec
=============================================================================
