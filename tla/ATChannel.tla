------------------------------ MODULE ATChannel ------------------------------
(****************************************************************************)
(* The AT command channel (src/atc/atchannel.c): any number of threads send *)
(* commands with at_send_command*(), one reader thread turns the modem's    *)
(* lines into responses, and a mutex with a condition variable stands       *)
(* between them.                                                            *)
(*                                                                          *)
(* cm_command_mutex is not a variable: it is released only inside           *)
(* pthread_cond_timedwait, so a stretch of code between two waits is one    *)
(* critical section and one action here.  What runs without the mutex (the  *)
(* reader between two lines, the close of the descriptor, the modem) has    *)
(* actions of its own.                                                      *)
(*                                                                          *)
(* A line is [text, cmd]: text is the head the code tells lines apart by,   *)
(* cmd is a ghost tag, the number of the command the modem was answering    *)
(* (0 for a line nobody asked for).  The code never sees cmd.               *)
(*                                                                          *)
(* s_readerClosed is always 0 in this program (the only store of 1, line    *)
(* 552, is guarded by a callback nobody registers), s_raw_data and s_smsPDU *)
(* are always NULL (their entry points have no caller), s_unsolHandler is   *)
(* NULL and s_atc_proxy 0 (request_proc.c:432): none of them is a variable. *)
(****************************************************************************)
EXTENDS Integers, Sequences

CONSTANTS
    Callers,        \* the threads that send commands (libuv's worker threads)
    Commands,       \* the commands they send: records [type, prefix, wanted]
    InfoTexts,      \* what the modem may say in answer, before the final line
    FinalTexts,     \* the final lines it may end an answer with
    UnsolTexts,     \* what it may say without being asked
    Slices,         \* timed waits that make up one timeout (atchannel.c:123)
    MaxCalls,       \* bound: calls made in all
    MaxInfo,        \* bound: information lines of one answer
    MaxUnsol,       \* bound: unsolicited lines in all
    MaxSpurious,    \* bound: spurious wake-ups in all
    MayHangUp       \* bound: may the modem go away?

(****************************************************************************)
(* What the code knows of a line                                            *)
(****************************************************************************)
FinalResponsesError ==
    {"ERROR", "+CMS ERROR:", "+CME ERROR:", "NO CARRIER", "NO ANSWER",
     "NO DIALTONE", "COMMAND NOT SUPPORT"}

FinalResponsesSuccess == {"OK", "+QIND: FOTA END", "CONNECT"}

SmsUnsoliciteds == {"+CMT:", "+CDS:", "+CBM:", "+CMTI:"}

Finals == FinalResponsesError \union FinalResponsesSuccess

Digits == {"867", "460"}    \* the lines that start with a digit (isdigit)

Types == {"NO_RESULT", "NUMERIC", "SINGLELINE", "MULTILINE"}

NoPrefix == "(null)"

StartsWith(text, prefix) == prefix = "" \/ text = prefix

Texts == InfoTexts \union FinalTexts \union UnsolTexts

ASSUME CommandsAssumption ==
    /\ Commands # {}
    /\ \A k \in Commands : k.type \in Types /\ k.wanted \in BOOLEAN

ASSUME TextsAssumption ==
    /\ InfoTexts \intersect (Finals \union SmsUnsoliciteds) = {}
    /\ FinalTexts \subseteq Finals

ASSUME BoundsAssumption ==
    /\ Slices \in Nat \ {0}
    /\ MaxCalls \in Nat
    /\ MaxInfo \in Nat
    /\ MaxUnsol \in Nat
    /\ MaxSpurious \in Nat
    /\ MayHangUp \in BOOLEAN

VARIABLES
    proc,             \* the process: "running", "crashed" or "exited"
    s_fd,             \* the descriptor: "open" or "closed" (-1)
    sp_response,      \* the pending response, or NULL
    s_type,           \* its command type
    s_responsePrefix, \* its prefix
    pc,               \* where each caller is
    arg,              \* the command of its current or last call
    id,               \* the number that command got when it was written
    slice,            \* which timed wait of pthread_cond_timeout_np it is in
    out,              \* what its last call returned: [err, resp]
    rpc,              \* where the reader thread is
    rx,               \* lines received and not yet read
    inbox,            \* commands written and not yet answered in full
    hungup,           \* the modem has gone away
    issued,           \* number of commands written so far
    emitted,          \* emitted[n]: information texts sent in answer to n
    calls, unsol, spurious,   \* how much of the bounds is used up
    refused,          \* some call was refused with COMMAND_PENDING
    lapsed            \* some call returned TIMEOUT

pending    == <<sp_response, s_type, s_responsePrefix>>
callerVars == <<pc, arg, id, slice, out>>
modemVars  == <<inbox, hungup, emitted, unsol>>
history    == <<issued, refused, lapsed>>
vars == <<proc, s_fd, pending, callerVars, rpc, rx, modemVars, history,
          calls, spurious>>

NoLine == [text |-> "", cmd |-> 0]     \* a NULL char pointer

\* at_response_new (calloc), for the command numbered n.
NewResponse(n) == [cmd |-> n, success |-> FALSE, finalResponse |-> NoLine,
                   p_intermediates |-> <<>>]

\* A NULL sp_response (or *pp_outResponse); its fields are never looked at.
NULL == NewResponse(0)

Lines == [text : Texts, cmd : Nat]

Responses == [cmd : Nat \ {0}, success : BOOLEAN,
              finalResponse : Lines \union {NoLine},
              p_intermediates : Seq(Lines)]

Errors == {"0", "GENERIC", "COMMAND_PENDING", "CHANNEL_CLOSED", "TIMEOUT",
           "INVALID_RESPONSE"}

\* Every variable stays within its type and bound; the modem is only ever
\* answering commands that were written.
TypeOK ==
    /\ proc \in {"running", "crashed", "exited"}
    /\ s_fd \in {"open", "closed"}
    /\ sp_response \in Responses \union {NULL}
    /\ s_type \in Types
    /\ s_responsePrefix \in {k.prefix : k \in Commands} \union {NoPrefix}
    /\ pc \in [Callers -> {"idle", "lock", "waiting", "expired", "woken"}]
    /\ arg \in [Callers -> Commands]
    /\ id \in [Callers -> Nat]
    /\ slice \in [Callers -> 1..Slices]
    /\ out \in [Callers -> [err : Errors, resp : Responses \union {NULL}]]
    /\ rpc \in {"first", "second", "closing", "exiting"}
    /\ rx \in Seq(Lines)
    /\ inbox \in Seq(1..issued)
    /\ hungup \in BOOLEAN
    /\ issued \in Nat
    /\ emitted \in Seq(Seq(InfoTexts)) /\ Len(emitted) = issued
    /\ calls \in 0..MaxCalls
    /\ unsol \in 0..MaxUnsol
    /\ spurious \in 0..MaxSpurious
    /\ refused \in BOOLEAN
    /\ lapsed \in BOOLEAN

\* at_open: the descriptor is open, nothing is pending, the reader runs.
Init ==
    /\ proc = "running"
    /\ s_fd = "open"
    /\ sp_response = NULL /\ s_type = "NO_RESULT" /\ s_responsePrefix = NoPrefix
    /\ pc = [c \in Callers |-> "idle"]
    /\ arg = [c \in Callers |-> CHOOSE k \in Commands : TRUE]
    /\ id = [c \in Callers |-> 0]
    /\ slice = [c \in Callers |-> 1]
    /\ out = [c \in Callers |-> [err |-> "0", resp |-> NULL]]
    /\ rpc = "first" /\ rx = <<>>
    /\ inbox = <<>> /\ hungup = FALSE
    /\ issued = 0 /\ emitted = <<>>
    /\ calls = 0 /\ unsol = 0 /\ spurious = 0
    /\ refused = FALSE /\ lapsed = FALSE

----------------------------------------------------------------------------
(****************************************************************************)
(* The sending threads                                                      *)
(****************************************************************************)
Reverse(s) == [i \in 1..Len(s) |-> s[Len(s) - i + 1]]

\* Mutant: the pending response is freed, the pointer kept.
ClearButKeep == UNCHANGED pending

ClearPendingCommand ==
    /\ sp_response' = NULL
    /\ s_responsePrefix' = NoPrefix
    /\ UNCHANGED s_type

\* Caller c's call is over, with error e and response r.
Return(c, e, r) ==
    /\ pc' = [pc EXCEPT ![c] = "idle"]
    /\ out' = [out EXCEPT ![c] = [err |-> e, resp |-> r]]
    /\ UNCHANGED <<arg, id>>

Call(c, k) ==
    /\ pc[c] = "idle" /\ calls < MaxCalls
    /\ pc' = [pc EXCEPT ![c] = "lock"]
    /\ arg' = [arg EXCEPT ![c] = k]
    /\ id' = [id EXCEPT ![c] = 0]
    /\ slice' = [slice EXCEPT ![c] = 1]
    /\ out' = [out EXCEPT ![c] = [err |-> "0", resp |-> NULL]]
    /\ calls' = calls + 1
    /\ UNCHANGED <<proc, s_fd, pending, rpc, rx, modemVars, history, spurious>>

\* at_send_command_full_nolock finds a command pending and gives up through
\* the label error:, which clears the pending command, whosever it is.
SendPending(c) ==
    /\ pc[c] = "lock" /\ sp_response # NULL
    /\ ClearPendingCommand
    /\ Return(c, "COMMAND_PENDING", NULL)
    /\ refused' = TRUE
    /\ UNCHANGED <<proc, s_fd, slice, rpc, rx, modemVars, issued, lapsed,
                   calls, spurious>>

\* writeline fails: the descriptor is closed, or write() fails on a dead line
\* (or because the reader closed the descriptor under it).
SendFails(c) ==
    /\ pc[c] = "lock" /\ sp_response = NULL
    /\ \/ s_fd = "closed" /\ Return(c, "CHANNEL_CLOSED", NULL)
       \/ hungup /\ Return(c, "GENERIC", NULL)
    /\ ClearPendingCommand
    /\ UNCHANGED <<proc, s_fd, slice, rpc, rx, modemVars, history, calls,
                   spurious>>

\* writeline, then the response is set up and the first timed wait begins.
WriteAndWait(c) ==
    /\ issued' = issued + 1
    /\ sp_response' = NewResponse(issued + 1)
    /\ s_type' = arg[c].type
    /\ s_responsePrefix' = arg[c].prefix
    /\ pc' = [pc EXCEPT ![c] = "waiting"]
    /\ id' = [id EXCEPT ![c] = issued + 1]
    /\ inbox' = Append(inbox, issued + 1)
    /\ emitted' = Append(emitted, <<>>)
    /\ UNCHANGED <<proc, s_fd, arg, slice, out, rpc, rx, hungup, unsol,
                   refused, lapsed, calls, spurious>>

\* Mutant: nobody asks whether a command is pending.
SendAnyway(c) == pc[c] = "lock" /\ s_fd = "open" /\ WriteAndWait(c)

SendOk(c) ==
    /\ pc[c] = "lock" /\ sp_response = NULL /\ s_fd = "open"
    /\ WriteAndWait(c)

\* One timed wait runs out.  The thread has yet to get the mutex back, and a
\* signal sent meanwhile is not for it.
SliceExpires(c) ==
    /\ pc[c] = "waiting"
    /\ pc' = [pc EXCEPT ![c] = "expired"]
    /\ UNCHANGED <<proc, s_fd, pending, arg, id, slice, out, rpc, rx,
                   modemVars, history, calls, spurious>>

\* pthread_cond_timedwait, for slice n of pthread_cond_timeout_np.
TimedWait(c, n) ==
    /\ pc' = [pc EXCEPT ![c] = "waiting"]
    /\ slice' = [slice EXCEPT ![c] = n]
    /\ UNCHANGED <<proc, s_fd, pending, arg, id, out, rpc, rx, modemVars,
                   history, calls, spurious>>

\* Mutant: the loop over the slices runs once too often.
NextSliceTooMany(c) ==
    pc[c] = "expired" /\ slice[c] <= Slices /\ TimedWait(c, slice[c] + 1)

\* The loop goes straight into its next timed wait: nobody looks whether the
\* response came in the meantime.
NextSlice(c) ==
    pc[c] = "expired" /\ slice[c] < Slices /\ TimedWait(c, slice[c] + 1)

\* Mutant: "timeoutMsec == 0 means infinite timeout".
TimeoutInfinite(c) == pc[c] = "expired" /\ slice[c] = Slices /\ TimedWait(c, 1)

\* The last slice ran out: TIMEOUT, whatever has come.
Timeout(c) ==
    /\ pc[c] = "expired" /\ slice[c] = Slices
    /\ ClearPendingCommand
    /\ Return(c, "TIMEOUT", NULL)
    /\ lapsed' = TRUE
    /\ UNCHANGED <<proc, s_fd, slice, rpc, rx, modemVars, issued, refused,
                   calls, spurious>>

\* POSIX lets a condition wait return for no reason.
SpuriousWake(c) ==
    /\ pc[c] = "waiting" /\ spurious < MaxSpurious
    /\ pc' = [pc EXCEPT ![c] = "woken"]
    /\ spurious' = spurious + 1
    /\ UNCHANGED <<proc, s_fd, pending, arg, id, slice, out, rpc, rx,
                   modemVars, history, calls>>

\* The while condition reads sp_response->finalResponse through NULL.
ResumeCrash(c) ==
    /\ pc[c] = "woken" /\ sp_response = NULL
    /\ proc' = "crashed"
    /\ UNCHANGED <<s_fd, pending, callerVars, rpc, rx, modemVars, history,
                   calls, spurious>>

\* No final response yet: wait again, for the whole timeout.
ResumeWait(c) ==
    /\ pc[c] = "woken" /\ sp_response # NULL
    /\ sp_response.finalResponse = NoLine
    /\ TimedWait(c, 1)

NoResult(e) == [err |-> e, resp |-> NULL]

\* Mutant: the wrapper's check for an intermediate line is missing.
ResultUnchecked(k, r) ==
    IF k.wanted THEN [err |-> "0", resp |-> [r EXCEPT !.p_intermediates = Reverse(@)]]
                ELSE NoResult("0")

\* Mutant: reverseIntermediates is not called.
ResultNewestFirst(k, r) == IF k.wanted THEN [err |-> "0", resp |-> r]
                                       ELSE NoResult("0")

\* What at_send_command and its _singleline, _numeric and _multiline variants
\* return for command k when the wait ended with response r.
Result(k, r) ==
    IF ~k.wanted
    THEN NoResult("0")
    ELSE IF /\ k.type \in {"SINGLELINE", "NUMERIC"}
            /\ r.success /\ r.p_intermediates = <<>>
         THEN NoResult("INVALID_RESPONSE")
         ELSE [err |-> "0",
               resp |-> [r EXCEPT !.p_intermediates = Reverse(@)]]

\* The response goes to the caller, whoever's it was.
Take(c) ==
    /\ LET res == Result(arg[c], sp_response) IN Return(c, res.err, res.resp)
    /\ ClearPendingCommand
    /\ UNCHANGED <<proc, s_fd, slice, rpc, rx, modemVars, history, calls,
                   spurious>>

\* Mutant: "if" for "while", any wake-up ends the wait.
ResumeTakeAny(c) == pc[c] = "woken" /\ sp_response # NULL /\ Take(c)

ResumeTake(c) ==
    /\ pc[c] = "woken" /\ sp_response # NULL
    /\ sp_response.finalResponse # NoLine
    /\ Take(c)

----------------------------------------------------------------------------
(****************************************************************************)
(* The reader thread                                                        *)
(****************************************************************************)
\* pthread_cond_signal wakes one of the threads waiting at this moment, and
\* nobody when there is none.
Signal ==
    \/ \E c \in Callers : pc[c] = "waiting" /\ pc' = [pc EXCEPT ![c] = "woken"]
    \/ (\A c \in Callers : pc[c] # "waiting") /\ UNCHANGED pc

\* The switch of processLine: is a line that is not final added to the
\* pending response?
Accepts(text) ==
    CASE s_type = "NUMERIC" ->
           sp_response.p_intermediates = <<>> /\ text \in Digits
      [] s_type = "SINGLELINE" ->
           sp_response.p_intermediates = <<>> /\ StartsWith(text, s_responsePrefix)
      [] s_type = "MULTILINE" -> StartsWith(text, s_responsePrefix)
      [] OTHER -> FALSE

AddIntermediate(line) ==
    sp_response' = [sp_response EXCEPT !.p_intermediates = <<line>> \o @]

HandleFinalResponse(line) ==
    /\ sp_response' = [sp_response EXCEPT
                         !.success = line.text \in FinalResponsesSuccess,
                         !.finalResponse = line]
    /\ Signal

\* processLine; the last case is handleUnsolicited, which has no handler.
ProcessLine(line) ==
    \/ /\ sp_response # NULL /\ line.text \in Finals
       /\ HandleFinalResponse(line)
    \/ /\ sp_response # NULL /\ line.text \notin Finals /\ Accepts(line.text)
       /\ AddIntermediate(line) /\ UNCHANGED pc
    \/ /\ sp_response = NULL \/ (line.text \notin Finals /\ ~Accepts(line.text))
       /\ UNCHANGED <<sp_response, pc>>

ReadLine ==
    /\ rpc = "first" /\ rx # <<>> /\ Head(rx).text \notin SmsUnsoliciteds
    /\ rx' = Tail(rx)
    /\ ProcessLine(Head(rx))
    /\ UNCHANGED <<proc, s_fd, s_type, s_responsePrefix, arg, id, slice, out,
                   rpc, modemVars, history, calls, spurious>>

\* The first line of an SMS notification; then the line after it, whatever
\* that is, dropped as its body.
ReadSms ==
    /\ rx # <<>>
    /\ \/ rpc = "first" /\ Head(rx).text \in SmsUnsoliciteds /\ rpc' = "second"
       \/ rpc = "second" /\ rpc' = "first"
    /\ rx' = Tail(rx)
    /\ UNCHANGED <<proc, s_fd, pending, callerVars, modemVars, history, calls,
                   spurious>>

\* poll or read reports a dead line: at_close closes the descriptor, outside
\* the mutex.
ReadEof ==
    /\ rpc \in {"first", "second"} /\ hungup
    /\ s_fd' = "closed"
    /\ rpc' = "closing"
    /\ UNCHANGED <<proc, pending, callerVars, rx, modemVars, history, calls,
                   spurious>>

\* The rest of at_close: signal under the mutex.
CloseSignals ==
    /\ rpc = "closing"
    /\ Signal
    /\ rpc' = "exiting"
    /\ UNCHANGED <<proc, s_fd, pending, arg, id, slice, out, rx, modemVars,
                   history, calls, spurious>>

\* Mutant: the reader thread returns and the process lives on.
ReaderReturns == rpc = "exiting" /\ UNCHANGED vars

\* onReaderClosed: exit(0).
ReaderExits ==
    /\ rpc = "exiting"
    /\ proc' = "exited"
    /\ UNCHANGED <<s_fd, pending, callerVars, rpc, rx, modemVars, history,
                   calls, spurious>>

----------------------------------------------------------------------------
(****************************************************************************)
(* The modem answers the commands in the order it got them, each with some  *)
(* information lines and a final line, or not at all, and says other things *)
(* in between.                                                              *)
(****************************************************************************)
Say(text, n) == rx' = Append(rx, [text |-> text, cmd |-> n])

ModemInfo ==
    /\ ~hungup /\ inbox # <<>> /\ Len(emitted[Head(inbox)]) < MaxInfo
    /\ \E t \in InfoTexts :
         /\ Say(t, Head(inbox))
         /\ emitted' = [emitted EXCEPT ![Head(inbox)] = Append(@, t)]
    /\ UNCHANGED <<proc, s_fd, pending, callerVars, rpc, inbox, hungup, unsol,
                   history, calls, spurious>>

ModemFinal ==
    /\ ~hungup /\ inbox # <<>>
    /\ \E t \in FinalTexts : Say(t, Head(inbox))
    /\ inbox' = Tail(inbox)
    /\ UNCHANGED <<proc, s_fd, pending, callerVars, rpc, hungup, emitted, unsol,
                   history, calls, spurious>>

ModemIgnores ==
    /\ ~hungup /\ inbox # <<>>
    /\ inbox' = Tail(inbox)
    /\ UNCHANGED <<proc, s_fd, pending, callerVars, rpc, rx, hungup, emitted,
                   unsol, history, calls, spurious>>

ModemUnsolicited ==
    /\ ~hungup /\ unsol < MaxUnsol
    /\ \E t \in UnsolTexts : Say(t, 0)
    /\ unsol' = unsol + 1
    /\ UNCHANGED <<proc, s_fd, pending, callerVars, rpc, inbox, hungup, emitted,
                   history, calls, spurious>>

HangUp ==
    /\ MayHangUp /\ ~hungup
    /\ hungup' = TRUE
    /\ UNCHANGED <<proc, s_fd, pending, callerVars, rpc, rx, inbox, emitted,
                   unsol, history, calls, spurious>>

----------------------------------------------------------------------------
SendCommand(c) == SendPending(c) \/ SendFails(c) \/ SendOk(c)

Waits(c) == SliceExpires(c) \/ NextSlice(c) \/ Timeout(c)

Resume(c) == ResumeCrash(c) \/ ResumeWait(c) \/ ResumeTake(c)

Reader == ReadLine \/ ReadSms \/ ReadEof \/ CloseSignals \/ ReaderExits

Modem == ModemInfo \/ ModemFinal \/ ModemIgnores \/ ModemUnsolicited \/ HangUp

Next ==
    /\ proc = "running"
    /\ \/ \E c \in Callers : \/ \E k \in Commands : Call(c, k)
                             \/ SendCommand(c) \/ Waits(c) \/ SpuriousWake(c)
                             \/ Resume(c)
       \/ Reader
       \/ Modem

Spec == Init /\ [][Next]_vars

\* The threads are scheduled and the clock runs; nobody has to call, and the
\* modem owes nothing.
Fairness ==
    /\ \A c \in Callers :
         /\ WF_vars(proc = "running" /\ SendCommand(c))
         /\ WF_vars(proc = "running" /\ Waits(c))
         /\ WF_vars(proc = "running" /\ Resume(c))
    /\ WF_vars(proc = "running" /\ Reader)

FairSpec == Spec /\ Fairness
----------------------------------------------------------------------------
(****************************************************************************)
(* Properties                                                               *)
(****************************************************************************)
InCall(c) == pc[c] \in {"waiting", "expired", "woken"}

\* The pending response always has an owner still inside its call, whatever
\* the other threads clear, overwrite or take: the reader never fills a
\* response nobody is going to free (at_send_command_full_nolock leaves it
\* through clearPendingCommand on every path).
PendingOwned ==
    sp_response # NULL => \E c \in Callers : InCall(c) /\ id[c] = sp_response.cmd

\* The NULL dereference in the while condition of at_send_command_full_nolock
\* needs a call that was refused with AT_ERROR_COMMAND_PENDING and cleared the
\* response another thread was waiting for: time-outs, hang-ups and spurious
\* wake-ups alone never lead there.
CrashOnlyAfterRefusal == proc = "crashed" => refused

\* A program that sends one command at a time, as the script src/test makes it
\* do, is never refused, and never crashes in at_send_command_full_nolock.
SoleCallerServed ==
    (\A c, d \in Callers : c = d) => ~refused /\ proc # "crashed"

\* The modem never ends an answer nobody asked for ("WARNING: NO CARRIER and
\* others are sometimes unsolicited", atchannel.c:213).
NoStrayFinals == UnsolTexts \intersect Finals = {}

OwnOrUnsolicited(c) ==
    out[c].resp # NULL =>
        /\ out[c].resp.finalResponse.cmd = id[c]
        /\ \A i \in 1..Len(out[c].resp.p_intermediates) :
             out[c].resp.p_intermediates[i].cmd \in {0, id[c]}

\* As long as no call has timed out and none was refused, a call that returns
\* a response returns the final line of its own command and, besides lines
\* the modem volunteered, only information lines of its own command.
InSync == (~refused /\ ~lapsed /\ NoStrayFinals) =>
              \A c \in Callers : OwnOrUnsolicited(c)

Matches(k, text) ==
    CASE k.type = "NO_RESULT" -> FALSE
      [] k.type = "NUMERIC" -> text \in Digits
      [] OTHER -> StartsWith(text, k.prefix)

\* The lines of an answer said, by their places in it, that a caller of the
\* wrapper for k should see: all that match, or the first.
Wanted(k, said) ==
    LET matching == {i \in 1..Len(said) : Matches(k, said[i])}
    IN  IF k.type = "MULTILINE" THEN matching
                                ELSE {i \in matching : \A j \in matching : i <= j}

\* lines are the lines of said at those places, in its order and no others.
LinesAt(lines, said, places) ==
    \E at \in [1..Len(lines) -> places] :
        /\ \A p \in places : \E i \in 1..Len(lines) : at[i] = p
        /\ \A i, j \in 1..Len(lines) : i < j => at[i] < at[j]
        /\ \A i \in 1..Len(lines) : lines[i].text = said[at[i]]

\* In those circumstances the response holds exactly the lines the modem said
\* in answer that the command's type and prefix ask for, in the order it said
\* them, unless an unsolicited line took a place or the SMS branch of
\* readerLoop swallowed one.
DeliveredAsSpecified ==
    (~refused /\ ~lapsed /\ NoStrayFinals /\ UnsolTexts \intersect SmsUnsoliciteds = {}) =>
        \A c \in Callers :
            LET lines == out[c].resp.p_intermediates
                said == emitted[id[c]]
            IN  (out[c].resp # NULL /\ \A i \in 1..Len(lines) : lines[i].cmd # 0)
                  => LinesAt(lines, said, Wanted(arg[c], said))

\* A successful answer to a single-line or numeric command has exactly one
\* line: the handlers of cellMgtFrame.c read p_intermediates->line unchecked.
SuccessHasLine ==
    ~refused => \A c \in Callers :
        (out[c].resp # NULL /\ out[c].resp.success
           /\ arg[c].type \in {"SINGLELINE", "NUMERIC"})
          => Len(out[c].resp.p_intermediates) = 1

\* Every call returns, with or without a modem, unless the process ends.
CallReturns ==
    \A c \in Callers : pc[c] = "lock" ~> (pc[c] = "idle" \/ proc # "running")

\* "the reader thread should eventually die" (atchannel.c:1017): when the line
\* is gone it does, and takes the process with it.
ReaderDies == hungup ~> proc # "running"

\* What a comment says, and what the code does otherwise:
\* "You should reset or handshake here to avoid getting out of sync"
\* (atchannel.h:83): nothing is registered, so nothing does.
ResetOnTimeout == (~refused /\ NoStrayFinals) =>
                      \A c \in Callers : OwnOrUnsolicited(c)
============================================================================
