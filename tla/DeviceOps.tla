------------------------------ MODULE DeviceOps ------------------------------
(****************************************************************************)
(* The operations of src/atc/cellMgtFrame.c that send AT commands, run by   *)
(* libuv's worker threads at the same time.                                 *)
(*                                                                          *)
(* The channel below them is ATService, which ATChannel implements: each    *)
(* step here is a step of the service together with what it means to the    *)
(* worker that calls, or to the modem, which carries out what it was sent   *)
(* in order, or answers ERROR and does nothing.                             *)
(*                                                                          *)
(* Each worker has a job: its place in the operation, its p_response        *)
(* pointer with what the response says, and its local results.              *)
(****************************************************************************)
EXTENDS Integers, Sequences

CONSTANTS
    Workers,        \* the worker threads
    Requests,       \* the operations that may be asked for
    Numbers,        \* numbers for commands that the modem may still answer
    Acts,           \* access technologies of the network
    MaxRequests,    \* bound on the requests served
    MaxTimeouts,    \* bound on the calls that time out
    MaxSlips,       \* bound on the answers that are lost, or that no one asked for
    MayHangUp       \* bound: may the modem go away?

ASSUME BoundsAssumption ==
    /\ Numbers \subseteq Nat \ {0}
    /\ MaxRequests \in Nat /\ MaxTimeouts \in Nat /\ MaxSlips \in Nat
    /\ MayHangUp \in BOOLEAN

VARIABLES
    alive, lineUp, at, num, ret, pending, owed, upset,  \* as in ATService
    job,        \* of each worker
    sent,       \* of each number in use: who sent it, and what
    said,       \* of each number in use: the line the modem sent in answer
    modem,      \* its radio, its operator format and its network
    served,     \* requests so far
    timeouts,   \* calls that timed out so far
    slips,      \* answers lost or not asked for so far
    hist        \* what has gone wrong so far

Svc == INSTANCE ATService WITH Callers <- Workers, Strays <- MaxSlips > 0

serviceVars == <<alive, lineUp, at, num, ret, pending, owed, upset>>
modemVars == <<sent, said, modem>>
vars == <<serviceVars, modemVars, job, served, timeouts, slips, hist>>

----------------------------------------------------------------------------
(****************************************************************************)
(* Commands                                                                 *)
(****************************************************************************)
\* A command, the kind of answer it asks for, the prefix of the lines it
\* keeps, and how the lines begin that the modem may answer with.
Command(name, arg, parts, kind, prefix, says) ==
    [name |-> name, arg |-> arg, parts |-> parts, kind |-> kind,
     prefix |-> prefix, says |-> says]

NoCommand == Command("", "", {}, "NO_RESULT", "", {})

\* at_send_command
Order(name, arg, parts) == Command(name, arg, parts, "NO_RESULT", "", {})
Plain(name) == Order(name, "", {})
Radio(on) == Order("CFUN", on, {})
Format(f) == Order("COPS=3", f, {})
Setting(parts) == Order("set", "", parts)

\* at_send_command_singleline; an empty prefix fits every line.
Single(name, prefix) ==
    Command(name, "", {}, "SINGLELINE", prefix, {IF prefix = "" THEN "text" ELSE prefix})

\* at_send_command_multiline
Multi(name, prefix) == [Single(name, prefix) EXCEPT !.kind = "MULTILINE"]

\* at_send_command_numeric
Numeric(name) == Command(name, "", {}, "NUMERIC", "", {"digits"})

RadioOff == Radio("0")
RadioOn == Radio("1")
AskOperator == Single("COPS?", "+COPS:")

\* What an operator's name may be asked for in: AT+COPS=3,0 to 3,2.
Formats == <<"long", "short", "code">>

\* The settings an operation reports on.
Parts == {"pref", "slot", "lte", "nr"}

\* Does the call for command cmd keep a line that begins so (processLine)?
Accepts(cmd, head) ==
    LET fits == cmd.prefix = "" \/ cmd.prefix = head
    IN  CASE cmd.kind = "NUMERIC"    -> pending.from = {} /\ head = "digits"
          [] cmd.kind = "SINGLELINE" -> pending.from = {} /\ fits
          [] cmd.kind = "MULTILINE"  -> fits
          [] OTHER                   -> FALSE

----------------------------------------------------------------------------
Idle == [name |-> "idle"]

NewJob(o) ==
    [op |-> o, pc |-> "start",
     asked |-> NoCommand,       \* the command of the last call
     keeps |-> FALSE,           \* did it pass &p_response?
     resp |-> "null",           \* p_response: "null", "live" or "freed"
     got |-> {},                \* the lines of that response
     twice |-> FALSE,           \* a response was freed twice
     res |-> [p \in Parts |-> "not done"],
     isp |-> [f \in {"long", "short", "code"} |-> "INVALID"],
     i |-> 1,
     status |-> "INVALID",      \* what told the registration status
     bands |-> [p \in {"lte", "nr"} |-> "N/A"],
     accepted |-> {}]           \* the settings the modem took from this job

Unsent == [by |-> CHOOSE w \in Workers : TRUE, cmd |-> NoCommand]

Silence == [of |-> "", format |-> "", act |-> ""]

Init ==
    /\ Svc!ServiceInit
    /\ job = [w \in Workers |-> NewJob(Idle)]
    /\ sent = [n \in Numbers |-> Unsent]
    /\ said = [n \in Numbers |-> Silence]
    /\ \E a \in Acts : modem = [radio |-> "1", format |-> "long", act |-> a]
    /\ served = 0 /\ timeouts = 0 /\ slips = 0
    /\ hist = [crash |-> "none", radioLost |-> FALSE, formatLost |-> FALSE,
               lineless |-> FALSE, leakers |-> {}]

Running == alive = "running" /\ hist.crash = "none"

\* Nothing has gone wrong on the channel.
Clean == upset = {} /\ slips = 0 /\ lineUp

----------------------------------------------------------------------------
(****************************************************************************)
(* Calls                                                                    *)
(****************************************************************************)
Waiting(w) == at[w] # "out"

\* Worker w, its locals now j, calls at_send_command...; next is where it goes
\* on.
Call(w, j, cmd, keep, next) ==
    /\ Svc!Ask(w)
    /\ job' = [job EXCEPT ![w] = [j EXCEPT !.pc = next, !.asked = cmd,
                                           !.keeps = keep]]
    /\ UNCHANGED <<modemVars, served, timeouts, slips, hist>>

Sends(w) ==
    /\ Running
    /\ LET n == IF owed = {} THEN 1 ELSE 1 + CHOOSE k \in owed : \A m \in owed : m <= k
       IN  /\ n \in Numbers /\ Svc!Send(w, n)
           /\ sent' = [k \in Numbers |->
                         IF k = n THEN [by |-> w, cmd |-> job[w].asked]
                         ELSE IF k \in owed THEN sent[k] ELSE Unsent]
           /\ said' = [k \in Numbers |-> IF k \in owed THEN said[k] ELSE Silence]
    /\ hist' = [hist EXCEPT !.radioLost = @ /\ job[w].asked # RadioOn]
    /\ UNCHANGED <<job, modem, served, timeouts, slips>>

\* The command cmd will not be carried out; is it the last of its kind?
Missed(h, cmd, last) == [h EXCEPT !.radioLost = @ \/ (cmd = RadioOn /\ last),
                                  !.formatLost = @ \/ cmd.name = "COPS=3"]

\* Another command is pending, or the line is dead.
Refused(w) ==
    /\ Running
    /\ Svc!Refuse(w) \/ Svc!Fail(w)
    /\ hist' = Missed(hist, job[w].asked, TRUE)
    /\ UNCHANGED <<job, modemVars, served, timeouts, slips>>

\* The answer did not come in time: the call fails without a response.
TimesOut(w) ==
    /\ Running /\ timeouts < MaxTimeouts
    /\ Svc!Expire(w)
    /\ timeouts' = timeouts + 1
    /\ UNCHANGED <<job, modemVars, served, slips, hist>>

\* A waiting worker wakes up and finds the response gone (atchannel.c:1099).
WakesToNothing(w) ==
    /\ Running /\ Svc!Crash(w)
    /\ hist' = [hist EXCEPT !.crash = "pending"]
    /\ UNCHANGED <<job, modemVars, served, timeouts, slips>>

\* Is the answer a success without the line that its caller must get
\* (at_send_command_singleline, at_send_command_numeric)?
Invalid(w) ==
    /\ job[w].asked.kind \in {"SINGLELINE", "NUMERIC"}
    /\ pending.done = "ok" /\ pending.from = {}

\* The call stores a response through p_response; what that pointed to before
\* is lost.
Stored(w, resp, got) ==
    /\ job' = [job EXCEPT ![w].resp = resp, ![w].got = got]
    /\ hist' = [hist EXCEPT !.lineless = @ \/ Invalid(w),
                            !.leakers = IF job[w].resp = "live"
                                        THEN @ \cup {job[w].op.name} ELSE @]

TakesNothing(w) ==
    ~job[w].keeps /\ Svc!Take(w, Svc!Without("0")) /\ UNCHANGED <<job, hist>>

TakesInvalid(w, resp) ==
    /\ job[w].keeps /\ Invalid(w)
    /\ Svc!Take(w, Svc!Without("INVALID_RESPONSE"))
    /\ Stored(w, resp, {})

TakesResponse(w, resp) ==
    /\ job[w].keeps /\ ~Invalid(w)
    /\ Svc!Take(w, Svc!With(pending))
    /\ Stored(w, resp, {said[n] : n \in pending.from})

\* Mutant: the response of an invalid answer is freed, the pointer kept.
TakesKeepingFreed(w) ==
    /\ Running
    /\ TakesNothing(w) \/ TakesInvalid(w, "freed") \/ TakesResponse(w, "live")
    /\ UNCHANGED <<modemVars, served, timeouts, slips>>

\* Mutant: a response that is not a success is not handed out.
TakesOnSuccess(w) ==
    /\ Running
    /\ \/ TakesNothing(w) \/ TakesInvalid(w, "null")
       \/ TakesResponse(w, IF pending.done = "ok" THEN "live" ELSE "null")
    /\ UNCHANGED <<modemVars, served, timeouts, slips>>

\* The call returns with an answer: freed if nobody wants it or if a line is
\* missing, and stored otherwise.
Takes(w) ==
    /\ Running
    /\ TakesNothing(w) \/ TakesInvalid(w, "null") \/ TakesResponse(w, "live")
    /\ UNCHANGED <<modemVars, served, timeouts, slips>>

----------------------------------------------------------------------------
(****************************************************************************)
(* The modem                                                                *)
(****************************************************************************)
Oldest == CHOOSE n \in owed : \A k \in owed : n <= k

\* It carries out the command cmd.
CarryOut(cmd) ==
    modem' = CASE cmd.name = "CFUN"   -> [modem EXCEPT !.radio = cmd.arg]
               [] cmd.name = "COPS=3" -> [modem EXCEPT !.format = cmd.arg]
               [] OTHER               -> modem

\* No later command switches the radio on.
LastOn == \A k \in owed : k = Oldest \/ sent[k].cmd # RadioOn

\* A line in answer to the oldest command.  It is kept if the command that is
\* pending, whichever that is, asks for such lines.
LineComes ==
    /\ Running /\ owed # {} /\ said[Oldest] = Silence
    /\ LET cmd == sent[Oldest].cmd
       IN  /\ \E head \in cmd.says :
                 Svc!Line(Oldest, pending.num # 0 /\ Accepts(sent[pending.num].cmd, head),
                          FALSE)
           /\ said' = [said EXCEPT ![Oldest] =
                         [of |-> cmd.name,
                          format |-> IF cmd = AskOperator THEN modem.format ELSE "",
                          act |-> IF cmd = AskOperator THEN modem.act ELSE ""]]
    /\ UNCHANGED <<job, sent, modem, served, timeouts, slips, hist>>

\* The final line of the oldest command.
Answers ==
    /\ Running /\ owed # {}
    /\ LET cmd == sent[Oldest].cmd
           by == sent[Oldest].by
       IN  \/ /\ Svc!Final(Oldest, "ok")
              /\ CarryOut(cmd)
              /\ job' = [job EXCEPT ![by].accepted = @ \cup cmd.parts]
              /\ UNCHANGED hist
           \/ /\ Svc!Final(Oldest, "error")
              /\ hist' = Missed(hist, cmd, LastOn)
              /\ UNCHANGED <<job, modem>>
    /\ UNCHANGED <<sent, said, served, timeouts, slips>>

\* The modem says nothing (more) in answer to the oldest command, which it may
\* or may not carry out.
Ignores ==
    /\ Running /\ owed # {} /\ slips < MaxSlips
    /\ Svc!Lost(Oldest)
    /\ LET cmd == sent[Oldest].cmd
       IN  \/ CarryOut(cmd) /\ UNCHANGED hist
           \/ UNCHANGED modem /\ hist' = Missed(hist, cmd, LastOn)
    /\ slips' = slips + 1
    /\ UNCHANGED <<job, sent, said, served, timeouts>>

\* NO CARRIER and the like, unasked.
Strays ==
    /\ Running /\ slips < MaxSlips
    /\ Svc!Final(0, "error")
    /\ slips' = slips + 1
    /\ UNCHANGED <<job, modemVars, served, timeouts, hist>>

HangsUp ==
    /\ Running /\ MayHangUp /\ lineUp
    /\ Svc!HangUp
    /\ UNCHANGED <<job, modemVars, served, timeouts, slips, hist>>

Exits ==
    /\ Running
    /\ Svc!Exit
    /\ UNCHANGED <<job, modemVars, served, timeouts, slips, hist>>

----------------------------------------------------------------------------
(****************************************************************************)
(* What the operations are made of                                          *)
(****************************************************************************)
\* Worker w is at step pc of operation name, its last call over.
At(w, name, pc) ==
    Running /\ job[w].op.name = name /\ job[w].pc = pc /\ at[w] = "out"

\* at_response_error of worker w's last call; p_response is what it stored.
Failed(w) == ret[w].err # "0" \/ ret[w].answer # "ok"

Outcome(w) == IF Failed(w) THEN "FAILURE" ELSE "SUCCESS"

\* at_response_free, which leaves the pointer as it is.
Free(j) == [j EXCEPT !.twice = @ \/ j.resp = "freed", !.got = {},
                     !.resp = IF @ = "null" THEN "null" ELSE "freed"]

\* safe_at_response_free
SafeFree(j) == [Free(j) EXCEPT !.resp = "null"]

\* A step of w's own that makes no call.
Local(w, j) ==
    /\ job' = [job EXCEPT ![w] = j]
    /\ UNCHANGED <<serviceVars, modemVars, served, timeouts, slips>>

Stays(w, j) == Local(w, j) /\ UNCHANGED hist

\* The operation returns; a response that is still live is lost.
Return(w, j) ==
    /\ Local(w, [j EXCEPT !.op = Idle, !.pc = "start", !.asked = NoCommand,
                          !.keeps = FALSE, !.resp = "null", !.got = {}, !.i = 1])
    /\ hist' = [hist EXCEPT !.leakers = IF j.resp = "live"
                                        THEN @ \cup {j.op.name} ELSE @]

\* A worker thread takes a request.
Request(w) ==
    /\ Running /\ at[w] = "out" /\ job[w].op = Idle /\ served < MaxRequests
    /\ \E o \in Requests : job' = [job EXCEPT ![w] = NewJob(o)]
    /\ served' = served + 1
    /\ UNCHANGED <<serviceVars, modemVars, timeouts, slips, hist>>

----------------------------------------------------------------------------
(****************************************************************************)
(* One question, or a second one if the first fails.  What becomes of the   *)
(* text of the line is left out, but for whether it can be read; a response *)
(* is freed always, never, or only if its line could be read.               *)
(****************************************************************************)
Question(cmd, frees) == [first |-> cmd, second |-> NoCommand, frees |-> frees]

GMI == Question(Single("GMI", ""), "always")

GMM == Question(Single("GMM", ""), "always")

GMR == Question(Single("GMR", ""), "always")

GSN == [Question(Numeric("GSN"), "always") EXCEPT !.second = Single("GSN", "+GSN:")]

Temperature == [Question(Single("TEMP", "+TEMP:"), "always")
                   EXCEPT !.second = Multi("QTEMP", "+QTEMP:")]

SIMStatus == Question(Single("CPIN?", "+CPIN:"), "always")

SIMSlot == Question(Single("QUIMSLOT?", "+QUIMSLOT:"), "always")

SIMICCID == [Question(Single("ICCID", ""), "always") EXCEPT !.second = Single("CCID", "")]

SIMIMSI == Question(Numeric("CIMI"), "never")

SIMNUM == Question(Single("CNUM", "+CNUM:"), "always")

NetSignal == Question(Multi("qeng", "+QENG:"), "always")

NetCellInfo == Question(Multi("qeng", "+QENG:"), "never")

EtherNetMode == Question(Single("QCFG", "+QCFG:"), "always")

NetWorkSearchPref == Question(Single("mode_pref", "+QNWPREFCFG: mode"), "if read")

AtRaw == Question(Multi("raw", ""), "never")

IpAddress == Question(Multi("CGPADDR", "+CGPADDR:"), "never")

Questions ==
    [gmi |-> GMI, gmm |-> GMM, gmr |-> GMR, gsn |-> GSN,
     temperature |-> Temperature, simstatus |-> SIMStatus, simslot |-> SIMSlot,
     iccid |-> SIMICCID, imsi |-> SIMIMSI, simnum |-> SIMNUM,
     signal |-> NetSignal, cellinfo |-> NetCellInfo, ethernet |-> EtherNetMode,
     searchpref |-> NetWorkSearchPref, atraw |-> AtRaw, ipaddress |-> IpAddress]

AtQuestion(w, pc) == \E name \in DOMAIN Questions : At(w, name, pc)

QuestionOf(w) == Questions[job[w].op.name]

Ask(w) ==
    /\ AtQuestion(w, "start")
    /\ Call(w, job[w], QuestionOf(w).first, TRUE, "first")

\* Mutant: the answer to the first command is not freed.
AskAgainUnfreed(w) ==
    /\ AtQuestion(w, "first") /\ Failed(w) /\ QuestionOf(w).second # NoCommand
    /\ Call(w, job[w], QuestionOf(w).second, TRUE, "second")

AskAgain(w) ==
    /\ AtQuestion(w, "first") /\ Failed(w) /\ QuestionOf(w).second # NoCommand
    /\ Call(w, SafeFree(job[w]), QuestionOf(w).second, TRUE, "second")

\* The handler reads the line, if there is one, and returns.
Asked(w) ==
    /\ \/ AtQuestion(w, "first") /\ (~Failed(w) \/ QuestionOf(w).second = NoCommand)
       \/ AtQuestion(w, "second") /\ (job[w].op.name = "iccid" => job[w].resp # "null")
    /\ \E read \in BOOLEAN :
         /\ read => ~Failed(w)
         /\ LET frees == QuestionOf(w).frees
            IN  Return(w, IF frees = "always" \/ (frees = "if read" /\ read)
                          THEN SafeFree(job[w]) ELSE job[w])

\* The lines of the second ICCID answer are read whether or not there is one.
IccidCrashes(w) ==
    /\ At(w, "iccid", "second") /\ job[w].resp = "null"
    /\ hist' = [hist EXCEPT !.crash = "iccid"]
    /\ UNCHANGED <<serviceVars, modemVars, job, served, timeouts, slips>>

(****************************************************************************)
(* The registration: the operator's answer tells which question to ask      *)
(****************************************************************************)
Registration(act) ==
    CASE act = "utran"  -> Single("CGREG?", "+CGREG:")
      [] act = "eutran" -> Single("CEREG?", "+CEREG:")
      [] act = "nr"     -> Single("C5GREG?", "+C5GREG:")
      [] OTHER          -> NoCommand

\* The access technology in the line of j's response; "none" when it is short.
ActOf(j) == (CHOOSE t \in j.got : TRUE).act

\* What is asked next, unless the first call failed.
AfterOperator(w) == IF Failed(w) THEN NoCommand ELSE Registration(ActOf(job[w]))

SysInfo(w) ==
    At(w, "sysinfo", "start") /\ Call(w, job[w], AskOperator, TRUE, "operator")

SysInfoAsk(w) ==
    /\ At(w, "sysinfo", "operator") /\ AfterOperator(w) # NoCommand
    /\ Call(w, job[w], AfterOperator(w), TRUE, "status")

SysInfoAnswered(w) ==
    \/ At(w, "sysinfo", "operator") /\ AfterOperator(w) = NoCommand
    \/ At(w, "sysinfo", "status")

\* The line's second field is the status, whatever line it is.
StatusIn(j) == [j EXCEPT !.status = (CHOOSE t \in j.got : TRUE).of]

\* Mutant: the result of the second call is not looked at.
SysInfoDoneUnchecked(w) ==
    /\ SysInfoAnswered(w)
    /\ \/ job[w].got # {} /\ Return(w, SafeFree(StatusIn(job[w])))
       \/ Return(w, SafeFree(job[w]))

SysInfoDone(w) ==
    /\ SysInfoAnswered(w)
    /\ \/ /\ ~Failed(w) /\ ActOf(job[w]) # "none"
          /\ Return(w, SafeFree(StatusIn(job[w])))
       \/ Return(w, SafeFree(job[w]))

(****************************************************************************)
(* The bands in use: two questions                                          *)
(****************************************************************************)
AskBand == [lte |-> Single("lte_band", "+QNWPREFCFG: lte"),
            nr |-> Single("nr_band", "+QNWPREFCFG: nr")]

GetLockBand(w) ==
    At(w, "getlock", "start") /\ Call(w, job[w], AskBand.lte, TRUE, "lte")

\* The band setting's name in the answer, if it can be read.
BandIn(w, p) ==
    IF Failed(w) THEN job[w]
    ELSE [job[w] EXCEPT !.bands[p] = (CHOOSE t \in job[w].got : TRUE).of]

GetLockBandNr(w) ==
    /\ At(w, "getlock", "lte")
    /\ Call(w, SafeFree(BandIn(w, "lte")), AskBand.nr, TRUE, "nr")

GetLockBandDone(w) == At(w, "getlock", "nr") /\ Return(w, SafeFree(BandIn(w, "nr")))

(****************************************************************************)
(* The SIM slot                                                             *)
(****************************************************************************)
SetSlot(w) ==
    At(w, "slot", "start") /\ Call(w, job[w], Setting({"slot"}), TRUE, "done")

SetSlotDone(w) ==
    /\ At(w, "slot", "done")
    /\ Return(w, SafeFree([job[w] EXCEPT !.res["slot"] = Outcome(w)]))

(****************************************************************************)
(* The search preference: radio off, the setting, radio on                  *)
(****************************************************************************)
SearchPref(w) ==
    At(w, "pref", "start") /\ Call(w, job[w], RadioOff, FALSE, "set")

SearchPrefSet(w) ==
    At(w, "pref", "set") /\ Call(w, job[w], Setting({"pref"}), TRUE, "on")

\* Mutant: a setting that failed ends the operation.
SearchPrefOnIfSet(w) ==
    /\ At(w, "pref", "on")
    /\ LET j == [job[w] EXCEPT !.res["pref"] = Outcome(w)]
       IN  IF Failed(w) THEN Return(w, SafeFree(j))
                        ELSE Call(w, j, RadioOn, FALSE, "done")

SearchPrefOn(w) ==
    /\ At(w, "pref", "on")
    /\ Call(w, [job[w] EXCEPT !.res["pref"] = Outcome(w)],
            RadioOn, FALSE, "done")

\* Mutant: the result is that of switching the radio on.
SearchPrefDoneLate(w) ==
    /\ At(w, "pref", "done")
    /\ Return(w, SafeFree([job[w] EXCEPT !.res["pref"] = Outcome(w)]))

SearchPrefDone(w) == At(w, "pref", "done") /\ Return(w, SafeFree(job[w]))

(****************************************************************************)
(* The bands.  For LTE and for NR a request names some bands, "all" or none *)
(* ("all" among others counts as "all").                                    *)
(****************************************************************************)
Named(o, what) == {p \in {"lte", "nr"} : o[p] = what}

\* The step after `done' of the bands named are set, LTE first.
BandStep(o, done) ==
    IF "lte" \in Named(o, "some") \ done THEN "lte"
    ELSE IF "nr" \in Named(o, "some") \ done THEN "nr"
    ELSE "on"

LockBand(w) ==
    /\ At(w, "lock", "start")
    /\ LET o == job[w].op
       IN  Call(w, job[w], RadioOff, FALSE,
                IF Named(o, "all") = {} THEN BandStep(o, {}) ELSE "reset")

\* AT+QNWPREFCFG="all_band_reset"
LockReset(w) ==
    /\ At(w, "lock", "reset")
    /\ Call(w, job[w], Setting(Named(job[w].op, "all")), TRUE, "after reset")

\* AT+QNWPREFCFG="restore_band", if that failed
LockRestore(w) ==
    /\ At(w, "lock", "after reset") /\ Failed(w)
    /\ Call(w, job[w], Setting(Named(job[w].op, "all")), TRUE, "after restore")

LockAll(w) ==
    /\ \/ At(w, "lock", "after reset") /\ ~Failed(w)
       \/ At(w, "lock", "after restore")
    /\ LET o == job[w].op
       IN  Stays(w, [job[w] EXCEPT
                       !.res = [p \in Parts |-> IF p \in Named(o, "all")
                                                THEN Outcome(w) ELSE @[p]],
                       !.pc = BandStep(o, {})])

AfterPart == [lte |-> "after lte", nr |-> "after nr"]

LockPart(w, p) ==
    /\ At(w, "lock", p)
    /\ Call(w, Free(job[w]), Setting({p}), TRUE, AfterPart[p])

LockPartDone(w, p) ==
    /\ At(w, "lock", AfterPart[p])
    /\ Stays(w, [job[w] EXCEPT
                   !.res[p] = Outcome(w),
                   !.pc = BandStep(job[w].op, {"lte", p})])

LockRadioOn(w) ==
    At(w, "lock", "on") /\ Call(w, job[w], RadioOn, FALSE, "done")

LockDone(w) == At(w, "lock", "done") /\ Return(w, job[w])

(****************************************************************************)
(* The operator's names: for each format, set it and ask                    *)
(****************************************************************************)
NetISP(w) ==
    /\ At(w, "isp", "start")
    /\ Call(w, job[w], Format(Formats[job[w].i]), FALSE, "ask")

NetISPAsk(w) == At(w, "isp", "ask") /\ Call(w, job[w], AskOperator, TRUE, "note")

\* The operator as the answer shows it.
Operator(w) == IF Failed(w) THEN "INVALID"
               ELSE (CHOOSE t \in job[w].got : TRUE).format

\* Mutant: the format is set once, before the loop.
NetISPNoteNoFormat(w) ==
    /\ At(w, "isp", "note")
    /\ LET j == [job[w] EXCEPT !.isp[Formats[job[w].i]] = Operator(w)]
       IN  IF j.i < 3
           THEN Stays(w, [j EXCEPT !.i = @ + 1, !.pc = "ask"])
           ELSE Return(w, SafeFree(j))

NetISPNote(w) ==
    /\ At(w, "isp", "note")
    /\ LET j == [job[w] EXCEPT !.isp[Formats[job[w].i]] = Operator(w)]
       IN  IF j.i < 3
           THEN Stays(w, [j EXCEPT !.i = @ + 1, !.pc = "start"])
           ELSE Return(w, SafeFree(j))

(****************************************************************************)
(* Connecting: the APN, given or looked up by the operator's code, defines  *)
(* the context, which is then brought up.  The answer is always SUCCESS.    *)
(****************************************************************************)
Connect(w) ==
    /\ At(w, "connect", "start") /\ ~job[w].op.apn
    /\ Call(w, job[w], Format("code"), FALSE, "ask")

ConnectAsk(w) ==
    At(w, "connect", "ask") /\ Call(w, job[w], AskOperator, TRUE, "define")

ConnectDefine(w) ==
    /\ \/ At(w, "connect", "start") /\ job[w].op.apn
       \/ At(w, "connect", "define")
    /\ LET j == IF job[w].op.apn THEN job[w]
                ELSE [job[w] EXCEPT !.isp["code"] = Operator(w)]
       IN  Call(w, Free(j), Plain("CGDCONT"), TRUE, "up")

ConnectUp(w) ==
    /\ At(w, "connect", "up")
    /\ Call(w, Free(job[w]), Plain("QNETDEVCTL"), TRUE, "done")

ConnectDone(w) == At(w, "connect", "done") /\ Return(w, job[w])

----------------------------------------------------------------------------
Simple(w) ==
    \/ Ask(w) \/ AskAgain(w) \/ Asked(w) \/ IccidCrashes(w)
    \/ SysInfo(w) \/ SysInfoAsk(w) \/ SysInfoDone(w)
    \/ GetLockBand(w) \/ GetLockBandNr(w) \/ GetLockBandDone(w)
    \/ SetSlot(w) \/ SetSlotDone(w)

Preference(w) ==
    SearchPref(w) \/ SearchPrefSet(w) \/ SearchPrefOn(w) \/ SearchPrefDone(w)

Bands(w) ==
    \/ LockBand(w) \/ LockReset(w) \/ LockRestore(w) \/ LockAll(w)
    \/ \E p \in {"lte", "nr"} : LockPart(w, p) \/ LockPartDone(w, p)
    \/ LockRadioOn(w) \/ LockDone(w)

Network(w) ==
    \/ NetISP(w) \/ NetISPAsk(w) \/ NetISPNote(w)
    \/ Connect(w) \/ ConnectAsk(w) \/ ConnectDefine(w) \/ ConnectUp(w)
    \/ ConnectDone(w)

Channel(w) == Sends(w) \/ Refused(w) \/ TimesOut(w) \/ WakesToNothing(w) \/ Takes(w)

Modem == LineComes \/ Answers \/ Ignores \/ Strays \/ HangsUp \/ Exits

Next ==
    \/ \E w \in Workers : \/ Request(w) \/ Channel(w) \/ Simple(w)
                          \/ Preference(w) \/ Bands(w) \/ Network(w)
    \/ Modem

Spec == Init /\ [][Next]_vars

----------------------------------------------------------------------------
\* Types, and: what is pending is for a worker that waits for its answer.
TypeOK ==
    /\ Svc!ServiceTypeOK
    /\ pending.num # 0 => \E w \in Workers : at[w] = "waiting" /\ num[w] = pending.num
    /\ hist.crash \in {"none", "pending", "iccid"}
    /\ modem \in [radio : {"0", "1"}, format : {"long", "short", "code"}, act : Acts]
    /\ \A w \in Workers :
          /\ job[w].resp \in {"null", "live", "freed"}
          /\ job[w].i \in 1..3
          /\ job[w].accepted \subseteq Parts
          /\ job[w].res \in [Parts -> {"not done", "SUCCESS", "FAILURE"}]
    /\ served \in 0..MaxRequests /\ timeouts \in 0..MaxTimeouts
    /\ slips \in 0..MaxSlips

Quiet == owed = {} /\ \A w \in Workers : job[w].op = Idle

\* However operations overlap, fail and time out, the radio that they switch
\* off is on again when all is done, unless the last AT+CFUN=1 was refused by
\* the channel, ignored or answered with ERROR (cellMgtFrame.c:847, 1191).
RadioComesBack == (Running /\ lineUp /\ Quiet /\ modem.radio = "0")
                      => hist.radioLost

\* As long as nothing goes wrong on the channel, an operation says SUCCESS of
\* a setting exactly if the modem accepted it.
TruthfulReply ==
    \A w \in Workers : \A p \in Parts :
        (Clean /\ job[w].op = Idle) =>
            (job[w].res[p] = "SUCCESS" <=> p \in job[w].accepted)

\* A response is freed twice (cellMgtFrame.c:1339 and 1344) only after a call of
\* some operation ended without a response.
FreedTwiceNeedsFailure == \A w \in Workers : job[w].twice => ~Clean

\* The program crashes on a missing response only when a call was refused, or,
\* in the ICCID operation, when both its calls came back without a response.
CrashHasCause ==
    /\ hist.crash = "pending" => "refused" \in upset
    /\ hist.crash = "iccid" => hist.lineless \/ ~Clean

\* One operation at a time: the names of the operator are in the formats they
\* are reported as, if the modem accepted the formats; even when one answer was
\* late, missing or unasked and all later answers go to the wrong call, for the
\* answer to setting a format is no answer to the question.
IspInOwnFormat ==
    (timeouts + slips <= 1 /\ ~hist.formatLost) =>
        \A w \in Workers : \A f \in DOMAIN job[w].isp :
            job[w].isp[f] \in {f, "INVALID"}

\* As long as no call is refused, however late answers come and whatever calls
\* fail, the registration status is read from a registration answer and the
\* bands of either technology from the answer about it (cellMgtFrame.c:467-473 of
\* the calls at 447, 453 and 460; 1049-1060 of those at 1048 and 1055), unless the
\* network is one of those that the status operation does not know, for which it
\* takes the operator's line for the status.  (A refused call clears what is
\* pending for another one, which may then wake up to the answer of a third.)
ReadFromOwnKind ==
    "refused" \notin upset =>
        \A w \in Workers :
            /\ modem.act \in {"utran", "eutran", "nr", "none"} => job[w].status # "COPS?"
            /\ job[w].bands.lte \in {"N/A", "lte_band"}
            /\ job[w].bands.nr \in {"N/A", "nr_band"}

\* These operations free each response on every way through them, however
\* their calls fail: the questions about the device, the SIM and the signal,
\* the bands in use, the SIM slot and the search preference.
CarefulOnes ==
    {"gmi", "gmm", "gmr", "gsn", "temperature", "simstatus", "simslot", "iccid",
     "simnum", "signal", "ethernet", "getlock", "slot", "pref"}

CarefulOnesFree == hist.leakers \cap CarefulOnes = {}

\* "if non-NULL, the resulting ATResponse * must be eventually freed with
\* at_response_free" (atchannel.c:1168).
ResponsesAreFreed == hist.leakers = {}
=============================================================================
