------------------------------- MODULE Startup -------------------------------
(****************************************************************************)
(* From main() to the event loop (src/main.c, prco_request_init of          *)
(* src/request_proc.c, at_handshake of src/atc/atchannel.c): the listening  *)
(* socket, the port file, the AT device, the handshake with its retries and *)
(* its drain, and the ways out of the program.                              *)
(*                                                                          *)
(* The handshake is a matter of time, so time is explicit: a tick is some   *)
(* fraction of a slice of the condition wait, an answer comes exactly       *)
(* latency ticks after its command, and of two things due at the same tick  *)
(* either may happen first.                                                 *)
(****************************************************************************)
EXTENDS Integers, Sequences

CONSTANTS
    HANDSHAKE_RETRY_COUNT,   \* 4
    Slices,                  \* timed waits in one timeout
    SliceTicks,              \* length of one of them
    DrainTicks,              \* the pause after the handshake
    Latencies,               \* how long the modem may take to answer
    MayFailOpen              \* may the device be missing?

ASSUME TimesAssumption ==
    /\ HANDSHAKE_RETRY_COUNT \in Nat \ {0} /\ Slices \in Nat \ {0}
    /\ SliceTicks \in Nat \ {0} /\ DrainTicks \in Nat
    /\ Latencies \subseteq Nat

HANDSHAKE_TIMEOUT == Slices * SliceTicks

VARIABLES
    phase,       \* how far main() has come
    portFile,    \* /var/run/cellmgt exists, written by this process
    ops,         \* cmf has been filled in
    opened,      \* at_open succeeded
    latency,     \* of this modem
    now,
    try,         \* the i of at_handshake, from 1
    slice,       \* the slice of the wait
    wait,        \* "waiting" or "expired", as in ATChannel, or writing "failed"
    deadline,    \* when the slice, or the drain, ends
    due,         \* when the answers on their way arrive
    hungup,      \* the line is dead
    cause        \* why the program ended

vars == <<phase, portFile, ops, opened, latency, now, try, slice, wait,
          deadline, due, hungup, cause>>

timing == <<now, try, slice, wait, deadline, due, hungup>>

Phases == {"listen", "portfile", "open", "handshake", "drain", "init", "run",
           "ended"}

Init ==
    /\ phase = "listen" /\ portFile = FALSE /\ ops = FALSE /\ opened = FALSE
    /\ latency \in Latencies
    /\ now = 0 /\ try = 0 /\ slice = 1 /\ wait = "waiting" /\ deadline = 0
    /\ due = <<>> /\ hungup = FALSE
    /\ cause = "none"

End(why) == phase' = "ended" /\ cause' = why

\* uv_listen, and the early return when it fails.
Listen ==
    /\ phase = "listen"
    /\ \/ phase' = "portfile" /\ UNCHANGED cause
       \/ End("listen")
    /\ UNCHANGED <<portFile, ops, opened, latency, timing>>

\* The port file is written, before anything is known of the modem.
WritePortFile ==
    /\ phase = "portfile"
    /\ \/ phase' = "open" /\ portFile' = TRUE /\ UNCHANGED cause
       \/ End("portfile") /\ UNCHANGED portFile
    /\ UNCHANGED <<ops, opened, latency, timing>>

\* ATE0Q0V1 is written, and the first slice begins.
Writes ==
    /\ ~hungup
    /\ slice' = 1 /\ wait' = "waiting" /\ deadline' = now + SliceTicks
    /\ due' = Append(due, now + latency)

\* writeline fails on a dead line, and the attempt is over at once.
WriteFails == hungup /\ wait' = "failed" /\ UNCHANGED <<slice, deadline, due>>

\* One attempt.
Attempt(n) == (Writes \/ WriteFails) /\ try' = n /\ UNCHANGED <<now, hungup>>

\* at_open; when it fails prco_request_init returns -1, main() ignores that
\* and runs the loop with an empty cmf.
Open ==
    /\ phase = "open"
    /\ \/ opened' = TRUE /\ phase' = "handshake" /\ Attempt(1)
       \/ MayFailOpen /\ phase' = "run" /\ UNCHANGED <<opened, timing>>
    /\ UNCHANGED <<portFile, ops, latency, cause>>

SliceExpires ==
    /\ phase = "handshake" /\ wait = "waiting" /\ now = deadline
    /\ wait' = "expired"
    /\ UNCHANGED <<phase, portFile, ops, opened, latency, now, try, slice,
                   deadline, due, hungup, cause>>

NextSlice ==
    /\ phase = "handshake" /\ wait = "expired" /\ slice < Slices
    /\ slice' = slice + 1 /\ wait' = "waiting" /\ deadline' = now + SliceTicks
    /\ UNCHANGED <<phase, portFile, ops, opened, latency, now, try, due, hungup,
                   cause>>

\* The attempt timed out, or it could not be written.
Failed == wait = "failed" \/ (wait = "expired" /\ slice = Slices)

\* Try again.
Retry ==
    /\ phase = "handshake" /\ Failed
    /\ try < HANDSHAKE_RETRY_COUNT
    /\ Attempt(try + 1)
    /\ UNCHANGED <<phase, portFile, ops, opened, latency, cause>>

\* Mutant: the first attempt decides.
FailsAtOnce ==
    /\ phase = "handshake" /\ Failed
    /\ End("handshake")
    /\ UNCHANGED <<portFile, ops, opened, latency, timing>>

\* Mutant: a handshake without an answer starts over.
FailsNever ==
    /\ phase = "handshake" /\ Failed
    /\ try = HANDSHAKE_RETRY_COUNT
    /\ try' = 1 /\ slice' = 1 /\ wait' = "waiting" /\ deadline' = 0
    /\ now' = 0
    /\ UNCHANGED <<phase, portFile, ops, opened, latency, due, hungup, cause>>

\* All attempts failed: at_close, exit(EXIT_FAILURE).
HandshakeFails ==
    /\ phase = "handshake" /\ Failed
    /\ try = HANDSHAKE_RETRY_COUNT
    /\ End("handshake")
    /\ UNCHANGED <<portFile, ops, opened, latency, timing>>

\* An answer arrives at this tick.
AnswerDue == IF due = <<>> THEN FALSE ELSE Head(due) = now

\* Mutant: the program goes on as soon as the modem has answered.
AnswerNoDrain ==
    /\ AnswerDue
    /\ due' = Tail(due)
    /\ IF phase = "handshake" /\ wait = "waiting"
       THEN phase' = "drain" /\ deadline' = now
       ELSE UNCHANGED <<phase, deadline>>
    /\ UNCHANGED <<portFile, ops, opened, latency, now, try, slice, wait, hungup,
                   cause>>

\* An answer arrives.  It ends the handshake if the wait is on; between two
\* slices it is noted in a response nobody looks at; later it is unsolicited.
Answer ==
    /\ AnswerDue
    /\ due' = Tail(due)
    /\ IF phase = "handshake" /\ wait = "waiting"
       THEN phase' = "drain" /\ deadline' = now + DrainTicks
       ELSE UNCHANGED <<phase, deadline>>
    /\ UNCHANGED <<portFile, ops, opened, latency, now, try, slice, wait, hungup,
                   cause>>

\* sleepMsec(HANDSHAKE_TIMEOUT_MSEC) is over.
DrainEnds ==
    /\ phase = "drain" /\ now = deadline
    /\ phase' = "init"
    /\ UNCHANGED <<portFile, ops, opened, latency, timing, cause>>

\* Mutant: cmf is left empty.
InitOpsForgets ==
    /\ phase = "init"
    /\ phase' = "run"
    /\ UNCHANGED <<portFile, ops, opened, latency, timing, cause>>

\* createAtcRequestOps and atcRequestOpsInit, then uv_run.
InitOps ==
    /\ phase = "init"
    /\ ops' = TRUE
    /\ phase' = "run"
    /\ UNCHANGED <<portFile, opened, latency, timing, cause>>

\* A GET or POST is served; without cmf it calls through a NULL pointer.
Serve ==
    /\ phase = "run" /\ ~ops
    /\ End("crash")
    /\ UNCHANGED <<portFile, ops, opened, latency, timing>>

\* The line goes dead, with what was on it.
HangUp ==
    /\ opened /\ ~hungup /\ phase # "ended"
    /\ hungup' = TRUE /\ due' = <<>>
    /\ UNCHANGED <<phase, portFile, ops, opened, latency, now, try, slice, wait,
                   deadline, cause>>

\* The reader thread finds the line dead (ATChannel!ReaderExits).
LineDies ==
    /\ hungup /\ phase \in {"handshake", "drain", "init", "run"}
    /\ End("line")
    /\ UNCHANGED <<portFile, ops, opened, latency, timing>>

\* Mutant: the signal handler leaves the port file.
SignalLeavesFile ==
    /\ phase # "ended"
    /\ End("signal")
    /\ UNCHANGED <<portFile, ops, opened, latency, timing>>

\* SIGINT or SIGTERM: sig_action.
Signal ==
    /\ phase # "ended"
    /\ End("signal")
    /\ portFile' = FALSE
    /\ UNCHANGED <<ops, opened, latency, timing>>

Waiting == phase = "handshake" \/ phase = "drain"

\* Time passes while the program waits and nothing is due.
Tick ==
    /\ Waiting
    /\ ~AnswerDue
    /\ now < deadline
    /\ now' = now + 1
    /\ UNCHANGED <<phase, portFile, ops, opened, latency, try, slice, wait,
                   deadline, due, hungup, cause>>

Main == Listen \/ WritePortFile \/ Open \/ SliceExpires \/ NextSlice \/ Retry
          \/ HandshakeFails \/ DrainEnds \/ InitOps

Next == Main \/ Answer \/ Serve \/ HangUp \/ LineDies \/ Signal \/ Tick

Spec == Init /\ [][Next]_vars

\* main() is scheduled, time passes and answers that are due arrive.
FairSpec == Spec /\ WF_vars(Main) /\ WF_vars(Answer) /\ WF_vars(Tick)

----------------------------------------------------------------------------
TypeOK ==
    /\ phase \in Phases
    /\ portFile \in BOOLEAN /\ ops \in BOOLEAN /\ opened \in BOOLEAN
    /\ now \in Nat /\ deadline \in Nat
    /\ try \in 0..HANDSHAKE_RETRY_COUNT /\ slice \in 1..Slices
    /\ wait \in {"waiting", "expired", "failed"} /\ hungup \in BOOLEAN
    /\ Len(due) <= HANDSHAKE_RETRY_COUNT

\* Where an answer never meets the end of a slice.
OffBoundary == latency % SliceTicks # 0

\* A modem that answers within the time of all the attempts together fails the
\* handshake only on a line that goes dead, where attempts may fail without
\* waiting for it (atchannel.c:1086-1092); otherwise it passes, whichever attempt
\* the answer was to.  An answer that comes just as a slice of the wait ends may
\* go unnoticed.
SlowModemPasses ==
    (OffBoundary /\ latency < HANDSHAKE_RETRY_COUNT * HANDSHAKE_TIMEOUT)
        => (cause = "handshake" => hungup)

\* An answer to the handshake will come after this moment.
StillDue == \E i \in 1..Len(due) : due[i] > now

\* "pause for a bit to let the input buffer drain any unmatched OK's"
\* (atchannel.c:1326): no answer to the handshake can come after the first
\* command, for a modem faster than the timeout and the pause together.  The
\* pause is just long enough for one retry: the last answer may arrive in the
\* very moment it ends.
DrainedIfQuick ==
    (phase \in {"init", "run"} /\ latency < HANDSHAKE_TIMEOUT + DrainTicks)
        => ~StillDue

\* A port file that outlives the program is the work of a failed handshake, a
\* dead line or a crash; a signal cleans up, whenever it comes.
StaleFileHasCause ==
    (phase = "ended" /\ portFile) => cause \in {"handshake", "line", "crash"}

\* The program is never killed by a request while its modem works: serving
\* through an empty cmf takes a device that could not be opened.
CrashNeedsFailedOpen == cause = "crash" => ~opened

\* Startup ends: the loop runs or the program is over.
StartupEnds == <>(phase \in {"run", "ended"})
=============================================================================
