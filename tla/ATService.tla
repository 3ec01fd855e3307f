------------------------------ MODULE ATService ------------------------------
(****************************************************************************)
(* What the AT channel promises its callers (at_send_command*() of          *)
(* src/atc/atchannel.c), without the reader thread, the condition variable, *)
(* the timed waits or the lines: a call asks, is sent or turned away, and   *)
(* then takes the answer, gives up, or brings the program down.             *)
(*                                                                          *)
(* ATChannel implements this specification (module ATRefinement), and the   *)
(* device operations are built on it (module DeviceOps).                    *)
(*                                                                          *)
(* A command that is sent gets a number larger than those of all commands   *)
(* that the modem may still answer.  An answer remembers whose final line   *)
(* ended it (of) and whose information lines are in it (from; 0 for a line  *)
(* nobody asked for).                                                       *)
(****************************************************************************)
EXTENDS Naturals

CONSTANTS
    Callers,    \* the threads that make calls
    Numbers,    \* the numbers commands may get, all of them positive
    Strays      \* may the modem end an answer that it was not asked for?

VARIABLES
    alive,      \* the process: "running", "crashed" or "exited"
    lineUp,     \* is the modem there?
    at,         \* where each caller is: "out", "asking" or "waiting"
    num,        \* the number of its command, 0 before it is sent
    ret,        \* what its last call returned
    pending,    \* the response being filled, or Nothing
    owed,       \* the numbers of the commands that lines may still come for
    upset       \* "refused": a call was, "late": a call gave up

serviceVars == <<alive, lineUp, at, num, ret, pending, owed, upset>>

Errs == {"0", "GENERIC", "COMMAND_PENDING", "CHANNEL_CLOSED", "TIMEOUT",
         "INVALID_RESPONSE"}

Nothing == [num |-> 0, done |-> "no", of |-> 0, from |-> {}]

\* A call that returns without a response, its error being e.
Without(e) == [err |-> e, answer |-> "none", of |-> 0, from |-> {}]

\* A call that returns the response p.
With(p) == [err |-> "0", answer |-> p.done, of |-> p.of, from |-> p.from]

\* Types; and nothing is filled in for a command that was never sent.
ServiceTypeOK ==
    /\ alive \in {"running", "crashed", "exited"}
    /\ lineUp \in BOOLEAN
    /\ at \in [Callers -> {"out", "asking", "waiting"}]
    /\ num \in [Callers -> Numbers \cup {0}]
    /\ ret \in [Callers -> [err : Errs, answer : {"none", "ok", "error"},
                            of : Numbers \cup {0}, from : SUBSET (Numbers \cup {0})]]
    /\ pending \in [num : Numbers, done : {"no", "ok", "error"},
                    of : Numbers \cup {0}, from : SUBSET (Numbers \cup {0})]
                       \cup {Nothing}
    /\ owed \subseteq Numbers
    /\ upset \subseteq {"refused", "late"}

ServiceInit ==
    /\ alive = "running" /\ lineUp = TRUE
    /\ at = [c \in Callers |-> "out"]
    /\ num = [c \in Callers |-> 0]
    /\ ret = [c \in Callers |-> Without("0")]
    /\ pending = Nothing /\ owed = {} /\ upset = {}

----------------------------------------------------------------------------
(****************************************************************************)
(* The callers                                                              *)
(****************************************************************************)
Ask(c) ==
    /\ at[c] = "out"
    /\ at' = [at EXCEPT ![c] = "asking"]
    /\ num' = [num EXCEPT ![c] = 0]
    /\ ret' = [ret EXCEPT ![c] = Without("0")]
    /\ UNCHANGED <<alive, lineUp, pending, owed, upset>>

\* The call returns, and what was pending is cleared.
Leave(c, r) ==
    /\ at' = [at EXCEPT ![c] = "out"]
    /\ ret' = [ret EXCEPT ![c] = r]
    /\ pending' = Nothing
    /\ UNCHANGED <<alive, lineUp, num, owed>>

\* The command goes out when no other one is pending.
Sent(c, n) ==
    /\ at[c] = "asking" /\ \A k \in owed : k < n
    /\ at' = [at EXCEPT ![c] = "waiting"]
    /\ num' = [num EXCEPT ![c] = n]
    /\ pending' = [Nothing EXCEPT !.num = n]
    /\ owed' = owed \cup {n}
    /\ UNCHANGED <<alive, lineUp, ret, upset>>

\* Mutant: nobody asks whether a command is pending.
SendAnyway(c, n) == Sent(c, n)

Send(c, n) == pending = Nothing /\ Sent(c, n)

\* Another command is pending: the call is refused, and that one cleared.
Refuse(c) ==
    /\ at[c] = "asking" /\ pending # Nothing
    /\ Leave(c, Without("COMMAND_PENDING"))
    /\ upset' = upset \cup {"refused"}

\* The command cannot be written.
Fail(c) ==
    /\ at[c] = "asking" /\ pending = Nothing /\ ~lineUp
    /\ \E e \in {"CHANNEL_CLOSED", "GENERIC"} : Leave(c, Without(e))
    /\ UNCHANGED upset

\* The call gives up, whatever has come for it, and clears what is pending.
Expire(c) ==
    /\ at[c] = "waiting"
    /\ Leave(c, Without("TIMEOUT"))
    /\ upset' = upset \cup {"late"}

\* What a call may make of the answer p: hand it out, keep it to itself when
\* its caller passed no pointer, or reject a success without a line.
Outcomes(p) ==
    {With(p), Without("0")}
        \cup (IF p.done = "ok" /\ p.from = {} THEN {Without("INVALID_RESPONSE")}
                                             ELSE {})

\* The call is answered, by whatever answer is there.
Take(c, r) ==
    /\ at[c] = "waiting" /\ pending.done # "no"
    /\ r \in Outcomes(pending)
    /\ Leave(c, r)
    /\ UNCHANGED upset

\* A call that was sent finds that another one cleared its response.
Crash(c) ==
    /\ at[c] = "waiting" /\ pending = Nothing
    /\ alive' = "crashed"
    /\ UNCHANGED <<lineUp, at, num, ret, pending, owed, upset>>

----------------------------------------------------------------------------
(****************************************************************************)
(* The modem, as far as callers can tell                                    *)
(****************************************************************************)
\* An information line arrives, for the oldest command owed an answer or for
\* none (0).  It may be kept if something is pending, whatever that is; it may
\* be the last that comes for its command.
Line(n, kept, last) ==
    /\ n = 0 \/ (n \in owed /\ \A k \in owed : n <= k)
    /\ kept => pending # Nothing
    /\ pending' = IF kept THEN [pending EXCEPT !.from = @ \cup {n}] ELSE pending
    /\ owed' = IF last THEN owed \ {n} ELSE owed
    /\ UNCHANGED <<alive, lineUp, at, num, ret, upset>>

\* A final line arrives and completes what is pending, whatever that is.
Final(n, done) ==
    /\ \/ n = 0 /\ Strays
       \/ n \in owed /\ \A k \in owed : n <= k
    /\ done \in {"ok", "error"}
    /\ pending' = IF pending = Nothing THEN Nothing
                  ELSE [pending EXCEPT !.done = done, !.of = n]
    /\ owed' = owed \ {n}
    /\ UNCHANGED <<alive, lineUp, at, num, ret, upset>>

\* No more lines will come for a command: the modem ignores it, or the rest of
\* its answer is dropped on the way.
Lost(n) ==
    /\ n \in owed
    /\ owed' = owed \ {n}
    /\ UNCHANGED <<alive, lineUp, at, num, ret, pending, upset>>

HangUp ==
    /\ lineUp' = FALSE
    /\ UNCHANGED <<alive, at, num, ret, pending, owed, upset>>

\* The program ends with the line.
Exit ==
    /\ ~lineUp
    /\ alive' = "exited"
    /\ UNCHANGED <<lineUp, at, num, ret, pending, owed, upset>>

----------------------------------------------------------------------------
Caller(c) ==
    \/ Ask(c) \/ Refuse(c) \/ Fail(c) \/ Expire(c) \/ Crash(c)
    \/ \E n \in Numbers : Send(c, n)
    \/ \E r \in Outcomes(pending) : Take(c, r)

Modem ==
    \/ \E n \in Numbers \cup {0} :
          \/ \E kept, last \in BOOLEAN : Line(n, kept, last)
          \/ \E done \in {"ok", "error"} : Final(n, done)
          \/ Lost(n)
    \/ HangUp

ServiceNext ==
    /\ alive = "running"
    /\ (\E c \in Callers : Caller(c)) \/ Modem \/ Exit

ServiceSpec == ServiceInit /\ [][ServiceNext]_serviceVars

----------------------------------------------------------------------------
\* What the promise comes to: until a call is refused or gives up, whatever a
\* call returns was ended by its own command's final line, and holds besides
\* its own command's lines only lines nobody asked for.
InStep ==
    (upset = {} /\ ~Strays) =>
        \A c \in Callers :
            ret[c].answer # "none" => /\ ret[c].of = num[c]
                                      /\ ret[c].from \subseteq {0, num[c]}
=============================================================================
