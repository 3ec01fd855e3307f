---------------------------- MODULE ATRefinement ----------------------------
(****************************************************************************)
(* ATChannel implements ATService: the reader thread, the condition         *)
(* variable and the lines of the detailed specification, seen from the      *)
(* callers, do what ATService promises.                                     *)
(****************************************************************************)
EXTENDS ATChannel

AbstractNumbers == 1..MaxCalls

\* The commands whose lines are in a list of lines.
Commanded(lines) == {lines[i].cmd : i \in 1..Len(lines)}

Done(r) == IF r.finalResponse = NoLine THEN "no"
           ELSE IF r.success THEN "ok" ELSE "error"

AbstractAt == [c \in Callers |-> CASE pc[c] = "idle" -> "out"
                                   [] pc[c] = "lock" -> "asking"
                                   [] OTHER          -> "waiting"]

\* What a call returned, and the response being filled.
Seen(o) == [err    |-> o.err,
            answer |-> IF o.resp = NULL THEN "none" ELSE Done(o.resp),
            of     |-> o.resp.finalResponse.cmd,
            from   |-> Commanded(o.resp.p_intermediates)]

AbstractRet == [c \in Callers |-> Seen(out[c])]

Held(r) == [num  |-> r.cmd,
            done |-> Done(r),
            of   |-> r.finalResponse.cmd,
            from |-> Commanded(r.p_intermediates)]

AbstractPending == Held(sp_response)

\* Lines of a command may still come as long as it is with the modem or some
\* of its lines are on the way.
AbstractOwed == (Commanded(rx) \cup {inbox[i] : i \in 1..Len(inbox)}) \ {0}

AbstractUpset == {u \in {"refused", "late"} : \/ u = "refused" /\ refused
                                              \/ u = "late" /\ lapsed}

Service == INSTANCE ATService WITH
               Numbers <- AbstractNumbers, Strays <- ~NoStrayFinals,
               alive <- proc, lineUp <- ~hungup, at <- AbstractAt, num <- id,
               ret <- AbstractRet, pending <- AbstractPending,
               owed <- AbstractOwed, upset <- AbstractUpset

\* Every step of the channel is one step of the service, or none: whatever
\* interleaving of callers, reader and modem, a response is handed over whole,
\* to a call that waits, at most once, and no call returns in a way that the
\* service does not know.
ImplementsService == Service!ServiceSpec
=============================================================================
