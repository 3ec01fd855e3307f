------------------------------- MODULE Dispatch -------------------------------
(****************************************************************************)
(* proc_get_request and proc_post_request of src/request_proc.c, run by     *)
(* libuv's worker threads at the same time, with at_tok_by_index_scanf of   *)
(* src/atc/at_tok.c.                                                        *)
(*                                                                          *)
(* The threads share three things behind the code's back: the place where   *)
(* strtok() left off, the static line at_tok_scanf() keeps its fields in,   *)
(* and the modem.  A step is one call of strtok, one use of that line or    *)
(* what a worker does between two of those.                                 *)
(*                                                                          *)
(* A request has its path's first 8 characters (head) and the path's parts. *)
(* The AT commands themselves are module DeviceOps's.  What a thread that   *)
(* follows another one's strtok overwrites there is not modelled.           *)
(****************************************************************************)
EXTENDS Reports

CONSTANTS
    Workers,        \* the worker threads
    Requests,       \* the requests that may come
    Servings,       \* the reports the modem may give of its serving cell
    Factory,        \* the texts of the bands the modem locks when reset
    MaxRequests     \* bound on the requests

ASSUME BoundsAssumption ==
    MaxRequests \in Nat /\ Workers # {} /\ DOMAIN Factory = Techs

VARIABLES
    job,        \* of each worker
    saved,      \* strtok's: whose buffer it is in, and what is left of it
    line,       \* at_tok_scanf's: the question whose answer is in it, and the field
    locked,     \* the modem's: the texts of the bands it is locked to
    served,     \* requests so far
    crash       \* what brought the program down, and whose

vars == <<job, saved, line, locked, served, crash>>

----------------------------------------------------------------------------
\* The handlers, by what becomes of the answer.  These copy fields out of
\* at_tok_scanf's line,
Copied == {"netisp", "sysinfo", "cellinfo", "temperature", "iccid", "simnum", "ipaddress"}
\* these return a pointer into it,
Borrowed == {"simslot", "networksearchpref"}
\* these do not use it (the first four only for an answer with a prefix),
Prefixed == {"gmi", "gmm", "gmr", "gsn"}
Direct == Prefixed \cup {"imsi", "simstatus"}
\* this takes a number of it, within at_tok_scanf,
Counted == {"ethernet"}
\* and these are tables of lines.
Listed == {"supportband", "atraw"}

\* Those whose answer is one text.
Single == Copied \cup Borrowed \cup Direct \cup Counted

GetHandlers == Single \cup Listed \cup {"signal", "lockband"}

PostHandlers == {"networksearchpref", "lockband", "simswitch", "networkconnect"}

\* strcasecmp: names and heads in capitals, and what they are to GET.
Capitals == [GMI |-> "gmi", LOCKBAND |-> "lockband"]

Folded(name) == IF name \in DOMAIN Capitals THEN Capitals[name] ELSE name

HeadFits(r) ==
    IF r.method = "GET" THEN r.head \in {"/api/get", "/API/GET"} ELSE r.head = "/api/set"

\* A path that begins with one of these has parts; "unset" is kept for none.
ASSUME RequestsAssumption ==
    \A r \in Requests : /\ r.path \in Seq(STRING)
                        /\ HeadFits(r) => r.path # <<>>
                        /\ \A i \in DOMAIN r.path : r.path[i] # "unset"

\* The handler that a name selects, "none" if it selects none.
Handler(r, name) ==
    CASE r.method = "GET" /\ Folded(name) \in GetHandlers -> Folded(name)
      [] r.method = "POST" /\ name \in PostHandlers       -> name
      [] OTHER                                            -> "none"

\* Texts are sequences.  A token is never empty: NoTok is strtok's NULL.
NoTok == <<>>
Junk == <<"?">>         \* bytes of something else
Missing == <<"N/A">>    \* a handler's text when the modem gives none

NoBands == [p \in Techs |-> <<>>]

\* The body of a request: "none", "bad" (not JSON), "other" (JSON without
\* data), a "value" or "bands".
NoBody == [kind |-> "none", bands |-> NoBands]

NoRequest == [method |-> "", head |-> "", path |-> <<>>, body |-> NoBody]

\* An answer, with the name it is given for, or "refused".  It is spoilt when
\* another thread has broken into the loop or the line that it is made from: what
\* it says then is not looked at.
NoAnswer == [of |-> "none", text |-> <<>>, rows |-> <<>>, bands |-> NoBands,
             signal |-> Signal(<<>>), status |-> ""]

Spoilt == [NoAnswer EXCEPT !.of = "spoilt"]

Idle(prev) ==
    [req |-> NoRequest, pc |-> "idle",
     buf |-> "none",        \* the buffer its strtok loop is in
     count |-> 0,           \* of the path's parts, and then of those to go
     name |-> "",           \* url_prefix
     prev |-> prev,         \* what that was for the request before
     told |-> NoBands,      \* the texts of the bands as the modem told them
     got |-> NoBands,       \* those texts as they were copied
     lines |-> NoBands,     \* the lines of the text made of them
     answer |-> NoAnswer]

NoBuffer == [by |-> CHOOSE w \in Workers : TRUE, buf |-> "none", delim |-> "", rest |-> <<>>]

\* Past the end of what was left in a buffer that is gone.
Spent == [NoBuffer EXCEPT !.delim = "spent"]

NoCrash == [cause |-> "none", by |-> NoBuffer.by]

Init ==
    /\ job = [w \in Workers |-> Idle("")]
    /\ saved = NoBuffer
    /\ line = [of |-> "", text |-> <<>>] /\ locked = Factory
    /\ served = 0 /\ crash = NoCrash

At(w, pc) == crash = NoCrash /\ job[w].pc = pc

\* Worker w goes on as j, and spoils the answers of V.
Spoils(w, V, j) ==
    [v \in Workers |-> IF v = w THEN j
                       ELSE IF v \in V THEN [job[v] EXCEPT !.answer = Spoilt, !.told = NoBands]
                       ELSE job[v]]

With(answer, a) == IF answer = Spoilt THEN Spoilt ELSE a

----------------------------------------------------------------------------
(****************************************************************************)
(* strtok                                                                   *)
(****************************************************************************)
First(toks) == IF toks = <<>> THEN NoTok ELSE Head(toks)

Rest(toks) == IF toks = <<>> THEN <<>> ELSE Tail(toks)

\* The workers other than w that are amid a loop of strtok calls.
Amid(w) == {v \in Workers \ {w} : job[v].buf # "none"}

\* The place s, which worker w leaves with its locals j: what was in a buffer
\* that is gone now makes no difference.
Place(s, w, j) ==
    IF s.by = w /\ s.buf \notin {"none", j.buf} THEN NoBuffer ELSE s

\* strtok(buf, delim), where toks are the tokens of buf; j says what w makes of
\* the first one.
Begins(w, buf, delim, toks, j(_)) ==
    /\ saved' = Place([by |-> w, buf |-> buf, delim |-> delim, rest |-> Rest(toks)],
                      w, j(First(toks)))
    /\ job' = Spoils(w, Amid(w), j(First(toks)))
    /\ UNCHANGED <<line, locked, served, crash>>

\* What strtok(NULL, delim) may find, and what it leaves: the next token of
\* whatever buffer it was in last; another thread's is taken whole, up to the next
\* colon if there is one in its lines; or anything in a buffer that is gone (bound:
\* one token at most).
Found(delim) ==
    LET live == saved.buf # "none" /\ job[saved.by].buf = saved.buf
        left == saved.rest # <<>>
    IN  CASE saved = Spent               -> {<<NoTok, Spent>>}
          [] ~live /\ saved # Spent      -> {<<NoTok, Spent>>, <<Junk, Spent>>}
          [] live /\ ~left               -> {<<NoTok, saved>>}
          [] live /\ left /\ saved.delim = delim ->
                {<<Head(saved.rest), [saved EXCEPT !.rest = Tail(@)]>>}
          [] OTHER ->
                {<<Junk, [saved EXCEPT !.rest = <<>>]>>}
                \cup IF delim = ":" /\ saved.delim = "\n"
                     THEN {<<Junk, [saved EXCEPT !.rest = Tail(@)]>>} ELSE {}

\* strtok(NULL, delim)
Continues(w, delim, j(_)) ==
    /\ \E f \in Found(delim) : /\ saved' = Place(f[2], w, j(f[1]))
                                /\ job' = Spoils(w, Amid(w), j(f[1]))
    /\ UNCHANGED <<line, locked, served, crash>>

----------------------------------------------------------------------------
(****************************************************************************)
(* The last part of the path (at_tok_by_index_scanf(path, "/", -1, "%s")):  *)
(* the parts are counted, and then the one of that number is looked for.    *)
(****************************************************************************)
Take(w) ==
    /\ At(w, "idle") /\ served < MaxRequests
    /\ \E r \in Requests :
          job' = [job EXCEPT ![w] = [Idle(@.prev) EXCEPT !.req = r, !.pc = "parts"]]
    /\ served' = served + 1
    /\ UNCHANGED <<saved, line, locked, crash>>

Path(w) == [i \in DOMAIN job[w].req.path |-> <<job[w].req.path[i]>>]

\* The part t is found, or none.
Named(w, t) == [job[w] EXCEPT !.name = IF t = NoTok THEN "unset" ELSE Head(t),
                              !.buf = "none", !.count = 0, !.pc = "match"]

\* Without parts nothing is stored.
Parts(w) ==
    /\ At(w, "parts")
    /\ Begins(w, "path", "/", Path(w),
              LAMBDA t : IF t = NoTok THEN Named(w, t)
                         ELSE [job[w] EXCEPT !.buf = "path", !.count = 1, !.pc = "count"])

Count(w) ==
    /\ At(w, "count")
    /\ Continues(w, "/",
                 LAMBDA t : IF t = NoTok THEN [job[w] EXCEPT !.buf = "none", !.pc = "again"]
                            ELSE [job[w] EXCEPT !.count = @ + 1])

\* Mutant: the copy is not started again from its beginning.
AgainOnwards(w) ==
    /\ At(w, "again")
    /\ Continues(w, "/",
                 LAMBDA t : IF t = NoTok \/ job[w].count = 1 THEN Named(w, t)
                            ELSE [job[w] EXCEPT !.buf = "path", !.count = @ - 1, !.pc = "find"])

Again(w) ==
    /\ At(w, "again")
    /\ Begins(w, "path", "/", Path(w),
              LAMBDA t : IF job[w].count = 1 THEN Named(w, t)
                         ELSE [job[w] EXCEPT !.buf = "path", !.count = @ - 1, !.pc = "find"])

\* Mutant: the loop looks for the number of the part only.
FindForever(w) ==
    /\ At(w, "find")
    /\ Continues(w, "/",
                 LAMBDA t : IF t # NoTok /\ job[w].count = 1 THEN Named(w, t)
                            ELSE IF t = NoTok THEN job[w]
                            ELSE [job[w] EXCEPT !.count = @ - 1])

Find(w) ==
    /\ At(w, "find")
    /\ Continues(w, "/",
                 LAMBDA t : IF t = NoTok \/ job[w].count = 1 THEN Named(w, t)
                            ELSE [job[w] EXCEPT !.count = @ - 1])

----------------------------------------------------------------------------
(****************************************************************************)
(* The handler                                                              *)
(****************************************************************************)
Local(w, j) ==
    /\ job' = [job EXCEPT ![w] = j]
    /\ UNCHANGED <<saved, line, locked, served, crash>>

Answers(w, a) == [job[w] EXCEPT !.answer = With(@, a), !.pc = "done"]

Refused == [NoAnswer EXCEPT !.of = "refused"]

Crashes(w, cause) ==
    /\ crash' = [cause |-> cause, by |-> w]
    /\ UNCHANGED <<job, saved, line, locked, served>>

\* The names url_prefix may hold, not assigned: it may be NULL, or still be
\* that of this thread's request before.
NamesFor(w) == IF job[w].name = "unset" THEN {"", job[w].prev} ELSE {job[w].name}

Matches(w) ==
    /\ At(w, "match")
    /\ \E name \in NamesFor(w) :
          IF ~HeadFits(job[w].req) \/ Handler(job[w].req, name) = "none"
          THEN Local(w, [Answers(w, Refused) EXCEPT !.name = name])
          ELSE Local(w, [job[w] EXCEPT !.name = name,
                                       !.pc = job[w].req.method])

\* Or anything else.
MatchesWild(w) ==
    At(w, "match") /\ job[w].name = "unset" /\ HeadFits(job[w].req) /\ Crashes(w, "prefix")

\* The handler that worker w is to carry out, for a request by method.
Chosen(w) == Handler(job[w].req, job[w].name)

Does(w, method, handlers) == At(w, method) /\ Chosen(w) \in handlers

AnswerOf(w) == [NoAnswer EXCEPT !.of = job[w].name]

\* Mutant: the pointer into the line is returned without an answer too.
GetDefaultStale(w) ==
    /\ Does(w, "GET", Single)
    /\ Local(w, Answers(w, [AnswerOf(w) EXCEPT !.text = line.text]))

\* No answer from the modem, or none that can be read.
GetDefault(w) ==
    /\ Does(w, "GET", Single)
    /\ Local(w, Answers(w, [AnswerOf(w) EXCEPT !.text = Missing]))

GetDirect(w) ==
    /\ Does(w, "GET", Direct)
    /\ Local(w, Answers(w, [AnswerOf(w) EXCEPT !.text = <<Chosen(w)>>]))

\* Those that rely on what is in the line.
Reading(v) == job[v].pc \in {"read", "copy lte", "copy nr", "signal"}

\* at_tok_scanf, on the answer to what, whose field is text; then j.
Scans(w, what, text, j) ==
    /\ line' = [of |-> what, text |-> text]
    /\ job' = Spoils(w, {v \in Workers : Reading(v)}, j)
    /\ UNCHANGED <<saved, locked, served, crash>>

GetScan(w) ==
    /\ Does(w, "GET", Copied \cup Borrowed \cup Prefixed \cup {"signal"})
    /\ LET h == Chosen(w)
       IN  Scans(w, h, <<h>>, [job[w] EXCEPT !.pc = IF h = "signal" THEN h ELSE "read"])

GetNumber(w) ==
    /\ Does(w, "GET", Counted)
    /\ LET h == Chosen(w)
       IN  Scans(w, h, <<h>>, Answers(w, [AnswerOf(w) EXCEPT !.text = <<h>>]))

\* The field is copied, or packed, as it is by now.
GetText(w) ==
    /\ At(w, "read")
    /\ Local(w, Answers(w, [AnswerOf(w) EXCEPT !.text = line.text]))

\* What another answer's line begins with is not "servingcell".
GetSignal(w) ==
    /\ At(w, "signal") \/ Does(w, "GET", {"signal"})
    /\ \E report \in IF At(w, "signal") /\ line.of = "signal" THEN Servings ELSE {<<>>} :
          Local(w, Answers(w, [AnswerOf(w) EXCEPT !.signal = Signal(report)]))

\* The level of a field that has none is a pointer never assigned.
GetSignalWild(w) ==
    /\ At(w, "signal") /\ line.of = "signal"
    /\ \E report \in Servings : Shown(Signal(report).net) \ Graded # {}
    /\ Crashes(w, "level")

----------------------------------------------------------------------------
(****************************************************************************)
(* Tables of lines (fmt_raw2json)                                           *)
(****************************************************************************)
Rows(h) == IF h = "atraw" THEN << <<"raw 1">>, <<"raw 2">> >>
                          ELSE << <<"band 1">>, <<"band 2">> >>

\* The command of an atraw request is in its body.
HasRows(w) ==
    \/ Does(w, "GET", {"supportband"})
    \/ Does(w, "GET", {"atraw"}) /\ job[w].req.body.kind = "value"

AddRow(w, t) ==
    LET a == job[w].answer
    IN  IF t = NoTok
        THEN [Answers(w, [a EXCEPT !.of = job[w].name]) EXCEPT !.buf = "none"]
        ELSE [job[w] EXCEPT !.buf = "rows", !.pc = "rows",
                            !.answer = With(a, [a EXCEPT !.rows = Append(@, t)])]

GetRows(w) ==
    /\ HasRows(w)
    /\ \E rows \in IF Chosen(w) = "atraw"
                   THEN {Rows("atraw"), << <<"ERROR">> >>} ELSE {Rows("supportband")} :
          Begins(w, "rows", "\n", rows, LAMBDA t : AddRow(w, t))

MoreRows(w) == At(w, "rows") /\ Continues(w, "\n", LAMBDA t : AddRow(w, t))

\* A body without a command is answered with an empty object; without a body,
\* or with one that is not JSON, there is no answer, whose length is taken.
GetNoRows(w) ==
    /\ Does(w, "GET", {"atraw"})
    /\ \/ job[w].req.body.kind \in {"other", "bands"} /\ Local(w, Answers(w, AnswerOf(w)))
       \/ job[w].req.body.kind \in {"none", "bad"} /\ Crashes(w, "no answer")

----------------------------------------------------------------------------
(****************************************************************************)
(* The bands in use: two questions, the text of two lines made of them, and *)
(* what is made of that (pack_getlockband_json, fmt_bands2json)             *)
(****************************************************************************)
AfterAsk == [lte |-> "ask nr", nr |-> "split"]

CopyOf == [lte |-> "copy lte", nr |-> "copy nr"]
BandsIn == [lte |-> "bands lte", nr |-> "bands nr"]
MoreIn == [lte |-> "more lte", nr |-> "more nr"]

Asks(w, p) == IF p = "lte" THEN Does(w, "GET", {"lockband"}) ELSE At(w, "ask nr")

Told(w, p, text) ==
    IF job[w].answer = Spoilt THEN job[w] ELSE [job[w] EXCEPT !.told[p] = text]

GetBands(w, p) ==
    /\ Asks(w, p)
    /\ Scans(w, p, locked[p], [Told(w, p, locked[p]) EXCEPT !.pc = CopyOf[p]])

GetBandsDefault(w, p) ==
    /\ Asks(w, p)
    /\ Local(w, [Told(w, p, Missing) EXCEPT !.got[p] = Missing, !.pc = AfterAsk[p]])

CopyBands(w, p) ==
    /\ At(w, CopyOf[p])
    /\ Local(w, [job[w] EXCEPT !.got[p] = line.text, !.pc = AfterAsk[p]])

\* The text is "lte_band=...\nnr5g_band=...".
Split(w) ==
    /\ At(w, "split")
    /\ Begins(w, "lines", "\n", << <<"lte">> \o job[w].got["lte"], <<"nr">> \o job[w].got["nr"] >>,
              LAMBDA t : [job[w] EXCEPT !.buf = "lines", !.lines["lte"] = t,
                                        !.got = NoBands, !.pc = "split nr"])

\* Mutant: the second line is split off after the bands of the first.
SplitNrLate(w) ==
    /\ At(w, "split nr")
    /\ Local(w, [job[w] EXCEPT !.pc = "bands lte"])

SplitNr(w) ==
    /\ At(w, "split nr")
    /\ Continues(w, "\n",
                 LAMBDA t : [job[w] EXCEPT !.buf = "none", !.lines["nr"] = t,
                                           !.pc = "bands lte"])

\* What should be the line for p is that.
HasLine(w, p) == job[w].lines[p] # NoTok /\ Head(job[w].lines[p]) = p

\* The bands in it.  (A text that the modem gives has never more of them, nor
\* longer ones, than fmt_bands2json has room for.)
BandsOf(w, p) == Tokens(Cleaned(Tail(job[w].lines[p])))

AddBand(w, p, t) ==
    LET a == job[w].answer
    IN  IF t # NoTok
        THEN [job[w] EXCEPT !.buf = p, !.pc = MoreIn[p], !.lines[p] = NoTok,
                            !.answer = With(a, [a EXCEPT !.bands[p] =
                                                    Append(@, <<BandPrefix[p]>> \o t)])]
        ELSE IF p = "lte"
        THEN [job[w] EXCEPT !.buf = "none", !.pc = "bands nr", !.lines[p] = NoTok]
        ELSE [Answers(w, [a EXCEPT !.of = job[w].name])
                 EXCEPT !.buf = "none", !.lines[p] = NoTok]

Bands(w, p) ==
    /\ At(w, BandsIn[p])
    /\ IF HasLine(w, p)
       THEN Begins(w, p, ":", BandsOf(w, p), LAMBDA t : AddBand(w, p, t))
       ELSE Local(w, AddBand(w, p, NoTok))

MoreBands(w, p) ==
    At(w, MoreIn[p]) /\ Continues(w, ":", LAMBDA t : AddBand(w, p, t))

----------------------------------------------------------------------------
(****************************************************************************)
(* Settings.  How the commands of one may fail is DeviceOps's.              *)
(****************************************************************************)
Texts(body) == [p \in Techs |-> BandText(body.bands[p])]

Status(w, status) ==
    [job[w] EXCEPT !.answer = With(@, [AnswerOf(w) EXCEPT !.status = status]), !.pc = "release"]

\* The texts in which the bands of a body are set; without bands they are
\* never assigned.
TextsOf(body) == IF body.kind = "bands" THEN {Texts(body)}
                 ELSE {NoBands, [p \in Techs |-> Junk]}

\* Without data there is nothing to do; pack_lockstatus_json finds no results
\* in a plain FAILURE.
PostLockBand(w) ==
    /\ Does(w, "POST", {"lockband"})
    /\ LET body == job[w].req.body
       IN  \/ body.kind \in {"none", "bad", "other"} /\ Local(w, Status(w, ""))
           \/ body.kind \in {"value", "bands"} /\ Local(w, Status(w, "FAILURE"))
           \/ /\ body.kind \in {"value", "bands"}
              /\ \E texts \in TextsOf(body) : locked' = Locked(texts, locked, Factory)
              /\ job' = [job EXCEPT ![w] = Status(w, "SUCCESS")]
              /\ UNCHANGED <<saved, line, served, crash>>

\* Without a body only the SIM slot has a default.  To connect, the network may
\* have to be asked for first.
PostOther(w) ==
    /\ Does(w, "POST", PostHandlers \ {"lockband"})
    /\ \E status \in {"SUCCESS", "FAILURE"} :
          /\ status = "SUCCESS" => job[w].req.body.kind \in {"value", "bands"}
                                     \/ job[w].name = "simswitch"
          /\ \/ Local(w, Status(w, status))
             \/ /\ job[w].name = "networkconnect"
                /\ job[w].req.body.kind \in {"value", "bands"}
                /\ Scans(w, "networkconnect", Junk, Status(w, status))

\* The document is given up, and with it its value.
PostRelease(w) == At(w, "release") /\ Local(w, [job[w] EXCEPT !.pc = "done"])

\* That value is given up a second time.
PostReleaseTwice(w) ==
    /\ At(w, "release") /\ job[w].req.body.kind \in {"value", "bands"}
    /\ Crashes(w, "release")

\* The worker is done with the request, and its answer is sent.
Finish(w) ==
    /\ At(w, "done")
    /\ job' = [job EXCEPT ![w] = Idle(@.name)]
    /\ UNCHANGED <<saved, line, locked, served, crash>>

----------------------------------------------------------------------------
Get(w) ==
    \/ GetDefault(w) \/ GetDirect(w) \/ GetScan(w) \/ GetNumber(w) \/ GetText(w)
    \/ GetSignal(w) \/ GetSignalWild(w)
    \/ GetRows(w) \/ MoreRows(w) \/ GetNoRows(w)
    \/ \E p \in Techs : GetBands(w, p) \/ GetBandsDefault(w, p) \/ CopyBands(w, p)
    \/ Split(w) \/ SplitNr(w)
    \/ \E p \in Techs : Bands(w, p) \/ MoreBands(w, p)

Post(w) == PostLockBand(w) \/ PostOther(w) \/ PostRelease(w) \/ PostReleaseTwice(w)

Serve(w) ==
    \/ Parts(w) \/ Count(w) \/ Again(w) \/ Find(w) \/ Matches(w) \/ MatchesWild(w)
    \/ Get(w) \/ Post(w) \/ Finish(w)

Next == \E w \in Workers : Take(w) \/ Serve(w)

Spec == Init /\ [][Next]_vars

\* As long as there is something to do some thread is scheduled, whichever; AT
\* commands end (ATChannel's CallReturns).
FairSpec == Spec /\ WF_vars(\E w \in Workers : Serve(w))

----------------------------------------------------------------------------
\* Types, and: strtok's place is in a buffer of a worker's, and a worker that is
\* in a loop has a buffer.
TypeOK ==
    /\ \A w \in Workers :
          /\ job[w].req \in Requests \cup {NoRequest}
          /\ job[w].count \in Nat
          /\ job[w].pc \in {"count", "find", "rows", "split nr", "more lte", "more nr"}
                <=> job[w].buf # "none"
    /\ saved.by \in Workers
    /\ DOMAIN locked = Techs
    /\ served \in 0..MaxRequests
    /\ crash.cause \in {"none", "prefix", "level", "no answer", "release"}

\* Worker w's request is answered, and no other thread's strtok or scan fell
\* into one of its loops.
Undisturbed(w) == job[w].pc = "done" /\ job[w].answer # Spoilt

\* The reference for the choice of the handler: by the last part of the path.
Meant(r) ==
    IF r.path # <<>> /\ HeadFits(r) THEN Handler(r, r.path[Len(r.path)]) ELSE "none"

\* A request is answered by the handler its path names, and refused if there is
\* none, whatever other threads did before and do outside its loops
\* (request_proc.c:294-325, 386-421).
OwnHandler ==
    \A w \in Workers : Undisturbed(w) =>
        LET of == job[w].answer.of
        IN  IF of = "refused" THEN Meant(job[w].req) = "none"
            ELSE Handler(job[w].req, of) = Meant(job[w].req)

\* A text in an answer is the one that the modem gave to this question, even
\* where it is still in the line that all threads scan into (cellMgtFrame.c:296,
\* 825); and the lines of a table are its own and all there.
OwnText ==
    \A w \in Workers : Undisturbed(w) /\ job[w].req.method = "GET" =>
        LET h == Handler(job[w].req, job[w].answer.of)
        IN  /\ h \in Single => job[w].answer.text \in {<<h>>, Missing}
            /\ h \in Listed =>
                  job[w].answer.rows \in {Rows(h), << <<"ERROR">> >>, <<>>}

\* The texts in which bands are told, and that nothing is dropped from them.
BandTexts ==
    {<<>>, Junk, Missing} \cup {Factory[p] : p \in Techs}
    \cup UNION {{Texts(r.body)[p] : p \in Techs} : r \in {q \in Requests : q.body.kind = "bands"}}

PlainTexts == \A x \in BandTexts : x \in Seq(STRING) /\ Cleaned(x) = x

\* The bands in an answer are those that the modem told, all of them, each with
\* the letter of its own technology (request_proc.c:145-197).
BandsAsTold ==
    \A w \in Workers :
        (Undisturbed(w) /\ Meant(job[w].req) = "lockband" /\ job[w].req.method = "GET") =>
            \A p \in Techs :
                job[w].answer.bands[p] =
                    [i \in DOMAIN Tokens(job[w].told[p]) |->
                        <<BandPrefix[p]>> \o Tokens(job[w].told[p])[i]]

\* Up to MAX_BANDS bands of up to MAX_BAND_LENGTH characters.
Fits(items) ==
    Len(items) <= MaxBands /\ \A i \in DOMAIN items : Len(items[i]) <= MAX_BAND_LENGTH

\* Names of bands without a colon that are more than the letters dropped from them.
ProperBands ==
    \A r \in Requests : r.body.kind = "bands" =>
        \A p \in Techs :
            LET items == r.body.bands[p]
            IN  /\ items \in Seq(Seq(STRING \ {":"}))
                /\ \A i \in DOMAIN items : removePrefix(items[i]) # <<>>

\* What the modem is asked to lock names exactly the bands of the document, as
\* far as it fits; a band cut off may be the name of another one
\* (cellMgtFrame.c:1086-1118).
LocksWhatItNames ==
    \A w \in Workers : \A p \in Techs :
        LET items == job[w].req.body.bands[p]
        IN  (job[w].pc = "release" /\ job[w].req.body.kind = "bands" /\ Fits(items)) =>
                Tokens(Texts(job[w].req.body)[p]) =
                    [i \in DOMAIN items |-> removePrefix(items[i])]

\* The program comes down only where it may: a path that was looked up without
\* disturbance has a name; an answer is missing only for atraw without a
\* document; and only settings give up a document twice.
CrashHasCause ==
    LET r == job[crash.by].req
        Disturbed == job[crash.by].answer = Spoilt
    IN  /\ crash.cause = "prefix" => Disturbed
        /\ crash.cause = "no answer" =>
              \/ Disturbed
              \/ r.body.kind \in {"none", "bad"} /\ Meant(r) = "atraw"
        /\ crash.cause = "release" => Meant(r) # "none" \/ Disturbed

\* However the threads break into one another's loops, each request comes to
\* its end, unless the program does.
EveryRequestEnds ==
    (\E w \in Workers : job[w].pc # "idle")
        ~> ((\A w \in Workers : job[w].pc = "idle") \/ crash # NoCrash)

\* cellMgtFrame.h:73-75, of the signal: LTE has rssi, rsrq, rsrp and snr; NSA
\* these and those of NR5G; SA those of NR5G.
Documented(net) ==
    CASE net = "LTE"      -> LteFields
      [] net = "NR5G-NSA" -> LteFields \cup NrFields
      [] net = "NR5G-SA"  -> NrFields
      [] OTHER            -> {}

\* An answer shows the fields that its network has, as that comment lists them.
ShowsAsDocumented ==
    \A w \in Workers :
        job[w].answer.of = "signal" =>
            Shown(job[w].answer.signal.net) = Documented(job[w].answer.signal.net)
=============================================================================
