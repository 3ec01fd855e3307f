---------------------------- MODULE DispatchProofs ----------------------------
(****************************************************************************)
(* Proofs about Dispatch, for any workers, any requests and any number of   *)
(* them: however the threads take strtok's place and the static line from   *)
(* each other, the request that nobody broke into is answered as it should. *)
(****************************************************************************)
EXTENDS Dispatch, SequenceTheorems, FiniteSetTheorems, WellFoundedInduction,
        NaturalsInduction, TLAPS

(****************************************************************************)
(* The inductive invariant: what is known of worker w with locals j when    *)
(* strtok's place is s and the line is l.                                   *)
(****************************************************************************)
JobFields == {"req", "pc", "buf", "count", "name", "prev", "told", "got", "lines", "answer"}

AnswerFields == {"of", "text", "rows", "bands", "signal", "status"}

\* Before a handler is chosen, in the handler for the bands in use, and amid a
\* loop of strtok calls.
Early == {"idle", "parts", "count", "again", "find", "match"}
OnBands == {"copy lte", "copy nr", "ask nr", "split", "split nr",
            "bands lte", "bands nr", "more lte", "more nr"}
Loops == {"count", "find", "rows", "split nr", "more lte", "more nr"}

Pcs == Early \cup OnBands \cup {"GET", "POST", "read", "signal", "rows", "release", "done"}

Shape(j) ==
    /\ DOMAIN j = JobFields /\ DOMAIN j.answer = AnswerFields
    /\ j.req \in Requests \cup {NoRequest}
    /\ j.pc \in Pcs
    /\ j.count \in Nat
    /\ j.pc \in {"count", "again", "find"} => j.count # 0
    /\ j.pc \in Loops <=> j.buf # "none"
    /\ j.pc \in {"count", "find"} => j.buf = "path"
    /\ j.pc = "rows" => j.buf = "rows"

\* strtok's place is in w's buffer, with the tokens of rest still to come.
IsAt(w, s, buf, delim) == s = [by |-> w, buf |-> buf, delim |-> delim, rest |-> s.rest]

\* The tokens are the last k parts of the path.
LastParts(toks, path, k) ==
    /\ toks \in Seq(Seq(STRING)) /\ Len(toks) = k
    /\ \A i \in 1..k : toks[i] = <<path[Len(path) - k + i]>>

\* The parts are counted, and then the last one is found.
Walk(w, j, s) ==
    LET path == j.req.path
        n == Len(path)
    IN  /\ j.pc = "count" => /\ j.count <= n /\ IsAt(w, s, "path", "/")
                             /\ LastParts(s.rest, path, n - j.count)
        /\ j.pc = "again" => j.count = n
        /\ j.pc = "find" => /\ j.count < n /\ IsAt(w, s, "path", "/")
                            /\ LastParts(s.rest, path, j.count)
        /\ j.pc = "match" => j.name = IF n = 0 THEN "unset" ELSE path[n]

HandlerOf(j) == Handler(j.req, j.name)

\* The handler is the one that the path names.
Own(j) ==
    /\ HeadFits(j.req) /\ j.req.path # <<>> /\ j.name = j.req.path[Len(j.req.path)]
    /\ HandlerOf(j) # "none"
    /\ j.pc \in {"release", "done"} => j.answer.of = j.name

Known(j) ==
    \/ j.pc \in Early
    \/ j.pc = "done" /\ j.answer.of = "refused" /\ Meant(j.req) = "none"
    \/ Own(j)

\* The lines of a table so far, and those to come.
RowsLeft(h, rows, rest) ==
    \/ rows = <<Rows(h)[1]>> /\ rest = <<Rows(h)[2]>>
    \/ rows = Rows(h) /\ rest = <<>>
    \/ rows = << <<"ERROR">> >> /\ rest = <<>>

TextOwn(j) ==
    LET h == Handler(j.req, j.answer.of)
    IN  /\ h \in Single => j.answer.text \in {<<h>>, Missing}
        /\ h \in Listed => j.answer.rows \in {Rows(h), << <<"ERROR">> >>, <<>>}

\* Each step of a handler is taken for the handler's own answer.
Answering(w, j, s, l) ==
    /\ j.pc \in Early \cup {"GET"} => j.answer = NoAnswer
    /\ j.pc \in {"GET", "POST"} => j.pc = j.req.method
    /\ j.pc = "read" => HandlerOf(j) \in Single /\ l.text = <<HandlerOf(j)>>
    /\ j.pc = "signal" => HandlerOf(j) = "signal"
    /\ j.pc \in OnBands => HandlerOf(j) = "lockband"
    /\ j.pc = "rows" => /\ HandlerOf(j) \in Listed /\ IsAt(w, s, "rows", "\n")
                        /\ RowsLeft(HandlerOf(j), j.answer.rows, s.rest)
    /\ j.pc = "release" => j.req.method = "POST"
    /\ j.pc = "done" /\ j.req.method = "GET" => TextOwn(j)

Good(w, j, s, l) ==
    /\ Shape(j)
    /\ j.answer # Spoilt => Walk(w, j, s) /\ Known(j) /\ Answering(w, j, s, l)

AllGood ==
    /\ DOMAIN job = Workers
    /\ \A w \in Workers : Good(w, job[w], saved, line)

\* A crash leaves the worker as it was.
Inv == AllGood /\ CrashHasCause

----------------------------------------------------------------------------
(****************************************************************************)
(* A step of one worker and the others.                                     *)
(****************************************************************************)
LEMMA SpoiltStaysGood ==
    ASSUME NEW v, NEW s, NEW l, NEW t, NEW m, NEW j, Good(v, j, s, l)
    PROVE  Good(v, [j EXCEPT !.answer = Spoilt, !.told = NoBands], t, m)
<1> DEFINE k == [j EXCEPT !.answer = Spoilt, !.told = NoBands]
<1>1. DOMAIN j = JobFields
    BY DEF Good, Shape
<1>2. /\ DOMAIN k = JobFields /\ k.answer = Spoilt
      /\ k.req = j.req /\ k.pc = j.pc /\ k.buf = j.buf /\ k.count = j.count
    BY <1>1 DEF JobFields
<1>3. DOMAIN Spoilt = AnswerFields
    BY DEF Spoilt, NoAnswer, AnswerFields
<1> HIDE DEF k
<1> QED BY <1>2, <1>3 DEF Good, Shape

LEMMA OthersStayGood ==
    ASSUME NEW v, NEW j, NEW s, NEW l, NEW t, NEW m, Good(v, j, s, l),
           t = s \/ j.buf = "none",
           m = l \/ j.pc \notin {"read", "copy lte", "copy nr", "signal"}
    PROVE  Good(v, j, t, m)
<1>1. Shape(j)
    BY DEF Good
<1>2. ASSUME j.answer # Spoilt PROVE Walk(v, j, t) /\ Answering(v, j, t, m)
  <2>1. Walk(v, j, s) /\ Answering(v, j, s, l)
      BY <1>2 DEF Good
  <2>2. j.pc \in {"count", "find", "rows"} => t = s
      BY <1>1 DEF Shape, Loops
  <2>3. j.pc = "read" => m = l
      OBVIOUS
  <2>4. Walk(v, j, t)
      BY <2>1, <2>2 DEF Walk
  <2>5. Answering(v, j, t, m)
      BY <2>1, <2>2, <2>3 DEF Answering
  <2> QED BY <2>4, <2>5
<1> QED BY <1>1, <1>2 DEF Good

\* Worker w goes on as j, where V are those it breaks in on.
LEMMA OneMoves ==
    ASSUME AllGood, NEW w \in Workers, NEW j, NEW V, job' = Spoils(w, V, j),
           saved' = saved \/ Amid(w) \subseteq V,
           line' = line \/ {v \in Workers : Reading(v)} \subseteq V,
           Good(w, j, saved', line')
    PROVE  AllGood'
<1>1. DOMAIN job' = Workers
    BY DEF Spoils
<1>2. ASSUME NEW v \in Workers PROVE Good(v, job'[v], saved', line')
  <2>1. Good(v, job[v], saved, line)
      BY DEF AllGood
  <2>2. CASE v = w
    <3>1. job'[v] = j
        BY <2>2 DEF Spoils
    <3> QED BY <2>2, <3>1
  <2>3. CASE v # w /\ v \in V
    <3>1. job'[v] = [job[v] EXCEPT !.answer = Spoilt, !.told = NoBands]
        BY <2>3 DEF Spoils
    <3>2. Good(v, [job[v] EXCEPT !.answer = Spoilt, !.told = NoBands], saved', line')
        BY <2>1, SpoiltStaysGood
    <3> QED BY <3>1, <3>2, Zenon
  <2>4. CASE v # w /\ v \notin V
    <3>1. job'[v] = job[v]
        BY <2>4 DEF Spoils
    <3>2. saved' = saved \/ job[v].buf = "none"
        BY <2>4 DEF Amid
    <3>3. line' = line \/ job[v].pc \notin {"read", "copy lte", "copy nr", "signal"}
        BY <2>4 DEF Reading
    <3> QED BY <2>1, <3>1, <3>2, <3>3, OthersStayGood
  <2> QED BY <2>2, <2>3, <2>4
<1> QED BY <1>1, <1>2 DEF AllGood

LEMMA OnlyOneMoves ==
    ASSUME AllGood, NEW w \in Workers, NEW j, job' = [job EXCEPT ![w] = j],
           saved' = saved, line' = line, Good(w, j, saved, line)
    PROVE  AllGood'
<1>1. job' = Spoils(w, {}, j)
    BY DEF AllGood, Spoils
<1> QED BY <1>1, OneMoves

LEMMA LocalMoves ==
    ASSUME AllGood, NEW w \in Workers, NEW j, Local(w, j), Good(w, j, saved, line)
    PROVE  AllGood'
BY OnlyOneMoves DEF Local

----------------------------------------------------------------------------
LEMMA InitGood == Init => AllGood
<1> SUFFICES ASSUME Init PROVE AllGood
    OBVIOUS
<1>1. ASSUME NEW w \in Workers PROVE Good(w, Idle(""), saved, line)
  <2> DEFINE j == Idle("")
  <2>1. DOMAIN j = JobFields /\ DOMAIN j.answer = AnswerFields /\ j.req = NoRequest
        /\ j.pc = "idle" /\ j.buf = "none" /\ j.count = 0 /\ j.answer = NoAnswer
      BY DEF Idle, JobFields, AnswerFields, NoAnswer
  <2> HIDE DEF j
  <2>2. Shape(j)
      BY <2>1 DEF Shape, Pcs, Early, Loops
  <2>3. Walk(w, j, saved) /\ Known(j)
      BY <2>1 DEF Walk, Known, Early
  <2>4. j.pc = "idle" /\ j.answer = NoAnswer
      BY <2>1
  <2>5. Answering(w, j, saved, line)
      BY <2>4 DEF Answering, OnBands
  <2>6. Good(w, j, saved, line)
      BY <2>2, <2>3, <2>5 DEF Good
  <2> QED BY <2>6 DEF j
<1> QED BY <1>1 DEF Init, AllGood

LEMMA StutterGood == AllGood /\ UNCHANGED <<job, saved, line>> => AllGood'
BY DEF AllGood

LEMMA JobIsGood ==
    ASSUME AllGood, NEW w \in Workers
    PROVE  /\ Shape(job[w]) /\ DOMAIN job[w] = JobFields
           /\ job[w].answer # Spoilt =>
                 Walk(w, job[w], saved) /\ Known(job[w]) /\ Answering(w, job[w], saved, line)
BY DEF AllGood, Good, Shape

----------------------------------------------------------------------------
(****************************************************************************)
(* The tokens                                                               *)
(****************************************************************************)
LEMMA OneIsToken == \A x : <<x>> # NoTok /\ Head(<<x>>) = x
BY DEF NoTok

LEMMA RequestIsSound ==
    ASSUME NEW r \in Requests \cup {NoRequest}
    PROVE  /\ r.path \in Seq(STRING) /\ Len(r.path) \in Nat
           /\ r.path = <<>> <=> Len(r.path) = 0
           /\ HeadFits(r) => r.path # <<>>
           /\ \A i \in 1..Len(r.path) : r.path[i] \in STRING /\ r.path[i] # "unset"
<1>1. CASE r \in Requests
  <2>1. r.path \in Seq(STRING) /\ (HeadFits(r) => r.path # <<>>)
        /\ \A i \in DOMAIN r.path : r.path[i] # "unset"
      BY <1>1, RequestsAssumption
  <2>2. DOMAIN r.path = 1..Len(r.path) /\ Len(r.path) \in Nat
        /\ \A i \in 1..Len(r.path) : r.path[i] \in STRING
      BY <2>1, LenProperties, ElementOfSeq
  <2> QED BY <2>1, <2>2, EmptySeq
<1>2. CASE r = NoRequest
  <2>1. r.path = <<>> /\ r.method # "GET" /\ r.head # "/api/set"
      BY <1>2 DEF NoRequest
  <2> QED BY <2>1, EmptySeq DEF HeadFits
<1> QED BY <1>1, <1>2

LEMMA NextPart ==
    ASSUME NEW path, Len(path) \in Nat, NEW toks, NEW k \in Nat, LastParts(toks, path, k)
    PROVE  /\ k = 0 <=> toks = <<>>
           /\ k # 0 => /\ Head(toks) = <<path[Len(path) - k + 1]>>
                       /\ LastParts(Tail(toks), path, k - 1)
<1>1. toks \in Seq(Seq(STRING)) /\ Len(toks) = k
      /\ \A i \in 1..k : toks[i] = <<path[Len(path) - k + i]>>
    BY DEF LastParts
<1>2. k = 0 <=> toks = <<>>
    BY <1>1, EmptySeq
<1>3. ASSUME k # 0
      PROVE  /\ Head(toks) = <<path[Len(path) - k + 1]>>
             /\ LastParts(Tail(toks), path, k - 1)
  <2>1. /\ Tail(toks) \in Seq(Seq(STRING)) /\ Len(Tail(toks)) = k - 1
        /\ \A i \in 1..(k - 1) : Tail(toks)[i] = toks[i + 1]
      BY <1>1, <1>2, <1>3, HeadTailProperties
  <2>2. Head(toks) = toks[1]
      BY <1>1, <1>2, <1>3
  <2>3. ASSUME NEW i \in 1..(k - 1)
        PROVE  Tail(toks)[i] = <<path[Len(path) - (k - 1) + i]>>
    <3>1. i + 1 \in 1..k /\ Len(path) - k + (i + 1) = Len(path) - (k - 1) + i
        OBVIOUS
    <3> QED BY <1>1, <2>1, <3>1
  <2> QED BY <1>1, <1>3, <2>1, <2>2, <2>3 DEF LastParts
<1> QED BY <1>2, <1>3

LEMMA AllParts ==
    ASSUME NEW w, job[w].req \in Requests \cup {NoRequest}
    PROVE  LastParts(Path(w), job[w].req.path, Len(job[w].req.path))
<1> DEFINE path == job[w].req.path
<1>1. path \in Seq(STRING) /\ Len(path) \in Nat /\ DOMAIN path = 1..Len(path)
    BY RequestIsSound, LenProperties
<1>2. \A i \in 1..Len(path) : <<path[i]>> \in Seq(STRING)
    BY <1>1, ElementOfSeq
<1>3. Path(w) = [i \in 1..Len(path) |-> <<path[i]>>]
    BY <1>1 DEF Path
<1> HIDE DEF path
<1>4. [i \in 1..Len(path) |-> <<path[i]>>] \in Seq(Seq(STRING))
    BY <1>1, <1>2, IsASeq
<1>5. Len([i \in 1..Len(path) |-> <<path[i]>>]) = Len(path)
    BY <1>1
<1>6. ASSUME NEW i \in 1..Len(path) PROVE Path(w)[i] = <<path[Len(path) - Len(path) + i]>>
    BY <1>1, <1>3
<1>7. LastParts(Path(w), path, Len(path))
    BY <1>3, <1>4, <1>5, <1>6 DEF LastParts
<1> QED BY <1>7 DEF path

\* What strtok finds in its own buffer is the next token of it.
LEMMA FoundOwn ==
    ASSUME AllGood, NEW w \in Workers, NEW buf, NEW delim, NEW f \in Found(delim),
           IsAt(w, saved, buf, delim), job[w].buf = buf, buf # "none"
    PROVE  IF saved.rest = <<>> THEN f[1] = NoTok
           ELSE /\ f[1] = Head(saved.rest)
                /\ f[2] = [by |-> w, buf |-> buf, delim |-> delim, rest |-> Tail(saved.rest)]
<1> DEFINE rest == saved.rest
<1>1. saved = [by |-> w, buf |-> buf, delim |-> delim, rest |-> rest]
    BY DEF IsAt
<1>2. saved.by = w /\ saved.buf = buf /\ saved.delim = delim
    BY <1>1
<1>3. saved # Spent
    BY <1>2 DEF Spent, NoBuffer
<1>4. saved.buf # "none" /\ job[saved.by].buf = saved.buf
    BY <1>2
<1> DEFINE left == Tail(rest)
<1>5. [saved EXCEPT !.rest = left]
          = [by |-> w, buf |-> buf, delim |-> delim, rest |-> left]
  <2> HIDE DEF left, rest
  <2> QED BY <1>1
<1>6. CASE rest = <<>>
    BY <1>3, <1>4, <1>6 DEF Found
<1>7. CASE rest # <<>>
  <2>1. f = <<Head(rest), [saved EXCEPT !.rest = left]>>
      BY <1>2, <1>3, <1>4, <1>7 DEF Found
  <2> QED BY <1>5, <1>7, <2>1
<1> QED BY <1>6, <1>7

----------------------------------------------------------------------------
(****************************************************************************)
(* The last part of the path.                                               *)
(****************************************************************************)
LEMMA NamedGood ==
    ASSUME AllGood, NEW w \in Workers, job[w].pc \in Early, NEW t, NEW s, NEW l,
           LET path == job[w].req.path
           IN  job[w].answer # Spoilt =>
                  \/ t = NoTok /\ Len(path) = 0
                  \/ t = <<path[Len(path)]>> /\ Len(path) # 0
    PROVE  Good(w, Named(w, t), s, l)
<1> DEFINE j == job[w]
           k == Named(w, t)
           name == IF t = NoTok THEN "unset" ELSE Head(t)
           path == j.req.path
<1>1. Shape(j) /\ DOMAIN j = JobFields
    BY JobIsGood
<1>2. /\ DOMAIN k = JobFields /\ k.req = j.req /\ k.pc = "match" /\ k.buf = "none"
      /\ k.count = 0 /\ k.answer = j.answer /\ k.name = name
  <2> HIDE DEF name
  <2>1. k = [j EXCEPT !.name = name, !.buf = "none", !.count = 0, !.pc = "match"]
      BY DEF Named, name
  <2> QED BY <1>1, <2>1 DEF JobFields
<1> HIDE DEF k, j
<1>3. Shape(k)
  <2>1. /\ DOMAIN k = JobFields /\ k.req = j.req /\ k.pc = "match" /\ k.buf = "none"
        /\ k.count = 0 /\ k.answer = j.answer
      BY <1>2
  <2>2. k.pc \in Pcs /\ k.pc \notin Loops /\ k.pc \notin {"count", "again", "find", "rows"}
      BY <2>1 DEF Pcs, Early, Loops
  <2>3. DOMAIN k.answer = AnswerFields /\ k.req \in Requests \cup {NoRequest} /\ k.count \in Nat
      BY <1>1, <2>1 DEF Shape
  <2> QED BY <2>1, <2>2, <2>3 DEF Shape
<1>4. ASSUME k.answer # Spoilt PROVE Walk(w, k, s) /\ Known(k) /\ Answering(w, k, s, l)
  <2>1. k.answer = NoAnswer
      BY <1>2, <1>4, JobIsGood DEF Answering, j
  <2>2. k.name = IF Len(path) = 0 THEN "unset" ELSE path[Len(path)]
    <3>1. CASE t = NoTok /\ Len(path) = 0
        BY <1>2, <3>1
    <3>2. CASE t = <<path[Len(path)]>> /\ Len(path) # 0
        BY <1>2, <3>2 DEF NoTok
    <3> QED BY <1>2, <1>4, <3>1, <3>2 DEF j
  <2>3. Walk(w, k, s)
      BY <1>2, <2>2 DEF Walk
  <2>4. Known(k)
      BY <1>2 DEF Known, Early
  <2>5. Answering(w, k, s, l)
      BY <1>2, <2>1 DEF Answering, OnBands
  <2> QED BY <2>3, <2>4, <2>5
<1>5. Good(w, k, s, l)
    BY <1>3, <1>4 DEF Good
<1> QED BY <1>5 DEF k, j

\* In the loop with locals k: a part less is to go, or was counted.
LEMMA WalkingGood ==
    ASSUME AllGood, NEW w \in Workers, job[w].pc \in Early, NEW k, NEW s, NEW l,
           DOMAIN k = JobFields, k.req = job[w].req, k.answer = job[w].answer,
           k.buf = "path", k.pc \in {"count", "find"}, k.count \in Nat \ {0},
           LET path == job[w].req.path
               n == Len(path)
           IN  job[w].answer # Spoilt =>
                  /\ IsAt(w, s, "path", "/")
                  /\ k.pc = "count" => k.count <= n /\ LastParts(s.rest, path, n - k.count)
                  /\ k.pc = "find" => k.count < n /\ LastParts(s.rest, path, k.count)
    PROVE  Good(w, k, s, l)
<1> DEFINE j == job[w]
           path == j.req.path
<1>1. Shape(j) /\ DOMAIN j = JobFields
    BY JobIsGood
<1>2. Shape(k)
    BY <1>1 DEF Shape, Pcs, Early, Loops
<1>3. ASSUME k.answer # Spoilt PROVE Walk(w, k, s) /\ Known(k) /\ Answering(w, k, s, l)
  <2>1. k.answer = NoAnswer
      BY <1>3, JobIsGood DEF Answering
  <2>2. Walk(w, k, s)
      BY <1>3 DEF Walk
  <2>3. Known(k)
      BY DEF Known, Early
  <2>4. Answering(w, k, s, l)
      BY <2>1 DEF Answering, OnBands
  <2> QED BY <2>2, <2>3, <2>4
<1> QED BY <1>2, <1>3 DEF Good

LEMMA PartsGood == ASSUME AllGood, NEW w \in Workers, Parts(w) PROVE AllGood'
<1> DEFINE path == job[w].req.path
           n == Len(path)
           toks == Path(w)
           j == IF First(toks) = NoTok THEN Named(w, First(toks))
                ELSE [job[w] EXCEPT !.buf = "path", !.count = 1, !.pc = "count"]
<1>1. /\ job[w].pc = "parts"
      /\ saved' = Place([by |-> w, buf |-> "path", delim |-> "/", rest |-> Rest(toks)], w, j)
      /\ job' = Spoils(w, Amid(w), j) /\ line' = line
    BY DEF Parts, At, Begins
<1>2. LastParts(toks, path, n) /\ n \in Nat
    BY AllParts, RequestIsSound, JobIsGood DEF Shape
<1>3. Good(w, j, saved', line')
  <2>1. CASE n = 0
    <3>1. First(toks) = NoTok
        BY <1>2, <2>1, NextPart DEF First
    <3>2. j = Named(w, NoTok)
        BY <3>1
    <3>3. Good(w, Named(w, NoTok), saved', line')
        BY <1>1, <2>1, NamedGood DEF Early
    <3> QED BY <3>2, <3>3
  <2>2. CASE n # 0
    <3>1. toks # <<>> /\ First(toks) = Head(toks) /\ Rest(toks) = Tail(toks)
          /\ Head(toks) = <<path[n - n + 1]>> /\ LastParts(Tail(toks), path, n - 1)
        BY <1>2, <2>2, NextPart DEF First, Rest
    <3>2. First(toks) # NoTok
        BY <3>1, OneIsToken
    <3>3. j = [job[w] EXCEPT !.buf = "path", !.count = 1, !.pc = "count"]
        BY <3>2
    <3>4. j.buf = "path"
        BY <3>3, JobIsGood DEF JobFields
    <3> HIDE DEF j
    <3>5. saved' = [by |-> w, buf |-> "path", delim |-> "/", rest |-> Tail(toks)]
        BY <1>1, <3>1, <3>4 DEF Place
    <3> HIDE DEF toks
    <3>6. IsAt(w, saved', "path", "/") /\ saved'.rest = Tail(toks)
        BY <3>5 DEF IsAt
    <3>7. job[w].pc \in Early
        BY <1>1 DEF Early
    <3> HIDE DEF path, n
    <3>8. 1 <= n
        BY <1>2, <2>2
    <3>9. LastParts(saved'.rest, path, n - 1)
        BY <3>1, <3>6
    <3> DEFINE k == [job[w] EXCEPT !.buf = "path", !.count = 1, !.pc = "count"]
    <3>10. DOMAIN k = JobFields /\ k.req = job[w].req /\ k.answer = job[w].answer
           /\ k.buf = "path" /\ k.pc = "count" /\ k.count = 1
        BY JobIsGood DEF JobFields
    <3> HIDE DEF k
    <3>11. k.count <= n /\ LastParts(saved'.rest, path, n - k.count)
        BY <3>8, <3>9, <3>10
    <3>12. k.count \in Nat \ {0} /\ k.pc \in {"count", "find"} /\ k.pc # "find"
        BY <3>10
    <3>13. ASSUME job[w].answer # Spoilt
           PROVE  /\ IsAt(w, saved', "path", "/")
                  /\ k.count <= n /\ LastParts(saved'.rest, path, n - k.count)
        BY <3>6, <3>11
    <3>14. Good(w, k, saved', line')
      <4> USE DEF path, n
      <4> QED BY <3>7, <3>10, <3>12, <3>13, WalkingGood
    <3> QED BY <3>3, <3>14 DEF k
  <2> QED BY <2>1, <2>2
<1> HIDE DEF j
<1> QED BY <1>1, <1>3, OneMoves

LEMMA CountGood == ASSUME AllGood, NEW w \in Workers, Count(w) PROVE AllGood'
<1> DEFINE path == job[w].req.path
           n == Len(path)
           j(t) == IF t = NoTok THEN [job[w] EXCEPT !.buf = "none", !.pc = "again"]
                   ELSE [job[w] EXCEPT !.count = @ + 1]
<1>1. job[w].pc = "count" /\ line' = line
    BY DEF Count, At, Continues
<1>2. PICK f \in Found("/") :
          saved' = Place(f[2], w, j(f[1])) /\ job' = Spoils(w, Amid(w), j(f[1]))
    BY DEF Count, Continues
<1>3. Shape(job[w]) /\ DOMAIN job[w] = JobFields /\ n \in Nat /\ job[w].buf = "path"
      /\ job[w].count \in Nat \ {0}
    BY <1>1, JobIsGood, RequestIsSound DEF Shape
<1>4. ASSUME job[w].answer # Spoilt
      PROVE  /\ job[w].answer = NoAnswer /\ job[w].count <= n /\ IsAt(w, saved, "path", "/")
             /\ LastParts(saved.rest, path, n - job[w].count)
             /\ IF saved.rest = <<>> THEN f[1] = NoTok
                ELSE /\ f[1] = Head(saved.rest)
                     /\ f[2] = [by |-> w, buf |-> "path", delim |-> "/", rest |-> Tail(saved.rest)]
  <2>1. /\ job[w].answer = NoAnswer /\ job[w].count <= n /\ IsAt(w, saved, "path", "/")
        /\ LastParts(saved.rest, path, n - job[w].count)
      BY <1>1, <1>4, JobIsGood DEF Walk, Answering, Early
  <2> QED BY <1>3, <2>1, FoundOwn
<1>5. Good(w, j(f[1]), saved', line')
  <2>1. CASE f[1] = NoTok
    <3> DEFINE k == [job[w] EXCEPT !.buf = "none", !.pc = "again"]
    <3>1. DOMAIN k = JobFields /\ k.req = job[w].req /\ k.answer = job[w].answer
          /\ k.buf = "none" /\ k.pc = "again" /\ k.count = job[w].count
        BY <1>3 DEF JobFields
    <3> HIDE DEF k
    <3>2. Shape(k)
        BY <1>3, <3>1 DEF Shape, Pcs, Early, Loops
    <3>3. ASSUME k.answer # Spoilt
          PROVE  Walk(w, k, saved') /\ Known(k) /\ Answering(w, k, saved', line')
      <4>1. job[w].answer # Spoilt
          BY <3>1, <3>3
      <4>2. k.count = n
        <5>1. saved.rest = <<>>
          <6> DEFINE left == n - job[w].count
          <6>2. left \in Nat /\ LastParts(saved.rest, path, left)
              BY <1>3, <1>4, <4>1
          <6> HIDE DEF left
          <6>1. saved.rest # <<>> => Head(saved.rest) = <<path[n - left + 1]>>
              BY <1>3, <6>2, NextPart, SMTT(20)
          <6> QED BY <1>4, <2>1, <4>1, <6>1, OneIsToken
        <5>2. n - job[w].count = 0
            BY <1>3, <1>4, <4>1, <5>1, NextPart
        <5> QED BY <1>3, <3>1, <5>2
      <4>3. Walk(w, k, saved')
          BY <3>1, <4>2 DEF Walk
      <4>4. Known(k)
          BY <3>1 DEF Known, Early
      <4>5. Answering(w, k, saved', line')
          BY <1>4, <3>1, <4>1 DEF Answering, OnBands
      <4> QED BY <4>3, <4>4, <4>5
    <3>4. Good(w, k, saved', line')
        BY <3>2, <3>3 DEF Good
    <3> QED BY <2>1, <3>4 DEF k
  <2>2. CASE f[1] # NoTok
    <3> DEFINE k == [job[w] EXCEPT !.count = @ + 1]
    <3>1. DOMAIN k = JobFields /\ k.req = job[w].req /\ k.answer = job[w].answer
          /\ k.buf = "path" /\ k.pc = "count" /\ k.count = job[w].count + 1
        BY <1>1, <1>3 DEF JobFields
    <3>2. j(f[1]) = k
        BY <2>2
    <3> HIDE DEF k
    <3>3. saved' = Place(f[2], w, k)
        BY <1>2, <3>2
    <3> HIDE DEF j
    <3>4. ASSUME job[w].answer # Spoilt
          PROVE  /\ IsAt(w, saved', "path", "/")
                 /\ k.count <= n /\ LastParts(saved'.rest, path, n - k.count)
      <4>1. saved.rest # <<>>
          BY <1>4, <2>2, <3>4
      <4>2. f[2] = [by |-> w, buf |-> "path", delim |-> "/", rest |-> Tail(saved.rest)]
          BY <1>4, <3>4, <4>1
      <4>3. saved' = f[2]
          BY <3>1, <3>3, <4>2 DEF Place
      <4>4. n - job[w].count # 0 /\ LastParts(Tail(saved.rest), path, (n - job[w].count) - 1)
          BY <1>3, <1>4, <3>4, <4>1, NextPart, SMTT(20)
      <4>5. IsAt(w, saved', "path", "/") /\ saved'.rest = Tail(saved.rest)
          BY <4>2, <4>3 DEF IsAt
      <4>6. (n - job[w].count) - 1 = n - k.count /\ k.count <= n
        <5> HIDE DEF n
        <5> QED BY <1>3, <1>4, <3>1, <3>4, <4>4
      <4> QED BY <4>4, <4>5, <4>6
    <3>5. Good(w, k, saved', line')
      <4>1. job[w].pc \in Early /\ k.count \in Nat \ {0}
          BY <1>1, <1>3, <3>1 DEF Early
      <4> QED BY <3>1, <3>4, <4>1, WalkingGood
    <3> QED BY <3>2, <3>5
  <2> QED BY <2>1, <2>2
<1> HIDE DEF j
<1> QED BY <1>1, <1>2, <1>5, OneMoves

LEMMA AgainGood == ASSUME AllGood, NEW w \in Workers, Again(w) PROVE AllGood'
<1> DEFINE path == job[w].req.path
           n == Len(path)
           toks == Path(w)
           k == [job[w] EXCEPT !.buf = "path", !.count = @ - 1, !.pc = "find"]
           j == IF job[w].count = 1 THEN Named(w, First(toks)) ELSE k
<1>1. /\ job[w].pc = "again"
      /\ saved' = Place([by |-> w, buf |-> "path", delim |-> "/", rest |-> Rest(toks)], w, j)
      /\ job' = Spoils(w, Amid(w), j) /\ line' = line
    BY DEF Again, At, Begins
<1>2. LastParts(toks, path, n) /\ n \in Nat /\ Shape(job[w]) /\ DOMAIN job[w] = JobFields
      /\ job[w].count \in Nat \ {0} /\ job[w].pc \in Early
    BY <1>1, AllParts, RequestIsSound, JobIsGood DEF Shape, Early
<1>3. ASSUME job[w].answer # Spoilt PROVE job[w].count = n
    BY <1>1, <1>3, JobIsGood DEF Walk
<1>4. ASSUME job[w].answer # Spoilt
      PROVE  /\ First(toks) = <<path[1]>> /\ Rest(toks) = Tail(toks)
             /\ LastParts(Tail(toks), path, n - 1)
  <2>1. n # 0
      BY <1>2, <1>3, <1>4
  <2> HIDE DEF toks, n
  <2>2. toks # <<>> /\ Head(toks) = <<path[n - n + 1]>> /\ LastParts(Tail(toks), path, n - 1)
      BY <1>2, <2>1, NextPart DEF n
  <2>3. n - n + 1 = 1
      BY <1>2
  <2> QED BY <2>2, <2>3 DEF First, Rest
<1>5. Good(w, j, saved', line')
  <2>1. CASE job[w].count = 1
    <3>1. ASSUME job[w].answer # Spoilt
          PROVE  First(toks) = <<path[Len(path)]>> /\ Len(path) # 0
        BY <1>3, <1>4, <2>1, <3>1
    <3> HIDE DEF toks
    <3>2. Good(w, Named(w, First(toks)), saved', line')
        BY <1>2, <3>1, NamedGood
    <3> QED BY <2>1, <3>2
  <2>2. CASE job[w].count # 1
    <3>1. DOMAIN k = JobFields /\ k.req = job[w].req /\ k.answer = job[w].answer
          /\ k.buf = "path" /\ k.pc = "find" /\ k.count = job[w].count - 1
        BY <1>2 DEF JobFields
    <3>2. j = k
        BY <2>2
    <3> HIDE DEF k, j
    <3>3. ASSUME job[w].answer # Spoilt
          PROVE  /\ IsAt(w, saved', "path", "/")
                 /\ k.count < n /\ LastParts(saved'.rest, path, k.count)
      <4>1. saved' = [by |-> w, buf |-> "path", delim |-> "/", rest |-> Tail(toks)]
          BY <1>1, <1>4, <3>1, <3>2, <3>3 DEF Place
      <4>2. IsAt(w, saved', "path", "/") /\ saved'.rest = Tail(toks)
        <5> HIDE DEF toks
        <5> QED BY <4>1 DEF IsAt
      <4>3. k.count = n - 1 /\ k.count < n
          BY <1>2, <1>3, <3>1, <3>3
      <4> QED BY <1>4, <3>3, <4>2, <4>3
    <3>4. k.count \in Nat \ {0} /\ k.pc \in {"count", "find"} /\ k.pc # "count"
        BY <1>2, <2>2, <3>1
    <3>5. Good(w, k, saved', line')
        BY <1>2, <3>1, <3>3, <3>4, WalkingGood
    <3> QED BY <3>2, <3>5
  <2> QED BY <2>1, <2>2
<1> HIDE DEF j
<1> QED BY <1>1, <1>5, OneMoves

LEMMA FindGood == ASSUME AllGood, NEW w \in Workers, Find(w) PROVE AllGood'
<1> DEFINE path == job[w].req.path
           n == Len(path)
           k == [job[w] EXCEPT !.count = @ - 1]
           j(t) == IF t = NoTok \/ job[w].count = 1 THEN Named(w, t) ELSE k
<1>1. job[w].pc = "find" /\ line' = line
    BY DEF Find, At, Continues
<1>2. PICK f \in Found("/") :
          saved' = Place(f[2], w, j(f[1])) /\ job' = Spoils(w, Amid(w), j(f[1]))
    BY DEF Find, Continues
<1>3. Shape(job[w]) /\ DOMAIN job[w] = JobFields /\ n \in Nat /\ job[w].buf = "path"
      /\ job[w].count \in Nat \ {0} /\ job[w].pc \in Early
    BY <1>1, JobIsGood, RequestIsSound DEF Shape, Early
<1>4. ASSUME job[w].answer # Spoilt
      PROVE  /\ job[w].count < n
             /\ f[1] = <<path[n - job[w].count + 1]>>
             /\ f[2] = [by |-> w, buf |-> "path", delim |-> "/", rest |-> Tail(saved.rest)]
             /\ LastParts(Tail(saved.rest), path, job[w].count - 1)
  <2>1. /\ job[w].count < n /\ IsAt(w, saved, "path", "/")
        /\ LastParts(saved.rest, path, job[w].count)
      BY <1>1, <1>4, JobIsGood DEF Walk
  <2>2. /\ saved.rest # <<>> /\ Head(saved.rest) = <<path[n - job[w].count + 1]>>
        /\ LastParts(Tail(saved.rest), path, job[w].count - 1)
    <3> DEFINE left == job[w].count
    <3>1. /\ left \in Nat /\ left # 0 /\ LastParts(saved.rest, path, left)
          /\ n = Len(path) /\ Len(path) \in Nat
        BY <1>3, <2>1
    <3> HIDE DEF left, n, path
    <3>2. /\ saved.rest # <<>> /\ Head(saved.rest) = <<path[Len(path) - left + 1]>>
          /\ LastParts(Tail(saved.rest), path, left - 1)
        BY ONLY <3>1, NextPart
    <3>3. Head(saved.rest) = <<path[n - left + 1]>>
        BY ONLY <3>1, <3>2
    <3> QED BY <3>2, <3>3 DEF left
  <2>3. f[1] = Head(saved.rest)
        /\ f[2] = [by |-> w, buf |-> "path", delim |-> "/", rest |-> Tail(saved.rest)]
      BY <1>3, <2>1, <2>2, FoundOwn
  <2> QED BY <2>1, <2>2, <2>3
<1>5. Good(w, j(f[1]), saved', line')
  <2>1. CASE f[1] = NoTok \/ job[w].count = 1
    <3>1. ASSUME job[w].answer # Spoilt
          PROVE  f[1] = <<path[Len(path)]>> /\ Len(path) # 0
      <4>1. f[1] # NoTok
          BY <1>4, <3>1, OneIsToken
      <4>2. job[w].count = 1
          BY <2>1, <4>1
      <4>3. n - job[w].count + 1 = n /\ n # 0
        <5> HIDE DEF n
        <5> QED BY <1>3, <1>4, <3>1, <4>2
      <4> QED BY <1>4, <3>1, <4>3
    <3>2. Good(w, Named(w, f[1]), saved', line')
        BY <1>3, <3>1, NamedGood
    <3> QED BY <2>1, <3>2
  <2>2. CASE ~(f[1] = NoTok \/ job[w].count = 1)
    <3>1. DOMAIN k = JobFields /\ k.req = job[w].req /\ k.answer = job[w].answer
          /\ k.buf = "path" /\ k.pc = "find" /\ k.count = job[w].count - 1
        BY <1>1, <1>3 DEF JobFields
    <3>2. j(f[1]) = k
        BY <2>2
    <3> HIDE DEF k
    <3>3. saved' = Place(f[2], w, k)
        BY <1>2, <3>2
    <3> HIDE DEF j
    <3>4. ASSUME job[w].answer # Spoilt
          PROVE  /\ IsAt(w, saved', "path", "/")
                 /\ k.count < n /\ LastParts(saved'.rest, path, k.count)
      <4>1. saved' = [by |-> w, buf |-> "path", delim |-> "/", rest |-> Tail(saved.rest)]
          BY <1>4, <3>1, <3>3, <3>4 DEF Place
      <4>2. IsAt(w, saved', "path", "/") /\ saved'.rest = Tail(saved.rest)
          BY <4>1 DEF IsAt
      <4>3. k.count < n
        <5> HIDE DEF n
        <5> QED BY <1>3, <1>4, <3>1, <3>4
      <4> QED BY <1>4, <3>1, <3>4, <4>2, <4>3
    <3>5. k.count \in Nat \ {0} /\ k.pc \in {"count", "find"} /\ k.pc # "count"
        BY <1>3, <2>2, <3>1
    <3>6. Good(w, k, saved', line')
        BY <1>3, <3>1, <3>4, <3>5, WalkingGood
    <3> QED BY <3>2, <3>6
  <2> QED BY <2>1, <2>2
<1> HIDE DEF j
<1> QED BY <1>1, <1>2, <1>5, OneMoves

LEMMA TakeGood == ASSUME AllGood, NEW w \in Workers, Take(w) PROVE AllGood'
<1>1. PICK r \in Requests :
          job' = [job EXCEPT ![w] = [Idle(@.prev) EXCEPT !.req = r, !.pc = "parts"]]
    BY DEF Take
<1> DEFINE j == [Idle(job[w].prev) EXCEPT !.req = r, !.pc = "parts"]
<1>2. DOMAIN j = JobFields /\ DOMAIN j.answer = AnswerFields /\ j.req = r
      /\ j.pc = "parts" /\ j.buf = "none" /\ j.count = 0 /\ j.answer = NoAnswer
    BY DEF Idle, JobFields, AnswerFields, NoAnswer
<1>3. job' = [job EXCEPT ![w] = j] /\ saved' = saved /\ line' = line
    BY <1>1 DEF Take, AllGood
<1> HIDE DEF j
<1>4. Shape(j)
    BY <1>2 DEF Shape, Pcs, Early, Loops
<1>5. Walk(w, j, saved) /\ Known(j) /\ Answering(w, j, saved, line)
    BY <1>2 DEF Walk, Known, Early, Answering, OnBands
<1>6. Good(w, j, saved, line)
    BY <1>4, <1>5 DEF Good
<1> QED BY <1>3, <1>6, OnlyOneMoves

LEMMA FinishGood == ASSUME AllGood, NEW w \in Workers, Finish(w) PROVE AllGood'
<1> DEFINE j == Idle(job[w].name)
<1>1. DOMAIN j = JobFields /\ DOMAIN j.answer = AnswerFields /\ j.req = NoRequest
      /\ j.pc = "idle" /\ j.buf = "none" /\ j.count = 0 /\ j.answer = NoAnswer
    BY DEF Idle, JobFields, AnswerFields, NoAnswer
<1>2. job' = [job EXCEPT ![w] = j] /\ saved' = saved /\ line' = line
    BY DEF Finish, AllGood
<1> HIDE DEF j
<1>3. Shape(j)
    BY <1>1 DEF Shape, Pcs, Early, Loops
<1>4. Walk(w, j, saved) /\ Known(j) /\ Answering(w, j, saved, line)
    BY <1>1 DEF Walk, Known, Early, Answering, OnBands
<1>5. Good(w, j, saved, line)
    BY <1>3, <1>4 DEF Good
<1> QED BY <1>2, <1>5, OnlyOneMoves

----------------------------------------------------------------------------
(****************************************************************************)
(* The choice of the handler.                                               *)
(****************************************************************************)
LEMMA RefusedHasAllFields ==
    DOMAIN Refused = AnswerFields /\ Refused.of = "refused" /\ Refused # Spoilt
    /\ DOMAIN Spoilt = AnswerFields /\ NoAnswer # Spoilt /\ DOMAIN NoAnswer = AnswerFields
<1>1. DOMAIN NoAnswer = AnswerFields /\ NoAnswer.of = "none"
    BY DEF NoAnswer, AnswerFields
<1>2. DOMAIN Refused = AnswerFields /\ Refused.of = "refused"
    BY <1>1 DEF Refused, AnswerFields
<1>3. DOMAIN Spoilt = AnswerFields /\ Spoilt.of = "spoilt"
    BY <1>1 DEF Spoilt, AnswerFields
<1> QED BY <1>1, <1>2, <1>3

\* The handler of the last part is the one that is meant.
LEMMA OwnIsMeant ==
    ASSUME NEW r \in Requests \cup {NoRequest}, HeadFits(r), r.path # <<>>
    PROVE  Meant(r) = Handler(r, r.path[Len(r.path)])
BY DEF Meant

LEMMA MatchesGood == ASSUME AllGood, NEW w \in Workers, Matches(w) PROVE AllGood'
<1> DEFINE j == job[w]
           path == j.req.path
<1>1. j.pc = "match" /\ Shape(j) /\ DOMAIN j = JobFields
    BY JobIsGood DEF Matches, At
<1>2. PICK name \in NamesFor(w) :
          IF ~HeadFits(j.req) \/ Handler(j.req, name) = "none"
          THEN Local(w, [Answers(w, Refused) EXCEPT !.name = name])
          ELSE Local(w, [j EXCEPT !.name = name, !.pc = j.req.method])
    BY DEF Matches
<1>3. ASSUME j.answer # Spoilt
      PROVE  /\ j.answer = NoAnswer
             /\ path = <<>> => ~HeadFits(j.req)
             /\ path # <<>> => name = path[Len(path)]
  <2>1. j.answer = NoAnswer /\ j.name = IF Len(path) = 0 THEN "unset" ELSE path[Len(path)]
      BY <1>1, <1>3, JobIsGood DEF Walk, Answering, Early
  <2>2. /\ path = <<>> <=> Len(path) = 0
        /\ HeadFits(j.req) => path # <<>>
        /\ Len(path) \in Nat
        /\ \A i \in 1..Len(path) : path[i] # "unset"
      BY <1>1, RequestIsSound DEF Shape
  <2>3. ASSUME path # <<>> PROVE name = path[Len(path)]
    <3>1. j.name = path[Len(path)] /\ Len(path) \in 1..Len(path)
        BY <2>1, <2>2, <2>3
    <3>2. j.name # "unset"
        BY <2>2, <3>1
    <3> QED BY <3>1, <3>2 DEF NamesFor
  <2> QED BY <2>1, <2>2, <2>3
<1>4. CASE ~HeadFits(j.req) \/ Handler(j.req, name) = "none"
  <2> DEFINE a == With(j.answer, Refused)
             k == [Answers(w, Refused) EXCEPT !.name = name]
  <2>1. DOMAIN a = AnswerFields /\ (j.answer = Spoilt => a = Spoilt)
        /\ (j.answer # Spoilt => a.of = "refused")
      BY RefusedHasAllFields DEF With
  <2> HIDE DEF a
  <2>2. DOMAIN k = JobFields /\ k.req = j.req /\ k.pc = "done" /\ k.buf = j.buf
        /\ k.count = j.count /\ k.name = name /\ k.answer = a
      BY <1>1 DEF Answers, a, JobFields
  <2>3. Local(w, k)
      BY <1>2, <1>4
  <2> HIDE DEF k, j
  <2>4. Shape(k)
    <3>1. j.buf = "none"
        BY <1>1 DEF Shape, Loops
    <3> QED BY <1>1, <2>1, <2>2, <3>1 DEF Shape, Pcs, Early, Loops
  <2>5. ASSUME k.answer # Spoilt
        PROVE  Walk(w, k, saved) /\ Known(k) /\ Answering(w, k, saved, line)
    <3>1. j.answer # Spoilt /\ k.answer.of = "refused"
        BY <2>1, <2>2, <2>5
    <3>2. Meant(j.req) = "none"
        BY <1>3, <1>4, <3>1 DEF Meant
    <3>3. Handler(j.req, "refused") = "none"
        BY DEF Handler, Folded, Capitals, GetHandlers, PostHandlers, Single, Copied, Borrowed, Direct, Prefixed, Counted, Listed
    <3>4. TextOwn(k)
        BY <2>2, <3>1, <3>3 DEF TextOwn, Single, Copied, Borrowed, Direct, Prefixed, Counted, Listed
    <3>5. Walk(w, k, saved)
        BY <2>2 DEF Walk
    <3>6. Known(k)
        BY <2>2, <3>1, <3>2 DEF Known
    <3>7. Answering(w, k, saved, line)
        BY <2>2, <3>4 DEF Answering, Early, OnBands
    <3> QED BY <3>5, <3>6, <3>7
  <2>6. Good(w, k, saved, line)
      BY <2>4, <2>5 DEF Good
  <2> QED BY <2>3, <2>6, LocalMoves
<1>5. CASE ~(~HeadFits(j.req) \/ Handler(j.req, name) = "none")
  <2> DEFINE k == [j EXCEPT !.name = name, !.pc = j.req.method]
  <2>1. j.req.method \in {"GET", "POST"}
      BY <1>5 DEF Handler
  <2>2. DOMAIN k = JobFields /\ k.req = j.req /\ k.pc = j.req.method /\ k.buf = j.buf
        /\ k.count = j.count /\ k.name = name /\ k.answer = j.answer
      BY <1>1 DEF JobFields
  <2>3. Local(w, k)
      BY <1>2, <1>5
  <2> HIDE DEF k, j
  <2>4. Shape(k)
    <3>1. j.buf = "none"
        BY <1>1 DEF Shape, Loops
    <3> QED BY <1>1, <2>1, <2>2, <3>1 DEF Shape, Pcs, Early, Loops
  <2>5. ASSUME k.answer # Spoilt
        PROVE  Walk(w, k, saved) /\ Known(k) /\ Answering(w, k, saved, line)
    <3>1. Walk(w, k, saved)
        BY <2>1, <2>2 DEF Walk
    <3>2. Own(k)
        BY <1>3, <1>5, <2>1, <2>2, <2>5 DEF Own, HandlerOf
    <3>3. Answering(w, k, saved, line)
        BY <1>3, <2>1, <2>2, <2>5 DEF Answering, Early, OnBands
    <3> QED BY <3>1, <3>2, <3>3 DEF Known
  <2>6. Good(w, k, saved, line)
      BY <2>4, <2>5 DEF Good
  <2> QED BY <2>3, <2>6, LocalMoves
<1> QED BY <1>4, <1>5

----------------------------------------------------------------------------
(****************************************************************************)
(* The handlers.                                                            *)
(****************************************************************************)
\* A step of a handler that answers, if it does, for its own name.
LEMMA HandlerGood ==
    ASSUME AllGood, NEW w \in Workers, job[w].pc \notin Early \cup {"done"},
           NEW k, NEW s, NEW l, DOMAIN k = JobFields, DOMAIN k.answer = AnswerFields,
           k.req = job[w].req, k.name = job[w].name, k.count = job[w].count,
           k.pc \in Pcs \ Early, k.pc \in Loops <=> k.buf # "none",
           k.pc = "rows" => k.buf = "rows",
           job[w].answer = Spoilt => k.answer = Spoilt,
           k.answer # Spoilt => /\ k.pc \in {"release", "done"} => k.answer.of = k.name
                                /\ Answering(w, k, s, l)
    PROVE  Good(w, k, s, l)
<1>1. k.pc \notin {"count", "again", "find", "match"}
    BY DEF Early
<1>2. Shape(k)
    BY <1>1, JobIsGood DEF Shape
<1>3. ASSUME k.answer # Spoilt PROVE Walk(w, k, s) /\ Known(k) /\ Answering(w, k, s, l)
  <2>1. Own(job[w])
      BY <1>3, JobIsGood DEF Known
  <2>2. Own(k)
      BY <1>3, <2>1 DEF Own, HandlerOf
  <2>3. Walk(w, k, s)
      BY <1>1 DEF Walk
  <2> QED BY <1>3, <2>2, <2>3 DEF Known
<1> QED BY <1>2, <1>3 DEF Good

\* A handler that answers is done.
LEMMA AnswerIsGood ==
    ASSUME AllGood, NEW w \in Workers, job[w].pc \notin Early \cup {"done"}, job[w].buf = "none",
           NEW a, DOMAIN a = AnswerFields, a.of = job[w].name,
           job[w].answer # Spoilt =>
               LET h == Handler(job[w].req, job[w].name)
               IN  /\ h \in Single => a.text \in {<<h>>, Missing}
                   /\ h \in Listed => a.rows \in {Rows(h), << <<"ERROR">> >>, <<>>},
           NEW s, NEW l
    PROVE  Good(w, Answers(w, a), s, l)
<1> DEFINE j == job[w]
           b == With(j.answer, a)
           k == Answers(w, a)
<1>1. DOMAIN b = AnswerFields /\ (j.answer = Spoilt => b = Spoilt) /\ (j.answer # Spoilt => b = a)
    BY RefusedHasAllFields DEF With
<1> HIDE DEF b
<1>2. DOMAIN k = JobFields /\ k.req = j.req /\ k.pc = "done" /\ k.buf = "none"
      /\ k.count = j.count /\ k.name = j.name /\ k.answer = b
    BY JobIsGood DEF Answers, b, JobFields
<1> HIDE DEF k
<1>3. k.pc \in Pcs \ Early /\ k.pc \notin Loops /\ k.pc # "rows"
    BY <1>2 DEF Pcs, Early, Loops
<1>4. ASSUME k.answer # Spoilt PROVE k.answer.of = k.name /\ Answering(w, k, s, l)
  <2>1. k.answer = a /\ j.answer # Spoilt
      BY <1>1, <1>2, <1>4
  <2>2. k.answer.of = k.name
      BY <1>2, <2>1
  <2>3. TextOwn(k)
      BY <1>2, <2>1 DEF TextOwn
  <2>4. Answering(w, k, s, l)
      BY <1>2, <2>3 DEF Answering, Early, OnBands
  <2> QED BY <2>2, <2>4
<1>5. Good(w, k, s, l)
    BY <1>1, <1>2, <1>3, <1>4, HandlerGood
<1> QED BY <1>5 DEF k

LEMMA AnswersGood ==
    ASSUME AllGood, NEW w \in Workers, job[w].pc \notin Early \cup {"done"}, job[w].buf = "none",
           NEW a, DOMAIN a = AnswerFields, a.of = job[w].name,
           job[w].answer # Spoilt =>
               LET h == Handler(job[w].req, job[w].name)
               IN  /\ h \in Single => a.text \in {<<h>>, Missing}
                   /\ h \in Listed => a.rows \in {Rows(h), << <<"ERROR">> >>, <<>>},
           Local(w, Answers(w, a))
    PROVE  AllGood'
<1>1. Good(w, Answers(w, a), saved, line)
    BY AnswerIsGood
<1> QED BY <1>1, LocalMoves

LEMMA AnswerHasAllFields ==
    ASSUME NEW w
    PROVE  /\ DOMAIN AnswerOf(w) = AnswerFields /\ AnswerOf(w).of = job[w].name
           /\ AnswerOf(w).rows = <<>>
BY DEF AnswerOf, NoAnswer, AnswerFields

\* At such a step worker w is amid no loop.
LEMMA NoLoopAt ==
    ASSUME AllGood, NEW w \in Workers, job[w].pc \notin Loops
    PROVE  job[w].buf = "none" /\ DOMAIN job[w] = JobFields
BY JobIsGood DEF Shape

LEMMA TextAnswer ==
    ASSUME AllGood, NEW w \in Workers, job[w].pc \notin Early \cup {"done"}, job[w].pc \notin Loops,
           NEW text, Local(w, Answers(w, [AnswerOf(w) EXCEPT !.text = text])),
           job[w].answer # Spoilt =>
               LET h == Handler(job[w].req, job[w].name)
               IN  h \in Single => text \in {<<h>>, Missing}
    PROVE  AllGood'
<1> DEFINE a == [AnswerOf(w) EXCEPT !.text = text]
<1>1. DOMAIN a = AnswerFields /\ a.of = job[w].name /\ a.text = text /\ a.rows = <<>>
    BY AnswerHasAllFields DEF AnswerFields
<1>2. Local(w, Answers(w, a)) /\ job[w].buf = "none"
    BY NoLoopAt
<1> HIDE DEF a
<1> QED BY <1>1, <1>2, AnswersGood

LEMMA GetTextsGood ==
    ASSUME AllGood, NEW w \in Workers, GetDefault(w) \/ GetDirect(w) \/ GetText(w)
    PROVE  AllGood'
<1>1. CASE GetDefault(w)
  <2>1. job[w].pc = "GET" /\ Local(w, Answers(w, [AnswerOf(w) EXCEPT !.text = Missing]))
      BY <1>1 DEF GetDefault, Does, At
  <2>2. job[w].pc \notin Early \cup {"done"} /\ job[w].pc \notin Loops
      BY <2>1 DEF Early, Loops
  <2> QED BY <2>1, <2>2, TextAnswer
<1>2. CASE GetDirect(w)
  <2>1. job[w].pc = "GET" /\ Local(w, Answers(w, [AnswerOf(w) EXCEPT !.text = <<Chosen(w)>>]))
        /\ Chosen(w) = Handler(job[w].req, job[w].name)
      BY <1>2 DEF GetDirect, Does, At, Chosen
  <2>2. job[w].pc \notin Early \cup {"done"} /\ job[w].pc \notin Loops
      BY <2>1 DEF Early, Loops
  <2> QED BY <2>1, <2>2, TextAnswer
<1>3. CASE GetText(w)
  <2>1. job[w].pc = "read" /\ Local(w, Answers(w, [AnswerOf(w) EXCEPT !.text = line.text]))
      BY <1>3 DEF GetText, At
  <2>2. job[w].pc \notin Early \cup {"done"} /\ job[w].pc \notin Loops
      BY <2>1 DEF Early, Loops
  <2>3. job[w].answer # Spoilt => line.text = <<Handler(job[w].req, job[w].name)>>
      BY <2>1, JobIsGood DEF Answering, HandlerOf
  <2> QED BY <2>1, <2>2, <2>3, TextAnswer
<1> QED BY <1>1, <1>2, <1>3

LEMMA GetSignalGood ==
    ASSUME AllGood, NEW w \in Workers, GetSignal(w) PROVE AllGood'
<1>1. PICK signal : Local(w, Answers(w, [AnswerOf(w) EXCEPT !.signal = signal]))
    BY DEF GetSignal
<1> DEFINE a == [AnswerOf(w) EXCEPT !.signal = signal]
<1>2. DOMAIN a = AnswerFields /\ a.of = job[w].name /\ a.rows = <<>>
    BY AnswerHasAllFields DEF AnswerFields
<1>3. Local(w, Answers(w, a))
    BY <1>1
<1> HIDE DEF a
<1>4. job[w].pc \in {"signal", "GET"}
    BY DEF GetSignal, Does, At
<1>5. job[w].pc \notin Early \cup {"done"} /\ job[w].pc \notin Loops /\ job[w].buf = "none"
    BY <1>4, NoLoopAt DEF Early, Loops
<1>6. job[w].answer # Spoilt => Handler(job[w].req, job[w].name) = "signal"
  <2>1. CASE job[w].pc = "signal"
      BY <2>1, JobIsGood DEF Answering, HandlerOf
  <2>2. CASE job[w].pc = "GET"
      BY <2>2 DEF GetSignal, Does, At, Chosen
  <2> QED BY <1>4, <2>1, <2>2
<1>7. "signal" \notin Single \cup Listed
    BY DEF Single, Copied, Borrowed, Direct, Prefixed, Counted, Listed
<1> QED BY <1>2, <1>3, <1>5, <1>6, <1>7, AnswersGood

\* A question is asked, whose answer is in the line from now on.
LEMMA ScanGood ==
    ASSUME AllGood, NEW w \in Workers, job[w].pc \notin Early \cup {"done"}, job[w].pc \notin Loops,
           NEW what, NEW text, NEW k, Scans(w, what, text, k),
           DOMAIN k = JobFields, k.answer = job[w].answer,
           k.req = job[w].req, k.name = job[w].name, k.count = job[w].count, k.buf = job[w].buf,
           job[w].answer # Spoilt =>
               \/ k.pc = "read" /\ HandlerOf(k) \in Single /\ text = <<HandlerOf(k)>>
               \/ k.pc = "signal" /\ HandlerOf(k) = "signal"
               \/ k.pc \in OnBands /\ HandlerOf(k) = "lockband",
           k.pc \in {"read", "signal", "copy lte", "copy nr"}
    PROVE  AllGood'
<1>1. /\ line' = [of |-> what, text |-> text] /\ saved' = saved
      /\ job' = Spoils(w, {v \in Workers : Reading(v)}, k)
    BY DEF Scans
<1>2. k.buf = "none" /\ k.pc \in Pcs \ Early /\ k.pc \notin Loops /\ k.pc # "rows"
      /\ k.pc \notin {"release", "done", "GET", "POST"} /\ k.pc \notin Early
    BY NoLoopAt DEF Pcs, Early, Loops, OnBands
<1>3. DOMAIN k.answer = AnswerFields
    BY JobIsGood DEF Shape
<1>4. ASSUME k.answer # Spoilt PROVE Answering(w, k, saved', line')
  <2>1. line'.text = text
      BY <1>1
  <2>2. \/ k.pc = "read" /\ HandlerOf(k) \in Single /\ text = <<HandlerOf(k)>>
        \/ k.pc = "signal" /\ HandlerOf(k) = "signal"
        \/ k.pc \in OnBands /\ HandlerOf(k) = "lockband"
      BY <1>4
  <2> QED BY <1>2, <2>1, <2>2 DEF Answering, OnBands
<1>5. Good(w, k, saved', line')
    BY <1>2, <1>3, <1>4, HandlerGood
<1> QED BY <1>1, <1>5, OneMoves

LEMMA GetScanGood == ASSUME AllGood, NEW w \in Workers, GetScan(w) PROVE AllGood'
<1> DEFINE h == Chosen(w)
           pc == IF h = "signal" THEN h ELSE "read"
           k == [job[w] EXCEPT !.pc = pc]
<1>1. /\ job[w].pc = "GET" /\ h \in Single \cup {"signal"}
      /\ h = Handler(job[w].req, job[w].name)
      /\ Scans(w, h, <<h>>, k)
    BY DEF GetScan, Does, At, Chosen, Single, Direct
<1> HIDE DEF h
<1>2. job[w].pc \notin Early \cup {"done"} /\ job[w].pc \notin Loops
    BY <1>1 DEF Early, Loops
<1>3. pc \in {"read", "signal"} /\ (pc = "signal" <=> h = "signal")
    OBVIOUS
<1> HIDE DEF pc
<1>4. DOMAIN k = JobFields /\ k.req = job[w].req /\ k.answer = job[w].answer /\ k.pc = pc
      /\ k.name = job[w].name /\ k.buf = job[w].buf /\ k.count = job[w].count
    BY JobIsGood DEF JobFields
<1>5. Scans(w, h, <<h>>, k)
    BY <1>1
<1> HIDE DEF k
<1>6. HandlerOf(k) = h
    BY <1>1, <1>4 DEF HandlerOf
<1> QED BY <1>1, <1>2, <1>3, <1>4, <1>5, <1>6, ScanGood

LEMMA GetNumberGood == ASSUME AllGood, NEW w \in Workers, GetNumber(w) PROVE AllGood'
<1> DEFINE h == Chosen(w)
           a == [AnswerOf(w) EXCEPT !.text = <<h>>]
<1>1. job[w].pc = "GET" /\ h = Handler(job[w].req, job[w].name) /\ h \in Counted
    BY DEF GetNumber, Does, At, Chosen
<1>2. /\ line' = [of |-> h, text |-> <<h>>] /\ saved' = saved
      /\ job' = Spoils(w, {v \in Workers : Reading(v)}, Answers(w, a))
    BY DEF GetNumber, Scans
<1> HIDE DEF h
<1>3. DOMAIN a = AnswerFields /\ a.of = job[w].name /\ a.text = <<h>> /\ a.rows = <<>>
    BY AnswerHasAllFields DEF AnswerFields
<1>4. job[w].pc \notin Early \cup {"done"} /\ job[w].pc \notin Loops /\ job[w].buf = "none"
    BY <1>1, NoLoopAt DEF Early, Loops
<1> HIDE DEF a
<1>5. Good(w, Answers(w, a), saved', line')
    BY <1>1, <1>3, <1>4, AnswerIsGood
<1> QED BY <1>2, <1>5, OneMoves

----------------------------------------------------------------------------
(****************************************************************************)
(* The bands in use.                                                        *)
(****************************************************************************)
\* A step of that handler, which goes on or answers.
LEMMA BandsGood ==
    ASSUME AllGood, NEW w \in Workers, job[w].pc \notin Early \cup {"done"},
           job[w].answer # Spoilt => HandlerOf(job[w]) = "lockband",
           NEW k, NEW s, NEW l, DOMAIN k = JobFields, DOMAIN k.answer = AnswerFields,
           k.req = job[w].req, k.name = job[w].name, k.count = job[w].count,
           k.pc \in OnBands \cup {"done"}, k.pc \in Loops <=> k.buf # "none",
           job[w].answer = Spoilt => k.answer = Spoilt,
           k.answer # Spoilt /\ k.pc = "done" => k.answer.of = k.name
    PROVE  Good(w, k, s, l)
<1>1. k.pc \in Pcs \ Early /\ k.pc # "rows" /\ k.pc \notin {"release", "GET", "POST", "read", "signal"}
    BY DEF Pcs, Early, OnBands
<1>2. ASSUME k.answer # Spoilt
      PROVE  /\ k.pc \in {"release", "done"} => k.answer.of = k.name
             /\ Answering(w, k, s, l)
  <2>1. HandlerOf(k) = "lockband"
      BY <1>2 DEF HandlerOf
  <2>2. k.pc = "done" => TextOwn(k)
      BY <1>2, <2>1 DEF HandlerOf, TextOwn, Single, Copied, Borrowed, Direct, Prefixed, Counted, Listed
  <2>3. Answering(w, k, s, l)
      BY <1>1, <2>1, <2>2 DEF Answering
  <2> QED BY <1>1, <1>2, <2>3
<1> QED BY <1>1, <1>2, HandlerGood

LEMMA StepsOfTechs ==
    ASSUME NEW p \in Techs
    PROVE  /\ p \in {"lte", "nr"}
           /\ CopyOf[p] \in {"copy lte", "copy nr"} /\ AfterAsk[p] \in {"ask nr", "split"}
           /\ BandsIn[p] \in {"bands lte", "bands nr"} /\ MoreIn[p] \in {"more lte", "more nr"}
<1>1. CASE p = "lte"
    BY <1>1 DEF CopyOf, AfterAsk, BandsIn, MoreIn
<1>2. CASE p = "nr"
    BY <1>2 DEF CopyOf, AfterAsk, BandsIn, MoreIn
<1> QED BY <1>1, <1>2 DEF Techs

LEMMA OnBandsNow ==
    ASSUME AllGood, NEW w \in Workers, job[w].pc \in OnBands
    PROVE  /\ job[w].pc \notin Early \cup {"done"}
           /\ job[w].answer # Spoilt => HandlerOf(job[w]) = "lockband"
BY JobIsGood DEF Answering, Early, OnBands

LEMMA AsksNow ==
    ASSUME AllGood, NEW w \in Workers, NEW p \in Techs, Asks(w, p)
    PROVE  /\ job[w].pc \notin Early \cup {"done"} /\ job[w].pc \notin Loops
           /\ job[w].answer # Spoilt => HandlerOf(job[w]) = "lockband"
<1>1. CASE p = "lte"
  <2>1. job[w].pc = "GET" /\ HandlerOf(job[w]) = "lockband"
      BY <1>1 DEF Asks, Does, At, Chosen, HandlerOf
  <2> QED BY <2>1 DEF Early, Loops
<1>2. CASE p # "lte"
  <2>1. job[w].pc = "ask nr"
      BY <1>2 DEF Asks, At
  <2> QED BY <2>1, OnBandsNow DEF OnBands, Loops
<1> QED BY <1>1, <1>2

LEMMA ToldKeeps ==
    ASSUME AllGood, NEW w \in Workers, NEW p, NEW text
    PROVE  LET j == Told(w, p, text)
           IN  /\ DOMAIN j = JobFields /\ j.req = job[w].req /\ j.name = job[w].name
               /\ j.count = job[w].count /\ j.buf = job[w].buf /\ j.answer = job[w].answer
BY JobIsGood DEF Told, JobFields

LEMMA GetBandsGood ==
    ASSUME AllGood, NEW w \in Workers, NEW p \in Techs,
           GetBands(w, p) \/ GetBandsDefault(w, p) \/ CopyBands(w, p)
    PROVE  AllGood'
<1>1. CASE GetBands(w, p)
  <2> DEFINE j == Told(w, p, locked[p])
             k == [j EXCEPT !.pc = CopyOf[p]]
  <2>1. Asks(w, p) /\ Scans(w, p, locked[p], k)
      BY <1>1 DEF GetBands
  <2>2. /\ DOMAIN j = JobFields /\ j.req = job[w].req /\ j.name = job[w].name
        /\ j.count = job[w].count /\ j.buf = job[w].buf /\ j.answer = job[w].answer
      BY ToldKeeps
  <2> HIDE DEF j
  <2>3. /\ DOMAIN k = JobFields /\ k.req = job[w].req /\ k.name = job[w].name
        /\ k.count = job[w].count /\ k.buf = job[w].buf /\ k.answer = job[w].answer
        /\ k.pc = CopyOf[p]
      BY <2>2 DEF JobFields
  <2> HIDE DEF k
  <2>4. k.pc \in {"copy lte", "copy nr"}
      BY <2>3, StepsOfTechs
  <2>5. job[w].answer # Spoilt => k.pc \in OnBands /\ HandlerOf(k) = "lockband"
      BY <2>1, <2>3, <2>4, AsksNow DEF HandlerOf, OnBands
  <2>6. job[w].pc \notin Early \cup {"done"} /\ job[w].pc \notin Loops
      BY <2>1, AsksNow
  <2> QED BY <2>1, <2>3, <2>4, <2>5, <2>6, ScanGood
<1>2. CASE GetBandsDefault(w, p)
  <2> DEFINE j == Told(w, p, Missing)
             k == [j EXCEPT !.got[p] = Missing, !.pc = AfterAsk[p]]
  <2>1. Asks(w, p) /\ Local(w, k)
      BY <1>2 DEF GetBandsDefault
  <2>2. /\ DOMAIN j = JobFields /\ j.req = job[w].req /\ j.name = job[w].name
        /\ j.count = job[w].count /\ j.buf = job[w].buf /\ j.answer = job[w].answer
      BY ToldKeeps
  <2> HIDE DEF j
  <2>3. /\ DOMAIN k = JobFields /\ k.req = job[w].req /\ k.name = job[w].name
        /\ k.count = job[w].count /\ k.buf = job[w].buf /\ k.answer = job[w].answer
        /\ k.pc = AfterAsk[p]
      BY <2>2 DEF JobFields
  <2> HIDE DEF k
  <2>4. k.pc \in {"ask nr", "split"}
      BY <2>3, StepsOfTechs
  <2>5. /\ job[w].pc \notin Early \cup {"done"} /\ job[w].pc \notin Loops
        /\ job[w].answer # Spoilt => HandlerOf(job[w]) = "lockband"
      BY <2>1, AsksNow
  <2>6. k.pc \in OnBands \cup {"done"} /\ k.pc \notin Loops /\ k.pc # "done"
      BY <2>4 DEF OnBands, Loops
  <2>7. k.buf = "none" /\ DOMAIN k.answer = AnswerFields
      BY <2>3, <2>5, NoLoopAt, JobIsGood DEF Shape
  <2>8. Good(w, k, saved, line)
      BY <2>3, <2>5, <2>6, <2>7, BandsGood
  <2> QED BY <2>1, <2>8, LocalMoves
<1>3. CASE CopyBands(w, p)
  <2> DEFINE k == [job[w] EXCEPT !.got[p] = line.text, !.pc = AfterAsk[p]]
  <2>1. job[w].pc = CopyOf[p] /\ Local(w, k)
      BY <1>3 DEF CopyBands, At
  <2>2. /\ DOMAIN k = JobFields /\ k.req = job[w].req /\ k.name = job[w].name
        /\ k.count = job[w].count /\ k.buf = job[w].buf /\ k.answer = job[w].answer
        /\ k.pc = AfterAsk[p]
      BY JobIsGood DEF JobFields
  <2> HIDE DEF k
  <2>3. k.pc \in {"ask nr", "split"} /\ job[w].pc \in {"copy lte", "copy nr"}
      BY <2>1, <2>2, StepsOfTechs
  <2>4. /\ job[w].pc \in OnBands /\ job[w].pc \notin Loops
        /\ k.pc \in OnBands \cup {"done"} /\ k.pc \notin Loops /\ k.pc # "done"
      BY <2>3 DEF OnBands, Loops
  <2>5. k.buf = "none" /\ DOMAIN k.answer = AnswerFields
      BY <2>2, <2>4, NoLoopAt, JobIsGood DEF Shape
  <2>6. Good(w, k, saved, line)
      BY <2>2, <2>4, <2>5, OnBandsNow, BandsGood
  <2> QED BY <2>1, <2>6, LocalMoves
<1> QED BY <1>1, <1>2, <1>3

LEMMA SplitsGood ==
    ASSUME AllGood, NEW w \in Workers, Split(w) \/ SplitNr(w) PROVE AllGood'
<1>1. PICK t : LET k == [job[w] EXCEPT !.buf = "lines", !.lines["lte"] = t,
                                       !.got = NoBands, !.pc = "split nr"]
                   m == [job[w] EXCEPT !.buf = "none", !.lines["nr"] = t, !.pc = "bands lte"]
               IN  line' = line /\ (job' = Spoils(w, Amid(w), k) \/ job' = Spoils(w, Amid(w), m))
  <2>1. CASE Split(w)
      BY <2>1 DEF Split, Begins
  <2>2. CASE SplitNr(w)
      BY <2>2 DEF SplitNr, Continues
  <2> QED BY <2>1, <2>2
<1>2. job[w].pc \in OnBands
    BY DEF Split, SplitNr, At, OnBands
<1>3. DOMAIN job[w] = JobFields /\ DOMAIN job[w].answer = AnswerFields
    BY JobIsGood DEF Shape
<1> DEFINE k == [job[w] EXCEPT !.buf = "lines", !.lines["lte"] = t,
                               !.got = NoBands, !.pc = "split nr"]
           m == [job[w] EXCEPT !.buf = "none", !.lines["nr"] = t, !.pc = "bands lte"]
<1>4. CASE job' = Spoils(w, Amid(w), k)
  <2>1. /\ DOMAIN k = JobFields /\ k.req = job[w].req /\ k.name = job[w].name
        /\ k.count = job[w].count /\ k.buf = "lines" /\ k.answer = job[w].answer
        /\ k.pc = "split nr"
      BY <1>3 DEF JobFields
  <2> HIDE DEF k
  <2>2. k.pc \in OnBands \cup {"done"} /\ k.pc \in Loops /\ k.pc # "done"
      BY <2>1 DEF OnBands, Loops
  <2>3. Good(w, k, saved', line')
      BY <1>2, <1>3, <2>1, <2>2, OnBandsNow, BandsGood
  <2> QED BY <1>1, <1>4, <2>3, OneMoves
<1>5. CASE job' = Spoils(w, Amid(w), m)
  <2>1. /\ DOMAIN m = JobFields /\ m.req = job[w].req /\ m.name = job[w].name
        /\ m.count = job[w].count /\ m.buf = "none" /\ m.answer = job[w].answer
        /\ m.pc = "bands lte"
      BY <1>3 DEF JobFields
  <2> HIDE DEF m
  <2>2. m.pc \in OnBands \cup {"done"} /\ m.pc \notin Loops /\ m.pc # "done"
      BY <2>1 DEF OnBands, Loops
  <2>3. Good(w, m, saved', line')
      BY <1>2, <1>3, <2>1, <2>2, OnBandsNow, BandsGood
  <2> QED BY <1>1, <1>5, <2>3, OneMoves
<1> HIDE DEF k, m
<1> QED BY <1>1, <1>4, <1>5 DEF k, m

LEMMA AddBandGood ==
    ASSUME AllGood, NEW w \in Workers, job[w].pc \in OnBands, NEW p \in Techs, NEW t,
           NEW s, NEW l
    PROVE  Good(w, AddBand(w, p, t), s, l)
<1> DEFINE j == job[w]
<1>1. DOMAIN j = JobFields /\ DOMAIN j.answer = AnswerFields
    BY JobIsGood DEF Shape
<1>2. CASE t # NoTok
  <2> DEFINE b == [j.answer EXCEPT !.bands[p] = Append(@, <<BandPrefix[p]>> \o t)]
             a == With(j.answer, b)
             more == MoreIn[p]
             k == [j EXCEPT !.buf = p, !.pc = more, !.lines[p] = NoTok, !.answer = a]
  <2>1. AddBand(w, p, t) = k
      BY <1>2 DEF AddBand
  <2>2. DOMAIN b = AnswerFields
      BY <1>1 DEF AnswerFields
  <2> HIDE DEF b, more
  <2>3. DOMAIN a = AnswerFields /\ (j.answer = Spoilt => a = Spoilt)
      BY <2>2, RefusedHasAllFields DEF With
  <2> HIDE DEF a
  <2>4. /\ DOMAIN k = JobFields /\ k.req = j.req /\ k.name = j.name /\ k.count = j.count
        /\ k.buf = p /\ k.pc = more /\ k.answer = a
      BY <1>1 DEF JobFields
  <2> HIDE DEF k
  <2>5. k.pc \in {"more lte", "more nr"} /\ k.buf \in {"lte", "nr"}
      BY <2>4, StepsOfTechs DEF more
  <2>6. k.pc \in OnBands \cup {"done"} /\ k.pc \in Loops /\ k.pc # "done" /\ k.buf # "none"
      BY <2>5 DEF OnBands, Loops
  <2>7. Good(w, k, s, l)
      BY <2>3, <2>4, <2>6, OnBandsNow, BandsGood
  <2> QED BY <2>1, <2>7
<1>3. CASE t = NoTok /\ p = "lte"
  <2> DEFINE k == [j EXCEPT !.buf = "none", !.pc = "bands nr", !.lines[p] = NoTok]
  <2>1. AddBand(w, p, t) = k
      BY <1>3 DEF AddBand
  <2>2. /\ DOMAIN k = JobFields /\ k.req = j.req /\ k.name = j.name /\ k.count = j.count
        /\ k.buf = "none" /\ k.pc = "bands nr" /\ k.answer = j.answer
      BY <1>1 DEF JobFields
  <2> HIDE DEF k
  <2>3. k.pc \in OnBands \cup {"done"} /\ k.pc \notin Loops /\ k.pc # "done"
      BY <2>2 DEF OnBands, Loops
  <2>4. Good(w, k, s, l)
      BY <1>1, <2>2, <2>3, OnBandsNow, BandsGood
  <2> QED BY <2>1, <2>4
<1>4. CASE t = NoTok /\ p # "lte"
  <2> DEFINE b == [j.answer EXCEPT !.of = j.name]
             a == With(j.answer, b)
             i == [j EXCEPT !.answer = a, !.pc = "done"]
             k == [i EXCEPT !.buf = "none", !.lines[p] = NoTok]
  <2>1. AddBand(w, p, t) = k
      BY <1>4 DEF AddBand, Answers
  <2>2. DOMAIN b = AnswerFields /\ b.of = j.name
      BY <1>1 DEF AnswerFields
  <2> HIDE DEF b
  <2>3. DOMAIN a = AnswerFields /\ (j.answer = Spoilt => a = Spoilt)
        /\ (a # Spoilt => a.of = j.name)
      BY <2>2, RefusedHasAllFields DEF With
  <2> HIDE DEF a
  <2>4. /\ DOMAIN i = JobFields /\ i.req = j.req /\ i.name = j.name /\ i.count = j.count
        /\ i.pc = "done" /\ i.answer = a
      BY <1>1 DEF JobFields
  <2> HIDE DEF i
  <2>5. /\ DOMAIN k = JobFields /\ k.req = j.req /\ k.name = j.name /\ k.count = j.count
        /\ k.buf = "none" /\ k.pc = "done" /\ k.answer = a
      BY <2>4 DEF JobFields
  <2> HIDE DEF k
  <2>6. k.pc \in OnBands \cup {"done"} /\ k.pc \notin Loops
      BY <2>5 DEF Loops
  <2>7. Good(w, k, s, l)
      BY <2>3, <2>5, <2>6, OnBandsNow, BandsGood
  <2> QED BY <2>1, <2>7
<1> QED BY <1>2, <1>3, <1>4

LEMMA ManyBandsGood ==
    ASSUME AllGood, NEW w \in Workers, NEW p \in Techs, Bands(w, p) \/ MoreBands(w, p)
    PROVE  AllGood'
<1>1. job[w].pc \in OnBands
    BY StepsOfTechs DEF Bands, MoreBands, At, OnBands
<1>2. ASSUME NEW t PROVE Good(w, AddBand(w, p, t), saved', line')
    BY <1>1, AddBandGood
<1>3. CASE Bands(w, p) /\ ~HasLine(w, p)
  <2>1. Local(w, AddBand(w, p, NoTok))
      BY <1>3 DEF Bands
  <2>2. Good(w, AddBand(w, p, NoTok), saved, line)
      BY <1>1, AddBandGood
  <2> QED BY <2>1, <2>2, LocalMoves
<1>4. CASE Bands(w, p) /\ HasLine(w, p)
  <2>1. line' = line /\ job' = Spoils(w, Amid(w), AddBand(w, p, First(BandsOf(w, p))))
      BY <1>4 DEF Bands, Begins
  <2> QED BY <1>2, <2>1, OneMoves
<1>5. CASE MoreBands(w, p)
  <2>1. PICK t : line' = line /\ job' = Spoils(w, Amid(w), AddBand(w, p, t))
      BY <1>5 DEF MoreBands, Continues
  <2> QED BY <1>2, <2>1, OneMoves
<1> QED BY <1>3, <1>4, <1>5

----------------------------------------------------------------------------
(****************************************************************************)
(* Settings.                                                                *)
(****************************************************************************)
LEMMA StatusGood ==
    ASSUME AllGood, NEW w \in Workers, job[w].pc = "POST", NEW status, NEW s, NEW l
    PROVE  Good(w, Status(w, status), s, l)
<1> DEFINE j == job[w]
           b == [AnswerOf(w) EXCEPT !.status = status]
           a == With(j.answer, b)
           k == [j EXCEPT !.answer = a, !.pc = "release"]
<1>1. DOMAIN b = AnswerFields /\ b.of = j.name
    BY AnswerHasAllFields DEF AnswerFields
<1>2. Status(w, status) = k
    BY DEF Status
<1> HIDE DEF b
<1>3. DOMAIN a = AnswerFields /\ (j.answer = Spoilt => a = Spoilt) /\ (a # Spoilt => a.of = j.name)
    BY <1>1, RefusedHasAllFields DEF With
<1> HIDE DEF a
<1>4. job[w].pc \notin Early \cup {"done"} /\ job[w].pc \notin Loops
    BY DEF Early, Loops
<1>5. /\ DOMAIN k = JobFields /\ k.req = j.req /\ k.name = j.name /\ k.count = j.count
      /\ k.buf = "none" /\ k.pc = "release" /\ k.answer = a
    BY <1>4, NoLoopAt DEF JobFields
<1> HIDE DEF k
<1>6. k.pc \in Pcs \ Early /\ k.pc \notin Loops /\ k.pc # "rows" /\ k.pc \notin OnBands
      /\ k.pc \notin Early \cup {"GET"}
    BY <1>5 DEF Pcs, Early, Loops, OnBands
<1>7. ASSUME k.answer # Spoilt
      PROVE  /\ k.pc \in {"release", "done"} => k.answer.of = k.name
             /\ Answering(w, k, s, l)
  <2>1. k.req.method = "POST"
      BY <1>3, <1>5, <1>7, JobIsGood DEF Answering
  <2>2. Answering(w, k, s, l)
      BY <1>5, <1>6, <2>1 DEF Answering
  <2> QED BY <1>3, <1>5, <1>7, <2>2
<1>8. Good(w, k, s, l)
    BY <1>3, <1>4, <1>5, <1>6, <1>7, HandlerGood
<1> QED BY <1>2, <1>8

LEMMA PostsGood ==
    ASSUME AllGood, NEW w \in Workers, PostLockBand(w) \/ PostOther(w) PROVE AllGood'
<1>1. job[w].pc = "POST"
    BY DEF PostLockBand, PostOther, Does, At
<1>2. ASSUME NEW status PROVE Good(w, Status(w, status), saved', line')
    BY <1>1, StatusGood
<1>3. CASE \E status : /\ job' = [job EXCEPT ![w] = Status(w, status)]
                       /\ saved' = saved /\ line' = line
    BY <1>2, <1>3, OnlyOneMoves
<1>4. CASE \E status : Scans(w, "networkconnect", Junk, Status(w, status))
  <2>1. PICK status : /\ job' = Spoils(w, {v \in Workers : Reading(v)}, Status(w, status))
                      /\ saved' = saved
      BY <1>4 DEF Scans
  <2> QED BY <1>2, <2>1, OneMoves
<1> QED BY <1>3, <1>4 DEF PostLockBand, PostOther, Local

LEMMA PostReleaseGood == ASSUME AllGood, NEW w \in Workers, PostRelease(w) PROVE AllGood'
<1> DEFINE k == [job[w] EXCEPT !.pc = "done"]
<1>1. job[w].pc = "release" /\ Local(w, k)
    BY DEF PostRelease, At
<1>2. job[w].pc \notin Early \cup {"done"} /\ job[w].pc \notin Loops
    BY <1>1 DEF Early, Loops
<1>3. /\ DOMAIN k = JobFields /\ k.req = job[w].req /\ k.name = job[w].name
      /\ k.count = job[w].count /\ k.buf = "none" /\ k.pc = "done" /\ k.answer = job[w].answer
    BY <1>2, NoLoopAt DEF JobFields
<1> HIDE DEF k
<1>4. k.pc \in Pcs \ Early /\ k.pc \notin Loops /\ k.pc # "rows" /\ k.pc \notin OnBands
      /\ k.pc \notin Early \cup {"GET"} /\ DOMAIN k.answer = AnswerFields
    BY <1>3, JobIsGood DEF Pcs, Early, Loops, OnBands, Shape
<1>5. ASSUME k.answer # Spoilt
      PROVE  /\ k.pc \in {"release", "done"} => k.answer.of = k.name
             /\ Answering(w, k, saved, line)
  <2>1. job[w].answer # Spoilt /\ job[w].req.method = "POST" /\ Own(job[w])
      BY <1>1, <1>3, <1>5, <1>2, JobIsGood DEF Answering, Known
  <2>2. k.answer.of = k.name
      BY <1>1, <1>3, <2>1 DEF Own
  <2>3. Answering(w, k, saved, line)
      BY <1>3, <1>4, <2>1 DEF Answering
  <2> QED BY <2>2, <2>3
<1>6. Good(w, k, saved, line)
    BY <1>2, <1>3, <1>4, <1>5, HandlerGood
<1> QED BY <1>1, <1>6, LocalMoves

----------------------------------------------------------------------------
(****************************************************************************)
(* Tables of lines.                                                         *)
(****************************************************************************)
LEMMA AddRowKeeps ==
    ASSUME AllGood, NEW w \in Workers, NEW t
    PROVE  LET k == AddRow(w, t)
               a == job[w].answer
           IN  /\ DOMAIN k = JobFields /\ DOMAIN k.answer = AnswerFields
               /\ k.req = job[w].req /\ k.name = job[w].name /\ k.count = job[w].count
               /\ a = Spoilt => k.answer = Spoilt
               /\ t = NoTok => /\ k.pc = "done" /\ k.buf = "none"
                               /\ k.answer # Spoilt => k.answer.of = k.name /\ k.answer.rows = a.rows
               /\ t # NoTok => /\ k.pc = "rows" /\ k.buf = "rows"
                               /\ k.answer # Spoilt => k.answer.rows = Append(a.rows, t)
<1> DEFINE j == job[w]
<1>1. DOMAIN j = JobFields /\ DOMAIN j.answer = AnswerFields
    BY JobIsGood DEF Shape
<1>2. CASE t = NoTok
  <2> DEFINE b == [j.answer EXCEPT !.of = j.name]
             a == With(j.answer, b)
             i == [j EXCEPT !.answer = a, !.pc = "done"]
             k == [i EXCEPT !.buf = "none"]
  <2>1. AddRow(w, t) = k
      BY <1>2 DEF AddRow, Answers
  <2>2. DOMAIN b = AnswerFields /\ b.of = j.name /\ b.rows = j.answer.rows
      BY <1>1 DEF AnswerFields
  <2> HIDE DEF b
  <2>3. DOMAIN a = AnswerFields /\ (j.answer = Spoilt => a = Spoilt)
        /\ (a # Spoilt => a.of = j.name /\ a.rows = j.answer.rows)
      BY <2>2, RefusedHasAllFields DEF With
  <2> HIDE DEF a
  <2>4. /\ DOMAIN i = JobFields /\ i.req = j.req /\ i.name = j.name /\ i.count = j.count
        /\ i.pc = "done" /\ i.answer = a
      BY <1>1 DEF JobFields
  <2> HIDE DEF i
  <2>5. /\ DOMAIN k = JobFields /\ k.req = j.req /\ k.name = j.name /\ k.count = j.count
        /\ k.buf = "none" /\ k.pc = "done" /\ k.answer = a
      BY <2>4 DEF JobFields
  <2> HIDE DEF k, j
  <2> QED BY <1>2, <2>1, <2>3, <2>5 DEF j
<1>3. CASE t # NoTok
  <2> DEFINE b == [j.answer EXCEPT !.rows = Append(@, t)]
             a == With(j.answer, b)
             k == [j EXCEPT !.buf = "rows", !.pc = "rows", !.answer = a]
  <2>1. AddRow(w, t) = k
      BY <1>3 DEF AddRow
  <2> DEFINE rows == Append(j.answer.rows, t)
  <2>2. b = [j.answer EXCEPT !.rows = rows]
      OBVIOUS
  <2> HIDE DEF b, rows
  <2>3. DOMAIN b = AnswerFields /\ b.rows = rows
      BY <1>1, <2>2 DEF AnswerFields
  <2>4. DOMAIN a = AnswerFields /\ (j.answer = Spoilt => a = Spoilt)
        /\ (a # Spoilt => a.rows = rows)
      BY <2>3, RefusedHasAllFields DEF With
  <2> HIDE DEF a
  <2>5. /\ DOMAIN k = JobFields /\ k.req = j.req /\ k.name = j.name /\ k.count = j.count
        /\ k.buf = "rows" /\ k.pc = "rows" /\ k.answer = a
      BY <1>1 DEF JobFields
  <2> HIDE DEF k
  <2> QED BY <1>3, <2>1, <2>4, <2>5 DEF rows
<1> QED BY <1>2, <1>3

\* The next line of a table, or the end of it.
LEMMA RowGood ==
    ASSUME AllGood, NEW w \in Workers, job[w].pc \notin Early \cup {"done"}, NEW t, NEW s, NEW l,
           LET h == HandlerOf(job[w])
               rows == job[w].answer.rows
           IN  job[w].answer # Spoilt =>
                  /\ h \in Listed
                  /\ t = NoTok => rows \in {Rows(h), << <<"ERROR">> >>, <<>>}
                  /\ t # NoTok => /\ IsAt(w, s, "rows", "\n")
                                  /\ RowsLeft(h, Append(rows, t), s.rest)
    PROVE  Good(w, AddRow(w, t), s, l)
<1> DEFINE k == AddRow(w, t)
           a == job[w].answer
           h == HandlerOf(job[w])
<1>1. /\ DOMAIN k = JobFields /\ DOMAIN k.answer = AnswerFields
      /\ k.req = job[w].req /\ k.name = job[w].name /\ k.count = job[w].count
      /\ a = Spoilt => k.answer = Spoilt
    BY AddRowKeeps
<1>2. /\ t = NoTok => /\ k.pc = "done" /\ k.buf = "none"
                      /\ k.answer # Spoilt => k.answer.of = k.name /\ k.answer.rows = a.rows
      /\ t # NoTok => /\ k.pc = "rows" /\ k.buf = "rows"
                      /\ k.answer # Spoilt => k.answer.rows = Append(a.rows, t)
    BY AddRowKeeps
<1> HIDE DEF k
<1>3. k.pc \in {"done", "rows"} /\ (k.pc = "rows" <=> k.buf # "none") /\ (k.pc = "rows" => k.buf = "rows")
    BY <1>2
<1>4. k.pc \in Pcs \ Early /\ (k.pc \in Loops <=> k.buf # "none") /\ k.pc \notin OnBands
      /\ k.pc \notin Early \cup {"GET", "POST", "read", "signal", "release"}
    BY <1>3 DEF Pcs, Early, Loops, OnBands
<1>5. ASSUME k.answer # Spoilt
      PROVE  /\ k.pc \in {"release", "done"} => k.answer.of = k.name
             /\ Answering(w, k, s, l)
  <2>1. HandlerOf(k) = h /\ h \in Listed /\ a # Spoilt
      BY <1>1, <1>5 DEF HandlerOf
  <2>2. CASE t = NoTok
    <3>1. k.pc = "done" /\ k.answer.of = k.name /\ k.answer.rows \in {Rows(h), << <<"ERROR">> >>, <<>>}
        BY <1>2, <1>5, <2>1, <2>2
    <3>2. h \notin Single
        BY <2>1 DEF Single, Copied, Borrowed, Direct, Prefixed, Counted, Listed
    <3>3. Handler(k.req, k.answer.of) = h
        BY <2>1, <3>1 DEF HandlerOf
    <3>4. TextOwn(k)
        BY <3>1, <3>2, <3>3 DEF TextOwn
    <3> QED BY <1>4, <3>1, <3>4 DEF Answering
  <2>3. CASE t # NoTok
    <3>1. k.pc = "rows" /\ IsAt(w, s, "rows", "\n") /\ RowsLeft(h, k.answer.rows, s.rest)
        BY <1>2, <1>5, <2>1, <2>3
    <3> QED BY <1>4, <2>1, <3>1 DEF Answering
  <2> QED BY <2>2, <2>3
<1>6. Good(w, k, s, l)
    BY <1>1, <1>3, <1>4, <1>5, HandlerGood
<1> QED BY <1>6 DEF k

LEMMA TwoRows ==
    ASSUME NEW h
    PROVE  /\ Rows(h)[1] # NoTok /\ Rows(h)[2] # NoTok /\ Rows(h) # <<>>
           /\ Rows(h) = <<Rows(h)[1], Rows(h)[2]>>
           /\ Head(Rows(h)) = Rows(h)[1] /\ Tail(Rows(h)) = <<Rows(h)[2]>>
<1>1. PICK x, y : Rows(h) = << <<x>>, <<y>> >>
    BY DEF Rows
<1> DEFINE a == <<x>>
           b == <<y>>
<1>2. Rows(h) = <<a, b>> /\ a # NoTok /\ b # NoTok
    BY <1>1 DEF NoTok
<1> HIDE DEF a, b
<1> QED BY <1>2

LEMMA GetRowsGood == ASSUME AllGood, NEW w \in Workers, GetRows(w) PROVE AllGood'
<1> DEFINE h == Chosen(w)
<1>1. job[w].pc = "GET" /\ h \in Listed /\ HandlerOf(job[w]) = h
    BY DEF GetRows, HasRows, Does, At, Chosen, HandlerOf, Listed
<1>2. PICK rows \in {Rows(h), << <<"ERROR">> >>} :
          Begins(w, "rows", "\n", rows, LAMBDA t : AddRow(w, t))
  <2>1. h \in {"atraw", "supportband"}
      BY <1>1 DEF Listed
  <2>2. CASE h = "atraw"
      BY <2>2 DEF GetRows
  <2>3. CASE h = "supportband"
      BY <2>3 DEF GetRows
  <2> QED BY <2>1, <2>2, <2>3
<1> HIDE DEF h
<1> DEFINE k == AddRow(w, First(rows))
<1>3. /\ saved' = Place([by |-> w, buf |-> "rows", delim |-> "\n", rest |-> Rest(rows)], w, k)
      /\ job' = Spoils(w, Amid(w), k) /\ line' = line
    BY <1>2 DEF Begins
<1>4. /\ First(rows) # NoTok
      /\ RowsLeft(h, <<First(rows)>>, Rest(rows))
  <2>1. CASE rows = Rows(h)
      BY <2>1, TwoRows DEF First, Rest, RowsLeft
  <2>2. CASE rows = << <<"ERROR">> >>
      BY <2>2 DEF First, Rest, RowsLeft, NoTok
  <2> QED BY <2>1, <2>2
<1>5. k.buf = "rows"
    BY <1>4, AddRowKeeps
<1>6. saved' = [by |-> w, buf |-> "rows", delim |-> "\n", rest |-> Rest(rows)]
  <2> HIDE DEF k
  <2> QED BY <1>3, <1>5 DEF Place
<1>7. IsAt(w, saved', "rows", "\n") /\ saved'.rest = Rest(rows)
  <2> DEFINE rest == Rest(rows)
  <2>1. saved' = [by |-> w, buf |-> "rows", delim |-> "\n", rest |-> rest]
      BY <1>6
  <2> HIDE DEF rest
  <2>2. IsAt(w, saved', "rows", "\n") /\ saved'.rest = rest
      BY <2>1 DEF IsAt
  <2> QED BY <2>2 DEF rest
<1>8. job[w].answer # Spoilt => Append(job[w].answer.rows, First(rows)) = <<First(rows)>>
  <2>1. job[w].answer # Spoilt => job[w].answer.rows = <<>>
    <3>1. job[w].answer # Spoilt => job[w].answer = NoAnswer
        BY <1>1, JobIsGood DEF Answering
    <3>2. NoAnswer.rows = <<>>
        BY DEF NoAnswer
    <3> QED BY <3>1, <3>2
  <2>2. \A x : Append(<<>>, x) = <<x>>
      OBVIOUS
  <2> QED BY <2>1, <2>2, Zenon
<1>9. job[w].pc \notin Early \cup {"done"}
    BY <1>1 DEF Early
<1>10. Good(w, k, saved', line')
    BY <1>1, <1>4, <1>7, <1>8, <1>9, RowGood
<1> HIDE DEF k
<1> QED BY <1>3, <1>10, OneMoves

LEMMA MoreRowsGood == ASSUME AllGood, NEW w \in Workers, MoreRows(w) PROVE AllGood'
<1> DEFINE h == HandlerOf(job[w])
           rows == job[w].answer.rows
<1>1. job[w].pc = "rows" /\ line' = line
    BY DEF MoreRows, At, Continues
<1>2. PICK f \in Found("\n") : /\ saved' = Place(f[2], w, AddRow(w, f[1]))
                               /\ job' = Spoils(w, Amid(w), AddRow(w, f[1]))
    BY DEF MoreRows, Continues
<1> DEFINE k == AddRow(w, f[1])
<1>3. job[w].pc \notin Early \cup {"done"} /\ job[w].buf = "rows"
    BY <1>1, JobIsGood DEF Early, Shape
<1>4. ASSUME job[w].answer # Spoilt
      PROVE  /\ h \in Listed
             /\ f[1] = NoTok => rows \in {Rows(h), << <<"ERROR">> >>, <<>>}
             /\ f[1] # NoTok => /\ IsAt(w, saved', "rows", "\n")
                                /\ RowsLeft(h, Append(rows, f[1]), saved'.rest)
  <2>1. h \in Listed /\ IsAt(w, saved, "rows", "\n") /\ RowsLeft(h, rows, saved.rest)
      BY <1>1, <1>4, JobIsGood DEF Answering
  <2>2. IF saved.rest = <<>> THEN f[1] = NoTok
        ELSE /\ f[1] = Head(saved.rest)
             /\ f[2] = [by |-> w, buf |-> "rows", delim |-> "\n", rest |-> Tail(saved.rest)]
      BY <1>3, <2>1, FoundOwn
  <2> HIDE DEF h, rows
  <2>3. CASE rows = <<Rows(h)[1]>> /\ saved.rest = <<Rows(h)[2]>>
    <3>1. f[1] = Rows(h)[2] /\ f[1] # NoTok
          /\ f[2] = [by |-> w, buf |-> "rows", delim |-> "\n", rest |-> <<>>]
        BY <2>2, <2>3, TwoRows
    <3>2. k.buf = "rows"
        BY <3>1, AddRowKeeps
    <3>3. saved' = [by |-> w, buf |-> "rows", delim |-> "\n", rest |-> <<>>]
      <4>1. saved' = Place(f[2], w, k)
          BY <1>2
      <4> HIDE DEF k
      <4> QED BY <3>1, <3>2, <4>1 DEF Place
    <3>4. IsAt(w, saved', "rows", "\n") /\ saved'.rest = <<>>
        BY <3>3 DEF IsAt
    <3>5. Append(rows, f[1]) = Rows(h)
        BY <2>3, <3>1, TwoRows
    <3> QED BY <2>1, <3>1, <3>4, <3>5 DEF RowsLeft
  <2>4. CASE saved.rest = <<>> /\ rows \in {Rows(h), << <<"ERROR">> >>}
      BY <2>1, <2>2, <2>4
  <2> QED BY <2>1, <2>3, <2>4 DEF RowsLeft
<1>5. Good(w, k, saved', line')
    BY <1>3, <1>4, RowGood
<1> HIDE DEF k
<1> QED BY <1>1, <1>2, <1>5, OneMoves DEF k

\* A body without a command.
LEMMA GetNoRowsGood == ASSUME AllGood, NEW w \in Workers, GetNoRows(w) PROVE AllGood'
<1>1. job[w].pc = "GET" /\ Handler(job[w].req, job[w].name) = "atraw"
    BY DEF GetNoRows, Does, At, Chosen
<1>2. CASE Local(w, Answers(w, AnswerOf(w)))
  <2>1. job[w].pc \notin Early \cup {"done"} /\ job[w].buf = "none"
      BY <1>1, NoLoopAt DEF Early, Loops
  <2>2. "atraw" \notin Single
      BY DEF Single, Copied, Borrowed, Direct, Prefixed, Counted
  <2> QED BY <1>1, <1>2, <2>1, <2>2, AnswerHasAllFields, AnswersGood
<1>3. CASE UNCHANGED <<job, saved, line>>
    BY <1>3, StutterGood
<1> QED BY <1>2, <1>3 DEF GetNoRows, Crashes

----------------------------------------------------------------------------
(****************************************************************************)
(* All steps.                                                               *)
(****************************************************************************)
LEMMA NextGood == AllGood /\ [Next]_vars => AllGood'
<1> SUFFICES ASSUME AllGood, [Next]_vars PROVE AllGood'
    OBVIOUS
<1>1. CASE UNCHANGED vars
    BY <1>1, StutterGood DEF vars
<1>2. ASSUME NEW w \in Workers, Take(w) PROVE AllGood'
    BY <1>2, TakeGood
<1>3. ASSUME NEW w \in Workers, Get(w) PROVE AllGood'
  <2>1. CASE GetDefault(w) \/ GetDirect(w) \/ GetText(w)
      BY <2>1, GetTextsGood
  <2>2. CASE GetScan(w) \/ GetNumber(w) \/ GetSignal(w)
      BY <2>2, GetScanGood, GetNumberGood, GetSignalGood
  <2>3. CASE GetSignalWild(w)
      BY <2>3, StutterGood DEF GetSignalWild, Crashes
  <2>4. CASE GetRows(w) \/ MoreRows(w) \/ GetNoRows(w)
      BY <2>4, GetRowsGood, MoreRowsGood, GetNoRowsGood
  <2>5. ASSUME NEW p \in Techs, GetBands(w, p) \/ GetBandsDefault(w, p) \/ CopyBands(w, p)
        PROVE  AllGood'
      BY <2>5, GetBandsGood
  <2>6. CASE Split(w) \/ SplitNr(w)
      BY <2>6, SplitsGood
  <2>7. ASSUME NEW p \in Techs, Bands(w, p) \/ MoreBands(w, p) PROVE AllGood'
      BY <2>7, ManyBandsGood
  <2> QED BY <1>3, <2>1, <2>2, <2>3, <2>4, <2>5, <2>6, <2>7 DEF Get
<1>4. ASSUME NEW w \in Workers, Post(w) PROVE AllGood'
  <2>1. CASE PostLockBand(w) \/ PostOther(w)
      BY <2>1, PostsGood
  <2>2. CASE PostRelease(w)
      BY <2>2, PostReleaseGood
  <2>3. CASE PostReleaseTwice(w)
      BY <2>3, StutterGood DEF PostReleaseTwice, Crashes
  <2> QED BY <1>4, <2>1, <2>2, <2>3 DEF Post
<1>5. ASSUME NEW w \in Workers, Serve(w) PROVE AllGood'
  <2>1. CASE Parts(w) \/ Count(w) \/ Again(w) \/ Find(w)
      BY <2>1, PartsGood, CountGood, AgainGood, FindGood
  <2>2. CASE Matches(w) \/ Finish(w)
      BY <2>2, MatchesGood, FinishGood
  <2>3. CASE MatchesWild(w)
      BY <2>3, StutterGood DEF MatchesWild, Crashes
  <2> QED BY <1>3, <1>4, <1>5, <2>1, <2>2, <2>3 DEF Serve
<1> QED BY <1>1, <1>2, <1>5 DEF Next

----------------------------------------------------------------------------
(****************************************************************************)
(* Crashes.                                                                 *)
(****************************************************************************)
CausesOfCrash == {"prefix", "level", "no answer", "release"}

LEMMA CalmHasCause == crash.cause \notin CausesOfCrash => CrashHasCause
BY DEF CrashHasCause, CausesOfCrash

\* Only these steps bring the program down.
Down(w) ==
    \/ MatchesWild(w)
    \/ GetSignalWild(w)
    \/ GetNoRows(w) /\ job[w].req.body.kind \in {"none", "bad"} /\ Crashes(w, "no answer")
    \/ PostReleaseTwice(w)

LEMMA OthersGoOn ==
    ASSUME NEW w \in Workers, Take(w) \/ Serve(w)
    PROVE  crash = NoCrash /\ (crash' = crash \/ Down(w))
<1>1. CASE Take(w) \/ Finish(w)
    BY <1>1 DEF Take, Finish, At
<1>2. CASE Parts(w) \/ Count(w) \/ Again(w) \/ Find(w)
    BY <1>2 DEF Parts, Count, Again, Find, At, Begins, Continues
<1>3. CASE Matches(w) \/ MatchesWild(w)
    BY <1>3 DEF Matches, MatchesWild, At, Local, Down
<1>4. CASE GetDefault(w) \/ GetDirect(w) \/ GetText(w) \/ GetSignal(w) \/ GetSignalWild(w)
    BY <1>4 DEF GetDefault, GetDirect, GetText, GetSignal, GetSignalWild, Does, At, Local, Down
<1>5. CASE GetScan(w) \/ GetNumber(w)
    BY <1>5 DEF GetScan, GetNumber, Does, At, Scans
<1>6. CASE GetRows(w) \/ MoreRows(w)
    BY <1>6 DEF GetRows, MoreRows, HasRows, Does, At, Begins, Continues
<1>7. CASE GetNoRows(w)
    BY <1>7 DEF GetNoRows, Does, At, Local, Down
<1>8. ASSUME NEW p \in Techs, GetBands(w, p) \/ GetBandsDefault(w, p) \/ CopyBands(w, p)
      PROVE  crash = NoCrash /\ crash' = crash
    BY <1>8 DEF GetBands, GetBandsDefault, CopyBands, Asks, Does, At, Scans, Local
<1>9. CASE Split(w) \/ SplitNr(w)
    BY <1>9 DEF Split, SplitNr, At, Begins, Continues
<1>10. ASSUME NEW p \in Techs, Bands(w, p) \/ MoreBands(w, p)
       PROVE  crash = NoCrash /\ crash' = crash
  <2>1. crash = NoCrash
      BY <1>10 DEF Bands, MoreBands, At
  <2>2. CASE Bands(w, p)
      BY <2>1, <2>2 DEF Bands, Local, Begins
  <2>3. CASE MoreBands(w, p)
      BY <2>1, <2>3 DEF MoreBands, Continues
  <2> QED BY <1>10, <2>1, <2>2, <2>3
<1>11. CASE Post(w)
    BY <1>11 DEF Post, PostLockBand, PostOther, PostRelease, PostReleaseTwice, Does, At, Local,
                 Scans, Down
<1> QED BY <1>1, <1>2, <1>3, <1>4, <1>5, <1>6, <1>7, <1>8, <1>9, <1>10, <1>11 DEF Serve, Get

\* A worker that was not disturbed and answers at a step like these is in the
\* handler that its path names.
LEMMA InMeant ==
    ASSUME AllGood, NEW w \in Workers, job[w].pc \in {"GET", "release"}, job[w].answer # Spoilt
    PROVE  Meant(job[w].req) = HandlerOf(job[w]) /\ HandlerOf(job[w]) # "none"
<1>1. Own(job[w]) /\ job[w].req \in Requests \cup {NoRequest}
    BY JobIsGood DEF Known, Early, Shape
<1> QED BY <1>1, OwnIsMeant DEF Own, HandlerOf

LEMMA DownHasCause == ASSUME AllGood, NEW w \in Workers, Down(w) PROVE CrashHasCause'
<1> DEFINE r == job[w].req
           Disturbed == job[w].answer = Spoilt
<1>1. PICK cause \in CausesOfCrash :
          /\ crash' = [cause |-> cause, by |-> w] /\ job' = job
          /\ cause = "prefix" => Disturbed
          /\ cause = "no answer" =>
                \/ Disturbed
                \/ r.body.kind \in {"none", "bad"} /\ Meant(r) = "atraw"
          /\ cause = "release" => Meant(r) # "none" \/ Disturbed
  <2>1. CASE MatchesWild(w)
    <3>1. job[w].pc = "match" /\ job[w].name = "unset" /\ HeadFits(r)
          /\ crash' = [cause |-> "prefix", by |-> w] /\ job' = job
        BY <2>1 DEF MatchesWild, At, Crashes
    <3>2. Disturbed
      <4> SUFFICES ASSUME ~Disturbed PROVE FALSE
          OBVIOUS
      <4>1. "unset" = IF Len(r.path) = 0 THEN "unset" ELSE r.path[Len(r.path)]
          BY <3>1, JobIsGood DEF Walk
      <4>2. /\ Len(r.path) \in Nat /\ (r.path = <<>> <=> Len(r.path) = 0) /\ r.path # <<>>
            /\ \A i \in 1..Len(r.path) : r.path[i] # "unset"
          BY <3>1, JobIsGood, RequestIsSound DEF Shape
      <4>3. Len(r.path) \in 1..Len(r.path)
          BY <4>2
      <4> QED BY <4>1, <4>2, <4>3
    <3> QED BY <3>1, <3>2 DEF CausesOfCrash
  <2>2. CASE GetSignalWild(w)
      BY <2>2 DEF GetSignalWild, Crashes, CausesOfCrash
  <2>3. CASE GetNoRows(w) /\ r.body.kind \in {"none", "bad"} /\ Crashes(w, "no answer")
    <3>1. job[w].pc = "GET" /\ HandlerOf(job[w]) = "atraw"
          /\ crash' = [cause |-> "no answer", by |-> w] /\ job' = job
        BY <2>3 DEF GetNoRows, Does, At, Chosen, HandlerOf, Crashes
    <3>2. Disturbed \/ Meant(r) = "atraw"
        BY <3>1, InMeant
    <3>3. "no answer" \in CausesOfCrash
        BY DEF CausesOfCrash
    <3> HIDE DEF Disturbed
    <3> QED BY <2>3, <3>1, <3>2, <3>3
  <2>4. CASE PostReleaseTwice(w)
    <3>1. job[w].pc = "release" /\ crash' = [cause |-> "release", by |-> w] /\ job' = job
        BY <2>4 DEF PostReleaseTwice, At, Crashes
    <3>2. Disturbed \/ Meant(r) # "none"
        BY <3>1, InMeant
    <3> QED BY <3>1, <3>2 DEF CausesOfCrash
  <2> QED BY <2>1, <2>2, <2>3, <2>4 DEF Down
<1>2. crash'.cause = cause /\ crash'.by = w
    BY <1>1
<1> QED BY <1>1, <1>2 DEF CrashHasCause

----------------------------------------------------------------------------
(****************************************************************************)
(* What the workers share.                                                  *)
(****************************************************************************)
SharedTypes ==
    /\ saved.by \in Workers
    /\ DOMAIN locked = Techs
    /\ served \in 0..MaxRequests
    /\ crash.cause \in {"none"} \cup CausesOfCrash

LEMMA PlaceIsInWorkers ==
    ASSUME NEW s, s.by \in Workers, NEW w, NEW j
    PROVE  Place(s, w, j).by \in Workers
<1>1. NoBuffer.by \in Workers
    BY BoundsAssumption DEF NoBuffer
<1> QED BY <1>1 DEF Place

LEMMA FoundIsInWorkers ==
    ASSUME saved.by \in Workers, NEW delim, NEW f \in Found(delim)
    PROVE  f[2].by \in Workers
<1>1. Spent.by \in Workers
    BY BoundsAssumption DEF Spent, NoBuffer
<1> DEFINE ends == [saved EXCEPT !.rest = <<>>]
           on == [saved EXCEPT !.rest = Tail(@)]
<1>2. ends.by = saved.by /\ on.by = saved.by
  <2> DEFINE tail == Tail(saved.rest)
  <2>1. on = [saved EXCEPT !.rest = tail]
      OBVIOUS
  <2> HIDE DEF on, tail
  <2> QED BY <2>1
<1>3. f[2] \in {Spent, saved, ends, on}
  <2> HIDE DEF ends, on
  <2> QED BY DEF Found, ends, on
<1> HIDE DEF ends, on
<1> QED BY <1>1, <1>2, <1>3

LEMMA SharedStaysTyped == SharedTypes /\ [Next]_vars => SharedTypes'
<1> SUFFICES ASSUME SharedTypes, [Next]_vars PROVE SharedTypes'
    OBVIOUS
<1> DEFINE Same == UNCHANGED <<locked, served, crash>>
<1>1. ASSUME saved'.by \in Workers, Same PROVE SharedTypes'
    BY <1>1 DEF SharedTypes
<1>2. ASSUME UNCHANGED <<saved, locked, served, crash>> PROVE SharedTypes'
    BY <1>2 DEF SharedTypes
<1>3. ASSUME NEW w \in Workers, NEW cause \in CausesOfCrash, Crashes(w, cause) PROVE SharedTypes'
    BY <1>3 DEF SharedTypes, Crashes
<1>4. ASSUME NEW w \in Workers, NEW buf, NEW delim, NEW rest, NEW j,
             saved' = Place([by |-> w, buf |-> buf, delim |-> delim, rest |-> rest], w, j)
      PROVE  saved'.by \in Workers
  <2> DEFINE s == [by |-> w, buf |-> buf, delim |-> delim, rest |-> rest]
  <2>1. s.by \in Workers
      OBVIOUS
  <2> HIDE DEF s
  <2> QED BY <1>4, <2>1, PlaceIsInWorkers DEF s
<1>5. ASSUME NEW w, NEW delim, NEW f \in Found(delim), NEW j, saved' = Place(f[2], w, j)
      PROVE  saved'.by \in Workers
    BY <1>5, FoundIsInWorkers, PlaceIsInWorkers DEF SharedTypes
<1> HIDE DEF Same
<1>6. CASE UNCHANGED vars
    BY <1>2, <1>6 DEF vars
<1>7. ASSUME NEW w \in Workers, Take(w) PROVE SharedTypes'
    BY <1>7, BoundsAssumption DEF Take, SharedTypes
<1>8. ASSUME NEW w \in Workers, Parts(w) \/ Again(w) PROVE SharedTypes'
  <2>1. PICK j, rest : Same /\ saved' =
            Place([by |-> w, buf |-> "path", delim |-> "/", rest |-> rest], w, j)
      BY <1>8 DEF Parts, Again, Begins, Same
  <2> QED BY <1>1, <1>4, <2>1
<1>9. ASSUME NEW w \in Workers, Count(w) \/ Find(w) PROVE SharedTypes'
  <2>1. PICK f \in Found("/") : Same /\ \E j : saved' = Place(f[2], w, j)
      BY <1>9 DEF Count, Find, Continues, Same
  <2> QED BY <1>1, <1>5, <2>1
<1>10. ASSUME NEW w \in Workers,
              \/ Matches(w) \/ GetDefault(w) \/ GetDirect(w) \/ GetText(w) \/ GetSignal(w)
              \/ Finish(w)
       PROVE  SharedTypes'
    BY <1>2, <1>10 DEF Matches, GetDefault, GetDirect, GetText, GetSignal, Finish, Local
<1>11. ASSUME NEW w \in Workers, Down(w) PROVE SharedTypes'
    BY <1>3, <1>11 DEF Down, MatchesWild, GetSignalWild, PostReleaseTwice, CausesOfCrash
<1>12. ASSUME NEW w \in Workers, GetScan(w) \/ GetNumber(w) PROVE SharedTypes'
    BY <1>2, <1>12 DEF GetScan, GetNumber, Scans
<1>13. ASSUME NEW w \in Workers, GetRows(w) PROVE SharedTypes'
  <2>1. PICK j, rest : Same /\ saved' =
            Place([by |-> w, buf |-> "rows", delim |-> "\n", rest |-> rest], w, j)
      BY <1>13 DEF GetRows, Begins, Same
  <2> QED BY <1>1, <1>4, <2>1
<1>14. ASSUME NEW w \in Workers, MoreRows(w) PROVE SharedTypes'
  <2>1. PICK f \in Found("\n") : Same /\ \E j : saved' = Place(f[2], w, j)
      BY <1>14 DEF MoreRows, Continues, Same
  <2> QED BY <1>1, <1>5, <2>1
<1>15. ASSUME NEW w \in Workers, GetNoRows(w) PROVE SharedTypes'
    BY <1>2, <1>11, <1>15 DEF GetNoRows, Local, Down
<1>16. ASSUME NEW w \in Workers, NEW p \in Techs,
              GetBands(w, p) \/ GetBandsDefault(w, p) \/ CopyBands(w, p)
       PROVE  SharedTypes'
    BY <1>2, <1>16 DEF GetBands, GetBandsDefault, CopyBands, Scans, Local
<1>17. ASSUME NEW w \in Workers, Split(w) PROVE SharedTypes'
  <2>1. PICK j, rest : Same /\ saved' =
            Place([by |-> w, buf |-> "lines", delim |-> "\n", rest |-> rest], w, j)
      BY <1>17 DEF Split, Begins, Same
  <2> QED BY <1>1, <1>4, <2>1
<1>18. ASSUME NEW w \in Workers, SplitNr(w) PROVE SharedTypes'
  <2>1. PICK f \in Found("\n") : Same /\ \E j : saved' = Place(f[2], w, j)
      BY <1>18 DEF SplitNr, Continues, Same
  <2> QED BY <1>1, <1>5, <2>1
<1>19. ASSUME NEW w \in Workers, NEW p \in Techs, Bands(w, p) PROVE SharedTypes'
  <2>1. CASE ~HasLine(w, p)
      BY <1>2, <1>19, <2>1 DEF Bands, Local
  <2>2. CASE HasLine(w, p)
    <3>1. PICK j, rest : Same /\ saved' =
              Place([by |-> w, buf |-> p, delim |-> ":", rest |-> rest], w, j)
        BY <1>19, <2>2 DEF Bands, Begins, Same
    <3> QED BY <1>1, <1>4, <3>1
  <2> QED BY <2>1, <2>2
<1>20. ASSUME NEW w \in Workers, NEW p \in Techs, MoreBands(w, p) PROVE SharedTypes'
  <2>1. PICK f \in Found(":") : Same /\ \E j : saved' = Place(f[2], w, j)
      BY <1>20 DEF MoreBands, Continues, Same
  <2> QED BY <1>1, <1>5, <2>1
<1>21. ASSUME NEW w \in Workers, PostLockBand(w) \/ PostOther(w) \/ PostRelease(w)
       PROVE  SharedTypes'
  <2>1. CASE UNCHANGED <<saved, locked, served, crash>>
      BY <1>2, <2>1
  <2>2. CASE UNCHANGED <<saved, served, crash>> /\ \E texts : locked' = Locked(texts, locked, Factory)
      BY <2>2 DEF SharedTypes, Locked
  <2> QED BY <1>21, <2>1, <2>2 DEF PostLockBand, PostOther, PostRelease, Local, Scans
<1>22. ASSUME NEW w \in Workers, Get(w) PROVE SharedTypes'
  <2>1. GetSignalWild(w) => Down(w)
      BY DEF Down
  <2> QED BY <1>22, <2>1, <1>10, <1>11, <1>12, <1>13, <1>14, <1>15, <1>16, <1>17, <1>18, <1>19, <1>20
          DEF Get
<1>23. ASSUME NEW w \in Workers, Post(w) PROVE SharedTypes'
    BY <1>11, <1>21, <1>23 DEF Post, Down
<1>24. ASSUME NEW w \in Workers, MatchesWild(w) PROVE SharedTypes'
    BY <1>11, <1>24 DEF Down
<1> QED BY <1>6, <1>7, <1>8, <1>9, <1>10, <1>22, <1>23, <1>24 DEF Next, Serve

----------------------------------------------------------------------------
(****************************************************************************)
(* The theorems.                                                            *)
(****************************************************************************)
LEMMA Invariance == Spec => []Inv
<1>1. Init => Inv
  <2>1. Init => crash.cause \notin CausesOfCrash
    <3>1. NoCrash.cause = "none"
        BY DEF NoCrash
    <3> QED BY <3>1 DEF Init, CausesOfCrash
  <2> QED BY <2>1, InitGood, CalmHasCause DEF Inv
<1>2. Inv /\ [Next]_vars => Inv'
  <2> SUFFICES ASSUME Inv, [Next]_vars PROVE Inv'
      OBVIOUS
  <2>1. AllGood /\ CrashHasCause /\ AllGood'
      BY NextGood DEF Inv
  <2>2. CASE UNCHANGED vars
      BY <2>1, <2>2 DEF Inv, vars, CrashHasCause
  <2>3. ASSUME NEW w \in Workers, Take(w) \/ Serve(w) PROVE CrashHasCause'
    <3>1. CASE Down(w)
        BY <2>1, <3>1, DownHasCause
    <3>2. CASE crash' = crash /\ crash = NoCrash
      <4>1. crash'.cause \notin CausesOfCrash
          BY <3>2 DEF NoCrash, CausesOfCrash
      <4> QED BY <4>1 DEF CrashHasCause, CausesOfCrash
    <3> QED BY <2>3, <3>1, <3>2, OthersGoOn
  <2> QED BY <2>1, <2>2, <2>3 DEF Inv, Next
<1> QED BY <1>1, <1>2, PTL DEF Spec

LEMMA UndisturbedIsGood ==
    ASSUME AllGood, NEW w \in Workers, Undisturbed(w)
    PROVE  /\ \/ job[w].answer.of = "refused" /\ Meant(job[w].req) = "none"
              \/ /\ job[w].answer.of # "refused"
                 /\ Handler(job[w].req, job[w].answer.of) = Meant(job[w].req)
           /\ job[w].req.method = "GET" => TextOwn(job[w])
<1>1. job[w].pc = "done" /\ job[w].answer # Spoilt
    BY DEF Undisturbed
<1>2. Known(job[w]) /\ Answering(w, job[w], saved, line) /\ Shape(job[w])
    BY <1>1, JobIsGood
<1>3. CASE Own(job[w])
  <2>1. /\ job[w].answer.of = job[w].name /\ Handler(job[w].req, job[w].name) # "none"
        /\ Meant(job[w].req) = Handler(job[w].req, job[w].name)
      BY <1>1, <1>2, <1>3, OwnIsMeant DEF Own, HandlerOf, Shape
  <2>2. Handler(job[w].req, "refused") = "none"
      BY DEF Handler, Folded, Capitals, GetHandlers, PostHandlers, Single, Copied, Borrowed, Direct, Prefixed, Counted, Listed
  <2>3. job[w].req.method = "GET" => TextOwn(job[w])
      BY <1>1, <1>2 DEF Answering
  <2> QED BY <2>1, <2>2, <2>3
<1>4. CASE job[w].answer.of = "refused" /\ Meant(job[w].req) = "none"
    BY <1>1, <1>2, <1>4 DEF Answering
<1> QED BY <1>1, <1>2, <1>3, <1>4 DEF Known, Early

\* Types; and a worker has a buffer just as long as it is amid a loop of strtok
\* calls, which is what keeps the threads' loops apart.
THEOREM TypeCorrect == Spec => []TypeOK
<1>1. Init => SharedTypes
  <2>1. NoBuffer.by \in Workers /\ NoCrash.cause = "none"
      BY BoundsAssumption DEF NoBuffer, NoCrash
  <2>2. 0 \in 0..MaxRequests /\ DOMAIN Factory = Techs
      BY BoundsAssumption
  <2>3. Init => saved = NoBuffer /\ locked = Factory /\ served = 0 /\ crash = NoCrash
      BY DEF Init
  <2> QED BY <2>1, <2>2, <2>3 DEF SharedTypes
<1>2. Inv /\ SharedTypes => TypeOK
  <2> SUFFICES ASSUME Inv, SharedTypes PROVE TypeOK
      OBVIOUS
  <2>1. ASSUME NEW w \in Workers
        PROVE  /\ job[w].req \in Requests \cup {NoRequest}
               /\ job[w].count \in Nat
               /\ job[w].pc \in {"count", "find", "rows", "split nr", "more lte", "more nr"}
                     <=> job[w].buf # "none"
      BY JobIsGood DEF Inv, Shape, Loops
  <2> QED BY <2>1 DEF TypeOK, SharedTypes, CausesOfCrash
<1> QED BY <1>1, <1>2, SharedStaysTyped, Invariance, PTL DEF Spec

\* A request is answered by the handler that its path names, and refused if
\* there is none, unless another thread's strtok or scan fell into one of its
\* loops (request_proc.c:294-325, 386-421).
THEOREM HandlersAreOwn == Spec => []OwnHandler
<1>1. Inv => OwnHandler
    BY UndisturbedIsGood DEF Inv, OwnHandler
<1> QED BY <1>1, Invariance, PTL

\* The text and the lines in such an answer are those that the modem gave to
\* this question, though some are still in the line that all threads scan into
\* when they are packed (cellMgtFrame.c:296, 825).
THEOREM TextsAreOwn == Spec => []OwnText
<1>1. Inv => OwnText
    BY UndisturbedIsGood DEF Inv, OwnText, TextOwn
<1> QED BY <1>1, Invariance, PTL

\* Where the program comes down for want of a name or of an answer, or for a
\* document given up twice, the path was disturbed or the request is one that
\* does this by itself.
THEOREM CrashesHaveCauses == Spec => []CrashHasCause
<1>1. Inv => CrashHasCause
    BY DEF Inv
<1> QED BY <1>1, Invariance, PTL

----------------------------------------------------------------------------
(****************************************************************************)
(* The bands in use, from the modem's text to the answer: what is known of  *)
(* them at each step of a worker that nobody broke into.                    *)
(****************************************************************************)
Maps(j) ==
    /\ DOMAIN j.told = Techs /\ DOMAIN j.got = Techs /\ DOMAIN j.lines = Techs
    /\ \A p \in Techs : j.told[p] \in BandTexts

LineOf(j, p) == <<p>> \o j.told[p]

\* The answer has all the bands told for p.
Complete(j, p) ==
    LET toks == Tokens(j.told[p])
    IN  j.answer.bands[p] = [i \in DOMAIN toks |-> <<BandPrefix[p]>> \o toks[i]]

Chars == STRING \cup {BandPrefix[p] : p \in Techs}

\* It has the first of them, and rest are to come.
SoFar(p, bands, toks, rest) ==
    /\ bands \in Seq(Seq(Chars)) /\ rest \in Seq(Seq(Chars) \ {NoTok})
    /\ Len(bands) + Len(rest) = Len(toks)
    /\ \A i \in 1..Len(bands) : bands[i] = <<BandPrefix[p]>> \o toks[i]
    /\ \A i \in 1..Len(rest) : rest[i] = toks[Len(bands) + i]

Banding(w, j, s, l) ==
    /\ j.pc \in OnBands \ {"more lte", "bands nr", "more nr"} => j.answer = NoAnswer
    /\ j.pc = "copy lte" => l.text = j.told["lte"]
    /\ j.pc \in {"ask nr", "copy nr", "split"} => j.got["lte"] = j.told["lte"]
    /\ j.pc = "copy nr" => l.text = j.told["nr"]
    /\ j.pc = "split" => j.got["nr"] = j.told["nr"]
    /\ j.pc = "split nr" => /\ j.buf = "lines" /\ IsAt(w, s, "lines", "\n")
                            /\ s.rest = <<LineOf(j, "nr")>>
    /\ j.pc \in {"split nr", "bands lte"} => j.lines["lte"] = LineOf(j, "lte")
    /\ j.pc \in {"bands lte", "more lte", "bands nr"} => j.lines["nr"] = LineOf(j, "nr")
    /\ j.pc \in {"more lte", "bands nr", "more nr"} => DOMAIN j.answer.bands = Techs
    /\ j.pc \in {"more lte", "bands nr"} => j.answer.bands["nr"] = <<>>
    /\ \A p \in Techs : j.pc = MoreIn[p] =>
          /\ j.buf = p /\ IsAt(w, s, p, ":")
          /\ SoFar(p, j.answer.bands[p], Tokens(j.told[p]), s.rest)
    /\ j.pc \in {"bands nr", "more nr"} => Complete(j, "lte")
    /\ j.pc = "done" /\ j.req.method = "GET" /\ Handler(j.req, j.answer.of) = "lockband" =>
          \A p \in Techs : Complete(j, p)

BandWise(w, j, s, l) ==
    Maps(j) /\ (j.answer # Spoilt => Banding(w, j, s, l))

BandInv ==
    /\ DOMAIN locked = Techs /\ \A p \in Techs : locked[p] \in BandTexts
    /\ \A w \in Workers : BandWise(w, job[w], saved, line)

----------------------------------------------------------------------------
(****************************************************************************)
(* A step of one worker and the others.                                     *)
(****************************************************************************)
LEMMA NoBandsIsTold ==
    /\ DOMAIN NoBands = Techs
    /\ \A p \in Techs : NoBands[p] = <<>> /\ NoBands[p] \in BandTexts
BY DEF NoBands, BandTexts

LEMMA SpoiltIsBandWise ==
    ASSUME NEW v, NEW s, NEW l, NEW t, NEW m, NEW j, DOMAIN j = JobFields, BandWise(v, j, s, l)
    PROVE  BandWise(v, [j EXCEPT !.answer = Spoilt, !.told = NoBands], t, m)
<1> DEFINE k == [j EXCEPT !.answer = Spoilt, !.told = NoBands]
<1>1. k.answer = Spoilt /\ k.told = NoBands /\ k.got = j.got /\ k.lines = j.lines
    BY DEF JobFields
<1> HIDE DEF k
<1>2. BandWise(v, k, t, m)
    BY <1>1, NoBandsIsTold DEF BandWise, Maps
<1> QED BY <1>2 DEF k

LEMMA OthersAreBandWise ==
    ASSUME NEW v, NEW j, NEW s, NEW l, NEW t, NEW m, Shape(j), BandWise(v, j, s, l),
           t = s \/ j.buf = "none",
           m = l \/ j.pc \notin {"read", "copy lte", "copy nr", "signal"}
    PROVE  BandWise(v, j, t, m)
<1>1. SUFFICES ASSUME j.answer # Spoilt PROVE Banding(v, j, t, m)
    BY DEF BandWise
<1>2. Banding(v, j, s, l)
    BY <1>1 DEF BandWise
<1>3. CASE t = s /\ m = l
    BY <1>2, <1>3
<1>4. CASE t # s
  <2>1. j.pc \notin {"split nr", "more lte", "more nr"}
      BY <1>4 DEF Shape, Loops
  <2>2. \A p \in Techs : j.pc # MoreIn[p]
      BY <2>1, StepsOfTechs
  <2> QED BY <1>2, <2>1, <2>2 DEF Banding
<1>5. CASE t = s /\ m # l
  <2>1. j.pc \notin {"copy lte", "copy nr"}
      BY <1>5
  <2> QED BY <1>2, <1>5, <2>1 DEF Banding
<1> QED BY <1>3, <1>4, <1>5

LEMMA OneMovesOn ==
    ASSUME AllGood, BandInv, NEW w \in Workers, NEW k, NEW V, job' = Spoils(w, V, k),
           saved' = saved \/ Amid(w) \subseteq V,
           line' = line \/ {v \in Workers : Reading(v)} \subseteq V,
           locked' = locked,
           BandWise(w, k, saved', line')
    PROVE  BandInv'
<1>1. ASSUME NEW v \in Workers PROVE BandWise(v, job'[v], saved', line')
  <2>1. BandWise(v, job[v], saved, line) /\ Shape(job[v]) /\ DOMAIN job[v] = JobFields
      BY JobIsGood DEF BandInv
  <2>2. CASE v = w
    <3>1. job'[v] = k
        BY <2>2 DEF Spoils
    <3> QED BY <2>2, <3>1
  <2>3. CASE v # w /\ v \in V
    <3>1. job'[v] = [job[v] EXCEPT !.answer = Spoilt, !.told = NoBands]
        BY <2>3 DEF Spoils
    <3>2. BandWise(v, [job[v] EXCEPT !.answer = Spoilt, !.told = NoBands], saved', line')
        BY <2>1, SpoiltIsBandWise
    <3> QED BY <3>1, <3>2, Zenon
  <2>4. CASE v # w /\ v \notin V
    <3>1. job'[v] = job[v]
        BY <2>4 DEF Spoils
    <3>2. saved' = saved \/ job[v].buf = "none"
        BY <2>4 DEF Amid
    <3>3. line' = line \/ job[v].pc \notin {"read", "copy lte", "copy nr", "signal"}
        BY <2>4 DEF Reading
    <3> QED BY <2>1, <3>1, <3>2, <3>3, OthersAreBandWise
  <2> QED BY <2>2, <2>3, <2>4
<1> QED BY <1>1 DEF BandInv

LEMMA OnlyOneMovesOn ==
    ASSUME AllGood, BandInv, NEW w \in Workers, NEW k, job' = [job EXCEPT ![w] = k],
           saved' = saved, line' = line, locked' = locked, BandWise(w, k, saved, line)
    PROVE  BandInv'
<1>1. job' = Spoils(w, {}, k)
    BY DEF AllGood, Spoils
<1> QED BY <1>1, OneMovesOn

LEMMA LocalMovesOn ==
    ASSUME AllGood, BandInv, NEW w \in Workers, NEW k, Local(w, k), BandWise(w, k, saved, line)
    PROVE  BandInv'
BY OnlyOneMovesOn DEF Local

\* The answer that was never written to has no bands.
LEMMA NoAnswerHasNoBands ==
    NoAnswer.bands = NoBands
BY DEF NoAnswer

\* A step outside of the handler for the bands in use.
LEMMA Elsewhere ==
    ASSUME NEW w, NEW k, NEW s, NEW l, Maps(k), k.pc \notin OnBands,
           k.answer # Spoilt /\ k.pc = "done" /\ k.req.method = "GET" =>
               Handler(k.req, k.answer.of) # "lockband"
    PROVE  BandWise(w, k, s, l)
<1>1. \A p \in Techs : k.pc # MoreIn[p]
    BY StepsOfTechs DEF OnBands
<1> QED BY <1>1 DEF BandWise, Banding, OnBands

LEMMA MapsKept ==
    ASSUME BandInv, NEW w \in Workers, NEW k,
           k.told = job[w].told, k.got = job[w].got, k.lines = job[w].lines
    PROVE  Maps(k)
BY DEF BandInv, BandWise, Maps

----------------------------------------------------------------------------
(****************************************************************************)
(* The path, and what is done outside of that handler.                      *)
(****************************************************************************)
LEMMA WalkOn ==
    ASSUME AllGood, BandInv, NEW w \in Workers, Parts(w) \/ Count(w) \/ Again(w) \/ Find(w)
    PROVE  BandInv'
<1> DEFINE Keeps(k) == /\ k.told = job[w].told /\ k.got = job[w].got /\ k.lines = job[w].lines
                       /\ k.pc \in Early
<1>1. DOMAIN job[w] = JobFields
    BY JobIsGood
<1>2. ASSUME NEW t PROVE Keeps(Named(w, t))
  <2> DEFINE name == IF t = NoTok THEN "unset" ELSE Head(t)
  <2>1. Named(w, t) = [job[w] EXCEPT !.name = name, !.buf = "none", !.count = 0, !.pc = "match"]
      BY DEF Named
  <2> HIDE DEF name
  <2> QED BY <1>1, <2>1 DEF JobFields, Early
<1>3. ASSUME NEW n, NEW pc \in {"count", "find"}
      PROVE  Keeps([job[w] EXCEPT !.buf = "path", !.count = n, !.pc = pc])
    BY <1>1 DEF JobFields, Early
<1>4. Keeps([job[w] EXCEPT !.buf = "none", !.pc = "again"])
    BY <1>1 DEF JobFields, Early
<1>5. ASSUME NEW n, job[w].pc \in Early PROVE Keeps([job[w] EXCEPT !.count = n])
    BY <1>1, <1>5 DEF JobFields
<1>6. \E k : job' = Spoils(w, Amid(w), k) /\ line' = line /\ locked' = locked /\ Keeps(k)
  <2> HIDE DEF Keeps
  <2>1. CASE Parts(w)
    <3> DEFINE t == First(Path(w))
               k == IF t = NoTok THEN Named(w, t)
                    ELSE [job[w] EXCEPT !.buf = "path", !.count = 1, !.pc = "count"]
    <3>1. job' = Spoils(w, Amid(w), k) /\ line' = line /\ locked' = locked
        BY <2>1 DEF Parts, Begins
    <3>2. Keeps(k)
        BY <1>2, <1>3
    <3> HIDE DEF k
    <3> QED BY <3>1, <3>2
  <2>2. CASE Count(w)
    <3>1. PICK f \in Found("/") : job' = Spoils(w, Amid(w),
              IF f[1] = NoTok THEN [job[w] EXCEPT !.buf = "none", !.pc = "again"]
              ELSE [job[w] EXCEPT !.count = @ + 1])
        BY <2>2 DEF Count, Continues
    <3> DEFINE k == IF f[1] = NoTok THEN [job[w] EXCEPT !.buf = "none", !.pc = "again"]
                    ELSE [job[w] EXCEPT !.count = job[w].count + 1]
    <3>2. job' = Spoils(w, Amid(w), k) /\ line' = line /\ locked' = locked
        BY <2>2, <3>1 DEF Count, Continues
    <3>3. job[w].pc \in Early
        BY <2>2 DEF Count, At, Early
    <3>4. Keeps(k)
        BY <1>4, <1>5, <3>3
    <3> HIDE DEF k
    <3> QED BY <3>2, <3>4
  <2>3. CASE Again(w)
    <3> DEFINE t == First(Path(w))
               k == IF job[w].count = 1 THEN Named(w, t)
                    ELSE [job[w] EXCEPT !.buf = "path", !.count = job[w].count - 1, !.pc = "find"]
    <3>1. job' = Spoils(w, Amid(w), k) /\ line' = line /\ locked' = locked
        BY <2>3 DEF Again, Begins
    <3>2. Keeps(k)
        BY <1>2, <1>3
    <3> HIDE DEF k
    <3> QED BY <3>1, <3>2
  <2>4. CASE Find(w)
    <3>1. PICK f \in Found("/") : job' = Spoils(w, Amid(w),
              IF f[1] = NoTok \/ job[w].count = 1 THEN Named(w, f[1])
              ELSE [job[w] EXCEPT !.count = @ - 1])
        BY <2>4 DEF Find, Continues
    <3> DEFINE k == IF f[1] = NoTok \/ job[w].count = 1 THEN Named(w, f[1])
                    ELSE [job[w] EXCEPT !.count = job[w].count - 1]
    <3>2. job' = Spoils(w, Amid(w), k) /\ line' = line /\ locked' = locked
        BY <2>4, <3>1 DEF Find, Continues
    <3>3. job[w].pc \in Early
        BY <2>4 DEF Find, At, Early
    <3>4. Keeps(k)
        BY <1>2, <1>5, <3>3
    <3> HIDE DEF k
    <3> QED BY <3>2, <3>4
  <2> QED BY <2>1, <2>2, <2>3, <2>4
<1>7. PICK k : job' = Spoils(w, Amid(w), k) /\ line' = line /\ locked' = locked /\ Keeps(k)
    BY <1>6
<1>8. BandWise(w, k, saved', line')
  <2>1. Maps(k) /\ k.pc \notin OnBands /\ k.pc # "done"
      BY <1>7, MapsKept DEF Early, OnBands
  <2> QED BY <2>1, Elsewhere
<1> QED BY <1>7, <1>8, OneMovesOn

\* What is kept of a request, and of the bands told for it.
Kept(k, j) ==
    /\ k.req = j.req /\ k.name = j.name
    /\ k.told = j.told /\ k.got = j.got /\ k.lines = j.lines

\* An answer for the request's own name, by another handler.
LEMMA OthersAnswer ==
    ASSUME BandInv, NEW w \in Workers, NEW k, NEW s, NEW l, Kept(k, job[w]), k.pc = "done",
           k.answer # Spoilt => k.answer.of = job[w].name /\ HandlerOf(job[w]) # "lockband"
    PROVE  BandWise(w, k, s, l)
<1>1. Maps(k)
    BY MapsKept DEF Kept
<1>2. k.pc \notin OnBands
    BY DEF OnBands
<1>3. ASSUME k.answer # Spoilt PROVE Handler(k.req, k.answer.of) # "lockband"
    BY <1>3 DEF Kept, HandlerOf
<1> QED BY <1>1, <1>2, <1>3, Elsewhere

LEMMA AnswersOn ==
    ASSUME AllGood, BandInv, NEW w \in Workers, NEW a, a.of = job[w].name,
           job[w].answer # Spoilt => HandlerOf(job[w]) # "lockband",
           Local(w, Answers(w, a))
    PROVE  BandInv'
<1> DEFINE b == With(job[w].answer, a)
           k == Answers(w, a)
<1>1. b # Spoilt => b = a /\ job[w].answer # Spoilt
    BY DEF With
<1> HIDE DEF b
<1>2. Kept(k, job[w]) /\ k.pc = "done" /\ k.answer = b
    BY JobIsGood DEF Answers, b, JobFields, Kept
<1>3. Local(w, k)
    OBVIOUS
<1> HIDE DEF k
<1>4. BandWise(w, k, saved, line)
    BY <1>1, <1>2, OthersAnswer
<1> QED BY <1>3, <1>4, LocalMovesOn

LEMMA TextsOn ==
    ASSUME AllGood, BandInv, NEW w \in Workers,
           GetDefault(w) \/ GetDirect(w) \/ GetText(w) \/ GetSignal(w)
    PROVE  BandInv'
<1>1. job[w].answer # Spoilt => HandlerOf(job[w]) # "lockband"
  <2>1. "lockband" \notin Single \cup Direct \cup {"signal"}
      BY DEF Single, Copied, Borrowed, Direct, Prefixed, Counted
  <2>2. CASE job[w].pc = "GET"
      BY <2>1, <2>2 DEF GetDefault, GetDirect, GetText, GetSignal, Does, At, Chosen, HandlerOf
  <2>3. CASE job[w].pc \in {"read", "signal"}
      BY <2>1, <2>3, JobIsGood DEF Answering
  <2> QED BY <2>2, <2>3 DEF GetDefault, GetDirect, GetText, GetSignal, Does, At
<1>2. ASSUME NEW text PROVE [AnswerOf(w) EXCEPT !.text = text].of = job[w].name
    BY AnswerHasAllFields DEF AnswerFields
<1>3. ASSUME NEW signal PROVE [AnswerOf(w) EXCEPT !.signal = signal].of = job[w].name
    BY AnswerHasAllFields DEF AnswerFields
<1>4. \/ \E text : Local(w, Answers(w, [AnswerOf(w) EXCEPT !.text = text]))
      \/ \E signal : Local(w, Answers(w, [AnswerOf(w) EXCEPT !.signal = signal]))
    BY DEF GetDefault, GetDirect, GetText, GetSignal
<1>5. PICK a : a.of = job[w].name /\ Local(w, Answers(w, a))
  <2>1. CASE \E text : Local(w, Answers(w, [AnswerOf(w) EXCEPT !.text = text]))
      BY <1>2, <2>1
  <2>2. CASE \E signal : Local(w, Answers(w, [AnswerOf(w) EXCEPT !.signal = signal]))
      BY <1>3, <2>2
  <2> QED BY <1>4, <2>1, <2>2
<1> QED BY <1>1, <1>5, AnswersOn

LEMMA GetScanOn ==
    ASSUME AllGood, BandInv, NEW w \in Workers, GetScan(w) PROVE BandInv'
<1> DEFINE pc == IF Chosen(w) = "signal" THEN Chosen(w) ELSE "read"
           k == [job[w] EXCEPT !.pc = pc]
<1>1. /\ job' = Spoils(w, {v \in Workers : Reading(v)}, k)
      /\ saved' = saved /\ locked' = locked
    BY DEF GetScan, Scans
<1>2. pc \in {"read", "signal"}
    OBVIOUS
<1> HIDE DEF pc
<1>3. k.told = job[w].told /\ k.got = job[w].got /\ k.lines = job[w].lines /\ k.pc = pc
    BY JobIsGood DEF JobFields
<1> HIDE DEF k
<1>4. BandWise(w, k, saved', line')
  <2>1. Maps(k)
      BY <1>3, MapsKept
  <2>2. k.pc \notin OnBands /\ k.pc # "done"
      BY <1>2, <1>3 DEF OnBands
  <2> QED BY <2>1, <2>2, Elsewhere
<1> QED BY <1>1, <1>4, OneMovesOn

LEMMA GetNumberOn ==
    ASSUME AllGood, BandInv, NEW w \in Workers, GetNumber(w) PROVE BandInv'
<1> DEFINE a == [AnswerOf(w) EXCEPT !.text = <<Chosen(w)>>]
           b == With(job[w].answer, a)
           k == Answers(w, a)
<1>1. /\ job' = Spoils(w, {v \in Workers : Reading(v)}, k)
      /\ saved' = saved /\ locked' = locked
    BY DEF GetNumber, Scans
<1>2. job[w].answer # Spoilt => HandlerOf(job[w]) # "lockband"
  <2>1. HandlerOf(job[w]) \in Counted
      BY DEF GetNumber, Does, Chosen, HandlerOf
  <2> QED BY <2>1 DEF Counted
<1>3. a.of = job[w].name
    BY AnswerHasAllFields DEF AnswerFields
<1> HIDE DEF a
<1>4. b # Spoilt => b = a /\ job[w].answer # Spoilt
    BY DEF With
<1> HIDE DEF b
<1>5. Kept(k, job[w]) /\ k.pc = "done" /\ k.answer = b
    BY JobIsGood DEF Answers, b, JobFields, Kept
<1> HIDE DEF k
<1>6. BandWise(w, k, saved', line')
    BY <1>2, <1>3, <1>4, <1>5, OthersAnswer
<1> QED BY <1>1, <1>6, OneMovesOn

LEMMA AddRowOn ==
    ASSUME AllGood, BandInv, NEW w \in Workers, NEW t, NEW s, NEW l,
           job[w].answer # Spoilt => HandlerOf(job[w]) # "lockband"
    PROVE  BandWise(w, AddRow(w, t), s, l)
<1> DEFINE j == job[w]
           k == AddRow(w, t)
<1>1. /\ k.req = j.req /\ k.name = j.name
      /\ j.answer = Spoilt => k.answer = Spoilt
      /\ t = NoTok => k.pc = "done" /\ (k.answer # Spoilt => k.answer.of = k.name)
      /\ t # NoTok => k.pc = "rows"
    BY AddRowKeeps
<1>2. k.told = j.told /\ k.got = j.got /\ k.lines = j.lines
  <2>1. DOMAIN j = JobFields
      BY JobIsGood
  <2>2. CASE t = NoTok
    <3> DEFINE a == With(j.answer, [j.answer EXCEPT !.of = j.name])
               i == [j EXCEPT !.answer = a, !.pc = "done"]
    <3>1. k = [i EXCEPT !.buf = "none"]
        BY <2>2 DEF AddRow, Answers
    <3> HIDE DEF a, k, j
    <3>2. DOMAIN i = JobFields /\ i.told = j.told /\ i.got = j.got /\ i.lines = j.lines
        BY <2>1 DEF JobFields
    <3> HIDE DEF i
    <3> QED BY <3>1, <3>2 DEF JobFields
  <2>3. CASE t # NoTok
    <3> DEFINE a == With(j.answer, [j.answer EXCEPT !.rows = Append(@, t)])
    <3>1. k = [j EXCEPT !.buf = "rows", !.pc = "rows", !.answer = a]
        BY <2>3 DEF AddRow
    <3> HIDE DEF a, k, j
    <3> QED BY <2>1, <3>1 DEF JobFields
  <2> QED BY <2>2, <2>3
<1> HIDE DEF k
<1>3. ASSUME t = NoTok PROVE BandWise(w, k, s, l)
    BY <1>1, <1>2, <1>3, OthersAnswer DEF Kept
<1>4. ASSUME t # NoTok PROVE BandWise(w, k, s, l)
  <2>1. Maps(k)
      BY <1>2, MapsKept
  <2>2. k.pc \notin OnBands /\ k.pc # "done"
      BY <1>1, <1>4 DEF OnBands
  <2> QED BY <2>1, <2>2, Elsewhere
<1>5. BandWise(w, k, s, l)
    BY <1>3, <1>4
<1> QED BY <1>5 DEF k

LEMMA RowsOn ==
    ASSUME AllGood, BandInv, NEW w \in Workers, GetRows(w) \/ MoreRows(w) \/ GetNoRows(w)
    PROVE  BandInv'
<1>1. job[w].answer # Spoilt => HandlerOf(job[w]) # "lockband"
  <2>1. "lockband" \notin Listed
      BY DEF Listed
  <2>2. CASE GetRows(w) \/ GetNoRows(w)
      BY <2>1, <2>2 DEF GetRows, GetNoRows, HasRows, Does, Chosen, HandlerOf, Listed
  <2>3. CASE MoreRows(w)
      BY <2>1, <2>3, JobIsGood DEF MoreRows, At, Answering
  <2> QED BY <2>2, <2>3
<1>2. CASE GetRows(w)
  <2>1. PICK t : job' = Spoils(w, Amid(w), AddRow(w, t)) /\ line' = line /\ locked' = locked
      BY <1>2 DEF GetRows, Begins
  <2> QED BY <1>1, <2>1, AddRowOn, OneMovesOn
<1>3. CASE MoreRows(w)
  <2>1. PICK t : job' = Spoils(w, Amid(w), AddRow(w, t)) /\ line' = line /\ locked' = locked
      BY <1>3 DEF MoreRows, Continues
  <2> QED BY <1>1, <2>1, AddRowOn, OneMovesOn
<1>4. CASE GetNoRows(w) /\ Local(w, Answers(w, AnswerOf(w)))
    BY <1>1, <1>4, AnswerHasAllFields, AnswersOn
<1>5. CASE UNCHANGED <<job, saved, line, locked>>
    BY <1>5 DEF BandInv
<1> QED BY <1>2, <1>3, <1>4, <1>5 DEF GetNoRows, Crashes

LEMMA MatchesOn ==
    ASSUME AllGood, BandInv, NEW w \in Workers, Matches(w) PROVE BandInv'
<1> DEFINE j == job[w]
<1>1. PICK name : \/ Local(w, [Answers(w, Refused) EXCEPT !.name = name])
                  \/ /\ Handler(j.req, name) # "none"
                     /\ Local(w, [j EXCEPT !.name = name, !.pc = j.req.method])
    BY DEF Matches
<1>2. DOMAIN j = JobFields
    BY JobIsGood
<1>3. CASE Local(w, [Answers(w, Refused) EXCEPT !.name = name])
  <2> DEFINE a == With(j.answer, Refused)
             i == [j EXCEPT !.answer = a, !.pc = "done"]
             k == [i EXCEPT !.name = name]
  <2>1. Local(w, k)
      BY <1>3 DEF Answers
  <2>2. a # Spoilt => a.of = "refused"
      BY RefusedHasAllFields DEF With
  <2> HIDE DEF a
  <2>3. DOMAIN i = JobFields /\ i.told = j.told /\ i.got = j.got /\ i.lines = j.lines
        /\ i.pc = "done" /\ i.answer = a
      BY <1>2 DEF JobFields
  <2> HIDE DEF i
  <2>4. k.told = j.told /\ k.got = j.got /\ k.lines = j.lines /\ k.pc = "done" /\ k.answer = a
      BY <2>3 DEF JobFields
  <2> HIDE DEF k
  <2>5. Maps(k) /\ k.pc \notin OnBands
      BY <2>4, MapsKept DEF OnBands
  <2>6. ASSUME k.answer # Spoilt PROVE Handler(k.req, k.answer.of) # "lockband"
    <3>1. k.answer.of = "refused"
        BY <2>2, <2>4, <2>6
    <3>2. Handler(k.req, "refused") = "none"
        BY DEF Handler, Folded, Capitals, GetHandlers, PostHandlers, Single, Copied, Borrowed, Direct, Prefixed, Counted, Listed
    <3> QED BY <3>1, <3>2
  <2>7. BandWise(w, k, saved, line)
      BY <2>5, <2>6, Elsewhere
  <2> QED BY <2>1, <2>7, LocalMovesOn
<1>4. CASE /\ Handler(j.req, name) # "none"
           /\ Local(w, [j EXCEPT !.name = name, !.pc = j.req.method])
  <2> DEFINE method == j.req.method
             k == [j EXCEPT !.name = name, !.pc = method]
  <2>1. Local(w, k)
      BY <1>4
  <2>2. method \in {"GET", "POST"}
      BY <1>4 DEF Handler
  <2> HIDE DEF method
  <2>3. k.told = j.told /\ k.got = j.got /\ k.lines = j.lines /\ k.pc = method
      BY <1>2 DEF JobFields
  <2> HIDE DEF k
  <2>4. Maps(k) /\ k.pc \notin OnBands /\ k.pc # "done"
      BY <2>2, <2>3, MapsKept DEF OnBands
  <2>5. BandWise(w, k, saved, line)
      BY <2>4, Elsewhere
  <2> QED BY <2>1, <2>5, LocalMovesOn
<1> QED BY <1>1, <1>3, <1>4

LEMMA IdleMaps ==
    ASSUME NEW prev
    PROVE  /\ Maps(Idle(prev)) /\ DOMAIN Idle(prev) = JobFields
           /\ Idle(prev).pc = "idle"
BY NoBandsIsTold DEF Idle, Maps, JobFields

LEMMA TakesOn ==
    ASSUME AllGood, BandInv, NEW w \in Workers, Take(w) \/ Finish(w) PROVE BandInv'
<1>1. CASE Take(w)
  <2>1. PICK r : /\ job' = [job EXCEPT ![w] = [Idle(@.prev) EXCEPT !.req = r, !.pc = "parts"]]
                 /\ UNCHANGED <<saved, line, locked>>
      BY <1>1 DEF Take
  <2> DEFINE i == Idle(job[w].prev)
             k == [i EXCEPT !.req = r, !.pc = "parts"]
  <2>2. Maps(i) /\ DOMAIN i = JobFields
      BY IdleMaps
  <2>3. job' = [job EXCEPT ![w] = k]
      BY <2>1
  <2> HIDE DEF i
  <2>4. k.told = i.told /\ k.got = i.got /\ k.lines = i.lines /\ k.pc = "parts"
      BY <2>2 DEF JobFields
  <2> HIDE DEF k
  <2>5. Maps(k) /\ k.pc \notin OnBands /\ k.pc # "done"
      BY <2>2, <2>4 DEF Maps, OnBands
  <2>6. BandWise(w, k, saved, line)
      BY <2>5, Elsewhere
  <2> QED BY <2>1, <2>3, <2>6, OnlyOneMovesOn
<1>2. CASE Finish(w)
  <2> DEFINE k == Idle(job[w].name)
  <2>1. Maps(k) /\ k.pc \notin OnBands /\ k.pc # "done"
      BY IdleMaps DEF OnBands
  <2>2. /\ job' = [job EXCEPT ![w] = k]
        /\ UNCHANGED <<saved, line, locked>>
      BY <1>2 DEF Finish
  <2> HIDE DEF k
  <2>3. BandWise(w, k, saved, line)
      BY <2>1, Elsewhere
  <2> QED BY <2>2, <2>3, OnlyOneMovesOn
<1> QED BY <1>1, <1>2

----------------------------------------------------------------------------
(****************************************************************************)
(* Settings: what the modem may be told to lock.                            *)
(****************************************************************************)
LEMMA LockedTexts ==
    ASSUME NEW texts, NEW now, \A p \in Techs : texts[p] \in BandTexts /\ now[p] \in BandTexts
    PROVE  /\ DOMAIN Locked(texts, now, Factory) = Techs
           /\ \A p \in Techs : Locked(texts, now, Factory)[p] \in BandTexts
<1>1. \A p \in Techs : Factory[p] \in BandTexts
    BY DEF BandTexts
<1>2. DOMAIN Locked(texts, now, Factory) = Techs
    BY DEF Locked
<1>3. \A p \in Techs : Locked(texts, now, Factory)[p] \in {Factory[p], now[p], texts[p]}
    BY DEF Locked
<1> QED BY <1>1, <1>2, <1>3

LEMMA SetTexts ==
    ASSUME NEW r \in Requests, NEW texts \in TextsOf(r.body), NEW p \in Techs
    PROVE  texts[p] \in BandTexts
<1>1. CASE r.body.kind = "bands"
    BY <1>1 DEF TextsOf, BandTexts
<1>2. CASE r.body.kind # "bands"
    BY <1>2, NoBandsIsTold DEF TextsOf, BandTexts
<1> QED BY <1>1, <1>2

LEMMA PostsOn ==
    ASSUME AllGood, BandInv, NEW w \in Workers, PostLockBand(w) \/ PostOther(w) \/ PostRelease(w)
    PROVE  BandInv'
<1> DEFINE j == job[w]
<1>1. DOMAIN j = JobFields
    BY JobIsGood
<1>2. ASSUME NEW status, NEW l PROVE BandWise(w, Status(w, status), saved, l)
  <2> DEFINE a == With(j.answer, [AnswerOf(w) EXCEPT !.status = status])
             k == Status(w, status)
  <2>1. k = [j EXCEPT !.answer = a, !.pc = "release"]
      BY DEF Status
  <2> HIDE DEF a, k
  <2>2. k.told = j.told /\ k.got = j.got /\ k.lines = j.lines /\ k.pc = "release"
      BY <1>1, <2>1 DEF JobFields
  <2>3. Maps(k) /\ k.pc \notin OnBands /\ k.pc # "done"
      BY <2>2, MapsKept DEF OnBands
  <2>4. BandWise(w, k, saved, l)
      BY <2>3, Elsewhere
  <2> QED BY <2>4 DEF k
<1>3. CASE \E status : Local(w, Status(w, status))
    BY <1>2, <1>3, LocalMovesOn
<1>4. CASE /\ PostLockBand(w)
           /\ \E texts \in TextsOf(j.req.body) : locked' = Locked(texts, locked, Factory)
           /\ job' = [job EXCEPT ![w] = Status(w, "SUCCESS")]
           /\ UNCHANGED <<saved, line>>
  <2>1. j.req \in Requests
    <3>1. Chosen(w) = "lockband" /\ j.req \in Requests \cup {NoRequest}
        BY <1>4, JobIsGood DEF PostLockBand, Does, Shape
    <3>2. NoRequest.method = ""
        BY DEF NoRequest
    <3> QED BY <3>1, <3>2 DEF Chosen, Handler
  <2>2. DOMAIN locked' = Techs /\ \A p \in Techs : locked'[p] \in BandTexts
    <3>1. PICK texts \in TextsOf(j.req.body) : locked' = Locked(texts, locked, Factory)
        BY <1>4
    <3>2. \A p \in Techs : texts[p] \in BandTexts /\ locked[p] \in BandTexts
        BY <2>1, <3>1, SetTexts DEF BandInv
    <3> QED BY <3>1, <3>2, LockedTexts
  <2>3. ASSUME NEW v \in Workers PROVE BandWise(v, job'[v], saved', line')
    <3>1. CASE v = w
      <4>1. job'[v] = Status(w, "SUCCESS")
          BY <1>4, <3>1 DEF AllGood
      <4> QED BY <1>2, <1>4, <3>1, <4>1
    <3>2. CASE v # w
        BY <1>4, <3>2 DEF BandInv
    <3> QED BY <3>1, <3>2
  <2> QED BY <2>2, <2>3 DEF BandInv
<1>5. CASE PostRelease(w)
  <2> DEFINE k == [j EXCEPT !.pc = "done"]
  <2>1. j.pc = "release" /\ Local(w, k)
      BY <1>5 DEF PostRelease, At
  <2>2. k.told = j.told /\ k.got = j.got /\ k.lines = j.lines /\ k.pc = "done"
        /\ k.answer = j.answer /\ k.req = j.req
      BY <1>1 DEF JobFields
  <2> HIDE DEF k
  <2>3. Maps(k) /\ k.pc \notin OnBands
      BY <2>2, MapsKept DEF OnBands
  <2>4. k.answer # Spoilt => k.req.method = "POST"
      BY <2>1, <2>2, JobIsGood DEF Answering
  <2>5. BandWise(w, k, saved, line)
      BY <2>3, <2>4, Elsewhere
  <2> QED BY <2>1, <2>5, LocalMovesOn
<1>6. CASE \E status : Scans(w, "networkconnect", Junk, Status(w, status))
  <2>1. PICK status : /\ job' = Spoils(w, {v \in Workers : Reading(v)}, Status(w, status))
                      /\ saved' = saved /\ locked' = locked
      BY <1>6 DEF Scans
  <2>2. BandWise(w, Status(w, status), saved', line')
      BY <1>2, <2>1
  <2> QED BY <2>1, <2>2, OneMovesOn
<1> QED BY <1>3, <1>4, <1>5, <1>6 DEF PostLockBand, PostOther

----------------------------------------------------------------------------
(****************************************************************************)
(* The two questions, and the two lines made of the answers.                *)
(****************************************************************************)
LEMMA EachTech ==
    ASSUME NEW p \in Techs
    PROVE  \/ /\ p = "lte" /\ CopyOf[p] = "copy lte" /\ AfterAsk[p] = "ask nr"
              /\ BandsIn[p] = "bands lte" /\ MoreIn[p] = "more lte" /\ BandPrefix[p] = "B"
           \/ /\ p = "nr" /\ CopyOf[p] = "copy nr" /\ AfterAsk[p] = "split"
              /\ BandsIn[p] = "bands nr" /\ MoreIn[p] = "more nr" /\ BandPrefix[p] = "N"
<1>1. CASE p = "lte"
    BY <1>1 DEF CopyOf, AfterAsk, BandsIn, MoreIn, BandPrefix
<1>2. CASE p = "nr"
    BY <1>2 DEF CopyOf, AfterAsk, BandsIn, MoreIn, BandPrefix
<1> QED BY <1>1, <1>2 DEF Techs

LEMMA JobIsBandWise ==
    ASSUME BandInv, NEW w \in Workers
    PROVE  /\ Maps(job[w])
           /\ job[w].answer # Spoilt => Banding(w, job[w], saved, line)
BY DEF BandInv, BandWise

\* What Told makes of the request.
LEMMA ToldIsKept ==
    ASSUME AllGood, BandInv, NEW w \in Workers, NEW p \in Techs, NEW text \in BandTexts
    PROVE  LET i == Told(w, p, text)
           IN  /\ DOMAIN i = JobFields /\ Maps(i) /\ i.req = job[w].req
               /\ i.got = job[w].got /\ i.lines = job[w].lines /\ i.answer = job[w].answer
               /\ job[w].answer # Spoilt =>
                     i.told[p] = text /\ \A q \in Techs : q # p => i.told[q] = job[w].told[q]
<1> DEFINE j == job[w]
           told == [j.told EXCEPT ![p] = text]
           i == [j EXCEPT !.told = told]
<1>1. DOMAIN j = JobFields /\ Maps(j)
    BY JobIsGood, JobIsBandWise
<1>2. CASE j.answer = Spoilt
    BY <1>1, <1>2 DEF Told
<1>3. CASE j.answer # Spoilt
  <2>1. Told(w, p, text) = i
      BY <1>3 DEF Told
  <2>2. DOMAIN told = Techs /\ told[p] = text /\ \A q \in Techs : q # p => told[q] = j.told[q]
      BY <1>1 DEF Maps
  <2> HIDE DEF told
  <2>3. DOMAIN i = JobFields /\ i.req = j.req /\ i.told = told /\ i.got = j.got
        /\ i.lines = j.lines /\ i.answer = j.answer
      BY <1>1 DEF JobFields
  <2> HIDE DEF i
  <2>4. Maps(i)
      BY <1>1, <2>2, <2>3 DEF Maps
  <2> QED BY <2>1, <2>2, <2>3, <2>4
<1> QED BY <1>2, <1>3

\* Before the questions, and between them.
LEMMA AskingNow ==
    ASSUME AllGood, BandInv, NEW w \in Workers, NEW p \in Techs, Asks(w, p), job[w].answer # Spoilt
    PROVE  /\ job[w].answer = NoAnswer
           /\ p = "nr" => job[w].got["lte"] = job[w].told["lte"]
<1>1. CASE p = "lte"
  <2>1. job[w].pc = "GET"
      BY <1>1 DEF Asks, Does, At
  <2> QED BY <1>1, <2>1, JobIsGood DEF Answering
<1>2. CASE p = "nr"
  <2>1. job[w].pc = "ask nr"
      BY <1>2 DEF Asks, At
  <2> QED BY <2>1, JobIsBandWise DEF Banding, OnBands
<1> QED BY <1>1, <1>2 DEF Techs

LEMMA GetBandsOn ==
    ASSUME AllGood, BandInv, NEW w \in Workers, NEW p \in Techs, GetBands(w, p)
    PROVE  BandInv'
<1> DEFINE j == job[w]
           i == Told(w, p, locked[p])
           pc == CopyOf[p]
           k == [i EXCEPT !.pc = pc]
<1>1. Asks(w, p) /\ Scans(w, p, locked[p], k)
    BY DEF GetBands
<1>2. /\ DOMAIN i = JobFields /\ Maps(i)
      /\ i.got = j.got /\ i.lines = j.lines /\ i.answer = j.answer
      /\ j.answer # Spoilt =>
            i.told[p] = locked[p] /\ \A q \in Techs : q # p => i.told[q] = j.told[q]
    BY ToldIsKept DEF BandInv
<1>3. \/ p = "lte" /\ pc = "copy lte"
      \/ p = "nr" /\ pc = "copy nr"
    BY EachTech
<1> HIDE DEF i, pc
<1>4. k.told = i.told /\ k.got = i.got /\ k.lines = i.lines /\ k.answer = i.answer /\ k.pc = pc
    BY <1>2 DEF JobFields
<1>5. /\ job' = Spoils(w, {v \in Workers : Reading(v)}, k)
      /\ saved' = saved /\ locked' = locked /\ line'.text = locked[p]
    BY <1>1 DEF Scans
<1> HIDE DEF k
<1>6. Maps(k)
    BY <1>2, <1>4 DEF Maps
<1>7. ASSUME k.answer # Spoilt PROVE Banding(w, k, saved', line')
  <2>1. j.answer = NoAnswer /\ (p = "nr" => j.got["lte"] = j.told["lte"])
      BY <1>1, <1>2, <1>4, <1>7, AskingNow
  <2>2. k.answer = NoAnswer /\ k.told[p] = locked[p]
        /\ (p = "nr" => k.got["lte"] = k.told["lte"])
      BY <1>2, <1>4, <1>7, <2>1 DEF Techs
  <2>3. \A q \in Techs : k.pc # MoreIn[q]
      BY <1>3, <1>4, StepsOfTechs
  <2> QED BY <1>3, <1>4, <1>5, <2>2, <2>3 DEF Banding
<1>8. BandWise(w, k, saved', line')
    BY <1>6, <1>7 DEF BandWise
<1> QED BY <1>5, <1>8, OneMovesOn

\* A text is there to be split, or to be asked for next.
LEMMA GotOne ==
    ASSUME AllGood, BandInv, NEW w \in Workers, NEW p \in Techs, NEW k, NEW text,
           Maps(k), k.pc = AfterAsk[p], k.got = [job[w].got EXCEPT ![p] = text],
           k.answer = job[w].answer,
           job[w].answer # Spoilt =>
               /\ job[w].answer = NoAnswer /\ text = k.told[p]
               /\ p = "nr" => job[w].got["lte"] = k.told["lte"]
    PROVE  BandWise(w, k, saved, line)
<1>1. DOMAIN job[w].got = Techs
    BY JobIsBandWise DEF Maps
<1>2. k.got[p] = text /\ \A q \in Techs : q # p => k.got[q] = job[w].got[q]
    BY <1>1
<1>3. \/ p = "lte" /\ k.pc = "ask nr"
      \/ p = "nr" /\ k.pc = "split"
    BY EachTech
<1>4. \A q \in Techs : k.pc # MoreIn[q]
    BY <1>3, StepsOfTechs
<1>5. ASSUME k.answer # Spoilt PROVE Banding(w, k, saved, line)
    BY <1>2, <1>3, <1>4, <1>5 DEF Banding, Techs
<1> QED BY <1>5 DEF BandWise

LEMMA GetBandsDefaultOn ==
    ASSUME AllGood, BandInv, NEW w \in Workers, NEW p \in Techs, GetBandsDefault(w, p)
    PROVE  BandInv'
<1> DEFINE j == job[w]
           i == Told(w, p, Missing)
           got == [i.got EXCEPT ![p] = Missing]
           pc == AfterAsk[p]
           k == [i EXCEPT !.got = got, !.pc = pc]
<1>1. Asks(w, p) /\ Local(w, k)
    BY DEF GetBandsDefault
<1>2. /\ DOMAIN i = JobFields /\ Maps(i)
      /\ i.got = j.got /\ i.lines = j.lines /\ i.answer = j.answer
      /\ j.answer # Spoilt =>
            i.told[p] = Missing /\ \A q \in Techs : q # p => i.told[q] = j.told[q]
  <2>1. Missing \in BandTexts
      BY DEF BandTexts
  <2> QED BY <2>1, ToldIsKept
<1>3. got = [j.got EXCEPT ![p] = Missing] /\ DOMAIN got = Techs
    BY <1>2 DEF Maps
<1> HIDE DEF i, got, pc
<1>4. k.told = i.told /\ k.got = got /\ k.lines = i.lines /\ k.answer = i.answer /\ k.pc = pc
    BY <1>2 DEF JobFields
<1> HIDE DEF k
<1>5. Maps(k)
    BY <1>2, <1>3, <1>4 DEF Maps
<1>6. ASSUME j.answer # Spoilt
      PROVE  /\ j.answer = NoAnswer /\ Missing = k.told[p]
             /\ p = "nr" => j.got["lte"] = k.told["lte"]
  <2>1. j.answer = NoAnswer /\ (p = "nr" => j.got["lte"] = j.told["lte"])
      BY <1>1, <1>6, AskingNow
  <2> QED BY <1>2, <1>4, <1>6, <2>1 DEF Techs
<1>7. BandWise(w, k, saved, line)
    BY <1>2, <1>3, <1>4, <1>5, <1>6, GotOne DEF pc
<1> QED BY <1>1, <1>7, LocalMovesOn

LEMMA CopyBandsOn ==
    ASSUME AllGood, BandInv, NEW w \in Workers, NEW p \in Techs, CopyBands(w, p)
    PROVE  BandInv'
<1> DEFINE j == job[w]
           got == [j.got EXCEPT ![p] = line.text]
           pc == AfterAsk[p]
           k == [j EXCEPT !.got = got, !.pc = pc]
<1>1. j.pc = CopyOf[p] /\ Local(w, k)
    BY DEF CopyBands, At
<1>2. DOMAIN j = JobFields /\ Maps(j)
    BY JobIsGood, JobIsBandWise
<1>3. DOMAIN got = Techs
    BY <1>2 DEF Maps
<1> HIDE DEF got, pc
<1>4. k.told = j.told /\ k.got = got /\ k.lines = j.lines /\ k.answer = j.answer /\ k.pc = pc
    BY <1>2 DEF JobFields
<1> HIDE DEF k
<1>5. Maps(k)
    BY <1>2, <1>3, <1>4 DEF Maps
<1>6. ASSUME j.answer # Spoilt
      PROVE  /\ j.answer = NoAnswer /\ line.text = k.told[p]
             /\ p = "nr" => j.got["lte"] = k.told["lte"]
  <2>1. \/ p = "lte" /\ j.pc = "copy lte"
        \/ p = "nr" /\ j.pc = "copy nr"
      BY <1>1, EachTech
  <2>2. Banding(w, j, saved, line)
      BY <1>6, JobIsBandWise
  <2> QED BY <1>4, <2>1, <2>2 DEF Banding, OnBands
<1>7. BandWise(w, k, saved, line)
    BY <1>4, <1>5, <1>6, GotOne DEF got, pc
<1> QED BY <1>1, <1>7, LocalMovesOn

LEMMA SplitOn ==
    ASSUME AllGood, BandInv, NEW w \in Workers, Split(w) PROVE BandInv'
<1> DEFINE j == job[w]
           a == <<"lte">> \o j.got["lte"]
           b == <<"nr">> \o j.got["nr"]
           lines == [j.lines EXCEPT !["lte"] = a]
           k == [j EXCEPT !.buf = "lines", !.lines = lines, !.got = NoBands, !.pc = "split nr"]
<1>1. First(<<a, b>>) = a /\ Rest(<<a, b>>) = <<b>>
  <2> HIDE DEF a, b
  <2> QED BY DEF First, Rest
<1>2. /\ j.pc = "split"
      /\ saved' = Place([by |-> w, buf |-> "lines", delim |-> "\n", rest |-> <<b>>], w, k)
      /\ job' = Spoils(w, Amid(w), k) /\ line' = line /\ locked' = locked
    BY <1>1 DEF Split, At, Begins
<1>3. DOMAIN j = JobFields /\ Maps(j)
    BY JobIsGood, JobIsBandWise
<1> HIDE DEF a, b
<1>4. DOMAIN lines = Techs /\ lines["lte"] = a
    BY <1>3 DEF Maps, Techs
<1> HIDE DEF lines
<1>5. /\ k.told = j.told /\ k.got = NoBands /\ k.lines = lines /\ k.buf = "lines"
      /\ k.pc = "split nr" /\ k.answer = j.answer
    BY <1>3 DEF JobFields
<1> HIDE DEF k
<1>6. Maps(k)
    BY <1>3, <1>4, <1>5, NoBandsIsTold DEF Maps
<1>7. ASSUME k.answer # Spoilt PROVE Banding(w, k, saved', line')
  <2>1. /\ j.answer = NoAnswer /\ j.got["lte"] = j.told["lte"] /\ j.got["nr"] = j.told["nr"]
    <3>1. Banding(w, j, saved, line)
        BY <1>5, <1>7, JobIsBandWise
    <3> QED BY <1>2, <3>1 DEF Banding, OnBands
  <2>2. a = LineOf(k, "lte") /\ b = LineOf(k, "nr")
      BY <1>5, <2>1 DEF LineOf, a, b
  <2>3. saved' = [by |-> w, buf |-> "lines", delim |-> "\n", rest |-> <<b>>]
      BY <1>2, <1>5 DEF Place
  <2>4. IsAt(w, saved', "lines", "\n") /\ saved'.rest = <<b>>
      BY <2>3 DEF IsAt
  <2>5. \A q \in Techs : k.pc # MoreIn[q]
      BY <1>5, EachTech
  <2> QED BY <1>4, <1>5, <2>1, <2>2, <2>4, <2>5 DEF Banding
<1>8. BandWise(w, k, saved', line')
    BY <1>6, <1>7 DEF BandWise
<1> QED BY <1>2, <1>8, OneMovesOn

LEMMA SplitNrOn ==
    ASSUME AllGood, BandInv, NEW w \in Workers, SplitNr(w) PROVE BandInv'
<1> DEFINE j == job[w]
<1>1. /\ j.pc = "split nr" /\ line' = line /\ locked' = locked
      /\ \E f \in Found("\n") :
            job' = Spoils(w, Amid(w), [j EXCEPT !.buf = "none", !.lines["nr"] = f[1],
                                                !.pc = "bands lte"])
    BY DEF SplitNr, At, Continues
<1>2. PICK f \in Found("\n") :
          job' = Spoils(w, Amid(w), [j EXCEPT !.buf = "none", !.lines["nr"] = f[1],
                                              !.pc = "bands lte"])
    BY <1>1
<1>3. DOMAIN j = JobFields /\ Maps(j)
    BY JobIsGood, JobIsBandWise
<1> DEFINE lines == [j.lines EXCEPT !["nr"] = f[1]]
           k == [j EXCEPT !.buf = "none", !.lines = lines, !.pc = "bands lte"]
<1>4. job' = Spoils(w, Amid(w), k)
    BY <1>2
<1>5. DOMAIN lines = Techs /\ lines["nr"] = f[1] /\ lines["lte"] = j.lines["lte"]
    BY <1>3 DEF Maps, Techs
<1> HIDE DEF lines
<1>6. /\ k.told = j.told /\ k.got = j.got /\ k.lines = lines /\ k.buf = "none"
      /\ k.pc = "bands lte" /\ k.answer = j.answer
    BY <1>3 DEF JobFields
<1> HIDE DEF k
<1>7. Maps(k)
    BY <1>3, <1>5, <1>6 DEF Maps
<1>8. ASSUME k.answer # Spoilt PROVE Banding(w, k, saved', line')
  <2>1. /\ j.answer = NoAnswer /\ j.buf = "lines" /\ IsAt(w, saved, "lines", "\n")
        /\ saved.rest = <<LineOf(j, "nr")>> /\ j.lines["lte"] = LineOf(j, "lte")
    <3>1. Banding(w, j, saved, line)
        BY <1>6, <1>8, JobIsBandWise
    <3> QED BY <1>1, <3>1 DEF Banding, OnBands
  <2>2. f[1] = LineOf(j, "nr")
    <3> DEFINE x == LineOf(j, "nr")
    <3>1. <<x>> # <<>> /\ Head(<<x>>) = x
      <4> HIDE DEF x
      <4> QED OBVIOUS
    <3>2. f[1] = Head(saved.rest)
        BY <2>1, <3>1, FoundOwn
    <3> QED BY <2>1, <3>1, <3>2
  <2>3. LineOf(k, "nr") = LineOf(j, "nr") /\ LineOf(k, "lte") = LineOf(j, "lte")
      BY <1>6 DEF LineOf
  <2>4. \A q \in Techs : k.pc # MoreIn[q]
      BY <1>6, EachTech
  <2> QED BY <1>5, <1>6, <2>1, <2>2, <2>3, <2>4 DEF Banding
<1>9. BandWise(w, k, saved', line')
    BY <1>7, <1>8 DEF BandWise
<1> QED BY <1>1, <1>4, <1>9, OneMovesOn

----------------------------------------------------------------------------
(****************************************************************************)
(* The bands, one after the other.                                          *)
(****************************************************************************)
\* A non-empty set of numbers has a least one.
LEMMA LeastOne ==
    ASSUME NEW T, T \subseteq Nat, T # {}
    PROVE  \E x \in T : \A y \in T : x <= y
<1> DEFINE R == {ss \in Nat \X Nat : ss[1] < ss[2]}
<1>1. IsWellFoundedOn(R, Nat)
    BY NatLessThanWellFounded DEF OpToRel
<1>2. PICK x \in T : \A y \in T : ~(<<y, x>> \in R)
    BY <1>1, WFMin
<1>3. ASSUME NEW y \in T PROVE x <= y
  <2>1. <<y, x>> \in Nat \X Nat
      OBVIOUS
  <2>2. ~(y < x)
      BY <1>2, <2>1
  <2> QED BY <2>2
<1> QED BY <1>3

\* The k-th of a set of places.
LEMMA KthIsThere ==
    ASSUME NEW n \in Nat, NEW S, S \subseteq 1..n, NEW k \in 1..Cardinality(S)
    PROVE  /\ Cardinality(S) \in Nat
           /\ \E i \in S : Cardinality(S \cap 1..i) = k
<1> DEFINE C(i) == Cardinality(S \cap 1..i)
           T == {i \in Nat : C(i) >= k}
<1>1. \A i \in Nat : IsFiniteSet(S \cap 1..i) /\ C(i) \in Nat
  <2> SUFFICES ASSUME NEW i \in Nat PROVE IsFiniteSet(S \cap 1..i) /\ C(i) \in Nat
      OBVIOUS
  <2>1. IsFiniteSet(1..i)
      BY FS_Interval
  <2>2. IsFiniteSet(S \cap 1..i)
      BY <2>1, FS_Subset
  <2> QED BY <2>2, FS_CardinalityType
<1>2. S \cap 1..n = S
    OBVIOUS
<1>3. Cardinality(S) \in Nat /\ n \in T
    BY <1>1, <1>2
<1>4. PICK i \in T : \A y \in T : i <= y
    BY <1>3, LeastOne
<1>5. C(0) = 0
  <2>1. S \cap 1..0 = {}
      OBVIOUS
  <2> QED BY <2>1, FS_EmptySet
<1>c. k \in Nat /\ k # 0
    BY <1>3
<1> HIDE DEF C
<1>6. i \in Nat /\ i # 0 /\ C(i) >= k
    BY <1>4, <1>5, <1>c
<1>7. i - 1 \in Nat /\ C(i - 1) < k
  <2>1. i - 1 \in Nat /\ i - 1 \notin T
      BY <1>4, <1>6
  <2>2. C(i - 1) \in Nat
      BY <1>1, <2>1
  <2> QED BY <2>1, <2>2, <1>c
<1> USE DEF C
<1>8. i \in S
  <2>1. ASSUME i \notin S PROVE FALSE
    <3>1. S \cap 1..i = S \cap 1..(i - 1)
        BY <2>1, <1>6
    <3>2. C(i) = C(i - 1)
        BY <3>1
    <3>3. C(i) \in Nat
        BY <1>1, <1>6
    <3> HIDE DEF C
    <3> QED BY <3>2, <3>3, <1>6, <1>7, <1>c
  <2> QED BY <2>1
<1>9. C(i) = C(i - 1) + 1
  <2>1. S \cap 1..i = (S \cap 1..(i - 1)) \cup {i} /\ i \notin S \cap 1..(i - 1)
      BY <1>6, <1>8
  <2>2. IsFiniteSet(S \cap 1..(i - 1))
      BY <1>1, <1>7
  <2> QED BY <2>1, <2>2, FS_AddElement
<1>10. C(i) \in Nat /\ C(i - 1) \in Nat
    BY <1>1, <1>6, <1>7
<1> HIDE DEF C
<1>11. C(i) = k
    BY <1>6, <1>7, <1>9, <1>10
<1> QED BY <1>3, <1>8, <1>11 DEF C

\* Where the token that begins at i ends.
Ends(s, i, j) ==
    /\ j \in i..Len(s) /\ \A m \in i..j : s[m] # ":"
    /\ j = Len(s) \/ s[j + 1] = ":"

LEMMA TokenEnds ==
    ASSUME NEW C, NEW s \in Seq(C), NEW i \in Starts(s)
    PROVE  \E j \in i..Len(s) : Ends(s, i, j)
<1> DEFINE n == Len(s)
           T == {j \in i..n : j = n \/ s[j + 1] = ":"}
<1>1. n \in Nat /\ i \in 1..n /\ s[i] # ":"
    BY DEF Starts
<1>2. n \in T /\ T \subseteq Nat
    BY <1>1
<1>3. PICK j \in T : \A y \in T : j <= y
    BY <1>2, LeastOne
<1>4. ASSUME NEW m \in i..j, s[m] = ":" PROVE FALSE
  <2>1. m # i /\ m - 1 \in i..n /\ (m - 1) + 1 = m /\ m - 1 < j
      BY <1>1, <1>3, <1>4
  <2>2. m - 1 \in T
      BY <1>4, <2>1
  <2> QED BY <1>3, <2>1, <2>2
<1> QED BY <1>3, <1>4 DEF Ends

LEMMA TokenAtEnds ==
    ASSUME NEW s, Len(s) \in Nat, NEW i \in Nat, NEW j \in i..Len(s), Ends(s, i, j)
    PROVE  TokenAt(s, i) = SubSeq(s, i, j)
<1> DEFINE n == Len(s)
           e == CHOOSE y \in i..n : /\ \A m \in i..y : s[m] # ":"
                                    /\ y = n \/ s[y + 1] = ":"
<1>1. j \in i..n /\ (\A m \in i..j : s[m] # ":") /\ (j = n \/ s[j + 1] = ":")
    BY DEF Ends
<1>2. e \in i..n /\ (\A m \in i..e : s[m] # ":") /\ (e = n \/ s[e + 1] = ":")
    BY <1>1
<1>3. TokenAt(s, i) = SubSeq(s, i, e)
    BY DEF TokenAt
<1> HIDE DEF e, n
<1>4. e = j
  <2>1. ASSUME e < j PROVE FALSE
    <3>1. e # n /\ e + 1 \in i..j
        BY <1>1, <1>2, <2>1 DEF n
    <3> QED BY <1>1, <1>2, <3>1
  <2>2. ASSUME j < e PROVE FALSE
    <3>1. j # n /\ j + 1 \in i..e
        BY <1>1, <1>2, <2>2 DEF n
    <3> QED BY <1>1, <1>2, <3>1
  <2> QED BY <1>1, <1>2, <2>1, <2>2 DEF n
<1> QED BY <1>3, <1>4

\* Tokens are not empty, as strtok's are not.
LEMMA TokensAreNot ==
    ASSUME NEW C, NEW x \in Seq(C)
    PROVE  Tokens(x) \in Seq(Seq(C) \ {NoTok})
<1> DEFINE S == Starts(x)
           n == Len(x)
           c == Cardinality(S)
<1>1. n \in Nat
    OBVIOUS
<1>2. S \subseteq 1..n
    BY DEF Starts
<1>3. c \in Nat
  <2>1. IsFiniteSet(1..n)
      BY <1>1, FS_Interval
  <2> QED BY <1>2, <2>1, FS_Subset, FS_CardinalityType
<1>4. ASSUME NEW i \in S PROVE TokenAt(x, i) \in Seq(C) \ {NoTok}
  <2>1. i \in 1..n /\ i \in Starts(x)
      BY <1>2, <1>4
  <2>2. PICK j \in i..n : Ends(x, i, j)
      BY <2>1, TokenEnds
  <2>3. TokenAt(x, i) = SubSeq(x, i, j)
      BY <1>1, <2>1, <2>2, TokenAtEnds
  <2>4. SubSeq(x, i, j) \in Seq(C) /\ Len(SubSeq(x, i, j)) = j - i + 1
      BY <1>1, <2>1, <2>2
  <2>5. Len(SubSeq(x, i, j)) # 0
      BY <2>1, <2>2, <2>4, <1>1
  <2> QED BY <2>3, <2>4, <2>5, EmptySeq DEF NoTok
<1> DEFINE at(k) == CHOOSE i \in S : Cardinality(S \cap 1..i) = k
<1>5. \A k \in 1..c : at(k) \in S
    BY <1>1, <1>2, KthIsThere
<1>6. \A k \in 1..c : TokenAt(x, at(k)) \in Seq(C) \ {NoTok}
    BY <1>4, <1>5
<1>7. Tokens(x) = [k \in 1..c |-> TokenAt(x, at(k))]
    BY DEF Tokens
<1> HIDE DEF c, at
<1> QED BY <1>3, <1>6, <1>7, IsASeq

LEMMA SoFarBegins ==
    ASSUME NEW p, NEW toks \in Seq(Seq(Chars) \ {NoTok})
    PROVE  SoFar(p, <<>>, toks, toks)
<1>1. <<>> \in Seq(Seq(Chars)) /\ Len(<<>>) = 0
    OBVIOUS
<1>2. Len(toks) \in Nat
    OBVIOUS
<1> QED BY <1>1, <1>2 DEF SoFar

LEMMA SoFarGoesOn ==
    ASSUME NEW p \in Techs, NEW bands, NEW toks, Len(toks) \in Nat, NEW rest,
           SoFar(p, bands, toks, rest), rest # <<>>
    PROVE  /\ Head(rest) # NoTok
           /\ SoFar(p, Append(bands, <<BandPrefix[p]>> \o Head(rest)), toks, Tail(rest))
<1> DEFINE b == <<BandPrefix[p]>> \o Head(rest)
           more == Append(bands, b)
           left == Tail(rest)
           n == Len(bands)
<1>1. /\ bands \in Seq(Seq(Chars)) /\ rest \in Seq(Seq(Chars) \ {NoTok})
      /\ n + Len(rest) = Len(toks) /\ n \in Nat /\ Len(rest) \in Nat \ {0}
      /\ \A i \in 1..n : bands[i] = <<BandPrefix[p]>> \o toks[i]
      /\ \A i \in 1..Len(rest) : rest[i] = toks[n + i]
    BY EmptySeq DEF SoFar
<1>2. Head(rest) = rest[1] /\ Head(rest) \in Seq(Chars) \ {NoTok} /\ rest[1] = toks[n + 1]
    BY <1>1
<1>3. BandPrefix[p] \in Chars
    BY EachTech DEF Chars
<1>4. b \in Seq(Chars) /\ b = <<BandPrefix[p]>> \o toks[n + 1]
    BY <1>2, <1>3
<1>5. /\ left \in Seq(Seq(Chars) \ {NoTok}) /\ Len(left) = Len(rest) - 1
      /\ \A i \in 1..Len(left) : left[i] = rest[i + 1]
    BY <1>1, HeadTailProperties
<1> HIDE DEF b, left
<1>6. /\ more \in Seq(Seq(Chars)) /\ Len(more) = n + 1 /\ more[n + 1] = b
      /\ \A i \in 1..n : more[i] = bands[i]
    BY <1>1, <1>4
<1> HIDE DEF more, n
<1>7. ASSUME NEW i \in 1..Len(more) PROVE more[i] = <<BandPrefix[p]>> \o toks[i]
  <2>1. CASE i = n + 1
      BY <1>4, <1>6, <2>1
  <2>2. CASE i \in 1..n
      BY <1>1, <1>6, <2>2
  <2> QED BY <1>1, <1>6, <2>1, <2>2
<1>8. ASSUME NEW i \in 1..Len(left) PROVE left[i] = toks[Len(more) + i]
  <2>1. i + 1 \in 1..Len(rest) /\ n + (i + 1) = Len(more) + i
      BY <1>1, <1>5, <1>6
  <2> QED BY <1>1, <1>5, <2>1
<1>9. Len(more) + Len(left) = Len(toks)
  <2>1. \A x, y \in Nat : (x + 1) + (y - 1) = x + y
      OBVIOUS
  <2>2. Len(more) = n + 1 /\ Len(left) = Len(rest) - 1 /\ n \in Nat /\ Len(rest) \in Nat
        /\ n + Len(rest) = Len(toks)
      BY <1>1, <1>5, <1>6
  <2> QED BY <2>1, <2>2
<1>10. SoFar(p, more, toks, left)
    BY <1>5, <1>6, <1>7, <1>8, <1>9 DEF SoFar
<1> QED BY <1>2, <1>10 DEF more, b, left

LEMMA SoFarEnds ==
    ASSUME NEW p \in Techs, NEW bands, NEW toks \in Seq(Seq(Chars) \ {NoTok}),
           SoFar(p, bands, toks, <<>>)
    PROVE  bands = [i \in DOMAIN toks |-> <<BandPrefix[p]>> \o toks[i]]
<1>1. /\ bands \in Seq(Seq(Chars)) /\ Len(bands) + Len(<<>>) = Len(toks)
      /\ \A i \in 1..Len(bands) : bands[i] = <<BandPrefix[p]>> \o toks[i]
    BY DEF SoFar
<1>2. Len(bands) = Len(toks) /\ Len(bands) \in Nat
    BY <1>1
<1>3. bands = [i \in 1..Len(bands) |-> bands[i]] /\ DOMAIN toks = 1..Len(bands)
    BY <1>1, <1>2
<1> QED BY <1>1, <1>3

\* A sequence over a set is one over a larger set.
LEMMA SeqWidens ==
    ASSUME NEW S, NEW T, S \subseteq T, NEW x \in Seq(S)
    PROVE  x \in Seq(T)
<1>1. Len(x) \in Nat /\ x = [i \in 1..Len(x) |-> x[i]] /\ \A i \in 1..Len(x) : x[i] \in T
    BY LenProperties, ElementOfSeq
<1>2. [i \in 1..Len(x) |-> x[i]] \in Seq(T)
    BY <1>1, IsASeq
<1> QED BY <1>1, <1>2

\* What a line begins with, and what follows.
LEMMA OneAndRest ==
    ASSUME NEW p, NEW S, NEW x \in Seq(S)
    PROVE  /\ <<p>> \o x # <<>> /\ Head(<<p>> \o x) = p
           /\ Tail(<<p>> \o x) = x
<1> DEFINE T == S \cup {p}
           y == <<p>> \o x
<1>1. x \in Seq(T) /\ <<p>> \in Seq(T) /\ Len(<<p>>) = 1 /\ Len(x) \in Nat
    BY SeqWidens
<1> HIDE DEF T
<1>2. /\ y \in Seq(T) /\ Len(y) = Len(x) + 1 /\ y[1] = p
      /\ \A i \in 1..Len(x) : y[i + 1] = x[i]
    BY <1>1
<1> HIDE DEF y
<1>3. y # <<>> /\ Head(y) = p
    BY <1>1, <1>2, EmptySeq
<1>4. /\ Tail(y) \in Seq(T) /\ Len(Tail(y)) = Len(y) - 1
      /\ \A i \in 1..Len(Tail(y)) : Tail(y)[i] = y[i + 1]
    BY <1>2, <1>3, HeadTailProperties
<1>5. Len(Tail(y)) = Len(x) /\ \A i \in 1..Len(x) : Tail(y)[i] = x[i]
    BY <1>1, <1>2, <1>4
<1>6. Tail(y) = x
    BY <1>1, <1>4, <1>5, SeqEqual
<1> QED BY <1>3, <1>6 DEF y

LEMMA PlainTokens ==
    ASSUME PlainTexts, NEW x \in BandTexts
    PROVE  /\ x \in Seq(STRING) /\ Cleaned(x) = x
           /\ Tokens(x) \in Seq(Seq(Chars) \ {NoTok}) /\ Len(Tokens(x)) \in Nat
<1>1. x \in Seq(STRING) /\ Cleaned(x) = x
    BY DEF PlainTexts
<1>2. x \in Seq(Chars)
    BY <1>1, SeqWidens DEF Chars
<1>3. Tokens(x) \in Seq(Seq(Chars) \ {NoTok})
    BY <1>2, TokensAreNot
<1>4. Len(Tokens(x)) \in Nat
    BY <1>3
<1> QED BY <1>1, <1>3, <1>4

\* What is known in the loop over the bands for p, and before it.
LEMMA AmidBands ==
    ASSUME AllGood, BandInv, NEW w \in Workers, NEW p \in Techs,
           job[w].pc \in {BandsIn[p], MoreIn[p]}, job[w].answer # Spoilt
    PROVE  LET j == job[w]
           IN  /\ DOMAIN j.answer.bands = Techs
               /\ p = "lte" => j.lines["nr"] = LineOf(j, "nr") /\ j.answer.bands["nr"] = <<>>
               /\ p = "nr" => Complete(j, "lte")
<1> DEFINE j == job[w]
<1>1. Banding(w, j, saved, line)
    BY JobIsBandWise
<1>2. \/ p = "lte" /\ j.pc \in {"bands lte", "more lte"}
      \/ p = "nr" /\ j.pc \in {"bands nr", "more nr"}
    BY EachTech
<1>3. CASE j.pc = "bands lte"
  <2>1. j.answer = NoAnswer
      BY <1>1, <1>3 DEF Banding, OnBands
  <2>2. DOMAIN j.answer.bands = Techs /\ j.answer.bands["nr"] = <<>>
    <3>1. j.answer.bands = NoBands
        BY <2>1, NoAnswerHasNoBands
    <3> QED BY <3>1, NoBandsIsTold DEF Techs
  <2> QED BY <1>1, <1>2, <1>3, <2>2 DEF Banding
<1>4. CASE j.pc \in {"more lte", "bands nr", "more nr"}
    BY <1>1, <1>2, <1>4 DEF Banding
<1> QED BY <1>2, <1>3, <1>4

\* One band more, or the end of them, where rest are to come.
LEMMA AddBandOn ==
    ASSUME PlainTexts, AllGood, BandInv, NEW w \in Workers, NEW p \in Techs,
           job[w].pc \in {BandsIn[p], MoreIn[p]}, NEW t, NEW rest, NEW s, NEW l,
           job[w].answer # Spoilt =>
               /\ SoFar(p, job[w].answer.bands[p], Tokens(job[w].told[p]), rest)
               /\ t = First(rest)
               /\ rest # <<>> => IsAt(w, s, p, ":") /\ s.rest = Tail(rest)
    PROVE  BandWise(w, AddBand(w, p, t), s, l)
<1> DEFINE j == job[w]
           toks == Tokens(j.told[p])
           lines == [j.lines EXCEPT ![p] = NoTok]
<1>1. DOMAIN j = JobFields /\ DOMAIN j.answer = AnswerFields /\ Maps(j)
    BY JobIsGood, JobIsBandWise DEF Shape
<1>2. toks \in Seq(Seq(Chars) \ {NoTok}) /\ Len(toks) \in Nat
    BY <1>1, PlainTokens DEF Maps
<1>3. j.answer # Spoilt =>
          /\ DOMAIN j.answer.bands = Techs
          /\ p = "lte" => j.lines["nr"] = LineOf(j, "nr") /\ j.answer.bands["nr"] = <<>>
          /\ p = "nr" => Complete(j, "lte")
    BY AmidBands
<1>4. DOMAIN lines = Techs /\ (p = "lte" => lines["nr"] = j.lines["nr"])
    BY <1>1 DEF Maps, Techs
<1>5. j.answer # Spoilt => (rest = <<>> <=> t = NoTok)
  <2> SUFFICES ASSUME j.answer # Spoilt PROVE rest = <<>> <=> t = NoTok
      OBVIOUS
  <2>1. rest # <<>> => Head(rest) # NoTok
      BY <1>2, SoFarGoesOn
  <2> QED BY <2>1 DEF First
<1>6. ASSUME j.answer # Spoilt, t = NoTok PROVE Complete(j, p)
  <2>1. SoFar(p, j.answer.bands[p], toks, <<>>)
      BY <1>5, <1>6
  <2> QED BY <1>2, <2>1, SoFarEnds DEF Complete
<1>7. ASSUME t # NoTok PROVE BandWise(w, AddBand(w, p, t), s, l)
  <2> DEFINE x == <<BandPrefix[p]>> \o t
             now == Append(j.answer.bands[p], x)
             b == [j.answer EXCEPT !.bands[p] = now]
             a == With(j.answer, b)
             more == MoreIn[p]
             k == [j EXCEPT !.buf = p, !.pc = more, !.lines = lines, !.answer = a]
  <2>1. AddBand(w, p, t) = k
      BY <1>7 DEF AddBand
  <2> HIDE DEF x, now
  <2>2. j.answer # Spoilt =>
            /\ DOMAIN b.bands = Techs /\ b.bands[p] = now
            /\ \A q \in Techs : q # p => b.bands[q] = j.answer.bands[q]
      BY <1>1, <1>3 DEF AnswerFields
  <2> HIDE DEF b
  <2>3. a # Spoilt => j.answer # Spoilt /\ a = b
      BY DEF With
  <2> HIDE DEF a, more, lines
  <2>4. /\ k.told = j.told /\ k.got = j.got /\ k.lines = lines /\ k.buf = p
        /\ k.pc = more /\ k.answer = a
      BY <1>1 DEF JobFields
  <2> HIDE DEF k
  <2>5. Maps(k)
      BY <1>1, <1>4, <2>4 DEF Maps
  <2>6. ASSUME k.answer # Spoilt PROVE Banding(w, k, s, l)
    <3>1. j.answer # Spoilt /\ k.answer = b /\ rest # <<>> /\ t = Head(rest)
        BY <1>5, <1>7, <2>3, <2>4, <2>6 DEF First
    <3>2. IsAt(w, s, p, ":") /\ s.rest = Tail(rest)
        BY <3>1
    <3>3. SoFar(p, now, toks, Tail(rest))
        BY <1>2, <3>1, SoFarGoesOn DEF x, now
    <3>4. SoFar(p, k.answer.bands[p], Tokens(k.told[p]), s.rest)
        BY <2>2, <2>4, <3>1, <3>2, <3>3
    <3>5. CASE p = "lte"
      <4>1. k.pc = "more lte"
          BY <2>4, <3>5, EachTech DEF more
      <4>2. k.lines["nr"] = LineOf(k, "nr")
          BY <1>3, <1>4, <2>4, <3>1, <3>5 DEF LineOf
      <4>3. DOMAIN k.answer.bands = Techs /\ k.answer.bands["nr"] = <<>>
          BY <1>3, <2>2, <3>1, <3>5 DEF Techs
      <4>4. \A q \in Techs : k.pc = MoreIn[q] => q = p
          BY <3>5, <4>1, EachTech
      <4> QED BY <2>4, <3>2, <3>4, <4>1, <4>2, <4>3, <4>4 DEF Banding
    <3>6. CASE p = "nr"
      <4>1. k.pc = "more nr"
          BY <2>4, <3>6, EachTech DEF more
      <4>2. Complete(k, "lte")
        <5>1. k.answer.bands["lte"] = j.answer.bands["lte"] /\ k.told = j.told
            BY <2>2, <2>4, <3>1, <3>6 DEF Techs
        <5> QED BY <1>3, <3>1, <3>6, <5>1 DEF Complete
      <4>3. DOMAIN k.answer.bands = Techs
          BY <2>2, <3>1
      <4>4. \A q \in Techs : k.pc = MoreIn[q] => q = p
          BY <3>6, <4>1, EachTech
      <4> QED BY <2>4, <3>2, <3>4, <4>1, <4>2, <4>3, <4>4 DEF Banding
    <3> QED BY <3>5, <3>6 DEF Techs
  <2>7. BandWise(w, k, s, l)
      BY <2>5, <2>6 DEF BandWise
  <2> QED BY <2>1, <2>7
<1>8. ASSUME t = NoTok, p = "lte" PROVE BandWise(w, AddBand(w, p, t), s, l)
  <2> DEFINE k == [j EXCEPT !.buf = "none", !.pc = "bands nr", !.lines = lines]
  <2>1. AddBand(w, p, t) = k
      BY <1>8 DEF AddBand
  <2> HIDE DEF lines
  <2>2. /\ k.told = j.told /\ k.got = j.got /\ k.lines = lines
        /\ k.pc = "bands nr" /\ k.answer = j.answer
      BY <1>1 DEF JobFields
  <2> HIDE DEF k
  <2>3. Maps(k)
      BY <1>1, <1>4, <2>2 DEF Maps
  <2>4. ASSUME k.answer # Spoilt PROVE Banding(w, k, s, l)
    <3>1. Complete(k, "lte")
        BY <1>6, <1>8, <2>2, <2>4 DEF Complete
    <3>2. k.lines["nr"] = LineOf(k, "nr")
        BY <1>3, <1>4, <1>8, <2>2, <2>4 DEF LineOf
    <3>3. DOMAIN k.answer.bands = Techs /\ k.answer.bands["nr"] = <<>>
        BY <1>3, <1>8, <2>2, <2>4
    <3>4. \A q \in Techs : k.pc # MoreIn[q]
        BY <2>2, EachTech
    <3> QED BY <2>2, <3>1, <3>2, <3>3, <3>4 DEF Banding
  <2>5. BandWise(w, k, s, l)
      BY <2>3, <2>4 DEF BandWise
  <2> QED BY <2>1, <2>5
<1>9. ASSUME t = NoTok, p = "nr" PROVE BandWise(w, AddBand(w, p, t), s, l)
  <2> DEFINE b == [j.answer EXCEPT !.of = j.name]
             a == With(j.answer, b)
             i == [j EXCEPT !.answer = a, !.pc = "done"]
  <2>1. AddBand(w, p, t) = [i EXCEPT !.buf = "none", !.lines[p] = NoTok]
      BY <1>9 DEF AddBand, Answers
  <2>2. b.bands = j.answer.bands
      BY <1>1 DEF AnswerFields
  <2>3. a # Spoilt => j.answer # Spoilt /\ a = b
      BY DEF With
  <2> HIDE DEF a, b
  <2>4. /\ DOMAIN i = JobFields /\ i.told = j.told /\ i.got = j.got /\ i.lines = j.lines
        /\ i.pc = "done" /\ i.answer = a
      BY <1>1 DEF JobFields
  <2> HIDE DEF i
  <2> DEFINE m == [i EXCEPT !.buf = "none", !.lines = lines]
  <2>5. AddBand(w, p, t) = m
      BY <2>1, <2>4
  <2> HIDE DEF lines
  <2>6. /\ m.told = j.told /\ m.got = j.got /\ m.lines = lines /\ m.pc = "done" /\ m.answer = a
      BY <2>4 DEF JobFields
  <2> HIDE DEF m
  <2>7. Maps(m)
      BY <1>1, <1>4, <2>6 DEF Maps
  <2>8. ASSUME m.answer # Spoilt PROVE Banding(w, m, s, l)
    <3>1. Complete(j, "lte") /\ Complete(j, "nr")
        BY <1>3, <1>6, <1>9, <2>3, <2>6, <2>8
    <3>2. m.answer.bands = j.answer.bands /\ m.told = j.told
        BY <2>2, <2>3, <2>6, <2>8
    <3>3. \A q \in Techs : Complete(m, q)
        BY <3>1, <3>2 DEF Complete, Techs
    <3>4. \A q \in Techs : m.pc # MoreIn[q]
        BY <2>6, EachTech
    <3> QED BY <2>6, <3>3, <3>4 DEF Banding, OnBands
  <2>9. BandWise(w, m, s, l)
      BY <2>7, <2>8 DEF BandWise
  <2> QED BY <2>5, <2>9
<1> QED BY <1>7, <1>8, <1>9 DEF Techs

LEMMA BandsOfLine ==
    ASSUME PlainTexts, BandInv, NEW w \in Workers, NEW p \in Techs, job[w].pc = BandsIn[p],
           job[w].answer # Spoilt
    PROVE  /\ HasLine(w, p) /\ BandsOf(w, p) = Tokens(job[w].told[p])
           /\ SoFar(p, job[w].answer.bands[p], Tokens(job[w].told[p]), BandsOf(w, p))
<1> DEFINE j == job[w]
<1>1. Banding(w, j, saved, line) /\ Maps(j)
    BY JobIsBandWise
<1>2. j.lines[p] = LineOf(j, p) /\ j.answer.bands[p] = <<>>
  <2>1. CASE p = "lte" /\ j.pc = "bands lte"
    <3>1. j.answer = NoAnswer
        BY <1>1, <2>1 DEF Banding, OnBands
    <3>2. j.answer.bands = NoBands
        BY <3>1, NoAnswerHasNoBands
    <3> QED BY <1>1, <2>1, <3>2, NoBandsIsTold DEF Banding
  <2>2. CASE p = "nr" /\ j.pc = "bands nr"
      BY <1>1, <2>2 DEF Banding
  <2> QED BY <2>1, <2>2, EachTech
<1>3. j.told[p] \in Seq(STRING) /\ Cleaned(j.told[p]) = j.told[p]
      /\ Tokens(j.told[p]) \in Seq(Seq(Chars) \ {NoTok})
    BY <1>1, PlainTokens DEF Maps
<1>4. j.lines[p] # NoTok /\ Head(j.lines[p]) = p /\ Tail(j.lines[p]) = j.told[p]
    BY <1>2, <1>3, OneAndRest DEF LineOf, NoTok
<1>5. BandsOf(w, p) = Tokens(j.told[p])
    BY <1>3, <1>4 DEF BandsOf
<1> QED BY <1>2, <1>3, <1>4, <1>5, SoFarBegins DEF HasLine

LEMMA AddBandBuffer ==
    ASSUME AllGood, NEW w \in Workers, NEW p \in Techs, NEW t, t # NoTok
    PROVE  AddBand(w, p, t).buf = p
<1> DEFINE a == With(job[w].answer, [job[w].answer EXCEPT !.bands[p] =
                                         Append(@, <<BandPrefix[p]>> \o t)])
           more == MoreIn[p]
           lines == [job[w].lines EXCEPT ![p] = NoTok]
<1>1. AddBand(w, p, t) = [job[w] EXCEPT !.buf = p, !.pc = more, !.lines = lines, !.answer = a]
    BY DEF AddBand
<1> HIDE DEF a, more, lines
<1> QED BY <1>1, JobIsGood DEF JobFields

\* strtok's first token, and its next one.
LEMMA BandsOn ==
    ASSUME PlainTexts, AllGood, BandInv, NEW w \in Workers, NEW p \in Techs, Bands(w, p)
    PROVE  BandInv'
<1> DEFINE rest == BandsOf(w, p)
           t == First(rest)
<1>1. job[w].pc = BandsIn[p]
    BY DEF Bands, At
<1>2. job[w].answer # Spoilt =>
          /\ HasLine(w, p)
          /\ SoFar(p, job[w].answer.bands[p], Tokens(job[w].told[p]), rest)
    BY <1>1, BandsOfLine
<1>3. CASE ~HasLine(w, p)
  <2>1. Local(w, AddBand(w, p, NoTok))
      BY <1>3 DEF Bands
  <2>2. job[w].answer = Spoilt
      BY <1>2, <1>3
  <2>3. BandWise(w, AddBand(w, p, NoTok), saved, line)
      BY <1>1, <2>2, AddBandOn
  <2> QED BY <2>1, <2>3, LocalMovesOn
<1>4. CASE HasLine(w, p)
  <2>1. /\ saved' = Place([by |-> w, buf |-> p, delim |-> ":", rest |-> Rest(rest)],
                          w, AddBand(w, p, t))
        /\ job' = Spoils(w, Amid(w), AddBand(w, p, t))
        /\ line' = line /\ locked' = locked
      BY <1>4 DEF Bands, Begins
  <2>2. ASSUME job[w].answer # Spoilt, rest # <<>> PROVE IsAt(w, saved', p, ":") /\ saved'.rest = Tail(rest)
    <3>1. t # NoTok
      <4>1. Head(rest) # NoTok
        <5>1. Len(Tokens(job[w].told[p])) \in Nat
            BY PlainTokens, JobIsBandWise DEF Maps
        <5> QED BY <1>2, <2>2, <5>1, SoFarGoesOn
      <4> QED BY <2>2, <4>1 DEF First
    <3>2. AddBand(w, p, t).buf = p
        BY <3>1, AddBandBuffer
    <3> DEFINE k == AddBand(w, p, t)
               left == Tail(rest)
    <3>3. Rest(rest) = left
        BY <2>2 DEF Rest
    <3> HIDE DEF k, left
    <3>4. saved' = Place([by |-> w, buf |-> p, delim |-> ":", rest |-> left], w, k) /\ k.buf = p
        BY <2>1, <3>2, <3>3 DEF k
    <3>5. saved' = [by |-> w, buf |-> p, delim |-> ":", rest |-> left]
        BY <3>4 DEF Place
    <3>6. IsAt(w, saved', p, ":") /\ saved'.rest = left
        BY <3>5 DEF IsAt
    <3> QED BY <3>6 DEF left
  <2>3. BandWise(w, AddBand(w, p, t), saved', line')
    <3> DEFINE s == saved'
    <3>1. job[w].answer # Spoilt /\ rest # <<>> => IsAt(w, s, p, ":") /\ s.rest = Tail(rest)
        BY <2>2
    <3> HIDE DEF rest, s
    <3>2. BandWise(w, AddBand(w, p, t), s, line')
        BY <1>1, <1>2, <3>1, AddBandOn
    <3> QED BY <3>2 DEF s
  <2> QED BY <2>1, <2>3, OneMovesOn
<1> QED BY <1>3, <1>4

LEMMA MoreBandsOn ==
    ASSUME PlainTexts, AllGood, BandInv, NEW w \in Workers, NEW p \in Techs, MoreBands(w, p)
    PROVE  BandInv'
<1> DEFINE j == job[w]
           rest == saved.rest
<1>1. PICK f \in Found(":") :
          /\ saved' = Place(f[2], w, AddBand(w, p, f[1]))
          /\ job' = Spoils(w, Amid(w), AddBand(w, p, f[1]))
    BY DEF MoreBands, Continues
<1>2. job[w].pc = MoreIn[p] /\ line' = line /\ locked' = locked
    BY DEF MoreBands, Continues, At
<1>3. ASSUME j.answer # Spoilt
      PROVE  /\ j.buf = p /\ IsAt(w, saved, p, ":")
             /\ SoFar(p, j.answer.bands[p], Tokens(j.told[p]), rest)
    BY <1>2, <1>3, JobIsBandWise DEF Banding
<1>4. ASSUME j.answer # Spoilt
      PROVE  IF rest = <<>> THEN f[1] = NoTok
             ELSE /\ f[1] = Head(rest)
                  /\ f[2] = [by |-> w, buf |-> p, delim |-> ":", rest |-> Tail(rest)]
  <2>1. p # "none"
      BY EachTech
  <2> QED BY <1>3, <1>4, <2>1, FoundOwn
<1>5. ASSUME j.answer # Spoilt
      PROVE  /\ f[1] = First(rest)
             /\ rest # <<>> => IsAt(w, saved', p, ":") /\ saved'.rest = Tail(rest)
  <2>1. CASE rest = <<>>
      BY <1>4, <1>5, <2>1 DEF First
  <2>2. CASE rest # <<>>
    <3> DEFINE left == Tail(rest)
               t == f[1]
               k == AddBand(w, p, t)
    <3>1. t = Head(rest) /\ f[2] = [by |-> w, buf |-> p, delim |-> ":", rest |-> left]
        BY <1>4, <1>5, <2>2
    <3>2. t # NoTok
      <4>1. Len(Tokens(j.told[p])) \in Nat
          BY PlainTokens, JobIsBandWise DEF Maps
      <4> QED BY <1>3, <1>5, <2>2, <3>1, <4>1, SoFarGoesOn
    <3>3. k.buf = p
        BY <3>2, AddBandBuffer
    <3>4. saved' = Place(f[2], w, k)
        BY <1>1
    <3> HIDE DEF left, k, t
    <3>5. saved' = [by |-> w, buf |-> p, delim |-> ":", rest |-> left]
        BY <3>1, <3>3, <3>4 DEF Place
    <3>6. IsAt(w, saved', p, ":") /\ saved'.rest = left
        BY <3>5 DEF IsAt
    <3> QED BY <2>2, <3>1, <3>6 DEF First, left, t
  <2> QED BY <2>1, <2>2
<1>6. BandWise(w, AddBand(w, p, f[1]), saved', line')
  <2> DEFINE s == saved'
             t == f[1]
  <2>1. j.answer # Spoilt =>
            /\ SoFar(p, j.answer.bands[p], Tokens(j.told[p]), rest)
            /\ t = First(rest)
            /\ rest # <<>> => IsAt(w, s, p, ":") /\ s.rest = Tail(rest)
      BY <1>3, <1>5
  <2> HIDE DEF rest, s, t
  <2>2. BandWise(w, AddBand(w, p, t), s, line')
      BY <1>2, <2>1, AddBandOn
  <2> QED BY <2>2 DEF s, t
<1> QED BY <1>1, <1>2, <1>6, OneMovesOn

----------------------------------------------------------------------------
LEMMA BandInvStays == PlainTexts /\ AllGood /\ BandInv /\ [Next]_vars => BandInv'
<1> SUFFICES ASSUME PlainTexts, AllGood, BandInv, [Next]_vars PROVE BandInv'
    OBVIOUS
<1>1. ASSUME UNCHANGED <<job, saved, line, locked>> PROVE BandInv'
    BY <1>1 DEF BandInv
<1>2. ASSUME NEW w \in Workers, Get(w) PROVE BandInv'
  <2>1. CASE GetDefault(w) \/ GetDirect(w) \/ GetText(w) \/ GetSignal(w)
      BY <2>1, TextsOn
  <2>2. CASE GetScan(w) \/ GetNumber(w)
      BY <2>2, GetScanOn, GetNumberOn
  <2>3. CASE GetSignalWild(w)
      BY <1>1, <2>3 DEF GetSignalWild, Crashes
  <2>4. CASE GetRows(w) \/ MoreRows(w) \/ GetNoRows(w)
      BY <2>4, RowsOn
  <2>5. ASSUME NEW p \in Techs, GetBands(w, p) \/ GetBandsDefault(w, p) \/ CopyBands(w, p)
        PROVE  BandInv'
      BY <2>5, GetBandsOn, GetBandsDefaultOn, CopyBandsOn
  <2>6. CASE Split(w) \/ SplitNr(w)
      BY <2>6, SplitOn, SplitNrOn
  <2>7. ASSUME NEW p \in Techs, Bands(w, p) \/ MoreBands(w, p) PROVE BandInv'
      BY <2>7, BandsOn, MoreBandsOn
  <2> QED BY <1>2, <2>1, <2>2, <2>3, <2>4, <2>5, <2>6, <2>7 DEF Get
<1>3. ASSUME NEW w \in Workers, Post(w) PROVE BandInv'
  <2>1. CASE PostLockBand(w) \/ PostOther(w) \/ PostRelease(w)
      BY <2>1, PostsOn
  <2>2. CASE PostReleaseTwice(w)
      BY <1>1, <2>2 DEF PostReleaseTwice, Crashes
  <2> QED BY <1>3, <2>1, <2>2 DEF Post
<1>4. ASSUME NEW w \in Workers, Take(w) \/ Serve(w) PROVE BandInv'
  <2>1. CASE Parts(w) \/ Count(w) \/ Again(w) \/ Find(w)
      BY <2>1, WalkOn
  <2>2. CASE Take(w) \/ Matches(w) \/ Finish(w)
      BY <2>2, TakesOn, MatchesOn
  <2>3. CASE MatchesWild(w)
      BY <1>1, <2>3 DEF MatchesWild, Crashes
  <2> QED BY <1>2, <1>3, <1>4, <2>1, <2>2, <2>3 DEF Serve
<1> QED BY <1>1, <1>4 DEF Next, vars

LEMMA BandInvBegins == Init => BandInv
<1> SUFFICES ASSUME Init PROVE BandInv
    OBVIOUS
<1>1. DOMAIN locked = Techs /\ \A p \in Techs : locked[p] \in BandTexts
    BY BoundsAssumption DEF Init, BandTexts
<1>2. ASSUME NEW w \in Workers PROVE BandWise(w, job[w], saved, line)
  <2>1. job[w] = Idle("")
      BY DEF Init
  <2>2. Maps(job[w]) /\ job[w].pc \notin OnBands /\ job[w].pc # "done"
      BY <2>1, IdleMaps DEF OnBands
  <2> QED BY <2>2, Elsewhere
<1> QED BY <1>1, <1>2 DEF BandInv

\* The bands in an answer to a question for the bands in use are those that the
\* modem told, all of them and in that order, each with the letter of its own
\* technology (request_proc.c:145-197), as long as no other thread broke into the
\* loops that take them apart and the texts hold neither commas nor dashes.
THEOREM BandsAreAsTold == ASSUME PlainTexts PROVE Spec => []BandsAsTold
<1>1. AllGood /\ BandInv => BandsAsTold
  <2> SUFFICES ASSUME AllGood, BandInv, NEW w \in Workers, Undisturbed(w),
                      Meant(job[w].req) = "lockband", job[w].req.method = "GET", NEW p \in Techs
               PROVE  Complete(job[w], p)
      BY DEF BandsAsTold, Complete
  <2>1. Handler(job[w].req, job[w].answer.of) = "lockband"
      BY UndisturbedIsGood
  <2>2. Banding(w, job[w], saved, line)
      BY JobIsBandWise DEF Undisturbed
  <2> QED BY <2>1, <2>2 DEF Undisturbed, Banding
<1>2. Inv => AllGood
    BY DEF Inv
<1> QED BY <1>1, <1>2, BandInvBegins, BandInvStays, Invariance, PTL DEF Spec

----------------------------------------------------------------------------
(****************************************************************************)
(* The bands in a document: from the array to the text, and from the text   *)
(* to its tokens.                                                           *)
(****************************************************************************)
\* A loop over 1..n that carries a value of V along has a value at each place.
Steps(n, V) == [(1..n) \X V -> V]

Runs(n, b, step, f) == f[0] = b /\ \A i \in 1..n : f[i] = step[<<i, f[i - 1]>>]

LEMMA LoopHasValues ==
    ASSUME NEW V, NEW b \in V, NEW n \in Nat, NEW step \in Steps(n, V)
    PROVE  \E f \in [0..n -> V] : Runs(n, b, step, f)
<1> USE DEF Steps, Runs
<1> DEFINE T == {m \in 0..n : ~ \E f \in [0..m -> V] : Runs(m, b, step, f)}
<1>1. T \subseteq Nat
    OBVIOUS
<1>2. ASSUME T # {} PROVE FALSE
  <2>1. PICK m \in T : \A y \in T : m <= y
      BY <1>1, <1>2, LeastOne
  <2>2. CASE m = 0
    <3> DEFINE f == [i \in 0..0 |-> b]
    <3>1. f \in [0..0 -> V] /\ Runs(0, b, step, f)
        OBVIOUS
    <3> QED BY <2>1, <2>2, <3>1
  <2>3. CASE m # 0
    <3>1. m \in 1..n /\ m - 1 \in 0..n /\ ~(m <= m - 1)
        BY <2>1, <2>3
    <3>2. PICK f \in [0..(m - 1) -> V] : Runs(m - 1, b, step, f)
        BY <2>1, <3>1
    <3>3. f[m - 1] \in V
        BY <3>1, <3>2
    <3> DEFINE x == step[<<m, f[m - 1]>>]
               g == [i \in 0..m |-> IF i = m THEN x ELSE f[i]]
    <3>4. x \in V
        BY <3>1, <3>3
    <3>5. \A i \in 0..m : i # m => i \in 0..(m - 1)
        BY <3>1
    <3> HIDE DEF x
    <3>6. g \in [0..m -> V]
        BY <3>2, <3>4, <3>5
    <3>7. g[0] = b /\ g[m] = x /\ g[m - 1] = f[m - 1]
        BY <3>1, <3>2, <3>5
    <3>8. ASSUME NEW i \in 1..(m - 1) PROVE g[i] = step[<<i, g[i - 1]>>]
      <4>1. i \in 0..m /\ i # m /\ i - 1 \in 0..m /\ i - 1 # m
          BY <3>1
      <4>2. g[i] = f[i] /\ g[i - 1] = f[i - 1]
          BY <4>1
      <4> QED BY <3>2, <4>2
    <3>9. \A i \in 1..m : i = m \/ i \in 1..(m - 1)
        BY <3>1
    <3>10. Runs(m, b, step, g)
      <4> HIDE DEF g
      <4> QED BY <3>7, <3>8, <3>9 DEF x
    <3> QED BY <2>1, <3>6, <3>10
  <2> QED BY <2>2, <2>3
<1>3. n \in 0..n
    OBVIOUS
<1> QED BY <1>2, <1>3

\* What removePrefix has written when it has read the first i characters.
Dst(s, d) ==
    /\ d[0] = <<>>
    /\ \A i \in 1..Len(s) :
          d[i] = IF s[i] \in {"B", "N"} THEN d[i - 1] ELSE Append(d[i - 1], s[i])

LEMMA PrefixLoop ==
    ASSUME NEW C, NEW s \in Seq(C)
    PROVE  \E d \in [0..Len(s) -> Seq(C)] : Dst(s, d) /\ removePrefix(s) = d[Len(s)]
<1> DEFINE n == Len(s)
           V == Seq(C)
           step == [x \in (1..n) \X V |->
                       IF s[x[1]] \in {"B", "N"} THEN x[2] ELSE Append(x[2], s[x[1]])]
           body(i, d) == IF i = 0 THEN <<>>
                         ELSE IF s[i] \in {"B", "N"} THEN d[i - 1] ELSE Append(d[i - 1], s[i])
           dst == CHOOSE f : f = [i \in 0..n |-> body(i, f)]
<1>1. n \in Nat /\ <<>> \in V
    OBVIOUS
<1>2. step \in Steps(n, V)
  <2> SUFFICES ASSUME NEW i \in 1..n, NEW v \in V
               PROVE  (IF s[i] \in {"B", "N"} THEN v ELSE Append(v, s[i])) \in V
      BY DEF Steps
  <2>1. s[i] \in C
      OBVIOUS
  <2> QED BY <2>1
<1>3. PICK f \in [0..n -> V] : Runs(n, <<>>, step, f)
  <2> HIDE DEF step, V, n
  <2> QED BY <1>1, <1>2, LoopHasValues
<1>4. ASSUME NEW i \in 0..n PROVE f[i] = body(i, f)
  <2>1. CASE i = 0
      BY <1>3, <2>1 DEF Runs
  <2>2. CASE i # 0
    <3>1. i \in 1..n /\ i - 1 \in 0..n
        BY <1>1, <2>2
    <3>2. f[i - 1] \in V
        BY <1>3, <3>1
    <3>3. <<i, f[i - 1]>> \in (1..n) \X V
        BY <3>1, <3>2
    <3>4. step[<<i, f[i - 1]>>] = IF s[i] \in {"B", "N"} THEN f[i - 1] ELSE Append(f[i - 1], s[i])
        BY <3>3
    <3> QED BY <1>3, <2>2, <3>1, <3>4 DEF Runs
  <2> QED BY <2>1, <2>2
<1>5. f = [i \in 0..n |-> body(i, f)]
  <2> HIDE DEF body
  <2>1. f = [i \in 0..n |-> f[i]]
      BY <1>3
  <2> QED BY <1>4, <2>1
<1>6. dst = [i \in 0..n |-> body(i, dst)]
  <2> HIDE DEF body
  <2> QED BY <1>5
<1>7. removePrefix(s) = dst[n]
    BY DEF removePrefix
<1>8. \A i \in 0..n : dst[i] = f[i]
  <2> DEFINE T == {i \in 0..n : dst[i] # f[i]}
  <2>1. T \subseteq Nat
      OBVIOUS
  <2>2. \A i \in 0..n : dst[i] = body(i, dst)
    <3> HIDE DEF body, dst
    <3> QED BY <1>6
  <2> HIDE DEF dst
  <2>3. ASSUME T # {} PROVE FALSE
    <3>1. PICK i \in T : \A y \in T : i <= y
        BY <2>1, <2>3, LeastOne
    <3>2. i \in 0..n /\ dst[i] # f[i]
        BY <3>1
    <3>3. i # 0
        BY <1>4, <2>2, <3>2
    <3>4. i - 1 \in 0..n /\ i - 1 \notin T
        BY <1>1, <3>1, <3>2, <3>3
    <3>5. dst[i - 1] = f[i - 1]
        BY <3>4
    <3>6. body(i, dst) = body(i, f)
        BY <3>5
    <3> QED BY <1>4, <2>2, <3>2, <3>6
  <2> QED BY <2>3
<1>9. removePrefix(s) = f[n]
  <2> HIDE DEF dst
  <2> QED BY <1>1, <1>7, <1>8
<1>10. Dst(s, f)
  <2>1. 0 \in 0..n /\ \A i \in 1..n : i \in 0..n /\ i # 0
      BY <1>1
  <2> QED BY <1>4, <2>1 DEF Dst
<1> QED BY <1>3, <1>9, <1>10

\* What stays when nothing has to go, or one character after the other.
LEMMA PrefixOfNone == removePrefix(<<>>) = <<>> /\ removePrefix(<<":">>) = <<":">>
<1> DEFINE C == {":"}
<1>1. <<>> \in Seq(C) /\ Len(<<>>) = 0 /\ <<":">> \in Seq(C) /\ Len(<<":">>) = 1
    OBVIOUS
<1>2. PICK d \in [0..0 -> Seq(C)] : Dst(<<>>, d) /\ removePrefix(<<>>) = d[0]
    BY <1>1, PrefixLoop
<1>3. PICK e \in [0..1 -> Seq(C)] : Dst(<<":">>, e) /\ removePrefix(<<":">>) = e[1]
    BY <1>1, PrefixLoop
<1>4. e[0] = <<>> /\ e[1] = Append(e[0], ":")
    BY <1>1, <1>3 DEF Dst
<1> QED BY <1>2, <1>3, <1>4 DEF Dst

\* Appending to two texts is appending to the second.
AppendsToBoth(C) == \A a, b \in Seq(C) : \A c \in C : Append(a \o b, c) = a \o Append(b, c)

LEMMA AppendToBoth == ASSUME NEW C PROVE AppendsToBoth(C)
<1> SUFFICES ASSUME NEW a \in Seq(C), NEW b \in Seq(C), NEW c \in C
             PROVE  Append(a \o b, c) = a \o Append(b, c)
    BY DEF AppendsToBoth
<1> QED OBVIOUS

\* removePrefix takes a text apart nowhere.
LEMMA PrefixOfBoth ==
    ASSUME NEW C, NEW s \in Seq(C), NEW t \in Seq(C)
    PROVE  /\ removePrefix(s) \in Seq(C) /\ removePrefix(t) \in Seq(C)
           /\ removePrefix(s \o t) = removePrefix(s) \o removePrefix(t)
<1> DEFINE u == s \o t
           n == Len(s)
           m == Len(t)
<1>a. AppendsToBoth(C)
    BY AppendToBoth
<1>1. n \in Nat /\ m \in Nat
    OBVIOUS
<1>2. /\ u \in Seq(C) /\ Len(u) = n + m
      /\ \A i \in 1..n : u[i] = s[i]
      /\ \A i \in 1..m : u[n + i] = t[i]
    OBVIOUS
<1>3. PICK d \in [0..n -> Seq(C)] : Dst(s, d) /\ removePrefix(s) = d[n]
    BY PrefixLoop
<1>4. PICK e \in [0..m -> Seq(C)] : Dst(t, e) /\ removePrefix(t) = e[m]
    BY PrefixLoop
<1> HIDE DEF u
<1>5. PICK g \in [0..(n + m) -> Seq(C)] : Dst(u, g) /\ removePrefix(u) = g[n + m]
  <2>1. \E g \in [0..Len(u) -> Seq(C)] : Dst(u, g) /\ removePrefix(u) = g[Len(u)]
      BY <1>2, PrefixLoop
  <2>2. Len(u) = n + m
      BY <1>2
  <2> QED BY <2>1, <2>2
<1>6. \A i \in 0..n : g[i] = d[i]
  <2> DEFINE T == {i \in 0..n : g[i] # d[i]}
  <2>1. T \subseteq Nat
      OBVIOUS
  <2>2. ASSUME T # {} PROVE FALSE
    <3>1. PICK i \in T : \A y \in T : i <= y
        BY <2>1, <2>2, LeastOne
    <3>2. i \in 0..n /\ g[i] # d[i]
        BY <3>1
    <3>3. i # 0
        BY <1>3, <1>5, <3>2 DEF Dst
    <3>4. i \in 1..n /\ i - 1 \in 0..n /\ i \in 1..(n + m) /\ ~(i <= i - 1)
        BY <1>1, <3>2, <3>3
    <3> HIDE DEF n, m
    <3>a. i - 1 \notin T
        BY <3>1, <3>4
    <3>5. g[i - 1] = d[i - 1] /\ u[i] = s[i]
        BY <1>2, <3>4, <3>a
    <3> QED BY <1>2, <1>3, <1>5, <3>2, <3>4, <3>5 DEF Dst, n
  <2> QED BY <2>2
<1>7. \A i \in 0..m : g[n + i] = d[n] \o e[i]
  <2> DEFINE T == {i \in 0..m : g[n + i] # d[n] \o e[i]}
  <2>1. T \subseteq Nat
      OBVIOUS
  <2>2. d[n] \in Seq(C)
      BY <1>1, <1>3
  <2>3. ASSUME T # {} PROVE FALSE
    <3>1. PICK i \in T : \A y \in T : i <= y
        BY <2>1, <2>3, LeastOne
    <3>2. i \in 0..m /\ g[n + i] # d[n] \o e[i]
        BY <3>1
    <3>3. i # 0
      <4>1. n + 0 = n /\ n \in 0..n
          BY <1>1
      <4>2. g[n] = d[n] /\ e[0] = <<>>
          BY <1>4, <1>6, <4>1 DEF Dst
      <4>3. d[n] \o <<>> = d[n]
          BY <2>2
      <4> QED BY <3>2, <4>1, <4>2, <4>3
    <3> HIDE DEF n, m
    <3>4. /\ i \in 1..m /\ i - 1 \in 0..m /\ ~(i <= i - 1)
          /\ n + i \in 1..(n + m) /\ (n + i) - 1 = n + (i - 1)
        BY <1>1, <3>2, <3>3
    <3>a. i - 1 \notin T
        BY <3>1, <3>4
    <3>5. g[n + (i - 1)] = d[n] \o e[i - 1] /\ u[n + i] = t[i] /\ e[i - 1] \in Seq(C)
      <4>1. g[n + (i - 1)] = d[n] \o e[i - 1]
          BY <3>4, <3>a
      <4>2. u[n + i] = t[i]
          BY <1>2, <3>4
      <4>3. e[i - 1] \in Seq(C)
          BY <1>4, <3>4
      <4> QED BY <4>1, <4>2, <4>3
    <3>6. g[n + i] = IF t[i] \in {"B", "N"} THEN d[n] \o e[i - 1]
                     ELSE Append(d[n] \o e[i - 1], t[i])
      <4> DEFINE k == n + i
      <4>1. k \in 1..Len(u) /\ k - 1 = n + (i - 1)
          BY <1>2, <3>4
      <4> HIDE DEF k
      <4>2. g[k] = IF u[k] \in {"B", "N"} THEN g[k - 1] ELSE Append(g[k - 1], u[k])
          BY <1>5, <4>1 DEF Dst
      <4>3. g[k - 1] = d[n] \o e[i - 1] /\ u[k] = t[i]
          BY <3>5, <4>1 DEF k
      <4> QED BY <4>2, <4>3 DEF k
    <3>7. e[i] = IF t[i] \in {"B", "N"} THEN e[i - 1] ELSE Append(e[i - 1], t[i])
        BY <1>4, <3>4 DEF Dst, m
    <3>8. t[i] \in C
        BY <3>4 DEF m
    <3>9. Append(d[n] \o e[i - 1], t[i]) = d[n] \o Append(e[i - 1], t[i])
      <4> DEFINE a == d[n]
                 b == e[i - 1]
                 c == t[i]
      <4>1. a \in Seq(C) /\ b \in Seq(C) /\ c \in C
          BY <2>2, <3>5, <3>8
      <4> HIDE DEF a, b, c
      <4>2. Append(a \o b, c) = a \o Append(b, c)
          BY <1>a, <4>1 DEF AppendsToBoth
      <4> QED BY <4>2 DEF a, b, c
    <3> QED BY <3>2, <3>6, <3>7, <3>9
  <2> QED BY <2>3
<1>8. n \in 0..n /\ m \in 0..m
    BY <1>1
<1>9. d[n] \in Seq(C) /\ e[m] \in Seq(C)
  <2> HIDE DEF n, m
  <2> QED BY <1>3, <1>4, <1>8
<1> QED BY <1>3, <1>4, <1>5, <1>7, <1>8, <1>9 DEF u

\* strncat of a text that fits.
LEMMA StrncatFits ==
    ASSUME NEW C, NEW s \in Seq(C), NEW t \in Seq(C),
           Len(s) + Len(t) <= MAX_STRING_LENGTH - 1
    PROVE  Strncat(s, t) = s \o t
<1> DEFINE a == Len(t)
           room == MAX_STRING_LENGTH - Len(s) - 1
<1>1. MAX_STRING_LENGTH \in Nat /\ Len(s) \in Nat /\ a \in Nat
    BY MaxBandsAssumption DEF MAX_STRING_LENGTH, MAX_BAND_LENGTH
<1>2. a <= room /\ room \in Int
    BY <1>1
<1>3. Min({a, room}) = a
  <2> HIDE DEF a, room
  <2> DEFINE x == CHOOSE y \in {a, room} : \A z \in {a, room} : y <= z
  <2>1. a \in {a, room} /\ \A z \in {a, room} : a <= z
      BY <1>1, <1>2
  <2>2. x \in {a, room} /\ x <= a
      BY <2>1
  <2>3. Min({a, room}) = x
      BY DEF Min
  <2> HIDE DEF x
  <2> QED BY <1>1, <1>2, <2>2, <2>3
<1>4. SubSeq(t, 1, a) = t
    BY SubSeqFull
<1> QED BY <1>3, <1>4 DEF Strncat

\* The bands of an array one behind the other, with colons between them.
Joins(items, x) ==
    /\ x[0] = <<>>
    /\ \A i \in 1..Len(items) :
          x[i] = (IF i = 1 THEN <<>> ELSE x[i - 1] \o <<":">>) \o items[i]

\* Items that fit are joined in full.
LEMMA BandLoop ==
    ASSUME NEW C, ":" \in C, NEW items \in Seq(Seq(C)), Fits(items)
    PROVE  \E x \in [0..Len(items) -> Seq(C)] :
              Joins(items, x) /\ BandText(items) = removePrefix(x[Len(items)])
<1> DEFINE n == Len(items)
           V == Seq(C)
           head(i, v) == IF i = 1 THEN <<>> ELSE v \o <<":">>
           step == [y \in (1..n) \X V |-> head(y[1], y[2]) \o items[y[1]]]
           short(i, x) == IF i = 1 THEN <<>> ELSE Strncat(x[i - 1], <<":">>)
           body(i, x) == IF i = 0 THEN <<>> ELSE Strncat(short(i, x), items[i])
           text == CHOOSE f : f = [i \in 0..n |-> body(i, f)]
<1>1. n \in Nat /\ <<>> \in V /\ <<":">> \in V /\ Len(<<":">>) = 1 /\ Len(<<>>) = 0
    OBVIOUS
<1>2. \A i \in 1..n : items[i] \in V /\ Len(items[i]) \in Nat /\ Len(items[i]) <= 4
    BY DEF Fits, MAX_BAND_LENGTH
<1>3. n <= MaxBands
    BY DEF Fits
<1>4. step \in Steps(n, V)
  <2> SUFFICES ASSUME NEW i \in 1..n, NEW v \in V PROVE head(i, v) \o items[i] \in V
      BY DEF Steps
  <2>1. items[i] \in V
      BY <1>2
  <2>2. head(i, v) \in V
      OBVIOUS
  <2> HIDE DEF head
  <2> QED BY <2>1, <2>2
<1>5. PICK f \in [0..n -> V] : Runs(n, <<>>, step, f)
  <2> HIDE DEF step, V, n
  <2> QED BY <1>1, <1>4, LoopHasValues
<1>6. ASSUME NEW i \in 1..n
      PROVE  f[i - 1] \in V /\ f[i] = head(i, f[i - 1]) \o items[i]
  <2>1. i - 1 \in 0..n
      BY <1>1
  <2>2. f[i - 1] \in V
      BY <1>5, <2>1
  <2>3. <<i, f[i - 1]>> \in (1..n) \X V
      BY <2>2
  <2>4. step[<<i, f[i - 1]>>] = head(i, f[i - 1]) \o items[i]
      BY <2>3
  <2> HIDE DEF step
  <2> QED BY <1>5, <2>2, <2>4 DEF Runs
<1>7. f[0] = <<>>
    BY <1>5 DEF Runs
<1>8. \A i \in 1..n : Len(f[i]) <= 5 * i - 1
  <2> DEFINE T == {i \in 1..n : ~ (Len(f[i]) <= 5 * i - 1)}
  <2>1. T \subseteq Nat
      OBVIOUS
  <2>2. ASSUME T # {} PROVE FALSE
    <3>1. PICK i \in T : \A y \in T : i <= y
        BY <2>1, <2>2, LeastOne
    <3>2. i \in 1..n /\ ~ (Len(f[i]) <= 5 * i - 1)
        BY <3>1
    <3> DEFINE h == head(i, f[i - 1])
    <3>3. h \in V /\ Len(h) \in Nat /\ Len(h) <= 5 * i - 5
      <4>1. CASE i = 1
          BY <4>1
      <4>2. CASE i # 1
        <5>1. i - 1 \in 1..n /\ ~(i <= i - 1)
            BY <1>1, <3>2, <4>2
        <5>2. i - 1 \notin T
            BY <3>1, <5>1
        <5>3. Len(f[i - 1]) <= 5 * (i - 1) - 1
            BY <5>1, <5>2
        <5> DEFINE v == f[i - 1]
        <5>4. v \in V /\ h = v \o <<":">>
            BY <1>6, <3>2, <4>2
        <5> HIDE DEF v, h
        <5>5. h \in V /\ Len(h) = Len(v) + 1 /\ Len(v) \in Nat
            BY <1>1, <5>4
        <5> QED BY <3>2, <5>3, <5>5 DEF v
      <4> QED BY <4>1, <4>2
    <3>4. f[i] = h \o items[i]
        BY <1>6, <3>2
    <3> DEFINE w == items[i]
    <3>5. w \in V /\ Len(w) \in Nat /\ Len(w) <= 4
        BY <1>2, <3>2
    <3> HIDE DEF h, w
    <3>6. Len(f[i]) = Len(h) + Len(w)
        BY <3>3, <3>4, <3>5 DEF w
    <3> QED BY <3>2, <3>3, <3>5, <3>6
  <2> QED BY <2>2
<1>9. ASSUME NEW i \in 0..n PROVE f[i] = body(i, f)
  <2>1. CASE i = 0
      BY <1>7, <2>1
  <2>2. CASE i # 0
    <3>1. i \in 1..n /\ i - 1 \in 0..n
        BY <1>1, <2>2
    <3> DEFINE v == f[i - 1]
               w == items[i]
               h == head(i, v)
    <3>2. v \in V /\ w \in V /\ Len(w) \in Nat /\ Len(w) <= 4 /\ f[i] = h \o w
        BY <1>2, <1>6, <3>1
    <3>3. i <= MaxBands /\ MaxBands \in Nat /\ MAX_STRING_LENGTH = 5 * MaxBands
        BY <1>1, <1>3, <3>1, MaxBandsAssumption DEF MAX_STRING_LENGTH, MAX_BAND_LENGTH
    <3>4. h = short(i, f) /\ h \in V /\ Len(h) \in Nat /\ Len(h) <= 5 * i - 5
      <4>1. CASE i = 1
          BY <4>1
      <4>2. CASE i # 1
        <5>1. i - 1 \in 1..n
            BY <1>1, <3>1, <4>2
        <5>2. Len(v) <= 5 * (i - 1) - 1
            BY <1>8, <5>1
        <5> HIDE DEF v
        <5>3. Len(v) \in Nat /\ h = v \o <<":">>
            BY <3>2, <4>2
        <5> DEFINE colon == <<":">>
        <5>4. colon \in V /\ Len(colon) = 1
            BY <1>1
        <5> HIDE DEF colon, h
        <5>5. Len(v) + Len(colon) <= MAX_STRING_LENGTH - 1
            BY <3>1, <3>3, <5>2, <5>3, <5>4
        <5>6. Strncat(v, colon) = v \o colon
            BY <3>2, <5>4, <5>5, StrncatFits
        <5>7. v \o colon \in V /\ Len(v \o colon) = Len(v) + 1
          <6>1. v \in Seq(C) /\ colon \in Seq(C) /\ Len(colon) = 1
              BY <3>2, <5>4
          <6>2. v \o colon \in Seq(C) /\ Len(v \o colon) = Len(v) + Len(colon)
              BY <6>1, ConcatProperties
          <6> QED BY <6>1, <6>2
        <5>8. h = v \o colon
            BY <5>3 DEF colon
        <5>9. short(i, f) = Strncat(v, colon)
            BY <4>2 DEF v, colon
        <5>10. Len(v) + 1 <= 5 * i - 5
            BY <3>1, <5>2, <5>3
        <5> QED BY <5>3, <5>6, <5>7, <5>8, <5>9, <5>10
      <4> QED BY <4>1, <4>2
    <3> HIDE DEF h, w, short
    <3>5. Len(h) + Len(w) <= MAX_STRING_LENGTH - 1
        BY <3>1, <3>2, <3>3, <3>4
    <3>6. Strncat(h, w) = h \o w
        BY <3>2, <3>4, <3>5, StrncatFits
    <3>7. body(i, f) = Strncat(h, w)
        BY <2>2, <3>4 DEF w
    <3> QED BY <3>2, <3>6, <3>7
  <2> QED BY <2>1, <2>2
<1>10. f = [i \in 0..n |-> body(i, f)]
  <2> HIDE DEF body
  <2>1. f = [i \in 0..n |-> f[i]]
      BY <1>5
  <2> QED BY <1>9, <2>1
<1>11. text = [i \in 0..n |-> body(i, text)]
  <2> HIDE DEF body
  <2> QED BY <1>10
<1>12. BandText(items) = removePrefix(text[n])
    BY DEF BandText
<1>13. \A i \in 0..n : text[i] = f[i]
  <2> DEFINE T == {i \in 0..n : text[i] # f[i]}
  <2>1. T \subseteq Nat
      OBVIOUS
  <2>2. \A i \in 0..n : text[i] = body(i, text)
    <3> HIDE DEF body, text
    <3> QED BY <1>11
  <2> HIDE DEF text
  <2>3. ASSUME T # {} PROVE FALSE
    <3>1. PICK i \in T : \A y \in T : i <= y
        BY <2>1, <2>3, LeastOne
    <3>2. i \in 0..n /\ text[i] # f[i]
        BY <3>1
    <3>3. i # 0
        BY <1>7, <2>2, <3>2
    <3>4. i - 1 \in 0..n /\ i - 1 \notin T
        BY <1>1, <3>1, <3>2, <3>3
    <3>5. text[i - 1] = f[i - 1]
        BY <3>4
    <3>6. body(i, text) = body(i, f)
        BY <3>5
    <3> QED BY <1>9, <2>2, <3>2, <3>6
  <2> QED BY <2>3
<1>14. BandText(items) = removePrefix(f[n])
  <2> HIDE DEF text
  <2> QED BY <1>1, <1>12, <1>13
<1>15. Joins(items, f)
    BY <1>6, <1>7 DEF Joins
<1> QED BY <1>5, <1>14, <1>15

\* There is only one k-th.
LEMMA KthIsOne ==
    ASSUME NEW n \in Nat, NEW S, S \subseteq 1..n, NEW i \in S, NEW j \in S,
           Cardinality(S \cap 1..i) = Cardinality(S \cap 1..j)
    PROVE  i = j
<1>1. ASSUME NEW a \in S, NEW b \in S, a < b,
             Cardinality(S \cap 1..a) = Cardinality(S \cap 1..b)
      PROVE  FALSE
  <2>1. a \in Nat /\ b \in Nat /\ IsFiniteSet(1..b)
    <3>1. a \in 1..n /\ b \in 1..n
        OBVIOUS
    <3>2. a \in Nat /\ b \in Nat /\ b \in Int /\ 1 \in Int
        BY <3>1
    <3> QED BY <3>2, FS_Interval
  <2>2. S \cap 1..a \in SUBSET (S \cap 1..b)
      BY <1>1, <2>1
  <2>3. IsFiniteSet(S \cap 1..b)
      BY <2>1, FS_Subset
  <2>4. S \cap 1..a = S \cap 1..b
      BY <1>1, <2>2, <2>3, FS_Subset
  <2>5. b \in S \cap 1..b /\ b \notin S \cap 1..a
    <3>1. b \in 1..n
        OBVIOUS
    <3> QED BY <1>1, <2>1, <3>1
  <2> QED BY <2>4, <2>5
<1>2. i \in 1..n /\ j \in 1..n
    OBVIOUS
<1>3. i \in Nat /\ j \in Nat
    BY <1>2
<1> QED BY <1>1, <1>3

\* Text q is text p and, behind a colon if p is not empty, one token more, which
\* begins at i.
OneMore(p, q, i) ==
    /\ Len(p) \in Nat /\ Len(q) \in Nat /\ i \in 1..Len(q)
    /\ \/ i = Len(p) + 2 /\ q[Len(p) + 1] = ":"
       \/ i = 1 /\ Len(p) = 0
    /\ \A m \in 1..Len(p) : q[m] = p[m]
    /\ \A m \in i..Len(q) : q[m] # ":"

LEMMA OneStartMore ==
    ASSUME NEW p, NEW q, NEW i, OneMore(p, q, i)
    PROVE  Starts(q) = Starts(p) \cup {i}
<1> DEFINE n == Len(p)
           k == Len(q)
<1> USE DEF OneMore, Starts
<1>1. n \in Nat /\ k \in Nat /\ i \in 1..k /\ n < i
    OBVIOUS
<1>2. ASSUME NEW m \in 1..k PROVE m \in Starts(q) <=> m \in Starts(p) \/ m = i
  <2>1. CASE m \in 1..n
    <3>1. m # i /\ q[m] = p[m]
        BY <1>1, <2>1
    <3>2. m # 1 => m - 1 \in 1..n
        BY <1>1, <2>1
    <3>3. m # 1 => q[m - 1] = p[m - 1]
        BY <3>2
    <3> QED BY <2>1, <3>1, <3>3
  <2>2. CASE m = i
    <3>1. q[i] # ":"
        BY <1>1
    <3>2. i = 1 \/ q[i - 1] = ":"
        BY <1>1
    <3> QED BY <2>2, <3>1, <3>2
  <2>3. CASE m \notin 1..n /\ m < i
    <3>1. m = n + 1 /\ q[m] = ":"
        BY <1>1, <2>3
    <3> QED BY <1>1, <2>3, <3>1
  <2>4. CASE m > i
    <3>1. m - 1 \in i..k /\ m \notin 1..n /\ m # 1
        BY <1>1, <2>4
    <3> QED BY <2>4, <3>1
  <2> QED BY <1>1, <2>1, <2>2, <2>3, <2>4
<1>3. \A m \in 1..n : m \in 1..k
    BY <1>1
<1>4. Starts(q) \subseteq 1..k /\ Starts(p) \subseteq 1..n
    OBVIOUS
<1> HIDE DEF Starts
<1> QED BY <1>1, <1>2, <1>3, <1>4

\* One token more is the last one; those before it are as they were.
LEMMA TokensOneMore ==
    ASSUME NEW C, NEW p \in Seq(C), NEW q \in Seq(C), NEW i, OneMore(p, q, i)
    PROVE  Tokens(q) = Append(Tokens(p), SubSeq(q, i, Len(q)))
<1> DEFINE S == Starts(p)
           R == Starts(q)
           n == Len(p)
           k == Len(q)
           c == Cardinality(S)
           last == SubSeq(q, i, k)
           atP(m) == CHOOSE y \in S : Cardinality(S \cap 1..y) = m
           atQ(m) == CHOOSE y \in R : Cardinality(R \cap 1..y) = m
<1>1. n \in Nat /\ k \in Nat /\ i \in 1..k /\ n < i
    BY DEF OneMore
<1>2. R = S \cup {i}
    BY OneStartMore
<1>3. S \subseteq 1..n /\ R \subseteq 1..k
    BY DEF Starts
<1>4. IsFiniteSet(S) /\ c \in Nat
  <2>1. IsFiniteSet(1..n)
      BY <1>1, FS_Interval
  <2> QED BY <1>3, <2>1, FS_Subset, FS_CardinalityType
<1>5. i \notin S /\ Cardinality(R) = c + 1
  <2>1. i \notin 1..n
      BY <1>1
  <2> QED BY <1>2, <1>3, <1>4, <2>1, FS_AddElement
<1>6. ASSUME NEW y \in S PROVE R \cap 1..y = S \cap 1..y /\ y \in 1..n /\ y \in R
  <2>1. y \in 1..n
      BY <1>3
  <2>2. i \notin 1..y
      BY <1>1, <2>1
  <2> QED BY <1>2, <2>1, <2>2
<1>7. R \cap 1..i = R
  <2>1. \A y \in S : y \in 1..n
      BY <1>3
  <2>2. \A y \in S : y \in 1..i
      BY <1>1, <2>1
  <2> QED BY <1>1, <1>2, <2>2
<1> HIDE DEF S, R, n, k, c
<1>8. ASSUME NEW m \in 1..c PROVE atQ(m) = atP(m) /\ atP(m) \in S
  <2>1. \E y \in S : Cardinality(S \cap 1..y) = m
      BY <1>1, <1>3, KthIsThere DEF c
  <2>2. atP(m) \in S /\ Cardinality(S \cap 1..atP(m)) = m
      BY <2>1
  <2> DEFINE y == atP(m)
             x == atQ(m)
  <2>3. y \in R /\ Cardinality(R \cap 1..y) = m
      BY <1>6, <2>2
  <2>4. x \in R /\ Cardinality(R \cap 1..x) = m
    <3> HIDE DEF y
    <3> QED BY <2>3
  <2> HIDE DEF x, y
  <2>5. x = y
      BY <1>1, <1>3, <2>3, <2>4, KthIsOne
  <2> QED BY <2>2, <2>5 DEF x, y
<1>9. atQ(c + 1) = i
  <2> DEFINE x == atQ(c + 1)
  <2>1. i \in R /\ Cardinality(R \cap 1..i) = c + 1
      BY <1>2, <1>5, <1>7
  <2>2. x \in R /\ Cardinality(R \cap 1..x) = c + 1
      BY <2>1
  <2> HIDE DEF x
  <2>3. x = i
      BY <1>1, <1>3, <2>1, <2>2, KthIsOne
  <2> QED BY <2>3 DEF x
<1>10. ASSUME NEW y \in S PROVE TokenAt(q, y) = TokenAt(p, y)
  <2>1. y \in 1..n /\ y \in Starts(p)
      BY <1>6 DEF S
  <2>2. PICK j \in y..n : Ends(p, y, j)
      BY <2>1, TokenEnds DEF n
  <2>3. y \in Nat /\ j \in 1..n /\ j \in y..k
      BY <1>1, <2>1
  <2>4. (\A m \in 1..n : q[m] = p[m]) /\ i = n + 2 /\ q[n + 1] = ":"
    <3>1. n # 0
        BY <1>1, <2>1
    <3> QED BY <3>1 DEF OneMore, n
  <2>5. Ends(q, y, j)
    <3>1. (\A m \in y..j : p[m] # ":") /\ (j = n \/ p[j + 1] = ":")
        BY <2>2 DEF Ends, n
    <3>2. \A m \in y..j : m \in 1..n
        BY <1>1, <2>1, <2>3
    <3>3. \A m \in y..j : q[m] # ":"
        BY <2>4, <3>1, <3>2
    <3>4. q[j + 1] = ":"
      <4>1. CASE j = n
          BY <2>4, <4>1
      <4>2. CASE j # n
        <5>1. j + 1 \in 1..n
            BY <1>1, <2>3, <4>2
        <5> QED BY <2>4, <3>1, <4>2, <5>1
      <4> QED BY <4>1, <4>2
    <3> QED BY <2>3, <3>3, <3>4 DEF Ends, k
  <2>6. TokenAt(p, y) = SubSeq(p, y, j)
      BY <1>1, <2>2, <2>3, TokenAtEnds DEF n
  <2>7. TokenAt(q, y) = SubSeq(q, y, j)
      BY <1>1, <2>3, <2>5, TokenAtEnds DEF k
  <2>8. SubSeq(p, y, j) = SubSeq(q, y, j)
    <3>1. \A m \in 1..((j - y) + 1) : y + m - 1 \in 1..n
        BY <1>1, <2>1, <2>3
    <3>2. \A m \in 1..((j - y) + 1) : q[y + m - 1] = p[y + m - 1]
        BY <2>4, <3>1
    <3> DEFINE x == SubSeq(p, y, j)
               z == SubSeq(q, y, j)
    <3>3. \A m \in y..j : m \in 1..n /\ m \in 1..k
        BY <1>1, <2>1, <2>3
    <3>4. \A m \in y..j : p[m] \in C /\ q[m] \in C
        BY <3>3 DEF n, k
    <3>5. y \in Int /\ j \in Int /\ y <= j
        BY <2>3
    <3>6. /\ x \in Seq(C) /\ Len(x) = (j - y) + 1
          /\ \A m \in 1..((j - y) + 1) : x[m] = p[y + m - 1]
        BY <3>4, <3>5, SubSeqProperties
    <3>7. /\ z \in Seq(C) /\ Len(z) = (j - y) + 1
          /\ \A m \in 1..((j - y) + 1) : z[m] = q[y + m - 1]
        BY <3>4, <3>5, SubSeqProperties
    <3> HIDE DEF x, z
    <3>8. x = z
        BY <3>2, <3>6, <3>7, SeqEqual
    <3> QED BY <3>8 DEF x, z
  <2> QED BY <2>6, <2>7, <2>8
<1>11. TokenAt(q, i) = last
  <2>1. k \in i..k /\ Ends(q, i, k)
      BY <1>1 DEF OneMore, Ends, k
  <2> QED BY <1>1, <2>1, TokenAtEnds DEF k
<1>12. Tokens(p) = [m \in 1..c |-> TokenAt(p, atP(m))]
    BY DEF Tokens, S, c
<1>13. Tokens(q) = [m \in 1..(c + 1) |-> TokenAt(q, atQ(m))]
    BY <1>5 DEF Tokens, R
<1> HIDE DEF atP, atQ, last
<1>14. \A m \in 1..c : TokenAt(q, atQ(m)) = TokenAt(p, atP(m))
    BY <1>8, <1>10
<1>15. Append(Tokens(p), last) = [m \in 1..(c + 1) |-> IF m = c + 1 THEN last ELSE Tokens(p)[m]]
    BY <1>4, <1>12
<1>16. \A m \in 1..(c + 1) : m = c + 1 \/ m \in 1..c
    BY <1>4
<1>17. ASSUME NEW m \in 1..(c + 1)
       PROVE  TokenAt(q, atQ(m)) = IF m = c + 1 THEN last ELSE Tokens(p)[m]
    BY <1>9, <1>11, <1>12, <1>14, <1>16
<1> QED BY <1>13, <1>15, <1>17 DEF last, k

\* An empty text has no tokens, a text without colons one, and another one is
\* added behind each colon.
LEMMA TokensOfNone == Tokens(<<>>) = <<>>
<1>1. Starts(<<>>) = {}
  <2>1. Len(<<>>) = 0 /\ 1..0 = {}
      OBVIOUS
  <2> QED BY <2>1 DEF Starts
<1>2. Cardinality(Starts(<<>>)) = 0
    BY <1>1, FS_EmptySet
<1> DEFINE at(k) == TokenAt(<<>>, CHOOSE i \in Starts(<<>>) : Cardinality(Starts(<<>>) \cap 1..i) = k)
<1>3. Tokens(<<>>) = [k \in 1..0 |-> at(k)]
    BY <1>2 DEF Tokens
<1> HIDE DEF at
<1> QED BY <1>3

LEMMA FirstToken ==
    ASSUME NEW C, NEW r \in Seq(C), r # <<>>, \A m \in 1..Len(r) : r[m] # ":"
    PROVE  Tokens(r) = Append(Tokens(<<>>), r)
<1> DEFINE s == <<>>
           last == SubSeq(r, 1, Len(r))
<1>1. s \in Seq(C) /\ Len(s) = 0 /\ Len(r) \in Nat \ {0}
    BY EmptySeq
<1> HIDE DEF s
<1>2. OneMore(s, r, 1)
  <2>1. 1 \in 1..Len(r) /\ \A m \in 1..Len(s) : r[m] = s[m]
      BY <1>1
  <2> QED BY <1>1, <2>1 DEF OneMore
<1>3. last = r
    BY SubSeqFull
<1>4. Tokens(r) = Append(Tokens(s), last)
    BY <1>1, <1>2, TokensOneMore
<1> HIDE DEF last
<1> QED BY <1>3, <1>4 DEF s

LEMMA NextToken ==
    ASSUME NEW C, ":" \in C, NEW p \in Seq(C), NEW r \in Seq(C), r # <<>>,
           \A m \in 1..Len(r) : r[m] # ":"
    PROVE  Tokens((p \o <<":">>) \o r) = Append(Tokens(p), r)
<1> DEFINE n == Len(p)
           k == Len(r)
           h == p \o <<":">>
           q == h \o r
           z == SubSeq(q, n + 2, n + 1 + k)
<1>1. n \in Nat /\ k \in Nat \ {0}
    BY EmptySeq
<1>2. /\ h \in Seq(C) /\ Len(h) = n + 1 /\ h[n + 1] = ":"
      /\ \A m \in 1..n : h[m] = p[m]
    OBVIOUS
<1> HIDE DEF h
<1>3. /\ q \in Seq(C) /\ Len(q) = n + 1 + k
      /\ \A m \in 1..(n + 1) : q[m] = h[m]
      /\ \A m \in 1..k : q[n + 1 + m] = r[m]
  <2>1. h \in Seq(C) /\ r \in Seq(C) /\ Len(h) = n + 1 /\ Len(r) = k
      BY <1>2
  <2> HIDE DEF n, k
  <2>2. q \in Seq(C) /\ Len(q) = n + 1 + k
      BY <1>1, <2>1
  <2>3. ASSUME NEW m \in 1..(n + 1) PROVE q[m] = h[m]
      BY <1>1, <2>1
  <2>4. ASSUME NEW m \in 1..k PROVE q[n + 1 + m] = r[m]
      BY <1>1, <2>1
  <2> QED BY <2>2, <2>3, <2>4
<1> HIDE DEF q, n, k
<1>4. \A m \in (n + 2)..(n + 1 + k) : q[m] # ":"
  <2> TAKE m \in (n + 2)..(n + 1 + k)
  <2>1. m - (n + 1) \in 1..k /\ n + 1 + (m - (n + 1)) = m
      BY <1>1
  <2> QED BY <1>3, <2>1 DEF k
<1>5. OneMore(p, q, n + 2)
  <2>1. n + 2 \in 1..(n + 1 + k) /\ n + 1 \in 1..(n + 1) /\ \A m \in 1..n : m \in 1..(n + 1)
      BY <1>1
  <2>2. q[n + 1] = ":" /\ \A m \in 1..n : q[m] = p[m]
      BY <1>2, <1>3, <2>1
  <2> QED BY <1>1, <1>3, <1>4, <2>1, <2>2 DEF OneMore, n
<1>6. z = r
  <2>1. n + 2 \in Int /\ n + 1 + k \in Int /\ n + 2 <= n + 1 + k
        /\ (n + 1 + k) - (n + 2) + 1 = k
      BY <1>1
  <2>2. \A m \in (n + 2)..(n + 1 + k) : q[m] \in C
    <3>1. \A m \in (n + 2)..(n + 1 + k) : m \in 1..(n + 1 + k)
        BY <1>1
    <3>2. \A m \in 1..(n + 1 + k) : q[m] \in C
        BY <1>3
    <3> QED BY <3>1, <3>2
  <2>3. /\ z \in Seq(C) /\ Len(z) = k
        /\ \A m \in 1..k : z[m] = q[n + 2 + m - 1]
      BY <2>1, <2>2, SubSeqProperties
  <2>4. \A m \in 1..k : n + 2 + m - 1 = n + 1 + m
      BY <1>1
  <2>5. \A m \in 1..k : z[m] = r[m]
      BY <1>3, <2>3, <2>4
  <2> HIDE DEF z
  <2> QED BY <2>3, <2>5, SeqEqual DEF k
<1>7. Tokens(q) = Append(Tokens(p), SubSeq(q, n + 2, Len(q)))
    BY <1>3, <1>5, TokensOneMore
<1> QED BY <1>3, <1>6, <1>7 DEF q, h

\* The tokens of the text that names the bands of an array.
LEMMA JoinedTokens ==
    ASSUME NEW B, ":" \notin B, NEW items \in Seq(Seq(B)), Fits(items),
           \A i \in DOMAIN items : removePrefix(items[i]) # <<>>
    PROVE  Tokens(BandText(items)) = [i \in DOMAIN items |-> removePrefix(items[i])]
<1> DEFINE C == B \cup {":"}
           n == Len(items)
           r(i) == removePrefix(items[i])
<1>1. n \in Nat /\ DOMAIN items = 1..n
    OBVIOUS
<1>2. \A i \in 1..n : items[i] \in Seq(B)
    OBVIOUS
<1>3. ASSUME NEW i \in 1..n
      PROVE  /\ items[i] \in Seq(C) /\ r(i) \in Seq(C) /\ r(i) # <<>>
             /\ \A m \in 1..Len(r(i)) : r(i)[m] # ":"
  <2>1. items[i] \in Seq(C)
      BY <1>2, SeqMonotonic
  <2>2. r(i) \in Seq(B) /\ r(i) # <<>>
      BY <1>1, <1>2, PrefixOfBoth
  <2> HIDE DEF r
  <2>3. r(i) \in Seq(C)
      BY <2>2, SeqMonotonic
  <2>4. \A m \in 1..Len(r(i)) : r(i)[m] \in B
      BY <2>2
  <2> QED BY <2>1, <2>2, <2>3, <2>4 DEF r
<1>4. items \in Seq(Seq(C))
  <2> HIDE DEF C, n
  <2> QED BY <1>1, <1>3, SeqMonotonic, LenProperties DEF n
<1>5. PICK x \in [0..n -> Seq(C)] : Joins(items, x) /\ BandText(items) = removePrefix(x[n])
    BY <1>4, BandLoop
<1> DEFINE u(i) == removePrefix(x[i])
           toks(i) == [k \in 1..i |-> r(k)]
<1>6. u(0) = <<>> /\ Tokens(u(0)) = toks(0)
  <2>1. u(0) = <<>>
      BY <1>5, PrefixOfNone DEF Joins
  <2>2. toks(0) = <<>>
    <3> HIDE DEF r
    <3> QED OBVIOUS
  <2> QED BY <2>1, <2>2, TokensOfNone
<1>7. ASSUME NEW i \in 1..n PROVE Tokens(u(i)) = Append(Tokens(u(i - 1)), r(i))
  <2> DEFINE w == items[i]
  <2>1. w \in Seq(C) /\ r(i) = removePrefix(w) /\ i - 1 \in 0..n
      BY <1>1, <1>3
  <2>2. CASE i = 1
    <3>1. x[i] = <<>> \o w
        BY <1>5, <2>2 DEF Joins
    <3>2. x[i] = w
      <4> HIDE DEF w
      <4> QED BY <2>1, <3>1, ConcatEmptySeq
    <3>3. u(i) = r(i) /\ u(i - 1) = <<>>
        BY <1>6, <2>1, <2>2, <3>2
    <3> HIDE DEF u, r
    <3> QED BY <1>3, <3>3, FirstToken
  <2>3. CASE i # 1
    <3> DEFINE v == x[i - 1]
               colon == <<":">>
               h == v \o colon
    <3>1. x[i] = h \o w
        BY <1>5, <2>3 DEF Joins
    <3>2. v \in Seq(C) /\ colon \in Seq(C) /\ h \in Seq(C)
      <4>1. v \in Seq(C)
          BY <1>5, <2>1
      <4>2. colon \in Seq(C)
          OBVIOUS
      <4> HIDE DEF v, colon, C
      <4> QED BY <4>1, <4>2, ConcatProperties
    <3>3. u(i) = removePrefix(h) \o r(i)
      <4> HIDE DEF h, w, C
      <4>1. removePrefix(h \o w) = removePrefix(h) \o removePrefix(w)
          BY <2>1, <3>2, PrefixOfBoth
      <4> QED BY <2>1, <3>1, <4>1
    <3>4. removePrefix(h) = removePrefix(v) \o removePrefix(colon) /\ removePrefix(v) \in Seq(C)
      <4> HIDE DEF v, colon
      <4> QED BY <3>2, PrefixOfBoth
    <3>5. u(i) = (u(i - 1) \o <<":">>) \o r(i) /\ u(i - 1) \in Seq(C)
        BY <3>3, <3>4, PrefixOfNone
    <3> HIDE DEF u, r
    <3> QED BY <1>3, <3>5, NextToken
  <2> QED BY <2>2, <2>3
<1>8. \A i \in 0..n : Tokens(u(i)) = toks(i)
  <2> DEFINE T == {i \in 0..n : Tokens(u(i)) # toks(i)}
  <2>1. T \subseteq Nat
      OBVIOUS
  <2> HIDE DEF u, r
  <2>2. ASSUME T # {} PROVE FALSE
    <3>1. PICK i \in T : \A y \in T : i <= y
        BY <2>1, <2>2, LeastOne
    <3>2. i \in 0..n /\ Tokens(u(i)) # toks(i)
        BY <3>1
    <3>3. i # 0
        BY <1>6, <3>2
    <3>4. i \in 1..n /\ i - 1 \in 0..n /\ ~(i <= i - 1) /\ i \in Nat /\ (i - 1) + 1 = i
        BY <1>1, <3>2, <3>3
    <3>5. i - 1 \notin T
        BY <3>1, <3>4
    <3>6. Tokens(u(i - 1)) = toks(i - 1)
        BY <3>4, <3>5
    <3>7. Append(toks(i - 1), r(i)) = toks(i)
        BY <3>4
    <3> HIDE DEF toks
    <3> QED BY <1>7, <3>2, <3>4, <3>6, <3>7
  <2> QED BY <2>2
<1>9. n \in 0..n
    BY <1>1
<1> QED BY <1>1, <1>5, <1>8, <1>9

\* The text that the modem is asked to lock has as its tokens the names of the
\* bands in the document, all of them and in that order, without their letters
\* (cellMgtFrame.c:1066-1120): nothing that fits is cut off, whatever the threads
\* do to each other, as long as no name holds a colon or is empty.
THEOREM BandsAreNamed == ASSUME ProperBands PROVE Spec => []LocksWhatItNames
<1>1. AllGood => LocksWhatItNames
  <2> SUFFICES ASSUME AllGood, NEW w \in Workers, NEW p \in Techs,
                      job[w].req.body.kind = "bands", Fits(job[w].req.body.bands[p])
               PROVE  LET items == job[w].req.body.bands[p]
                      IN  Tokens(Texts(job[w].req.body)[p]) =
                              [i \in DOMAIN items |-> removePrefix(items[i])]
      BY DEF LocksWhatItNames
  <2> DEFINE r == job[w].req
             items == r.body.bands[p]
             B == STRING \ {":"}
  <2>1. r \in Requests
    <3>1. r \in Requests \cup {NoRequest}
        BY JobIsGood DEF Shape
    <3>2. NoRequest.body.kind = "none"
        BY DEF NoRequest, NoBody
    <3> QED BY <3>1, <3>2
  <2>2. items \in Seq(Seq(B)) /\ \A i \in DOMAIN items : removePrefix(items[i]) # <<>>
      BY <2>1 DEF ProperBands
  <2>3. ":" \notin B /\ Fits(items)
      OBVIOUS
  <2>4. Texts(r.body)[p] = BandText(items)
      BY DEF Texts
  <2> HIDE DEF r, items, B
  <2>5. Tokens(BandText(items)) = [i \in DOMAIN items |-> removePrefix(items[i])]
      BY <2>2, <2>3, JoinedTokens
  <2> QED BY <2>4, <2>5 DEF r, items
<1>2. Inv => AllGood
    BY DEF Inv
<1> QED BY <1>1, <1>2, Invariance, PTL
=============================================================================
