--------------------------- MODULE HttpServerProofs ---------------------------
(* Theorems about HttpServer, for any connections, scripts and number of     *)
(* worker threads.                                                           *)
EXTENDS HttpServer, SequenceTheorems, FiniteSetTheorems, TLAPS

----------------------------------------------------------------------------
(* The texts of a request and what strncasecmp makes of them when whole.     *)

Pieces == {"/a", "/b", "Content", "-Type", "-Length", "application", "/json", "text/", "2"}

Texts == Seq(Pieces)

LEMMA TextTypes ==
    /\ Url \in Texts /\ ContentType \in Texts /\ ContentLength \in Texts
    /\ Json \in Texts /\ Text \in Texts /\ Number \in Texts /\ <<>> \in Texts
<1>1. Url \in Texts
    BY DEF Texts, Pieces, Url
<1>2. ContentType \in Texts /\ ContentLength \in Texts
    BY DEF Texts, Pieces, ContentType, ContentLength
<1>3. Json \in Texts /\ Text \in Texts
    BY DEF Texts, Pieces, Json, Text
<1>4. Number \in Texts /\ <<>> \in Texts
    BY DEF Texts, Pieces, Number
<1> QED BY <1>1, <1>2, <1>3, <1>4

LEMMA HeaderTypes ==
    ASSUME NEW kind \in Kinds
    PROVE  /\ Len(Headers(kind)) \in Nat /\ Len(Body(kind)) \in Nat
           /\ DOMAIN Headers(kind) = 1..Len(Headers(kind))
           /\ \A i \in 1..Len(Headers(kind)) :
                /\ Headers(kind)[i].name \in {ContentType, ContentLength}
                /\ Headers(kind)[i].value \in {Json, Text, Number, <<>>}
<1>1. CASE kind = "post"
    BY <1>1 DEF Headers, Body
<1>2. CASE kind = "plain"
    BY <1>2 DEF Headers, Body
<1>3. CASE kind = "brief"
    BY <1>3 DEF Headers, Body
<1>4. CASE kind = "bare"
    BY <1>4 DEF Headers, Body
<1>5. CASE kind = "get" \/ kind = "junk"
    BY <1>5 DEF Headers, Body
<1> QED BY <1>1, <1>2, <1>3, <1>4, <1>5 DEF Kinds

(* A text is a beginning of another of at most its length if all its pieces  *)
(* are.                                                                      *)
LEMMA PrefixOf ==
    ASSUME NEW s \in Texts, NEW t \in Texts, Len(s) <= Len(t)
    PROVE  IsPrefix(s, t) <=> \A i \in 1..Len(s) : s[i] = t[i]
<1>1. Len(s) \in Nat /\ Len(t) \in Nat
    BY DEF Texts
<1>2. SubSeq(s, 1, Len(s)) = s
    BY SubSeqFull DEF Texts
<1>3. /\ SubSeq(t, 1, Len(s)) \in Texts /\ Len(SubSeq(t, 1, Len(s))) = Len(s)
      /\ \A i \in 1..Len(s) : SubSeq(t, 1, Len(s))[i] = t[i]
    BY <1>1 DEF Texts
<1> DEFINE u == SubSeq(t, 1, Len(s))
<1>4. s = u <=> \A i \in 1..Len(s) : s[i] = u[i]
    BY <1>3 DEF Texts
<1>5. IsPrefix(s, t) <=> s = u
    BY <1>2 DEF IsPrefix
<1> QED BY <1>3, <1>4, <1>5

LEMMA WholeTexts ==
    /\ IsPrefix(ContentType, ContentType) /\ ~IsPrefix(ContentLength, ContentType)
    /\ ContentLength # ContentType
    /\ IsPrefix(Json, Json) /\ IsPrefix(<<>>, Json) /\ ~IsPrefix(Text, Json)
<1>1. IsPrefix(ContentType, ContentType) /\ IsPrefix(Json, Json)
    BY TextTypes, PrefixOf
<1>2. IsPrefix(<<>>, Json)
  <2>1. Len(<<>>) = 0 /\ Len(Json) = 2
      BY DEF Json
  <2> QED BY <2>1, TextTypes, PrefixOf
<1>3. ~IsPrefix(ContentLength, ContentType) /\ ContentLength # ContentType
  <2>1. /\ Len(ContentLength) = 2 /\ Len(ContentType) = 2
        /\ ContentLength[2] # ContentType[2]
      BY DEF ContentLength, ContentType
  <2>2. 2 \in 1..Len(ContentLength) /\ Len(ContentLength) <= Len(ContentType)
      BY <2>1
  <2>3. ContentLength \in Texts /\ ContentType \in Texts
      BY TextTypes
  <2>4. /\ IsPrefix(ContentLength, ContentType)
             <=> \A i \in 1..Len(ContentLength) : ContentLength[i] = ContentType[i]
      BY <2>2, <2>3, PrefixOf
  <2>5. ~IsPrefix(ContentLength, ContentType)
      BY <2>1, <2>2, <2>4
  <2> QED BY <2>1, <2>5
<1>4. ~IsPrefix(Text, Json)
  <2>1. Len(Text) = 2 /\ Len(Json) = 2 /\ Text[1] # Json[1]
      BY DEF Text, Json
  <2>2. 1 \in 1..Len(Text) /\ Len(Text) <= Len(Json)
      BY <2>1
  <2>3. Text \in Texts /\ Json \in Texts
      BY TextTypes
  <2>4. IsPrefix(Text, Json) <=> \A i \in 1..Len(Text) : Text[i] = Json[i]
      BY <2>2, <2>3, PrefixOf
  <2> QED BY <2>1, <2>2, <2>4
<1> QED BY <1>1, <1>2, <1>3, <1>4

(* The first n parts of the body of request r.                               *)
Taken(kind, r, n) == [i \in 1..n |-> [piece |-> Body(kind)[i], req |-> r]]

Parts == {"B1", "B2"}

----------------------------------------------------------------------------
(* The inductive invariant.                                                 *)

Stages == {"url", "name", "value", "body"}
Bodies == Seq([piece : Parts, req : Nat])
Clients == [url_path : Texts, header_type : BOOLEAN, content_type_json : BOOLEAN,
            body : Bodies]
Requests == [conn : Conns, req : Nat, kind : Kinds, url : Texts, data : Bodies]
Replies == [conn : Conns, req : Nat, kind : Kinds \union {"400"},
            url : Texts, data : Bodies]
Places == [req : Nat, stage : Stages, n : Nat, at : Nat]

(* The types of the variables.                                              *)
Typing ==
    /\ proc \in {"running", "aborted"}
    /\ script \in [Conns -> Seq(Kinds)]
    /\ pos \in [Conns -> Places]
    /\ reading \subseteq Conns
    /\ \A b, c \in reading : b = c
    /\ eof \in [Conns -> BOOLEAN]
    /\ handle \in [Conns -> {"none", "open", "closing"}]
    /\ client \in [Conns -> Clients]
    /\ queued \in Seq(Requests)
    /\ working \subseteq Requests
    /\ done \subseteq Requests
    /\ got \in [Conns -> Seq(Replies)]
    /\ cut \subseteq Conns

InHeader(c) == pos[c].stage = "name" \/ pos[c].stage = "value"

(* The parser is at a text or the body of a request its client sends, or at  *)
(* the end.                                                                  *)
Placed(c) ==
    /\ pos[c].req >= 1
    /\ pos[c].req <= Len(script[c]) + 1
    /\ ~More(c) => pos[c] = Start(pos[c].req)
    /\ pos[c].stage = "url" => pos[c].at <= Len(Url)
    /\ InHeader(c) => pos[c].n \in 1..Len(Headers(Kind(c)))
    /\ pos[c].stage = "name" => pos[c].at <= Len(Header(c).name)
    /\ pos[c].stage = "value" => pos[c].at <= Len(Header(c).value)
    /\ pos[c].stage = "body" => pos[c].n <= Len(Body(Kind(c)))
    /\ pos[c].stage # "url" => Kind(c) # "junk"

(* client[c].body is what has been read of the body of c's request.         *)
Collected(c) ==
    client[c].body = IF pos[c].stage = "body"
                     THEN Taken(Kind(c), pos[c].req, pos[c].n) ELSE <<>>

(* Where no header is cut, content_type_json is what the last type that was  *)
(* stated says: that of this request once it is read.                        *)
Judged(c) ==
    c \notin cut =>
        /\ InHeader(c) => pos[c].at = 0
        /\ pos[c].stage = "value" =>
             (client[c].header_type <=> Header(c).name = ContentType)
        /\ Kind(c) = "post" /\ (pos[c].stage = "body" \/ (InHeader(c) /\ pos[c].n = 2))
             => client[c].content_type_json
        /\ Kind(c) = "brief" /\ pos[c].stage = "body" => client[c].content_type_json
        /\ Kind(c) = "plain" /\ pos[c].stage = "body" => ~client[c].content_type_json

(* Only a request of JSON, or with an empty type, sets content_type_json.    *)
Carried(c) ==
    c \notin cut /\ client[c].content_type_json =>
        \E r \in 1..pos[c].req : /\ r <= Len(script[c])
                                 /\ script[c][r] \in {"post", "brief"}

(* A request for a worker is one that was sent and read, and complete.      *)
AsSent(w) ==
    /\ w.req >= 1
    /\ w.req <= Len(script[w.conn])
    /\ w.req < pos[w.conn].req
    /\ w.kind = script[w.conn][w.req]
    /\ w.data = Taken(w.kind, w.req, Len(Body(w.kind)))
    /\ w.conn \notin cut =>
         /\ w.kind # "plain"
         /\ w.kind = "bare" => \E r \in 1..(w.req - 1) :
                                  script[w.conn][r] \in {"post", "brief"}

(* A connection is closed with its first answer.                            *)
OneAnswer(c) ==
    /\ handle[c] # "closing" => got[c] = <<>>
    /\ Len(got[c]) <= 1
    /\ \A i \in 1..Len(got[c]) :
         /\ got[c][i].conn = c
         /\ c \notin cut /\ got[c][i].kind = "400"
              => script[c][got[c][i].req] \in {"plain", "bare"}

Same(v, w) == v.conn = w.conn /\ v.req = w.req

(* A request is at one place only: queued once, in work or done.            *)
AtOnePlace ==
    /\ \A i, j \in 1..Len(queued) : Same(queued[i], queued[j]) => i = j
    /\ \A i \in 1..Len(queued), w \in working \union done : ~Same(queued[i], w)
    /\ \A v \in working, w \in done : ~Same(v, w)
    /\ \A v, w \in working : Same(v, w) => v = w
    /\ \A v, w \in done : Same(v, w) => v = w

(* A client that stays and sends one request.                               *)
Quiet(c) == ~eof[c] /\ Len(script[c]) <= 1

(* When the connection of a quiet client is closed nothing is left to close *)
(* it again: all it sent is read, and no request of it is at work.          *)
Finished(c) ==
    Quiet(c) /\ handle[c] = "closing" =>
        /\ ~More(c)
        /\ \A w \in Works : w.conn # c

SomeoneLoud == \E c \in Conns : ~Quiet(c)

ReadWell(c) == Placed(c) /\ Collected(c) /\ Judged(c) /\ Carried(c)

Inv ==
    /\ Typing
    /\ \A c \in Conns : ReadWell(c)
    /\ \A w \in Works : AsSent(w)
    /\ \A c \in Conns : OneAnswer(c)
    /\ AtOnePlace
    /\ \A c \in Conns : Finished(c)
    /\ proc = "aborted" => SomeoneLoud

----------------------------------------------------------------------------
(* What http_parser_execute does with the position.                         *)

(* c's parser goes on to that place.                                        *)
MovesTo(c, place) ==
    /\ pos' = [pos EXCEPT ![c] = place]
    /\ reading' \in {{}, {c}}

(* A callback for a text gets a part of it, and the parser stays in the text *)
(* or goes on after it; it gets all of it when it began at the beginning.     *)
LEMMA ReadsText ==
    ASSUME NEW c \in Conns, pos[c].at \in Nat,
           NEW text \in Texts, pos[c].at <= Len(text),
           NEW n \in 0..Len(text), NEW next, Reads(c, text, n, next)
    PROVE  /\ Run(c, text, n) \in Texts
           /\ \/ MovesTo(c, next) /\ (pos[c].at = 0 => Run(c, text, n) = text)
              \/ MovesTo(c, [pos[c] EXCEPT !.at = n]) /\ n # 0
<1>1. Len(text) \in Nat /\ n \in Nat /\ n <= Len(text)
    BY DEF Texts
<1>2. \A i \in (pos[c].at + 1)..n : text[i] \in Pieces
    BY <1>1 DEF Texts
<1>3. Run(c, text, n) \in Texts
    BY <1>1, <1>2, SubSeqProperties DEF Run, Texts
<1>4. CASE n = Len(text) /\ GoesTo(c, next)
  <2>1. MovesTo(c, next)
      BY <1>4 DEF GoesTo, MovesTo
  <2>2. pos[c].at = 0 => Run(c, text, n) = text
      BY <1>4, SubSeqFull DEF Run, Texts
  <2> QED BY <1>3, <2>1, <2>2
<1>5. CASE n > pos[c].at /\ pos' = [pos EXCEPT ![c].at = n] /\ reading' = {}
  <2>1. MovesTo(c, [pos[c] EXCEPT !.at = n])
      BY <1>5 DEF MovesTo
  <2>2. n # 0
      BY <1>1, <1>5
  <2> QED BY <1>3, <2>1, <2>2
<1> QED BY <1>4, <1>5 DEF Reads

LEMMA NothingTaken == \A kind, r : Taken(kind, r, 0) = <<>>
BY DEF Taken

(* One more part of a body.                                                 *)
LEMMA OneMoreTaken ==
    ASSUME NEW kind \in Kinds, NEW r \in Nat, NEW n \in Nat
    PROVE  Taken(kind, r, n + 1) =
             Append(Taken(kind, r, n), [piece |-> Body(kind)[n + 1], req |-> r])
<1> DEFINE x(i) == [piece |-> Body(kind)[i], req |-> r]
<1> HIDE DEF x
<1>1. [i \in 1..(n + 1) |-> x(i)] = Append([i \in 1..n |-> x(i)], x(n + 1))
    OBVIOUS
<1> QED BY <1>1 DEF Taken, x

LEMMA PartOfBody ==
    ASSUME NEW kind \in Kinds, NEW n \in Nat, n < Len(Body(kind))
    PROVE  Body(kind)[n + 1] \in Parts
<1>1. CASE kind = "post"
    BY <1>1 DEF Body, Parts
<1>2. CASE kind \in {"plain", "brief", "bare"}
    BY <1>2 DEF Body, Parts
<1>3. CASE kind \in {"get", "junk"}
    BY <1>3 DEF Body
<1> QED BY <1>1, <1>2, <1>3 DEF Kinds

----------------------------------------------------------------------------
(* Each step keeps the invariant.                                           *)

(* The work there is does not depend on where it is.                        *)
LEMMA QueuedOne ==
    ASSUME NEW S, queued \in Seq(S), NEW w, queued' = Append(queued, w),
           UNCHANGED <<working, done>>
    PROVE  Works' = Works \union {w}
<1>1. {queued'[i] : i \in DOMAIN queued'} = {queued[i] : i \in DOMAIN queued} \union {w}
  <2>1. DOMAIN queued = 1..Len(queued) /\ DOMAIN queued' = 1..(Len(queued) + 1)
        /\ Len(queued) \in Nat
      OBVIOUS
  <2>2. \A i \in 1..Len(queued) : queued'[i] = queued[i]
      OBVIOUS
  <2>3. queued'[Len(queued) + 1] = w
      OBVIOUS
  <2> QED BY <2>1, <2>2, <2>3
<1> QED BY <1>1 DEF Works

LEMMA StartedOne ==
    ASSUME NEW S, queued \in Seq(S), StartWork
    PROVE  Works' = Works
<1>1. queued # <<>> /\ queued' = Tail(queued)
    BY DEF StartWork
<1>2. {queued[i] : i \in DOMAIN queued}
        = {queued'[i] : i \in DOMAIN queued'} \union {Head(queued)}
  <2>1. DOMAIN queued = 1..Len(queued) /\ DOMAIN queued' = 1..(Len(queued) - 1)
        /\ Len(queued) \in Nat \ {0}
      BY <1>1
  <2>2. \A i \in 1..(Len(queued) - 1) : queued'[i] = queued[i + 1]
      BY <1>1
  <2>3. Head(queued) = queued[1]
      BY <1>1
  <2>4. \A i \in 1..Len(queued) : i = 1 \/ (i - 1 \in 1..(Len(queued) - 1)
                                             /\ queued'[i - 1] = queued[i])
      BY <2>1, <2>2
  <2>5. \A i \in 1..(Len(queued) - 1) : i + 1 \in 1..Len(queued)
      BY <2>1
  <2>6. 1 \in 1..Len(queued)
      BY <2>1
  <2> DEFINE all == {queued[i] : i \in DOMAIN queued}
             rest == {queued'[i] : i \in DOMAIN queued'}
  <2>7. ASSUME NEW w \in all PROVE w \in rest \union {Head(queued)}
    <3>1. PICK i \in 1..Len(queued) : w = queued[i]
        BY <2>1, <2>7
    <3>2. CASE i = 1
        BY <2>3, <3>1, <3>2
    <3>3. CASE i # 1
      <4>1. i - 1 \in DOMAIN queued' /\ queued'[i - 1] = w
          BY <2>1, <2>4, <3>1, <3>3
      <4> QED BY <4>1
    <3> QED BY <3>2, <3>3
  <2>8. ASSUME NEW w \in rest PROVE w \in all
    <3>1. PICK i \in 1..(Len(queued) - 1) : w = queued'[i]
        BY <2>1, <2>8
    <3>2. w = queued[i + 1] /\ i + 1 \in DOMAIN queued
        BY <2>1, <2>2, <2>5, <3>1
    <3> QED BY <3>2
  <2>9. Head(queued) \in all
      BY <2>1, <2>3, <2>6
  <2> QED BY <2>7, <2>8, <2>9
<1>3. working' = working \union {Head(queued)} /\ done' = done
    BY DEF StartWork
<1> QED BY <1>2, <1>3 DEF Works

LEMMA WorksTyped ==
    ASSUME Typing
    PROVE  \A w \in Works : w \in Requests
BY DEF Typing, Works

(* Reading another connection changes nothing for this one.                  *)
LEMMA SameRead ==
    ASSUME NEW d \in Conns, ReadWell(d), pos'[d] = pos[d], client'[d] = client[d],
           script' = script, d \notin cut' => d \notin cut
    PROVE  ReadWell(d)' /\ (More(d)' <=> More(d))
<1>1. (More(d)' <=> More(d)) /\ Kind(d)' = Kind(d)
    BY DEF More, Kind
<1>2. Header(d)' = Header(d) /\ (InHeader(d)' <=> InHeader(d))
    BY <1>1 DEF Header, InHeader
<1>3. Placed(d)' /\ Collected(d)'
    BY <1>1, <1>2 DEF ReadWell, Placed, Collected
<1>4. Judged(d)'
    BY <1>1, <1>2 DEF ReadWell, Judged
<1>5. Carried(d)'
    BY DEF ReadWell, Carried
<1> QED BY <1>1, <1>3, <1>4, <1>5 DEF ReadWell

(* on_url, on_header_field, on_header_value and on_body: the parser goes on   *)
(* within a request, and what is known of c's reading holds again.           *)
ReadStep(c, place, cl) ==
    /\ MovesTo(c, place) /\ place.req = pos[c].req
    /\ client' = [client EXCEPT ![c] = cl]
    /\ cut' \in {cut, cut \union {c}}
    /\ UNCHANGED <<proc, script, eof, handle, queued, working, done, got>>

LEMMA ReadStepKeeps ==
    ASSUME Inv, NEW c \in Conns, NEW place \in Places, NEW cl \in Clients,
           ReadStep(c, place, cl), ReadWell(c)'
    PROVE  Inv'
<1>1. /\ pos \in [Conns -> Places] /\ client \in [Conns -> Clients]
      /\ cut \subseteq Conns
    BY DEF Inv, Typing
<1>2. /\ pos' = [pos EXCEPT ![c] = place] /\ reading' \in {{}, {c}}
      /\ place.req = pos[c].req
      /\ client' = [client EXCEPT ![c] = cl]
      /\ cut' \in {cut, cut \union {c}}
      /\ UNCHANGED <<proc, script, eof, handle, queued, working, done, got>>
    BY DEF MovesTo, ReadStep
<1>3. /\ \A d \in Conns : d # c => pos'[d] = pos[d] /\ client'[d] = client[d]
      /\ \A d \in Conns : pos'[d].req = pos[d].req
    BY <1>1, <1>2
<1>4. /\ \A d \in Conns : More(d)' <=> More(d)
      /\ \A d \in Conns : Kind(d)' = Kind(d)
      /\ Works' = Works
    BY <1>2, <1>3 DEF More, Kind, Works
<1>5. Typing'
  <2>1. pos' \in [Conns -> Places] /\ client' \in [Conns -> Clients]
      BY <1>1, <1>2
  <2>2. reading' \subseteq Conns /\ (\A b, d \in reading' : b = d) /\ cut' \subseteq Conns
      BY <1>1, <1>2
  <2> QED BY <2>1, <2>2, <1>2 DEF Inv, Typing
<1>6. \A d \in Conns : ReadWell(d)'
  <2> SUFFICES ASSUME NEW d \in Conns, d # c PROVE ReadWell(d)'
      OBVIOUS
  <2>1. ReadWell(d)
      BY DEF Inv
  <2>2. /\ pos'[d] = pos[d] /\ client'[d] = client[d] /\ (d \notin cut' <=> d \notin cut)
        /\ script' = script /\ (More(d)' <=> More(d)) /\ Kind(d)' = Kind(d)
      BY <1>2, <1>3, <1>4
  <2> QED BY <2>1, <2>2, SameRead
<1>7. \A w \in Works' : AsSent(w)'
  <2> SUFFICES ASSUME NEW w \in Works PROVE AsSent(w)'
      BY <1>4
  <2>1. w.conn \in Conns
      BY WorksTyped DEF Inv, Requests
  <2>2. /\ w.conn \notin cut' => w.conn \notin cut
        /\ pos'[w.conn].req = pos[w.conn].req /\ script' = script
      BY <2>1, <1>2, <1>3
  <2>3. AsSent(w)
      BY DEF Inv
  <2> QED BY <2>2, <2>3 DEF AsSent
<1>8. \A d \in Conns : OneAnswer(d)'
  <2> SUFFICES ASSUME NEW d \in Conns PROVE OneAnswer(d)'
      OBVIOUS
  <2>1. OneAnswer(d)
      BY DEF Inv
  <2>2. /\ d \notin cut' => d \notin cut
        /\ UNCHANGED <<script, handle, got>>
      BY <1>2
  <2> QED BY <2>1, <2>2 DEF OneAnswer
<1>9. AtOnePlace'
    BY <1>2 DEF Inv, AtOnePlace
<1>10. \A d \in Conns : Finished(d)'
    BY <1>2, <1>4 DEF Inv, Finished, Quiet
<1>11. (proc = "aborted" => SomeoneLoud)'
    BY <1>2 DEF Inv, SomeoneLoud, Quiet
<1> QED BY <1>5, <1>6, <1>7, <1>8, <1>9, <1>10, <1>11 DEF Inv

(* What is known of a connection that is being read.                        *)
LEMMA BeingRead ==
    ASSUME Inv, NEW c \in Conns, NEW stage, Parses(c, stage)
    PROVE  /\ ReadWell(c) /\ More(c) /\ Kind(c) \in Kinds /\ pos[c].stage = stage
           /\ pos[c] \in Places /\ client[c] \in Clients
           /\ pos[c].req \in 1..Len(script[c]) /\ Len(script[c]) \in Nat
           /\ DOMAIN pos = Conns /\ DOMAIN client = Conns
<1>1. /\ ReadWell(c) /\ More(c) /\ pos[c].stage = stage
      /\ pos[c] \in Places /\ client[c] \in Clients /\ script[c] \in Seq(Kinds)
      /\ DOMAIN pos = Conns /\ DOMAIN client = Conns
    BY DEF Inv, Typing, Parses
<1>2. pos[c].req \in 1..Len(script[c]) /\ Len(script[c]) \in Nat
    BY <1>1 DEF ReadWell, Placed, More, Places
<1>3. Kind(c) \in Kinds
    BY <1>1, <1>2 DEF Kind
<1> QED BY <1>1, <1>2, <1>3

(* The place after a text is a header or, after the last one, the body.      *)
LEMMA AfterText ==
    ASSUME NEW c \in Conns, pos[c] \in Places, Kind(c) \in Kinds,
           NEW i \in Nat \ {0}
    PROVE  LET place == HeaderOrBody(c, i)
           IN  /\ place \in Places /\ place.req = pos[c].req /\ place.at = 0
               /\ \/ /\ place.stage = "name" /\ place.n = i
                     /\ i \in 1..Len(Headers(Kind(c)))
                  \/ /\ place.stage = "body" /\ place.n = 0
                     /\ i > Len(Headers(Kind(c)))
<1> DEFINE place == HeaderOrBody(c, i)
<1>1. Len(Headers(Kind(c))) \in Nat
    BY HeaderTypes
<1>2. CASE i <= Len(Headers(Kind(c)))
  <2>1. place = [req |-> pos[c].req, stage |-> "name", n |-> i, at |-> 0]
      BY <1>2 DEF HeaderOrBody, Place
  <2> QED BY <1>1, <1>2, <2>1 DEF Places, Stages
<1>3. CASE ~(i <= Len(Headers(Kind(c))))
  <2>1. place = [req |-> pos[c].req, stage |-> "body", n |-> 0, at |-> 0]
      BY <1>3 DEF HeaderOrBody, Place
  <2> QED BY <1>1, <1>3, <2>1 DEF Places, Stages
<1> QED BY <1>2, <1>3

(* The kinds' headers, one by one.                                          *)
LEMMA TheHeaders ==
    ASSUME NEW kind \in Kinds, NEW i \in 1..Len(Headers(kind))
    PROVE  /\ kind = "post" => /\ Len(Headers(kind)) = 2
                               /\ i = 1 => Headers(kind)[i] = [name |-> ContentType, value |-> Json]
                               /\ i # 1 => i = 2 /\ Headers(kind)[i].name = ContentLength
           /\ kind = "plain" => /\ Len(Headers(kind)) = 1 /\ i = 1
                                /\ Headers(kind)[i] = [name |-> ContentType, value |-> Text]
           /\ kind = "brief" => /\ Len(Headers(kind)) = 1 /\ i = 1
                                /\ Headers(kind)[i] = [name |-> ContentType, value |-> <<>>]
           /\ kind = "bare" => Headers(kind)[i].name = ContentLength
           /\ kind \notin {"get", "junk"}
<1>1. CASE kind = "post"
    BY <1>1 DEF Headers
<1>2. CASE kind = "plain"
    BY <1>2 DEF Headers
<1>3. CASE kind = "brief"
    BY <1>3 DEF Headers
<1>4. CASE kind = "bare"
    BY <1>4 DEF Headers
<1>5. CASE kind = "get" \/ kind = "junk"
    BY <1>5 DEF Headers
<1> QED BY <1>1, <1>2, <1>3, <1>4, <1>5 DEF Kinds

LEMMA SomeHeaders ==
    /\ Len(Headers("post")) = 2 /\ Len(Headers("plain")) = 1 /\ Len(Headers("brief")) = 1
BY DEF Headers

(* on_url.                                                                  *)
LEMMA UrlKeeps ==
    ASSUME Inv, NEW c \in Conns, OnUrl(c)
    PROVE  Inv'
<1>1. PICK n \in 0..Len(Url) :
          /\ Reads(c, Url, n, HeaderOrBody(c, 1))
          /\ client' = [client EXCEPT ![c].url_path = Run(c, Url, n)]
    BY DEF OnUrl
<1>2. /\ Parses(c, "url") /\ Kind(c) # "junk"
      /\ UNCHANGED <<proc, script, eof, handle, queued, working, done, got, cut>>
    BY DEF OnUrl
<1>3. /\ ReadWell(c) /\ More(c) /\ Kind(c) \in Kinds /\ pos[c].stage = "url"
      /\ pos[c] \in Places /\ client[c] \in Clients
      /\ pos[c].req \in 1..Len(script[c]) /\ Len(script[c]) \in Nat
      /\ DOMAIN pos = Conns /\ DOMAIN client = Conns
    BY <1>2, BeingRead
<1> DEFINE run == Run(c, Url, n)
           after == HeaderOrBody(c, 1)
           within == [pos[c] EXCEPT !.at = n]
           cl == [client[c] EXCEPT !.url_path = run]
<1>4. /\ run \in Texts
      /\ MovesTo(c, after) \/ MovesTo(c, within)
    BY <1>1, <1>3, TextTypes, ReadsText DEF ReadWell, Placed, Places
<1>5. /\ client' = [client EXCEPT ![c] = cl] /\ cl \in Clients /\ cl.body = client[c].body
      /\ cl.content_type_json = client[c].content_type_json
    BY <1>1, <1>3, <1>4 DEF Clients
<1>6. client[c].body = <<>>
    BY <1>3 DEF ReadWell, Collected
<1>7. /\ c \notin cut /\ client[c].content_type_json =>
           \E r \in 1..pos[c].req : r <= Len(script[c]) /\ script[c][r] \in {"post", "brief"}
    BY <1>3 DEF ReadWell, Carried
<1> HIDE DEF run, cl
<1>8. ASSUME MovesTo(c, after) PROVE Inv'
  <2>1. /\ after \in Places /\ after.req = pos[c].req /\ after.at = 0
        /\ \/ after.stage = "name" /\ after.n = 1 /\ 1 \in 1..Len(Headers(Kind(c)))
           \/ after.stage = "body" /\ after.n = 0 /\ 1 > Len(Headers(Kind(c)))
      BY <1>3, AfterText
  <2> HIDE DEF after
  <2>2. /\ pos'[c] = after /\ client'[c] = cl /\ cut' = cut /\ script' = script
      BY <1>2, <1>3, <1>5, <1>8 DEF MovesTo
  <2>3. Kind(c)' = Kind(c) /\ More(c)'
      BY <1>3, <2>1, <2>2 DEF Kind, More
  <2>4. Placed(c)'
    <3>1. Len(Body(Kind(c))) \in Nat
        BY <1>3, HeaderTypes
    <3>2. /\ Header(c)' = Headers(Kind(c))[after.n]
        BY <2>2, <2>3 DEF Header
    <3> QED BY <1>2, <1>3, <2>1, <2>2, <2>3, <3>1 DEF Placed, InHeader
  <2>5. Collected(c)'
      BY <1>5, <1>6, <2>1, <2>2, NothingTaken DEF Collected
  <2>6. Judged(c)'
    <3>1. Kind(c) \in {"post", "plain", "brief"} => after.stage = "name" /\ after.n = 1
      <4>1. Kind(c) \in {"post", "plain", "brief"} => Len(Headers(Kind(c))) \in {1, 2}
          BY SomeHeaders
      <4>2. Len(Headers(Kind(c))) \in {1, 2} => ~(1 > Len(Headers(Kind(c))))
          OBVIOUS
      <4>3. (after.stage = "name" /\ after.n = 1) \/ 1 > Len(Headers(Kind(c)))
          BY <2>1
      <4> QED BY <4>1, <4>2, <4>3
    <3> QED BY <2>1, <2>2, <2>3, <3>1 DEF Judged, InHeader
  <2>7. Carried(c)'
      BY <1>5, <1>7, <2>1, <2>2 DEF Carried
  <2>8. ReadStep(c, after, cl)
      BY <1>2, <1>5, <1>8, <2>1 DEF ReadStep
  <2> QED BY <1>5, <2>1, <2>4, <2>5, <2>6, <2>7, <2>8, ReadStepKeeps DEF ReadWell
<1>9. ASSUME MovesTo(c, within) PROVE Inv'
  <2>1. /\ within \in Places /\ within.req = pos[c].req /\ within.at = n
        /\ within.stage = "url" /\ within.n = pos[c].n
      BY <1>3 DEF Places
  <2> HIDE DEF within
  <2>2. /\ pos'[c] = within /\ client'[c] = cl /\ cut' = cut /\ script' = script
      BY <1>2, <1>3, <1>5, <1>9 DEF MovesTo
  <2>3. Kind(c)' = Kind(c) /\ More(c)'
      BY <1>3, <2>1, <2>2 DEF Kind, More
  <2>4. Placed(c)'
      BY <1>3, <2>1, <2>2, <2>3 DEF Placed, InHeader
  <2>5. Collected(c)'
      BY <1>5, <1>6, <2>1, <2>2 DEF Collected
  <2>6. Judged(c)'
      BY <2>1, <2>2 DEF Judged, InHeader
  <2>7. Carried(c)'
      BY <1>5, <1>7, <2>1, <2>2 DEF Carried
  <2>8. ReadStep(c, within, cl)
      BY <1>2, <1>5, <1>9, <2>1 DEF ReadStep
  <2> QED BY <1>5, <2>1, <2>4, <2>5, <2>6, <2>7, <2>8, ReadStepKeeps DEF ReadWell
<1> QED BY <1>4, <1>8, <1>9

(* Within a header's text that TCP cut nothing is known of the type.         *)
LEMMA CutKeeps ==
    ASSUME Inv, NEW c \in Conns, NEW n \in Nat \ {0}, NEW cl \in Clients,
           InHeader(c), Parses(c, pos[c].stage),
           pos[c].stage = "name" => n <= Len(Header(c).name),
           pos[c].stage = "value" => n <= Len(Header(c).value),
           MovesTo(c, [pos[c] EXCEPT !.at = n]), NotesCut(c),
           client' = [client EXCEPT ![c] = cl], cl.body = client[c].body,
           UNCHANGED <<proc, script, eof, handle, queued, working, done, got>>
    PROVE  Inv'
<1> DEFINE within == [pos[c] EXCEPT !.at = n]
<1>1. /\ ReadWell(c) /\ More(c) /\ Kind(c) \in Kinds
      /\ pos[c] \in Places /\ client[c] \in Clients
      /\ pos[c].req \in 1..Len(script[c]) /\ Len(script[c]) \in Nat
      /\ DOMAIN pos = Conns /\ DOMAIN client = Conns
    BY BeingRead
<1>2. /\ within \in Places /\ within.req = pos[c].req /\ within.at = n
      /\ within.stage = pos[c].stage /\ within.n = pos[c].n
    BY <1>1 DEF Places
<1>3. MovesTo(c, within)
    OBVIOUS
<1> HIDE DEF within
<1>4. pos'[c] = within /\ client'[c] = cl
    BY <1>1, <1>3 DEF MovesTo
<1>5. cut' = cut \union {c}
    BY <1>2, <1>4 DEF NotesCut
<1>6. Kind(c)' = Kind(c) /\ More(c)' /\ Header(c)' = Header(c) /\ (InHeader(c)' <=> InHeader(c))
  <2>1. Kind(c)' = Kind(c) /\ More(c)'
      BY <1>1, <1>2, <1>4 DEF Kind, More
  <2> QED BY <1>2, <1>4, <2>1 DEF Header, InHeader
<1>7. Placed(c)'
    BY <1>1, <1>2, <1>4, <1>6 DEF ReadWell, Placed, InHeader
<1>8. Collected(c)'
    BY <1>1, <1>2, <1>4 DEF ReadWell, Collected, InHeader
<1>9. Judged(c)' /\ Carried(c)'
    BY <1>5 DEF Judged, Carried
<1>10. ReadStep(c, within, cl)
    BY <1>2, <1>3, <1>5 DEF ReadStep
<1> QED BY <1>2, <1>7, <1>8, <1>9, <1>10, ReadStepKeeps DEF ReadWell

(* on_header_field: a whole name is recognised for what it is.               *)
LEMMA FieldKeeps ==
    ASSUME Inv, NEW c \in Conns, OnHeaderField(c)
    PROVE  Inv'
<1> DEFINE name == Header(c).name
           after == Place(c, "value", pos[c].n)
<1>1. PICK n \in 0..Len(name) :
          /\ Reads(c, name, n, after)
          /\ client' = [client EXCEPT ![c].header_type = NamesType(c, Run(c, name, n))]
    BY DEF OnHeaderField
<1>2. /\ Parses(c, "name") /\ NotesCut(c)
      /\ UNCHANGED <<proc, script, eof, handle, queued, working, done, got>>
    BY DEF OnHeaderField
<1>3. /\ ReadWell(c) /\ More(c) /\ Kind(c) \in Kinds /\ pos[c].stage = "name"
      /\ pos[c] \in Places /\ client[c] \in Clients
      /\ pos[c].req \in 1..Len(script[c]) /\ Len(script[c]) \in Nat
      /\ DOMAIN pos = Conns /\ DOMAIN client = Conns
    BY <1>2, BeingRead
<1>4. /\ InHeader(c) /\ pos[c].n \in 1..Len(Headers(Kind(c)))
      /\ pos[c].at <= Len(name) /\ Kind(c) # "junk"
    BY <1>3 DEF ReadWell, Placed, InHeader
<1>5. name \in {ContentType, ContentLength} /\ Header(c).value \in {Json, Text, Number, <<>>}
    BY <1>3, <1>4, HeaderTypes DEF Header
<1>6. name \in Texts /\ Len(name) \in Nat /\ Len(Header(c).value) \in Nat
  <2>1. name \in Texts /\ Header(c).value \in Texts
      BY <1>5, TextTypes
  <2> QED BY <2>1 DEF Texts
<1> DEFINE cl == [client[c] EXCEPT !.header_type = NamesType(c, Run(c, name, n))]
           within == [pos[c] EXCEPT !.at = n]
<1>7. \/ MovesTo(c, after) /\ (pos[c].at = 0 => Run(c, name, n) = name)
      \/ MovesTo(c, within) /\ n # 0
  <2>1. pos[c].at \in Nat
      BY <1>3 DEF Places
  <2>2. Reads(c, name, n, after)
      BY <1>1
  <2> QED BY <1>4, <1>6, <2>1, <2>2, ReadsText
<1>8. /\ client' = [client EXCEPT ![c] = cl] /\ cl \in Clients /\ cl.body = client[c].body
      /\ cl.content_type_json = client[c].content_type_json
      /\ cl.header_type = NamesType(c, Run(c, name, n))
    BY <1>1, <1>3 DEF Clients, NamesType, IsPrefix
<1> HIDE DEF cl
<1>9. ASSUME MovesTo(c, after), pos[c].at = 0 => Run(c, name, n) = name PROVE Inv'
  <2>1. /\ after \in Places /\ after.req = pos[c].req /\ after.at = 0
        /\ after.stage = "value" /\ after.n = pos[c].n
      BY <1>3 DEF Place, Places, Stages
  <2> HIDE DEF after
  <2>2. pos'[c] = after /\ client'[c] = cl /\ script' = script
      BY <1>2, <1>3, <1>8, <1>9 DEF MovesTo
  <2>3. Kind(c)' = Kind(c) /\ More(c)'
      BY <1>3, <2>1, <2>2 DEF Kind, More
  <2>4. Header(c)' = Header(c) /\ InHeader(c)'
      BY <2>1, <2>2, <2>3 DEF Header, InHeader
  <2>5. Placed(c)'
      BY <1>3, <1>4, <1>6, <2>1, <2>2, <2>3, <2>4 DEF Placed
  <2>6. Collected(c)'
      BY <1>3, <1>8, <2>1, <2>2 DEF ReadWell, Collected
  <2>7. cut' = IF pos[c].at = 0 THEN cut ELSE cut \union {c}
      BY <1>2, <2>1, <2>2 DEF NotesCut
  <2>8. c \notin cut' => (cl.header_type <=> name = ContentType)
      BY <1>5, <1>8, <1>9, <2>7, WholeTexts DEF NamesType
  <2>9. Judged(c)'
      BY <1>3, <1>4, <1>8, <2>1, <2>2, <2>3, <2>4, <2>7, <2>8 DEF ReadWell, Judged
  <2>10. Carried(c)'
      BY <1>3, <1>8, <2>1, <2>2, <2>7 DEF ReadWell, Carried
  <2>11. ReadStep(c, after, cl)
      BY <1>2, <1>8, <1>9, <2>1, <2>7 DEF ReadStep
  <2> QED BY <1>8, <2>1, <2>5, <2>6, <2>9, <2>10, <2>11, ReadStepKeeps DEF ReadWell
<1>10. ASSUME MovesTo(c, within), n # 0 PROVE Inv'
  <2>1. n \in Nat \ {0} /\ n <= Len(Header(c).name) /\ pos[c].stage # "value"
      BY <1>3, <1>6, <1>10
  <2> QED BY <1>2, <1>3, <1>4, <1>8, <1>10, <2>1, CutKeeps
<1> QED BY <1>7, <1>9, <1>10

(* on_header_value: a whole value says what its type is.                     *)
LEMMA ValueKeeps ==
    ASSUME Inv, NEW c \in Conns, OnHeaderValue(c)
    PROVE  Inv'
<1> DEFINE value == Header(c).value
           after == HeaderOrBody(c, pos[c].n + 1)
<1>1. PICK n \in 0..Len(value) :
          /\ Reads(c, value, n, after)
          /\ client' = IF client[c].header_type
                       THEN [client EXCEPT ![c].content_type_json =
                               IsPrefix(Run(c, value, n), Json)]
                       ELSE client
    BY DEF OnHeaderValue
<1>2. /\ Parses(c, "value") /\ NotesCut(c)
      /\ UNCHANGED <<proc, script, eof, handle, queued, working, done, got>>
    BY DEF OnHeaderValue
<1>3. /\ ReadWell(c) /\ More(c) /\ Kind(c) \in Kinds /\ pos[c].stage = "value"
      /\ pos[c] \in Places /\ client[c] \in Clients
      /\ pos[c].req \in 1..Len(script[c]) /\ Len(script[c]) \in Nat
      /\ DOMAIN pos = Conns /\ DOMAIN client = Conns
    BY <1>2, BeingRead
<1>4. /\ InHeader(c) /\ pos[c].n \in 1..Len(Headers(Kind(c)))
      /\ pos[c].at <= Len(value) /\ Kind(c) # "junk"
    BY <1>3 DEF ReadWell, Placed, InHeader
<1>5. value \in {Json, Text, Number, <<>>}
    BY <1>3, <1>4, HeaderTypes DEF Header
<1>6. value \in Texts /\ Len(value) \in Nat
  <2>1. value \in Texts
      BY <1>5, TextTypes
  <2> QED BY <2>1 DEF Texts
<1> DEFINE cl == IF client[c].header_type
                 THEN [client[c] EXCEPT !.content_type_json = IsPrefix(Run(c, value, n), Json)]
                 ELSE client[c]
           within == [pos[c] EXCEPT !.at = n]
<1>7. \/ MovesTo(c, after) /\ (pos[c].at = 0 => Run(c, value, n) = value)
      \/ MovesTo(c, within) /\ n # 0
  <2>1. pos[c].at \in Nat
      BY <1>3 DEF Places
  <2>2. Reads(c, value, n, after)
      BY <1>1
  <2> QED BY <1>4, <1>6, <2>1, <2>2, ReadsText
<1>8. /\ client' = [client EXCEPT ![c] = cl] /\ cl \in Clients /\ cl.body = client[c].body
      /\ client[c].header_type =>
           (cl.content_type_json <=> IsPrefix(Run(c, value, n), Json))
      /\ ~client[c].header_type => cl = client[c]
  <2>1. CASE client[c].header_type
    <3>1. IsPrefix(Run(c, value, n), Json) \in BOOLEAN
        BY DEF IsPrefix
    <3> QED BY <1>1, <1>3, <2>1, <3>1 DEF Clients
  <2>2. CASE ~client[c].header_type
    <3>1. cl = client[c]
        BY <2>2
    <3>2. client \in [Conns -> Clients]
        BY DEF Inv, Typing
    <3>3. client' = client
        BY <1>1, <2>2
    <3>4. client' = [client EXCEPT ![c] = cl]
        BY <3>1, <3>2, <3>3
    <3> QED BY <1>3, <2>2, <3>1, <3>4
  <2> QED BY <2>1, <2>2
<1> HIDE DEF cl
<1>9. ASSUME MovesTo(c, after), pos[c].at = 0 => Run(c, value, n) = value PROVE Inv'
  <2>1. /\ after \in Places /\ after.req = pos[c].req /\ after.at = 0
        /\ \/ /\ after.stage = "name" /\ after.n = pos[c].n + 1
              /\ pos[c].n + 1 \in 1..Len(Headers(Kind(c)))
           \/ /\ after.stage = "body" /\ after.n = 0
              /\ pos[c].n + 1 > Len(Headers(Kind(c)))
    <3>1. pos[c].n + 1 \in Nat \ {0}
        BY <1>4
    <3> QED BY <1>3, <3>1, AfterText
  <2> HIDE DEF after
  <2>2. pos'[c] = after /\ client'[c] = cl /\ script' = script
      BY <1>2, <1>3, <1>8, <1>9 DEF MovesTo
  <2>3. Kind(c)' = Kind(c) /\ More(c)'
      BY <1>3, <2>1, <2>2 DEF Kind, More
  <2>4. Placed(c)'
    <3>1. Len(Body(Kind(c))) \in Nat
        BY <1>3, HeaderTypes
    <3>2. Header(c)' = Headers(Kind(c))[after.n]
        BY <2>2, <2>3 DEF Header
    <3>3. after.stage = "name" => Len(Header(c)'.name) \in Nat
      <4>1. after.stage = "name" => Headers(Kind(c))[after.n].name \in Texts
        <5>1. after.stage = "name" => after.n \in 1..Len(Headers(Kind(c)))
            BY <2>1
        <5>2. after.stage = "name" =>
                Headers(Kind(c))[after.n].name \in {ContentType, ContentLength}
            BY <1>3, <5>1, HeaderTypes
        <5> QED BY <5>2, TextTypes
      <4> QED BY <3>2, <4>1 DEF Texts
    <3> QED BY <1>3, <1>4, <2>1, <2>2, <2>3, <3>1, <3>3 DEF Placed, InHeader
  <2>5. Collected(c)'
      BY <1>3, <1>8, <2>1, <2>2, NothingTaken DEF ReadWell, Collected
  <2>6. cut' = IF pos[c].at = 0 THEN cut ELSE cut \union {c}
      BY <1>2, <2>1, <2>2 DEF NotesCut
  <2>7. ASSUME c \notin cut'
        PROVE  /\ Kind(c) = "post" => cl.content_type_json
               /\ Kind(c) = "brief" => cl.content_type_json
               /\ Kind(c) = "plain" => ~cl.content_type_json
               /\ cl.content_type_json =>
                    client[c].content_type_json \/ Kind(c) \in {"post", "brief"}
               /\ Kind(c) = "post" /\ after.stage = "name" => after.n = 2
    <3>1. /\ c \notin cut /\ Run(c, value, n) = value
          /\ client[c].header_type <=> Header(c).name = ContentType
          /\ Kind(c) = "post" /\ pos[c].n = 2 => client[c].content_type_json
        BY <1>3, <1>4, <1>9, <2>6, <2>7 DEF ReadWell, Judged
    <3>2. CASE Kind(c) = "post"
      <4>1. /\ pos[c].n = 1 => Header(c) = [name |-> ContentType, value |-> Json]
            /\ pos[c].n # 1 => pos[c].n = 2 /\ Header(c).name = ContentLength
          BY <1>3, <1>4, <3>2, TheHeaders DEF Header
      <4>2. cl.content_type_json
        <5>1. CASE pos[c].n = 1
          <6>1. Header(c).name = ContentType /\ value = Json
              BY <4>1, <5>1
          <6> QED BY <1>8, <3>1, <6>1, WholeTexts
        <5>2. CASE pos[c].n # 1
          <6>1. ~client[c].header_type /\ client[c].content_type_json
              BY <3>1, <3>2, <4>1, <5>2, WholeTexts
          <6> QED BY <1>8, <6>1
        <5> QED BY <5>1, <5>2
      <4>3. after.stage = "name" => after.n = 2
        <5>1. Len(Headers(Kind(c))) = 2
            BY <3>2, SomeHeaders
        <5> QED BY <1>4, <2>1, <5>1
      <4> QED BY <3>2, <4>2, <4>3
    <3>3. CASE Kind(c) = "plain"
      <4>1. Header(c) = [name |-> ContentType, value |-> Text]
          BY <1>3, <1>4, <3>3, TheHeaders DEF Header
      <4> QED BY <1>8, <3>1, <3>3, <4>1, WholeTexts
    <3>4. CASE Kind(c) = "brief"
      <4>1. Header(c) = [name |-> ContentType, value |-> <<>>]
          BY <1>3, <1>4, <3>4, TheHeaders DEF Header
      <4> QED BY <1>8, <3>1, <3>4, <4>1, WholeTexts
    <3>5. CASE Kind(c) = "bare"
      <4>1. Header(c).name = ContentLength
          BY <1>3, <1>4, <3>5, TheHeaders DEF Header
      <4> QED BY <1>8, <3>1, <3>5, <4>1, WholeTexts
    <3>6. Kind(c) \in {"post", "plain", "brief", "bare"}
        BY <1>3, <1>4, TheHeaders DEF Kinds
    <3> QED BY <3>2, <3>3, <3>4, <3>5, <3>6
  <2>8. Judged(c)'
      BY <2>1, <2>2, <2>3, <2>7 DEF Judged, InHeader
  <2>9. Carried(c)'
    <3> SUFFICES ASSUME c \notin cut', cl.content_type_json
                 PROVE  \E r \in 1..pos[c].req : r <= Len(script[c])
                                                 /\ script[c][r] \in {"post", "brief"}
        BY <2>1, <2>2 DEF Carried
    <3>1. c \notin cut
        BY <2>6
    <3>2. CASE client[c].content_type_json
        BY <1>3, <3>1, <3>2 DEF ReadWell, Carried
    <3>3. CASE Kind(c) \in {"post", "brief"}
      <4>1. pos[c].req \in 1..pos[c].req /\ pos[c].req <= Len(script[c])
          BY <1>3
      <4> QED BY <3>3, <4>1 DEF Kind
    <3> QED BY <2>7, <3>2, <3>3
  <2>10. ReadStep(c, after, cl)
      BY <1>2, <1>8, <1>9, <2>1, <2>6 DEF ReadStep
  <2> QED BY <1>8, <2>1, <2>4, <2>5, <2>8, <2>9, <2>10, ReadStepKeeps DEF ReadWell
<1>10. ASSUME MovesTo(c, within), n # 0 PROVE Inv'
  <2>1. n \in Nat \ {0} /\ n <= Len(Header(c).value) /\ pos[c].stage # "name"
      BY <1>3, <1>6, <1>10
  <2> QED BY <1>2, <1>3, <1>4, <1>8, <1>10, <2>1, CutKeeps
<1> QED BY <1>7, <1>9, <1>10

(* on_body.                                                                 *)
LEMMA BodyKeeps ==
    ASSUME Inv, NEW c \in Conns, OnBody(c)
    PROVE  Inv'
<1> DEFINE m == pos[c].n
           part == Body(Kind(c))[m + 1]
           b == Append(client[c].body, [piece |-> part, req |-> pos[c].req])
           cl == [client[c] EXCEPT !.body = b]
           after == Place(c, "body", m + 1)
<1>1. /\ Parses(c, "body") /\ m < Len(Body(Kind(c)))
      /\ GoesTo(c, after)
      /\ client' = [client EXCEPT ![c].body =
                      Append(@, [piece |-> part, req |-> pos[c].req])]
      /\ UNCHANGED <<proc, script, eof, handle, queued, working, done, got, cut>>
    BY DEF OnBody
<1>2. /\ ReadWell(c) /\ More(c) /\ Kind(c) \in Kinds /\ pos[c].stage = "body"
      /\ pos[c] \in Places /\ client[c] \in Clients
      /\ pos[c].req \in 1..Len(script[c]) /\ Len(script[c]) \in Nat
      /\ DOMAIN pos = Conns /\ DOMAIN client = Conns
    BY <1>1, BeingRead
<1>3. m \in Nat /\ pos[c].req \in Nat /\ Len(Body(Kind(c))) \in Nat
    BY <1>2, HeaderTypes DEF Places
<1>4. part \in Parts
    BY <1>1, <1>2, <1>3, PartOfBody
<1>5. client[c].body = Taken(Kind(c), pos[c].req, m)
    BY <1>2 DEF ReadWell, Collected
<1>6. b = Taken(Kind(c), pos[c].req, m + 1)
    BY <1>2, <1>3, <1>5, OneMoreTaken
<1>7. b \in Bodies
    BY <1>2, <1>3, <1>4 DEF Clients, Bodies
<1>8. client' = [client EXCEPT ![c] = cl]
    BY <1>1, <1>2
<1>9. /\ cl \in Clients /\ cl.body = b
      /\ cl.content_type_json = client[c].content_type_json
    BY <1>2, <1>7 DEF Clients
<1>10. /\ after \in Places /\ after.req = pos[c].req /\ after.at = 0
       /\ after.stage = "body" /\ after.n = m + 1
    BY <1>2, <1>3 DEF Place, Places, Stages
<1>11. MovesTo(c, after)
    BY <1>1 DEF GoesTo, MovesTo
<1> HIDE DEF cl, b, after, part
<1>12. pos'[c] = after /\ client'[c] = cl /\ script' = script /\ cut' = cut
    BY <1>1, <1>2, <1>8, <1>11 DEF MovesTo
<1>13. Kind(c)' = Kind(c) /\ More(c)'
    BY <1>2, <1>10, <1>12 DEF Kind, More
<1>14. Placed(c)'
    BY <1>1, <1>2, <1>3, <1>10, <1>12, <1>13 DEF ReadWell, Placed, InHeader
<1>15. Collected(c)'
    BY <1>6, <1>9, <1>10, <1>12, <1>13 DEF Collected
<1>16. Judged(c)'
    BY <1>2, <1>9, <1>10, <1>12, <1>13 DEF ReadWell, Judged, InHeader
<1>17. Carried(c)'
    BY <1>2, <1>9, <1>10, <1>12 DEF ReadWell, Carried
<1>18. ReadStep(c, after, cl)
    BY <1>1, <1>8, <1>10, <1>11 DEF ReadStep
<1> QED BY <1>9, <1>10, <1>14, <1>15, <1>16, <1>17, <1>18, ReadStepKeeps DEF ReadWell

(* UvClose of c after which nothing else is left to do for c if it is quiet, *)
(* and before which it was open if it was quiet.                            *)
LEMMA CloseKeeps ==
    ASSUME Typing, NEW c \in Conns, UvClose(c), UNCHANGED <<script, eof>>,
           proc = "running",
           Quiet(c) => handle[c] # "closing"
    PROVE  /\ proc' \in {"running", "aborted"}
           /\ handle' \in [Conns -> {"none", "open", "closing"}]
           /\ handle'[c] = "closing"
           /\ \A d \in Conns : d # c => handle'[d] = handle[d]
           /\ proc' = "aborted" => SomeoneLoud'
<1>1. handle' = [handle EXCEPT ![c] = "closing"]
      /\ proc' = IF handle[c] = "closing" THEN "aborted" ELSE proc
    BY DEF UvClose
<1>2. \A d \in Conns : Quiet(d)' <=> Quiet(d)
    BY DEF Quiet
<1> QED BY <1>1, <1>2 DEF Typing, SomeoneLoud

(* One answer to a connection that is not closed, and is closed with it.     *)
LEMMA WriteKeeps ==
    ASSUME Typing, \A d \in Conns : OneAnswer(d), NEW c \in Conns,
           NEW r \in Replies, UvWrite(c, r), UvClose(c), r.conn = c,
           c \notin cut /\ r.kind = "400" => script[c][r.req] \in {"plain", "bare"},
           UNCHANGED <<script, cut>>
    PROVE  /\ got' \in [Conns -> Seq(Replies)]
           /\ \A d \in Conns : OneAnswer(d)'
<1>1. /\ handle \in [Conns -> {"none", "open", "closing"}]
      /\ got \in [Conns -> Seq(Replies)]
    BY DEF Typing
<1>2. /\ handle' = [handle EXCEPT ![c] = "closing"]
      /\ got' = IF handle[c] = "open" /\ ~eof[c]
                THEN [got EXCEPT ![c] = Append(@, r)] ELSE got
    BY DEF UvClose, UvWrite
<1>3. handle'[c] = "closing" /\ \A d \in Conns : d # c => handle'[d] = handle[d]
    BY <1>1, <1>2
<1>4. CASE handle[c] = "open" /\ ~eof[c]
  <2>1. got[c] = <<>>
      BY <1>4 DEF OneAnswer
  <2>2. got' = [got EXCEPT ![c] = <<r>>]
      BY <1>2, <1>4, <2>1
  <2>3. got' \in [Conns -> Seq(Replies)] /\ got'[c] = <<r>>
        /\ \A d \in Conns : d # c => got'[d] = got[d]
      BY <1>1, <2>2
  <2>4. Len(<<r>>) = 1 /\ <<r>>[1] = r
      OBVIOUS
  <2>5. OneAnswer(c)'
      BY <1>3, <2>3, <2>4 DEF OneAnswer
  <2>6. \A d \in Conns : d # c => OneAnswer(d)'
      BY <1>3, <2>3 DEF OneAnswer
  <2> QED BY <2>3, <2>5, <2>6
<1>5. CASE ~(handle[c] = "open" /\ ~eof[c])
  <2>1. got' = got
      BY <1>2, <1>5
  <2> QED BY <1>1, <1>3, <2>1 DEF OneAnswer
<1> QED BY <1>4, <1>5

(* A request of c ends, and what was collected of it is forgotten.           *)
LEMMA NextRequest ==
    ASSUME Typing, \A d \in Conns : ReadWell(d),
           NEW c \in Conns, More(c), MovesTo(c, Start(pos[c].req + 1)),
           NEW cl \in Clients, cl.body = <<>>, client' = [client EXCEPT ![c] = cl],
           cl.content_type_json = client[c].content_type_json,
           UNCHANGED <<script, cut>>
    PROVE  /\ pos' \in [Conns -> Places]
           /\ client' \in [Conns -> Clients]
           /\ reading' \subseteq Conns /\ \A x, d \in reading' : x = d
           /\ \A d \in Conns : ReadWell(d)'
           /\ pos'[c].req = pos[c].req + 1
           /\ \A d \in Conns : d # c => pos'[d] = pos[d]
           /\ \A d \in Conns : d # c => (More(d)' <=> More(d))
           /\ Len(script[c]) <= 1 => ~More(c)'
<1> DEFINE place == Start(pos[c].req + 1)
<1>1. /\ pos \in [Conns -> Places]
      /\ client \in [Conns -> Clients]
      /\ script \in [Conns -> Seq(Kinds)]
    BY DEF Typing
<1>2. /\ pos' = [pos EXCEPT ![c] = place]
      /\ reading' \in {{}, {c}}
    BY DEF MovesTo
<1>3. /\ pos[c].req \in Nat /\ pos[c].req >= 1 /\ pos[c].req <= Len(script[c])
      /\ Len(script[c]) \in Nat
    BY <1>1 DEF ReadWell, Placed, More, Places
<1>4. /\ place \in Places /\ place.req = pos[c].req + 1 /\ place.stage = "url"
      /\ place.at = 0 /\ place = Start(place.req)
    BY <1>3 DEF Start, Places, Stages
<1> HIDE DEF place
<1>5. /\ pos' \in [Conns -> Places] /\ pos'[c] = place
      /\ \A d \in Conns : d # c => pos'[d] = pos[d]
    BY <1>1, <1>2, <1>4
<1>6. /\ client' \in [Conns -> Clients]
      /\ client'[c] = cl
      /\ \A d \in Conns : d # c => client'[d] = client[d]
    BY <1>1
<1>7. \A d \in Conns : d # c => ReadWell(d)' /\ (More(d)' <=> More(d))
    BY <1>5, <1>6, SameRead
<1>8. ReadWell(c)'
  <2>1. Placed(c)'
    <3>1. Len(Url) = 2
        BY DEF Url
    <3> QED BY <1>3, <1>4, <1>5, <3>1 DEF Placed, InHeader
  <2>2. Collected(c)'
      BY <1>4, <1>5, <1>6 DEF Collected
  <2>3. Judged(c)'
      BY <1>4, <1>5 DEF Judged, InHeader
  <2>4. Carried(c)'
    <3>1. Carried(c)
        BY DEF ReadWell
    <3>2. \A r \in 1..pos[c].req : r \in 1..(pos[c].req + 1)
        BY <1>3
    <3> QED BY <1>4, <1>5, <1>6, <3>1, <3>2 DEF Carried
  <2> QED BY <2>1, <2>2, <2>3, <2>4 DEF ReadWell
<1>9. Len(script[c]) <= 1 => ~More(c)'
    BY <1>3, <1>4, <1>5 DEF More
<1>10. reading' \subseteq Conns /\ \A x, d \in reading' : x = d
    BY <1>2
<1> QED BY <1>4, <1>5, <1>6, <1>7, <1>8, <1>9, <1>10

(* What was sent stays as it was sent.                                      *)
LEMMA SentStays ==
    ASSUME Typing, \A w \in Works : AsSent(w), UNCHANGED <<script, cut>>,
           pos' \in [Conns -> Places],
           \A d \in Conns : pos'[d].req >= pos[d].req
    PROVE  \A w \in Works : AsSent(w)'
<1> SUFFICES ASSUME NEW w \in Works PROVE AsSent(w)'
    OBVIOUS
<1>1. w.conn \in Conns /\ w.req \in Nat
    BY WorksTyped DEF Requests
<1>2. pos[w.conn].req \in Nat /\ pos'[w.conn].req \in Nat
    BY <1>1 DEF Typing, Places
<1> QED BY <1>1, <1>2 DEF AsSent

(* A quiet client all of whose requests are read has no more to come.        *)
LEMMA QuietReading ==
    ASSUME Inv, NEW c \in Conns, More(c), Quiet(c)
    PROVE  handle[c] # "closing" /\ \A w \in Works : w.conn # c
<1>1. handle[c] # "closing"
    BY DEF Inv, Finished
<1>2. ASSUME NEW w \in Works, w.conn = c PROVE FALSE
  <2>1. w.req \in Nat /\ pos[c].req \in Nat /\ Len(script[c]) \in Nat
    <3>1. w.req \in Nat
        BY WorksTyped DEF Inv, Requests
    <3>2. pos[c].req \in Nat /\ script[c] \in Seq(Kinds)
        BY DEF Inv, Typing, Places
    <3> QED BY <3>1, <3>2
  <2>2. AsSent(w)
      BY DEF Inv
  <2>3. w.req >= 1 /\ w.req < pos[c].req
      BY <2>2, <1>2 DEF AsSent
  <2>4. pos[c].req <= 1
      BY <2>1 DEF More, Quiet
  <2> QED BY <2>1, <2>3, <2>4
<1> QED BY <1>1, <1>2

(* on_read gives the connection up.                                         *)
LEMMA ErrorKeeps ==
    ASSUME Inv, proc = "running", NEW c \in Conns, ParseError(c)
    PROVE  Inv'
<1>1. /\ Parses(c, "url") /\ UvClose(c) /\ MovesTo(c, Start(pos[c].req + 1))
      /\ UNCHANGED <<script, eof, client, queued, working, done, got, cut>>
    BY DEF ParseError, MovesTo
<1>2. More(c) /\ pos[c].stage = "url" /\ ReadWell(c)
    BY <1>1, BeingRead
<1>3. /\ client[c].body = <<>> /\ client[c] \in Clients
      /\ client' = [client EXCEPT ![c] = client[c]]
    BY <1>1, <1>2 DEF Inv, ReadWell, Collected, Typing
<1>4. /\ pos' \in [Conns -> Places]
      /\ client' \in [Conns -> Clients]
      /\ reading' \subseteq Conns /\ \A x, d \in reading' : x = d
      /\ \A d \in Conns : ReadWell(d)'
      /\ pos'[c].req = pos[c].req + 1
      /\ \A d \in Conns : d # c => pos'[d] = pos[d]
      /\ \A d \in Conns : d # c => (More(d)' <=> More(d))
      /\ Len(script[c]) <= 1 => ~More(c)'
    BY <1>1, <1>2, <1>3, NextRequest DEF Inv
<1>5. Quiet(c) => handle[c] # "closing" /\ \A w \in Works : w.conn # c
    BY <1>2, QuietReading
<1>6. /\ proc' \in {"running", "aborted"}
      /\ handle' \in [Conns -> {"none", "open", "closing"}]
      /\ handle'[c] = "closing"
      /\ \A d \in Conns : d # c => handle'[d] = handle[d]
      /\ proc' = "aborted" => SomeoneLoud'
    BY <1>1, <1>5, CloseKeeps DEF Inv
<1>7. Works' = Works
    BY <1>1 DEF Works
<1>8. Typing'
    BY <1>1, <1>4, <1>6 DEF Inv, Typing
<1>9. \A w \in Works' : AsSent(w)'
  <2>1. \A d \in Conns : pos'[d].req >= pos[d].req
    <3> SUFFICES ASSUME NEW d \in Conns PROVE pos'[d].req >= pos[d].req
        OBVIOUS
    <3>1. pos[d].req \in Nat
        BY DEF Inv, Typing, Places
    <3>2. pos'[d].req = pos[d].req \/ pos'[d].req = pos[d].req + 1
        BY <1>4
    <3> QED BY <3>1, <3>2
  <2> QED BY <1>1, <1>4, <1>7, <2>1, SentStays DEF Inv
<1>10. \A d \in Conns : OneAnswer(d)'
    BY <1>1, <1>6 DEF Inv, OneAnswer
<1>11. AtOnePlace'
    BY <1>1 DEF Inv, AtOnePlace
<1>12. \A d \in Conns : Finished(d)'
  <2> SUFFICES ASSUME NEW d \in Conns PROVE Finished(d)'
      OBVIOUS
  <2>1. Quiet(d)' <=> Quiet(d)
      BY <1>1 DEF Quiet
  <2>2. CASE d = c
      BY <2>1, <2>2, <1>4, <1>5, <1>7 DEF Finished, Quiet
  <2>3. CASE d # c
      BY <2>1, <2>3, <1>4, <1>6, <1>7 DEF Inv, Finished
  <2> QED BY <2>2, <2>3
<1> QED BY <1>4, <1>6, <1>8, <1>9, <1>10, <1>11, <1>12 DEF Inv

(* on_message_complete.                                                     *)
LEMMA CompleteKeeps ==
    ASSUME Inv, proc = "running", NEW c \in Conns, OnMessageComplete(c)
    PROVE  Inv'
<1> DEFINE cl == [client[c] EXCEPT !.body = <<>>]
<1>1. /\ Parses(c, "body") /\ pos[c].n = Len(Body(Kind(c))) /\ ForgetBody(c)
      /\ MovesTo(c, Start(pos[c].req + 1))
      /\ UNCHANGED <<script, eof, working, done, cut>>
    BY DEF OnMessageComplete, GoesTo, MovesTo
<1>2. /\ More(c) /\ Kind(c) \in Kinds /\ ReadWell(c) /\ pos[c].stage = "body"
      /\ pos[c].req \in 1..Len(script[c]) /\ Len(script[c]) \in Nat
    BY <1>1, BeingRead
<1>3. /\ client' = [client EXCEPT ![c] = cl]
      /\ client[c] \in Clients /\ pos[c].req \in Nat
    BY <1>1 DEF ForgetBody, Inv, Typing, Places
<1>4. cl \in Clients /\ cl.body = <<>>
      /\ cl.content_type_json = client[c].content_type_json
  <2>1. <<>> \in Bodies
      BY DEF Bodies
  <2> QED BY <1>3, <2>1 DEF Clients
<1> HIDE DEF cl
<1>5. /\ pos' \in [Conns -> Places]
      /\ client' \in [Conns -> Clients]
      /\ reading' \subseteq Conns /\ \A x, d \in reading' : x = d
      /\ \A d \in Conns : ReadWell(d)'
      /\ pos'[c].req = pos[c].req + 1
      /\ \A d \in Conns : d # c => pos'[d] = pos[d]
      /\ \A d \in Conns : d # c => (More(d)' <=> More(d))
      /\ Len(script[c]) <= 1 => ~More(c)'
    BY <1>1, <1>2, <1>3, <1>4, NextRequest DEF Inv
<1>6. Quiet(c) => handle[c] # "closing" /\ \A w \in Works : w.conn # c
    BY <1>2, QuietReading
<1>7. \A w \in Works : AsSent(w)'
  <2>1. \A d \in Conns : pos'[d].req >= pos[d].req
    <3> SUFFICES ASSUME NEW d \in Conns PROVE pos'[d].req >= pos[d].req
        OBVIOUS
    <3>1. pos[d].req \in Nat
        BY DEF Inv, Typing, Places
    <3>2. pos'[d].req = pos[d].req \/ pos'[d].req = pos[d].req + 1
        BY <1>5
    <3> QED BY <3>1, <3>2
  <2> QED BY <1>1, <1>5, <2>1, SentStays DEF Inv
<1>8. CASE ~Accepted(c)
  <2>1. /\ UvWrite(c, BadRequest(c)) /\ UvClose(c)
        /\ UNCHANGED <<queued, working, done>>
      BY <1>1, <1>8 DEF OnMessageComplete
  <2>2. /\ proc' \in {"running", "aborted"}
        /\ handle' \in [Conns -> {"none", "open", "closing"}]
        /\ handle'[c] = "closing"
        /\ \A d \in Conns : d # c => handle'[d] = handle[d]
        /\ proc' = "aborted" => SomeoneLoud'
      BY <1>1, <1>6, <2>1, CloseKeeps DEF Inv
  <2>3. got' \in [Conns -> Seq(Replies)] /\ \A d \in Conns : OneAnswer(d)'
    <3>1. /\ BadRequest(c) \in Replies /\ BadRequest(c).conn = c
          /\ BadRequest(c).req = pos[c].req
      <4>1. <<>> \in Texts /\ <<>> \in Bodies
          BY DEF Texts, Bodies
      <4> QED BY <1>3, <4>1 DEF BadRequest, Replies
    <3>2. c \notin cut => script[c][pos[c].req] \in {"plain", "bare"}
        BY <1>2, <1>8 DEF Accepted, ReadWell, Placed, Judged, Kind, Kinds
    <3> QED BY <1>1, <2>1, <3>1, <3>2, WriteKeeps DEF Inv
  <2>4. Works' = Works
      BY <2>1 DEF Works
  <2>5. Typing'
      BY <1>1, <1>5, <2>1, <2>2, <2>3 DEF Inv, Typing
  <2>6. AtOnePlace'
      BY <2>1 DEF Inv, AtOnePlace
  <2>7. \A d \in Conns : Finished(d)'
    <3> SUFFICES ASSUME NEW d \in Conns PROVE Finished(d)'
        OBVIOUS
    <3>1. Quiet(d)' <=> Quiet(d)
        BY <1>1 DEF Quiet
    <3>2. CASE d = c
        BY <3>1, <3>2, <1>5, <1>6, <2>4 DEF Finished, Quiet
    <3>3. CASE d # c
        BY <3>1, <3>3, <1>5, <2>2, <2>4 DEF Inv, Finished
    <3> QED BY <3>2, <3>3
  <2> QED BY <1>5, <1>7, <2>2, <2>3, <2>4, <2>5, <2>6, <2>7 DEF Inv
<1>9. CASE Accepted(c)
  <2>1. /\ queued' = Append(queued, Work(c))
        /\ UNCHANGED <<proc, handle, got, working, done>>
      BY <1>1, <1>9 DEF OnMessageComplete
  <2> PICK new : new = Work(c)
      OBVIOUS
  <2>2. /\ new.conn = c /\ new.req = pos[c].req /\ new.kind = Kind(c)
        /\ new.data = client[c].body
      BY DEF Work
  <2>3. new \in Requests
      BY <1>2, <1>3 DEF Work, Requests, Clients
  <2>4. AsSent(new)'
    <3>1. pos[c].req >= 1 /\ pos[c].req <= Len(script[c])
        BY <1>2
    <3>2. client[c].body = Taken(Kind(c), pos[c].req, Len(Body(Kind(c))))
        BY <1>1, <1>2 DEF ReadWell, Collected
    <3>3. ASSUME c \notin cut
          PROVE  /\ Kind(c) # "plain"
                 /\ Kind(c) = "bare" => \E r \in 1..(pos[c].req - 1) :
                                           script[c][r] \in {"post", "brief"}
      <4>1. Kind(c) # "plain"
          BY <1>2, <1>9, <3>3 DEF Accepted, ReadWell, Judged
      <4>2. ASSUME Kind(c) = "bare"
            PROVE  \E r \in 1..(pos[c].req - 1) : script[c][r] \in {"post", "brief"}
        <5>1. PICK r \in 1..pos[c].req : script[c][r] \in {"post", "brief"}
            BY <1>2, <1>9, <3>3, <4>2 DEF Accepted, ReadWell, Carried
        <5>2. r # pos[c].req
            BY <4>2, <5>1 DEF Kind
        <5>3. r \in 1..(pos[c].req - 1)
            BY <1>3, <5>2
        <5> QED BY <5>1, <5>3
      <4> QED BY <4>1, <4>2
    <3>4. new.req < pos'[c].req
        BY <1>3, <1>5, <2>2
    <3> QED BY <3>1, <3>2, <3>3, <3>4, <1>1, <2>2 DEF AsSent, Kind
  <2>5. Works' = Works \union {new}
      BY <2>1, <1>1, QueuedOne DEF Inv, Typing
  <2>6. Typing'
    <3>1. queued' \in Seq(Requests)
        BY <2>1, <2>3 DEF Inv, Typing
    <3> QED BY <1>1, <1>5, <2>1, <3>1 DEF Inv, Typing
  <2>7. \A w \in Works : ~Same(w, new)
    <3> SUFFICES ASSUME NEW w \in Works, w.conn = c, w.req = pos[c].req PROVE FALSE
        BY <2>2 DEF Same
    <3> QED BY <1>3 DEF Inv, AsSent
  <2>8. AtOnePlace'
    <3>1. /\ Len(queued') = Len(queued) + 1 /\ Len(queued) \in Nat
          /\ queued'[Len(queued) + 1] = new
          /\ \A i \in 1..Len(queued) : queued'[i] = queued[i]
        BY <2>1 DEF Inv, Typing
    <3>2. \A i \in 1..Len(queued) : queued[i] \in Works
      <4>1. DOMAIN queued = 1..Len(queued)
          BY DEF Inv, Typing
      <4> QED BY <4>1 DEF Works
    <3>3. \A w \in working \union done : w \in Works
        BY DEF Works
    <3>4. \A i, j \in 1..Len(queued') : Same(queued'[i], queued'[j]) => i = j
      <4> SUFFICES ASSUME NEW i \in 1..Len(queued'), NEW j \in 1..Len(queued'),
                          Same(queued'[i], queued'[j])
                   PROVE  i = j
          OBVIOUS
      <4>1. CASE i \in 1..Len(queued) /\ j \in 1..Len(queued)
          BY <4>1, <3>1 DEF Inv, AtOnePlace
      <4>2. CASE i = Len(queued) + 1 /\ j \in 1..Len(queued)
        <5>1. Same(new, queued[j]) /\ queued[j] \in Works
            BY <4>2, <3>1, <3>2
        <5> QED BY <5>1, <2>7 DEF Same
      <4>3. CASE j = Len(queued) + 1 /\ i \in 1..Len(queued)
        <5>1. Same(queued[i], new) /\ queued[i] \in Works
            BY <4>3, <3>1, <3>2
        <5> QED BY <5>1, <2>7
      <4> QED BY <4>1, <4>2, <4>3, <3>1
    <3>5. \A i \in 1..Len(queued'), w \in working \union done : ~Same(queued'[i], w)
      <4> SUFFICES ASSUME NEW i \in 1..Len(queued'), NEW w \in working \union done,
                          Same(queued'[i], w)
                   PROVE  FALSE
          OBVIOUS
      <4>1. CASE i \in 1..Len(queued)
          BY <4>1, <3>1 DEF Inv, AtOnePlace
      <4>2. CASE i = Len(queued) + 1
          BY <4>2, <3>1, <3>3, <2>7 DEF Same
      <4> QED BY <4>1, <4>2, <3>1
    <3> QED BY <3>4, <3>5, <2>1 DEF Inv, AtOnePlace
  <2>9. \A d \in Conns : OneAnswer(d)'
      BY <1>1, <2>1 DEF Inv, OneAnswer
  <2>10. \A d \in Conns : Finished(d)'
    <3> SUFFICES ASSUME NEW d \in Conns PROVE Finished(d)'
        OBVIOUS
    <3>1. Quiet(d)' <=> Quiet(d)
        BY <1>1 DEF Quiet
    <3>2. CASE d = c
        BY <3>1, <3>2, <1>6, <2>1 DEF Finished
    <3>3. CASE d # c
        BY <3>1, <3>3, <1>5, <2>1, <2>2, <2>5 DEF Inv, Finished
    <3> QED BY <3>2, <3>3
  <2>11. proc' = "running"
      BY <2>1
  <2> QED BY <1>5, <1>7, <2>4, <2>5, <2>6, <2>8, <2>9, <2>10, <2>11 DEF Inv
<1> QED BY <1>8, <1>9

(* What reading alone can disturb is kept when nothing is read.              *)
LEMMA NothingRead ==
    ASSUME Inv, UNCHANGED <<script, pos, client, cut>>
    PROVE  /\ \A d \in Conns : ReadWell(d)'
           /\ \A w \in Works : AsSent(w)'
           /\ \A d \in Conns : More(d)' <=> More(d)
<1>1. \A d \in Conns : ReadWell(d)' /\ (More(d)' <=> More(d))
    BY SameRead DEF Inv
<1>2. \A w \in Works : AsSent(w)'
    BY DEF Inv, AsSent
<1> QED BY <1>1, <1>2

(* on_new_connection, and a client that goes away.                          *)
LEMMA ComeAndGoKeeps ==
    ASSUME Inv, proc = "running", NEW c \in Conns, Accept(c) \/ Leave(c)
    PROVE  Inv'
<1>1. UNCHANGED <<proc, script, pos, reading, client, queued, working, done, got, cut>>
    BY DEF Accept, Leave
<1>2. /\ \A d \in Conns : ReadWell(d)'
      /\ \A w \in Works : AsSent(w)'
      /\ \A d \in Conns : More(d)' <=> More(d)
    BY <1>1, NothingRead
<1>3. Works' = Works
    BY <1>1 DEF Works
<1>4. /\ handle' \in [Conns -> {"none", "open", "closing"}]
      /\ eof' \in [Conns -> BOOLEAN]
      /\ \A d \in Conns : handle'[d] = "closing" <=> handle[d] = "closing"
      /\ \A d \in Conns : Quiet(d)' => Quiet(d)
  <2>1. handle \in [Conns -> {"none", "open", "closing"}] /\ eof \in [Conns -> BOOLEAN]
      BY DEF Inv, Typing
  <2>2. CASE Accept(c)
      BY <2>1, <2>2 DEF Accept, Quiet
  <2>3. CASE Leave(c)
      BY <2>1, <2>3 DEF Leave, Quiet
  <2> QED BY <2>2, <2>3
<1>5. Typing'
    BY <1>1, <1>4 DEF Inv, Typing
<1>6. \A d \in Conns : OneAnswer(d)'
    BY <1>1, <1>4 DEF Inv, OneAnswer
<1>7. AtOnePlace'
    BY <1>1 DEF Inv, AtOnePlace
<1>8. \A d \in Conns : Finished(d)'
    BY <1>2, <1>3, <1>4 DEF Inv, Finished
<1> QED BY <1>1, <1>2, <1>3, <1>5, <1>6, <1>7, <1>8 DEF Inv

(* on_read at the end of the input.                                         *)
LEMMA EofKeeps ==
    ASSUME Inv, proc = "running", NEW c \in Conns, OnEof(c)
    PROVE  Inv'
<1>1. /\ eof[c] /\ UvClose(c)
      /\ UNCHANGED <<script, pos, reading, eof, client, queued, working, done, got, cut>>
    BY DEF OnEof
<1>2. /\ \A d \in Conns : ReadWell(d)'
      /\ \A w \in Works : AsSent(w)'
      /\ \A d \in Conns : More(d)' <=> More(d)
    BY <1>1, NothingRead
<1>3. Works' = Works
    BY <1>1 DEF Works
<1>4. /\ proc' \in {"running", "aborted"}
      /\ handle' \in [Conns -> {"none", "open", "closing"}]
      /\ handle'[c] = "closing"
      /\ \A d \in Conns : d # c => handle'[d] = handle[d]
      /\ proc' = "aborted" => SomeoneLoud'
    BY <1>1, CloseKeeps DEF Inv, Quiet
<1>5. Typing'
    BY <1>1, <1>4 DEF Inv, Typing
<1>6. \A d \in Conns : OneAnswer(d)'
    BY <1>1, <1>4 DEF Inv, OneAnswer
<1>7. AtOnePlace'
    BY <1>1 DEF Inv, AtOnePlace
<1>8. \A d \in Conns : Finished(d)'
    BY <1>1, <1>2, <1>3, <1>4 DEF Inv, Finished, Quiet
<1> QED BY <1>2, <1>3, <1>4, <1>5, <1>6, <1>7, <1>8 DEF Inv

(* after_work_cb: w was the only request of its connection that was at work, *)
(* if the client is quiet.                                                  *)
LEMMA AnswerKeeps ==
    ASSUME Inv, proc = "running", NEW w \in done, AfterWork(w)
    PROVE  Inv'
<1> DEFINE c == w.conn
<1>1. /\ done' = done \ {w} /\ UvWrite(c, w) /\ UvClose(c)
      /\ UNCHANGED <<script, pos, reading, eof, client, queued, working, cut>>
    BY DEF AfterWork, Answer
<1>2. w \in Works /\ w \in Requests /\ c \in Conns /\ AsSent(w)
  <2>1. w \in Works
      BY DEF Works
  <2>2. w \in Requests
      BY <2>1, WorksTyped DEF Inv
  <2> QED BY <2>1, <2>2 DEF Inv, Requests
<1>3. /\ \A d \in Conns : ReadWell(d)'
      /\ \A v \in Works : AsSent(v)'
      /\ \A d \in Conns : More(d)' <=> More(d)
    BY <1>1, NothingRead
<1>4. Works' \subseteq Works
    BY <1>1 DEF Works
<1>5. Quiet(c) => handle[c] # "closing"
    BY <1>2 DEF Inv, Finished
<1>6. /\ proc' \in {"running", "aborted"}
      /\ handle' \in [Conns -> {"none", "open", "closing"}]
      /\ handle'[c] = "closing"
      /\ \A d \in Conns : d # c => handle'[d] = handle[d]
      /\ proc' = "aborted" => SomeoneLoud'
    BY <1>1, <1>2, <1>5, CloseKeeps DEF Inv
<1>7. got' \in [Conns -> Seq(Replies)] /\ \A d \in Conns : OneAnswer(d)'
  <2>1. w \in Replies /\ w.kind # "400"
      BY <1>2 DEF Requests, Replies, Kinds
  <2> QED BY <1>1, <1>2, <2>1, WriteKeeps DEF Inv
<1>8. Typing'
    BY <1>1, <1>6, <1>7 DEF Inv, Typing
<1>9. AtOnePlace'
    BY <1>1 DEF Inv, AtOnePlace
<1>10. ASSUME Quiet(c) PROVE ~More(c) /\ \A v \in Works' : v.conn # c
  <2>1. /\ script[c] \in Seq(Kinds) /\ pos[c].req \in Nat /\ w.req \in Nat
        /\ Len(script[c]) \in Nat
    <3>1. script[c] \in Seq(Kinds) /\ pos[c].req \in Nat
        BY <1>2 DEF Inv, Typing, Places
    <3>2. w.req \in Nat
        BY <1>2 DEF Requests
    <3> QED BY <3>1, <3>2
  <2>2. w.req = 1 /\ w.req < pos[c].req /\ Len(script[c]) = 1
    <3>1. w.req >= 1 /\ w.req <= Len(script[c]) /\ w.req < pos[c].req
        BY <1>2 DEF AsSent
    <3>2. Len(script[c]) <= 1
        BY <1>10 DEF Quiet
    <3>3. \A n, l \in Nat : n >= 1 /\ n <= l /\ l <= 1 => n = 1 /\ l = 1
        OBVIOUS
    <3>4. w.req = 1 /\ Len(script[c]) = 1
      <4> DEFINE n == w.req
                 l == Len(script[c])
      <4>1. n \in Nat /\ l \in Nat /\ n >= 1 /\ n <= l /\ l <= 1
          BY <2>1, <3>1, <3>2
      <4> HIDE DEF n, l
      <4>2. n = 1 /\ l = 1
          BY <3>3, <4>1
      <4> QED BY <4>2 DEF n, l
    <3> QED BY <3>1, <3>4
  <2>3. ~More(c)
      BY <2>1, <2>2 DEF More
  <2>4. ASSUME NEW v \in Works', v.conn = c PROVE FALSE
    <3>1. v \in Works /\ v.req \in Nat
        BY <1>4, WorksTyped DEF Inv, Requests
    <3>2. AsSent(v)
        BY <3>1 DEF Inv
    <3>3. v.req = 1
        BY <1>10, <2>1, <2>4, <3>1, <3>2 DEF AsSent, Quiet
    <3>4. Same(v, w) /\ Same(w, v)
        BY <2>2, <2>4, <3>3 DEF Same
    <3>5. CASE v \in done'
        BY <1>1, <3>4, <3>5 DEF Inv, AtOnePlace
    <3>6. CASE v \in working
        BY <3>4, <3>6 DEF Inv, AtOnePlace
    <3>7. CASE \E i \in 1..Len(queued) : v = queued[i]
        BY <3>4, <3>7 DEF Inv, AtOnePlace
    <3>8. DOMAIN queued = 1..Len(queued)
        BY DEF Inv, Typing
    <3> QED BY <1>1, <3>5, <3>6, <3>7, <3>8 DEF Works
  <2> QED BY <2>3, <2>4
<1>11. \A d \in Conns : Finished(d)'
  <2> SUFFICES ASSUME NEW d \in Conns PROVE Finished(d)'
      OBVIOUS
  <2>1. Quiet(d)' <=> Quiet(d)
      BY <1>1 DEF Quiet
  <2>2. CASE d = c
      BY <2>1, <2>2, <1>2, <1>3, <1>10 DEF Finished
  <2>3. CASE d # c
      BY <2>1, <2>3, <1>3, <1>4, <1>6 DEF Inv, Finished
  <2> QED BY <2>2, <2>3
<1> QED BY <1>3, <1>4, <1>6, <1>7, <1>8, <1>9, <1>11 DEF Inv

(* The worker threads.                                                      *)
LEMMA PoolKeeps ==
    ASSUME Inv, proc = "running", Pool
    PROVE  Inv'
<1>1. UNCHANGED <<proc, script, pos, reading, eof, handle, client, got, cut>>
    BY DEF Pool, StartWork, FinishWork
<1>2. /\ \A d \in Conns : ReadWell(d)'
      /\ \A w \in Works : AsSent(w)'
      /\ \A d \in Conns : More(d)' <=> More(d)
    BY <1>1, NothingRead
<1>3. queued \in Seq(Requests) /\ working \subseteq Requests /\ done \subseteq Requests
    BY DEF Inv, Typing
<1>4. CASE StartWork
  <2>1. /\ queued # <<>> /\ queued' = Tail(queued)
        /\ working' = working \union {Head(queued)} /\ done' = done
      BY <1>4 DEF StartWork
  <2>2. Works' = Works
      BY <1>3, <1>4, StartedOne
  <2>3. /\ Len(queued) \in Nat \ {0} /\ Len(queued') = Len(queued) - 1
        /\ Head(queued) = queued[1] /\ Head(queued) \in Requests
        /\ queued' \in Seq(Requests)
        /\ \A i \in 1..Len(queued') : queued'[i] = queued[i + 1] /\ i + 1 \in 1..Len(queued)
        /\ 1 \in 1..Len(queued)
      BY <1>3, <2>1
  <2>4. Typing'
      BY <1>1, <2>1, <2>3 DEF Inv, Typing
  <2>5. AtOnePlace'
    <3>1. \A i, j \in 1..Len(queued') : Same(queued'[i], queued'[j]) => i = j
      <4> SUFFICES ASSUME NEW i \in 1..Len(queued'), NEW j \in 1..Len(queued'),
                          Same(queued'[i], queued'[j])
                   PROVE  i = j
          OBVIOUS
      <4>1. i + 1 = j + 1
          BY <2>3 DEF Inv, AtOnePlace
      <4> QED BY <4>1, <2>3
    <3>2. \A i \in 1..Len(queued') : ~Same(queued'[i], queued[1])
      <4> SUFFICES ASSUME NEW i \in 1..Len(queued'), Same(queued'[i], queued[1])
                   PROVE  FALSE
          OBVIOUS
      <4>1. i + 1 = 1
          BY <2>3 DEF Inv, AtOnePlace
      <4> QED BY <4>1, <2>3
    <3>3. \A i \in 1..Len(queued'), w \in working' \union done' : ~Same(queued'[i], w)
        BY <2>1, <2>3, <3>2 DEF Inv, AtOnePlace
    <3>4. \A w \in working \union done : ~Same(queued[1], w) /\ ~Same(w, queued[1])
        BY <2>3 DEF Inv, AtOnePlace, Same
    <3>5. \A v \in working', w \in done' : ~Same(v, w)
        BY <2>1, <2>3, <3>4 DEF Inv, AtOnePlace
    <3>6. \A v, w \in working' : Same(v, w) => v = w
        BY <2>1, <2>3, <3>4 DEF Inv, AtOnePlace
    <3> QED BY <2>1, <3>1, <3>3, <3>5, <3>6 DEF Inv, AtOnePlace
  <2>6. \A d \in Conns : Finished(d)'
      BY <1>1, <1>2, <2>2 DEF Inv, Finished, Quiet
  <2>7. \A d \in Conns : OneAnswer(d)'
      BY <1>1 DEF Inv, OneAnswer
  <2> QED BY <1>1, <1>2, <2>2, <2>4, <2>5, <2>6, <2>7 DEF Inv
<1>5. CASE \E w \in working : FinishWork(w)
  <2>1. PICK w \in working : FinishWork(w)
      BY <1>5
  <2>2. /\ working' = working \ {w} /\ done' = done \union {w} /\ queued' = queued
      BY <2>1 DEF FinishWork
  <2>3. Works' = Works
      BY <2>2 DEF Works
  <2>4. Typing'
      BY <1>1, <2>2 DEF Inv, Typing
  <2>5. AtOnePlace'
    <3>1. \A i, j \in 1..Len(queued') : Same(queued'[i], queued'[j]) => i = j
        BY <2>2 DEF Inv, AtOnePlace
    <3>2. \A i \in 1..Len(queued'), v \in working' \union done' : ~Same(queued'[i], v)
        BY <2>2 DEF Inv, AtOnePlace
    <3>3. \A v \in working', u \in done' : ~Same(v, u)
        BY <2>2 DEF Inv, AtOnePlace
    <3>4. \A v, u \in working' : Same(v, u) => v = u
        BY <2>2 DEF Inv, AtOnePlace
    <3>5. \A v \in done : ~Same(w, v) /\ ~Same(v, w)
        BY DEF Inv, AtOnePlace, Same
    <3>6. \A v, u \in done' : Same(v, u) => v = u
        BY <2>2, <3>5 DEF Inv, AtOnePlace
    <3> QED BY <3>1, <3>2, <3>3, <3>4, <3>6 DEF AtOnePlace
  <2>6. \A d \in Conns : Finished(d)'
      BY <1>1, <1>2, <2>3 DEF Inv, Finished, Quiet
  <2>7. \A d \in Conns : OneAnswer(d)'
      BY <1>1 DEF Inv, OneAnswer
  <2> QED BY <1>1, <1>2, <2>3, <2>4, <2>5, <2>6, <2>7 DEF Inv
<1> QED BY <1>4, <1>5 DEF Pool

----------------------------------------------------------------------------
LEMMA InvInit == Init => Inv
<1> SUFFICES ASSUME Init PROVE Inv
    OBVIOUS
<1>1. /\ proc = "running" /\ script \in [Conns -> Seq(Kinds)]
      /\ pos = [c \in Conns |-> Start(1)]
      /\ reading = {} /\ eof = [c \in Conns |-> FALSE]
      /\ handle = [c \in Conns |-> "none"]
      /\ client = [c \in Conns |-> NewClient]
      /\ queued = <<>> /\ working = {} /\ done = {}
      /\ got = [c \in Conns |-> <<>>] /\ cut = {}
    BY ScriptsAssumption DEF Init
<1>2. NewClient \in Clients /\ NewClient.body = <<>> /\ NewClient.content_type_json = FALSE
    BY DEF NewClient, Clients, Texts, Bodies
<1>3. /\ Start(1) \in Places /\ Start(1).req = 1 /\ Start(1).stage = "url"
      /\ Start(1).at = 0
    BY DEF Start, Places, Stages
<1>4. Typing
    BY <1>1, <1>2, <1>3 DEF Typing
<1>5. Works = {}
    BY <1>1 DEF Works
<1>6. ASSUME NEW c \in Conns PROVE ReadWell(c)
  <2>1. pos[c] = Start(1) /\ client[c] = NewClient /\ Len(script[c]) \in Nat
      BY <1>1
  <2>2. Placed(c)
    <3>1. Len(Url) = 2
        BY DEF Url
    <3> QED BY <1>3, <2>1, <3>1 DEF Placed, InHeader
  <2>3. Collected(c) /\ Judged(c) /\ Carried(c)
      BY <1>2, <1>3, <2>1 DEF Collected, Judged, InHeader, Carried
  <2> QED BY <2>2, <2>3 DEF ReadWell
<1>7. \A c \in Conns : OneAnswer(c) /\ Finished(c)
    BY <1>1 DEF OneAnswer, Finished
<1>8. AtOnePlace
    BY <1>1 DEF AtOnePlace
<1> QED BY <1>1, <1>4, <1>5, <1>6, <1>7, <1>8 DEF Inv

LEMMA InvNext == Inv /\ [Next]_vars => Inv'
<1> SUFFICES ASSUME Inv, [Next]_vars PROVE Inv'
    OBVIOUS
<1>1. CASE UNCHANGED vars
  <2>1. UNCHANGED <<proc, script, pos, reading, eof, handle, client, queued, working,
                    done, got, cut>>
      BY <1>1 DEF vars
  <2>2. /\ \A d \in Conns : ReadWell(d)'
        /\ \A w \in Works : AsSent(w)'
        /\ \A d \in Conns : More(d)' <=> More(d)
      BY <2>1, NothingRead
  <2>3. Works' = Works
      BY <2>1 DEF Works
  <2>4. Typing' /\ AtOnePlace'
      BY <2>1 DEF Inv, Typing, AtOnePlace
  <2>5. \A d \in Conns : OneAnswer(d)'
      BY <2>1 DEF Inv, OneAnswer
  <2>6. \A d \in Conns : Finished(d)'
      BY <2>1, <2>2, <2>3 DEF Inv, Finished, Quiet
  <2>7. (proc = "aborted" => SomeoneLoud)'
      BY <2>1 DEF Inv, SomeoneLoud, Quiet
  <2> QED BY <2>2, <2>3, <2>4, <2>5, <2>6, <2>7 DEF Inv
<1>2. CASE Next
  <2>1. proc = "running"
      BY <1>2 DEF Next
  <2>2. ASSUME NEW c \in Conns, Loop(c) \/ Leave(c) PROVE Inv'
    <3>1. CASE OnUrl(c) \/ OnHeaderField(c) \/ OnHeaderValue(c)
        BY <3>1, UrlKeeps, FieldKeeps, ValueKeeps
    <3>2. CASE OnBody(c)
        BY <3>2, BodyKeeps
    <3>3. CASE OnMessageComplete(c)
        BY <2>1, <3>3, CompleteKeeps
    <3>4. CASE ParseError(c)
        BY <2>1, <3>4, ErrorKeeps
    <3>5. CASE Accept(c) \/ Leave(c)
        BY <2>1, <3>5, ComeAndGoKeeps
    <3>6. CASE OnEof(c)
        BY <2>1, <3>6, EofKeeps
    <3> QED BY <2>2, <3>1, <3>2, <3>3, <3>4, <3>5, <3>6 DEF Loop, OnRead
  <2>3. ASSUME NEW w \in done, AfterWork(w) PROVE Inv'
      BY <2>1, <2>3, AnswerKeeps
  <2>4. CASE Pool
      BY <2>1, <2>4, PoolKeeps
  <2> QED BY <1>2, <2>2, <2>3, <2>4 DEF Next
<1> QED BY <1>1, <1>2

LEMMA Invariance == Spec => []Inv
BY InvInit, InvNext, PTL DEF Spec

(* No more requests are in work than there are threads.                      *)
Staffed == IsFiniteSet(working) /\ Cardinality(working) <= Workers

LEMMA StaffedAlways == Spec => []Staffed
<1>1. Init => Staffed
    BY FS_EmptySet, WorkersAssumption DEF Init, Staffed
<1>2. Staffed /\ [Next]_vars => Staffed'
  <2> SUFFICES ASSUME Staffed, [Next]_vars PROVE Staffed'
      OBVIOUS
  <2>1. Cardinality(working) \in Nat
      BY FS_CardinalityType DEF Staffed
  <2>2. CASE StartWork
    <3>1. working' = working \union {Head(queued)} /\ Cardinality(working) < Workers
        BY <2>2 DEF StartWork
    <3> QED BY <2>1, <3>1, FS_AddElement, WorkersAssumption DEF Staffed
  <2>3. CASE \E w \in working : FinishWork(w)
    <3>1. PICK w \in working : working' = working \ {w}
        BY <2>3 DEF FinishWork
    <3> QED BY <2>1, <3>1, FS_RemoveElement, WorkersAssumption DEF Staffed
  <2>4. CASE working' = working
      BY <2>4 DEF Staffed
  <2>5. StartWork \/ (\E w \in working : FinishWork(w)) \/ working' = working
    <3>1. ASSUME NEW c \in Conns, Loop(c) \/ Leave(c) PROVE working' = working
        BY <3>1 DEF Loop, Leave, Accept, OnEof, OnRead, OnUrl, OnHeaderField,
                    OnHeaderValue, OnBody, OnMessageComplete, ParseError
    <3>2. ASSUME NEW w \in done, AfterWork(w) PROVE working' = working
        BY <3>2 DEF AfterWork, Answer
    <3>3. CASE UNCHANGED vars
        BY <3>3 DEF vars
    <3> QED BY <3>1, <3>2, <3>3 DEF Next, Pool
  <2> QED BY <2>2, <2>3, <2>4, <2>5
<1> QED BY <1>1, <1>2, PTL DEF Spec

----------------------------------------------------------------------------
(* The types of the variables of http_server.c and of a connection: the      *)
(* parser is at a piece of a request or at the end, every request at work is *)
(* one its client sent, and no more are in work than there are threads.      *)
THEOREM TypeCorrect == Spec => []TypeOK
<1>1. Inv /\ Staffed => TypeOK
  <2> SUFFICES ASSUME Inv, Staffed PROVE TypeOK
      OBVIOUS
  <2>1. ASSUME NEW c \in Conns
        PROVE  /\ pos[c].req \in 1..(Len(script[c]) + 1)
               /\ pos[c].stage \in {"url", "name", "value", "body"}
               /\ pos[c].stage \in {"name", "value"} =>
                    pos[c].n \in DOMAIN Headers(Kind(c))
               /\ ~More(c) => pos[c] = Start(pos[c].req)
    <3>1. script[c] \in Seq(Kinds) /\ pos[c] \in Places /\ Placed(c)
        BY DEF Inv, ReadWell, Typing
    <3>2. Len(script[c]) \in Nat
        BY <3>1
    <3>3. InHeader(c) => Kind(c) \in Kinds
        BY <3>1, <3>2 DEF More, Kind, Placed, InHeader, Start, Places
    <3> QED BY <3>1, <3>2, <3>3, HeaderTypes DEF Placed, InHeader, Places, Stages
  <2>2. \A w \in Works : w.conn \in Conns /\ w.req \in 1..Len(script[w.conn])
    <3> SUFFICES ASSUME NEW w \in Works
                 PROVE  w.conn \in Conns /\ w.req \in 1..Len(script[w.conn])
        OBVIOUS
    <3>1. w.conn \in Conns /\ w.req \in Nat
        BY WorksTyped DEF Inv, Requests
    <3>2. script[w.conn] \in Seq(Kinds)
        BY <3>1 DEF Inv, Typing
    <3>3. Len(script[w.conn]) \in Nat
        BY <3>2
    <3> QED BY <3>1, <3>3 DEF Inv, AsSent
  <2> QED BY <2>1, <2>2 DEF Inv, Typing, Staffed, TypeOK
<1> QED BY <1>1, Invariance, StaffedAlways, PTL

(* The program is aborted by a second uv_close only if some client goes away *)
(* while it waits or sends more than one request: what after_work_cb, the    *)
(* 400 answer and on_read close is closed once for all others, because a     *)
(* request is at one place only and a connection that is closed has none.    *)
THEOREM AbortsHaveCauses == Spec => []AbortHasCause
<1>1. Inv => AbortHasCause
  <2> SUFFICES ASSUME Inv, proc = "aborted"
               PROVE  \E c \in Conns : eof[c] \/ Len(script[c]) > 1
      BY DEF AbortHasCause
  <2>1. PICK c \in Conns : ~Quiet(c)
      BY DEF Inv, SomeoneLoud
  <2>2. script[c] \in Seq(Kinds)
      BY DEF Inv, Typing
  <2>3. Len(script[c]) \in Nat
      BY <2>2
  <2> QED BY <2>1, <2>3 DEF Quiet
<1> QED BY <1>1, Invariance, PTL

(* However a request is cut up, the worker gets the body its client sent with *)
(* it: what on_body collected, which on_message_complete forgets.            *)
THEOREM BodiesAreAsSent == Spec => []BodyAsSent
<1>1. Inv => BodyAsSent
  <2> SUFFICES ASSUME Inv, NEW w \in Works
               PROVE  LET sent == Body(script[w.conn][w.req])
                      IN  w.data = [i \in 1..Len(sent) |-> [piece |-> sent[i], req |-> w.req]]
      BY DEF BodyAsSent
  <2>1. AsSent(w)
      BY DEF Inv
  <2> QED BY <2>1 DEF AsSent, Taken
<1> QED BY <1>1, Invariance, PTL

(* On a connection whose headers are not cut, a POST of another type reaches *)
(* no worker, one without a type only after one of JSON, or of an empty type, *)
(* and none of JSON is answered 400.                                         *)
THEOREM TypeDecides == Spec => []JudgedByType
<1>1. Inv => JudgedByType
    BY DEF Inv, JudgedByType, AsSent, OneAnswer
<1> QED BY <1>1, Invariance, PTL

(* An answer is written to the connection of its request, and no connection  *)
(* gets a second: it is closed with the first.                              *)
THEOREM AnswersGoHome == Spec => []AnswersAreOwn
<1>1. Inv => AnswersAreOwn
    BY DEF Inv, AnswersAreOwn, OneAnswer
<1> QED BY <1>1, Invariance, PTL
===============================================================================
