------------------------------ MODULE HttpServer ------------------------------
(****************************************************************************)
(* The HTTP side (src/http_server.c): one event loop accepts connections,   *)
(* feeds what it reads to a parser per connection, hands complete requests  *)
(* to libuv's worker threads and writes their answers.                      *)
(*                                                                          *)
(* A client sends a script: requests one after the other on its connection. *)
(* TCP may cut them anywhere, and the parser then makes a callback for the  *)
(* part of a URL, a header's name or its value that has come and another    *)
(* for the rest, which is empty if only what ends the text is left.  Here   *)
(* the texts have two places to be cut at: within them and at their end.    *)
(* What a worker does for a request is DeviceOps' and Dispatch's business:  *)
(* here it takes some time and answers.                                     *)
(*                                                                          *)
(* on_read is one callback of the loop and makes one action for each        *)
(* callback of the parser: the loop does nothing else until the input ends, *)
(* the worker threads may.                                                  *)
(****************************************************************************)
EXTENDS Integers, Sequences, FiniteSets, SequencesExt

CONSTANTS
    Conns,      \* the connections clients make
    Scripts,    \* what the clients may send: sequences of request kinds each
    Workers     \* number of worker threads (4 in libuv)

\* POSTs of JSON, of something else, with an empty Content-Type and with none.
Kinds == {"get", "post", "plain", "brief", "bare", "junk"}

ASSUME ScriptsAssumption == Scripts \subseteq [Conns -> Seq(Kinds)]

ASSUME WorkersAssumption == Workers \in Nat \ {0}

\* The texts, in pieces.  Content-Length begins like Content-Type, and the other
\* type ends with what JSON's begins with.
Url           == <<"/a", "/b">>
ContentType   == <<"Content", "-Type">>
ContentLength == <<"Content", "-Length">>
Json          == <<"application", "/json">>
Text          == <<"text/", "application">>
Number        == <<"2">>

\* The headers of a request, as far as they matter, and the parts of its body.
Headers(kind) ==
    CASE kind = "post"  -> <<[name |-> ContentType, value |-> Json],
                             [name |-> ContentLength, value |-> Number]>>
      [] kind = "plain" -> <<[name |-> ContentType, value |-> Text]>>
      [] kind = "brief" -> <<[name |-> ContentType, value |-> <<>>]>>
      [] kind = "bare"  -> <<[name |-> ContentLength, value |-> Number]>>
      [] OTHER          -> <<>>

Body(kind) ==
    CASE kind = "post"                     -> <<"B1", "B2">>
      [] kind \in {"plain", "brief", "bare"} -> <<"B1">>
      [] OTHER                             -> <<>>

VARIABLES
    proc,      \* "running", or "aborted" by an assertion of libuv
    script,    \* what each client sends
    pos,       \* the parser's place in it: the request, the text or body, which
               \* header or how many parts, and the pieces of the text read
    reading,   \* the connection whose input the parser is at, or none
    eof,       \* the client has closed its end
    handle,    \* the connection's uv_tcp_t: "none", "open" or "closing"
    client,    \* the http_requests_t: parser state and what it collected
    queued,    \* requests given to uv_queue_work and not yet started
    working,   \* requests in a worker thread
    done,      \* requests whose after_work_cb is due
    got,       \* the answers each client received
    cut        \* history: the connections on which a header was cut

vars == <<proc, script, pos, reading, eof, handle, client, queued, working,
          done, got, cut>>

NewClient == [url_path |-> <<>>, header_type |-> FALSE,
              content_type_json |-> FALSE, body |-> <<>>]

Start(r) == [req |-> r, stage |-> "url", n |-> 0, at |-> 0]

Init ==
    /\ proc = "running"
    /\ script \in Scripts
    /\ pos = [c \in Conns |-> Start(1)]
    /\ reading = {}
    /\ eof = [c \in Conns |-> FALSE]
    /\ handle = [c \in Conns |-> "none"]
    /\ client = [c \in Conns |-> NewClient]
    /\ queued = <<>> /\ working = {} /\ done = {}
    /\ got = [c \in Conns |-> <<>>] /\ cut = {}

----------------------------------------------------------------------------
(****************************************************************************)
(* The handle                                                               *)
(****************************************************************************)
\* uv_close; closing a handle that is closing already fails an assertion in
\* libuv.
UvClose(c) ==
    /\ handle' = [handle EXCEPT ![c] = "closing"]
    /\ proc' = IF handle[c] = "closing" THEN "aborted" ELSE proc

\* uv_write of an answer, which arrives if the connection is still there.
UvWrite(c, answer) ==
    got' = IF handle[c] = "open" /\ ~eof[c]
           THEN [got EXCEPT ![c] = Append(@, answer)] ELSE got

----------------------------------------------------------------------------
(****************************************************************************)
(* on_read: http_parser_execute and the callbacks it makes                  *)
(****************************************************************************)
More(c) == pos[c].req <= Len(script[c])

Kind(c) == script[c][pos[c].req]

\* c's input is read, and the parser is at this stage of a request.
Parses(c, stage) ==
    /\ reading = {c} \/ (reading = {} /\ handle[c] = "open")
    /\ More(c) /\ pos[c].stage = stage

Place(c, stage, n) == [req |-> pos[c].req, stage |-> stage, n |-> n, at |-> 0]

\* Header i, or the body after the last one.
HeaderOrBody(c, i) ==
    IF i <= Len(Headers(Kind(c))) THEN Place(c, "name", i) ELSE Place(c, "body", 0)

\* The parser goes on there, in this input or the next.
GoesTo(c, place) ==
    /\ pos' = [pos EXCEPT ![c] = place]
    /\ reading' \in IF place.req > Len(script[c]) THEN {{}} ELSE {{}, {c}}

\* What a callback gets that comes with n pieces of the text read.
Run(c, text, n) == SubSeq(text, pos[c].at + 1, n)

\* It comes when the parser is at the text's end, or the input ends before.
Reads(c, text, n, next) ==
    \/ n = Len(text) /\ GoesTo(c, next)
    \/ n > pos[c].at /\ pos' = [pos EXCEPT ![c].at = n] /\ reading' = {}

OnUrl(c) ==
    /\ Parses(c, "url") /\ Kind(c) # "junk"
    /\ \E n \in 0..Len(Url) :
         /\ Reads(c, Url, n, HeaderOrBody(c, 1))
         /\ client' = [client EXCEPT ![c].url_path = Run(c, Url, n)]
    /\ UNCHANGED <<proc, script, eof, handle, queued, working, done, got, cut>>

Header(c) == Headers(Kind(c))[pos[c].n]

NotesCut(c) ==
    cut' = IF pos[c].at = 0 /\ pos'[c].at = 0 THEN cut ELSE cut \union {c}

\* Mutant: header_type is set and never cleared.
NamesTypeSticks(c, run) == client[c].header_type \/ IsPrefix(run, ContentType)

\* strncasecmp(at, "Content-Type", length): the first length characters are
\* compared, so every beginning of the name will do, the empty one too.
NamesType(c, run) == IsPrefix(run, ContentType)

OnHeaderField(c) ==
    /\ Parses(c, "name")
    /\ \E n \in 0..Len(Header(c).name) :
         /\ Reads(c, Header(c).name, n, Place(c, "value", pos[c].n))
         /\ client' = [client EXCEPT ![c].header_type =
                         NamesType(c, Run(c, Header(c).name, n))]
    /\ NotesCut(c)
    /\ UNCHANGED <<proc, script, eof, handle, queued, working, done, got>>

\* As for the name; of a value in several pieces the last decides.
OnHeaderValue(c) ==
    /\ Parses(c, "value")
    /\ \E n \in 0..Len(Header(c).value) :
         /\ Reads(c, Header(c).value, n, HeaderOrBody(c, pos[c].n + 1))
         /\ client' = IF client[c].header_type
                      THEN [client EXCEPT ![c].content_type_json =
                              IsPrefix(Run(c, Header(c).value, n), Json)]
                      ELSE client
    /\ NotesCut(c)
    /\ UNCHANGED <<proc, script, eof, handle, queued, working, done, got>>

OnBody(c) ==
    /\ Parses(c, "body") /\ pos[c].n < Len(Body(Kind(c)))
    /\ GoesTo(c, Place(c, "body", pos[c].n + 1))
    /\ client' = [client EXCEPT ![c].body =
                    Append(@, [piece |-> Body(Kind(c))[pos[c].n + 1], req |-> pos[c].req])]
    /\ UNCHANGED <<proc, script, eof, handle, queued, working, done, got, cut>>

Work(c) == [conn |-> c, req |-> pos[c].req, kind |-> Kind(c),
            url |-> client[c].url_path, data |-> client[c].body]

\* Mutant: the body is not reset for the next message.
ForgetNot(c) == UNCHANGED client

ForgetBody(c) == client' = [client EXCEPT ![c].body = <<>>]

BadRequest(c) == [conn |-> c, req |-> pos[c].req, kind |-> "400", url |-> <<>>,
                  data |-> <<>>]

Accepted(c) == Kind(c) = "get" \/ client[c].content_type_json

\* The request is queued for a worker, or answered 400 and the connection
\* closed at once.
OnMessageComplete(c) ==
    /\ Parses(c, "body") /\ pos[c].n = Len(Body(Kind(c)))
    /\ GoesTo(c, Start(pos[c].req + 1))
    /\ \/ /\ Accepted(c)
          /\ queued' = Append(queued, Work(c))
          /\ UNCHANGED <<proc, handle, got>>
       \/ /\ ~Accepted(c)
          /\ UvWrite(c, BadRequest(c)) /\ UvClose(c)
          /\ UNCHANGED queued
    /\ ForgetBody(c)
    /\ UNCHANGED <<script, eof, working, done, cut>>

\* http_parser_execute gives up and on_read closes the connection.
ParseError(c) ==
    /\ Parses(c, "url") /\ Kind(c) = "junk"
    /\ pos' = [pos EXCEPT ![c] = Start(pos[c].req + 1)] /\ reading' = {}
    /\ UvClose(c)
    /\ UNCHANGED <<script, eof, client, queued, working, done, got, cut>>

OnRead(c) ==
    \/ OnUrl(c) \/ OnHeaderField(c) \/ OnHeaderValue(c) \/ OnBody(c)
    \/ OnMessageComplete(c) \/ ParseError(c)

----------------------------------------------------------------------------
(****************************************************************************)
(* The rest of the event loop                                               *)
(****************************************************************************)
\* on_new_connection.
Accept(c) ==
    /\ reading = {} /\ handle[c] = "none"
    /\ handle' = [handle EXCEPT ![c] = "open"]
    /\ UNCHANGED <<proc, script, pos, reading, eof, client, queued, working,
                   done, got, cut>>

\* on_read with UV_EOF or an error.
OnEof(c) ==
    /\ reading = {} /\ handle[c] = "open" /\ eof[c]
    /\ UvClose(c)
    /\ UNCHANGED <<script, pos, reading, eof, client, queued, working, done, got, cut>>

\* after_work_cb comes for w, and its answer is written.
Answer(w) ==
    /\ reading = {} /\ w \in done
    /\ done' = done \ {w}
    /\ UvWrite(w.conn, w)
    /\ UNCHANGED <<script, pos, reading, eof, client, queued, working, cut>>

\* Mutant: the connection is closed in on_write as well.
AfterWorkTwice(w) ==
    /\ Answer(w)
    /\ proc' = "aborted" /\ handle' = [handle EXCEPT ![w.conn] = "closing"]

\* Mutant: the connection is kept open for more.
AfterWorkKeepOpen(w) == Answer(w) /\ UNCHANGED <<proc, handle>>

\* Mutant: the connection is closed and the answer forgotten.
AfterWorkSilent(w) ==
    /\ reading = {} /\ w \in done /\ done' = done \ {w}
    /\ UvClose(w.conn)
    /\ UNCHANGED <<script, pos, reading, eof, client, queued, working, got, cut>>

\* after_work_cb: write the answer and close the connection.
AfterWork(w) == Answer(w) /\ UvClose(w.conn)

----------------------------------------------------------------------------
(****************************************************************************)
(* The worker threads (libuv's, external) and the clients                   *)
(****************************************************************************)
StartWork ==
    /\ queued # <<>> /\ Cardinality(working) < Workers
    /\ working' = working \union {Head(queued)}
    /\ queued' = Tail(queued)
    /\ UNCHANGED <<proc, script, pos, reading, eof, handle, client, done, got, cut>>

\* work_cb returns: proc_get_request or proc_post_request has its answer.
FinishWork(w) ==
    /\ w \in working
    /\ working' = working \ {w}
    /\ done' = done \union {w}
    /\ UNCHANGED <<proc, script, pos, reading, eof, handle, client, queued, got, cut>>

\* The client goes away, whatever it is waiting for.
Leave(c) ==
    /\ ~eof[c] /\ handle[c] # "none"
    /\ eof' = [eof EXCEPT ![c] = TRUE]
    /\ UNCHANGED <<proc, script, pos, reading, handle, client, queued, working,
                   done, got, cut>>

Loop(c) == Accept(c) \/ OnRead(c) \/ OnEof(c)

Pool == StartWork \/ \E w \in working : FinishWork(w)

Next ==
    /\ proc = "running"
    /\ \/ \E c \in Conns : Loop(c) \/ Leave(c)
       \/ \E w \in done : AfterWork(w)
       \/ Pool

Spec == Init /\ [][Next]_vars

\* The loop runs its callbacks, a client that connects sends its script to the end
\* or leaves, and AT commands end (ATChannel!CallReturns), so workers finish.
Fairness ==
    /\ \A c \in Conns : WF_vars(proc = "running" /\ Loop(c))
    /\ WF_vars(proc = "running" /\ Pool)
    /\ WF_vars(proc = "running" /\ \E w \in done : AfterWork(w))

FairSpec == Spec /\ Fairness

----------------------------------------------------------------------------
(****************************************************************************)
(* Properties                                                               *)
(****************************************************************************)
Works == {queued[i] : i \in DOMAIN queued} \union working \union done

TypeOK ==
    /\ proc \in {"running", "aborted"}
    /\ script \in [Conns -> Seq(Kinds)]
    /\ \A c \in Conns :
         /\ pos[c].req \in 1..(Len(script[c]) + 1)
         /\ pos[c].stage \in {"url", "name", "value", "body"}
         /\ pos[c].stage \in {"name", "value"} => pos[c].n \in DOMAIN Headers(Kind(c))
         /\ ~More(c) => pos[c] = Start(pos[c].req)
    /\ reading \subseteq Conns /\ \A b, c \in reading : b = c
    /\ handle \in [Conns -> {"none", "open", "closing"}]
    /\ eof \in [Conns -> BOOLEAN]
    /\ \A w \in Works : w.conn \in Conns /\ w.req \in 1..Len(script[w.conn])
    /\ Cardinality(working) <= Workers
    /\ cut \subseteq Conns

\* libuv aborts the program on a second uv_close of a connection (lines 28,
\* 97, 117, 123 of http_server.c all close it).  That takes a client that
\* goes away while its request is in work, or one that sends something after
\* its first request; one request at a time and some patience are safe.
AbortHasCause ==
    proc = "aborted" => \E c \in Conns : eof[c] \/ Len(script[c]) > 1

\* However TCP cuts a request up, a worker gets the body of the request it
\* works on, all of it and nothing of another request's.
BodyAsSent ==
    \A w \in Works :
        LET sent == Body(script[w.conn][w.req])
        IN  w.data = [i \in 1..Len(sent) |-> [piece |-> sent[i], req |-> w.req]]

\* On a connection whose headers TCP does not cut, the type a POST states
\* decides what becomes of it: one of another type never reaches a worker, one
\* without a type only by the type of an earlier request, which
\* content_type_json still tells of, and none of JSON is refused.  (An empty
\* type passes, http_server.c:63; so does the end of another type when TCP cuts
\* it off, and a cut behind the name Content-Length may get JSON refused.)
JudgedByType ==
    \A c \in Conns \ cut :
        /\ \A w \in Works : w.conn = c =>
             /\ w.kind # "plain"
             /\ w.kind = "bare" => \E r \in 1..(w.req - 1) :
                                      script[c][r] \in {"post", "brief"}
        /\ \A i \in 1..Len(got[c]) :
             got[c][i].kind = "400" => script[c][got[c][i].req] \in {"plain", "bare"}

\* An answer arrives on the connection its request came on, and a connection
\* carries at most one, whatever else was sent on it.
AnswersAreOwn ==
    \A c \in Conns :
        /\ Len(got[c]) <= 1
        /\ \A i \in 1..Len(got[c]) : got[c][i].kind # "400" => got[c][i].conn = c

\* A client that stays gets an answer, unless another client brings the
\* server down or its own bytes are not HTTP.
Answered ==
    \A c \in Conns :
        (handle[c] = "open" /\ script[c][1] # "junk")
            ~> (got[c] # <<>> \/ eof[c] \/ proc = "aborted")
=============================================================================
