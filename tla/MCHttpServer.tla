----------------------------- MODULE MCHttpServer -----------------------------
(* Instances of HttpServer for TLC. *)
EXTENDS HttpServer, TLC

\* One request to a connection, as src/test sends them.
Single == {<<"get">>, <<"post">>, <<"plain">>, <<"brief">>, <<"bare">>, <<"junk">>}

\* Two requests in a row on the first connection.
Piped == {<<"post", "post">>, <<"post", "plain">>, <<"post", "bare">>,
          <<"get", "get">>, <<"get", "junk">>}

\* What the second client sends: a GET, or also a POST against a POST, or
\* nonsense against two requests beginning with a POST and against nonsense.
\* Clients differ in nothing but what they send, so which one is the first does
\* not matter.
Against(s) ==
    CASE s = <<"post">> -> {<<"get">>, <<"brief">>}
      [] s = <<"junk">> -> {<<"get">>, <<"junk">>}
      [] Len(s) = 2 /\ Head(s) = "post" -> {<<"junk">>}
      [] OTHER -> {<<"get">>}

MCScripts ==
    LET first == CHOOSE c \in Conns : TRUE
    IN  UNION {{[c \in Conns |-> IF c = first THEN s ELSE t] : t \in Against(s)} :
                  s \in Single \union Piped}
=============================================================================
