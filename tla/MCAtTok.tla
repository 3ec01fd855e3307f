------------------------------- MODULE MCAtTok -------------------------------
(* All short lines over the characters the tokenizer tells apart, after a   *)
(* prefix that ends in a colon, and some without one.                       *)
EXTENDS AtTok

MaxLength == 5

Chars == {",", Quote, " ", "-", "1", "a"}

Strings(n) == UNION {[1..k -> Chars] : k \in 0..n}

MCLines == {<<"a", ":">> \o s : s \in Strings(MaxLength)} \cup Strings(2)

MCFmts == {<<"s">>, <<"d", "d", "s">>, <<"s", "d", "s">>, <<"d", "s", "d">>,
           <<"s", "s", "s">>}
=============================================================================
