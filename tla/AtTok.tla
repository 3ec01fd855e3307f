-------------------------------- MODULE AtTok --------------------------------
(****************************************************************************)
(* at_tok_scanf of src/atc/at_tok.c: the fields of a response line, one     *)
(* conversion per step.  A line is a sequence of characters, by one thread  *)
(* at a time, and the conversions are %d and %s (%x is %d in another base,  *)
(* %b is not used).  Lines have to fit in removeConsecutiveCommas' buffer:  *)
(* of a longer one the code reads and writes past that buffer's end, and    *)
(* nothing is said of it here.                                              *)
(*                                                                          *)
(* The rest of the line is what the cursor points to.  The code tells a     *)
(* NULL cursor from an empty rest nowhere that matters here: hasmore is     *)
(* false for both.                                                          *)
(****************************************************************************)
EXTENDS Integers, Sequences, SequencesExt, FiniteSetsExt

CONSTANTS
    Lines,      \* the lines to scan
    Fmts        \* the formats: sequences of "d" and "s"

Quote == "\""

LineSize == 256     \* of that buffer, with the byte that ends the line

ASSUME ScanAssumption ==
    /\ Lines \subseteq Seq(STRING) /\ \A l \in Lines : Len(l) < LineSize
    /\ Fmts \subseteq Seq({"d", "s"})

Digits == {"1", "2"}        \* the digits lines are made of

VARIABLES
    in_line, fmt,    \* the arguments
    rest,            \* of the line, from the cursor on
    p,               \* the next conversion
    out,             \* what the conversions have stored
    scanning         \* not returned yet

vars == <<in_line, fmt, rest, p, out, scanning>>

----------------------------------------------------------------------------
(****************************************************************************)
(* The code's own operations                                                *)
(****************************************************************************)
\* The first position from which Test holds, one past the end if none.
FirstWhere(s, Test(_)) ==
    Min({i \in 1..Len(s) : Test(s[i])} \cup {Len(s) + 1})

From(s, i) == SubSeq(s, i, Len(s))

\* Mutant: all commas of a run are dropped.
removeConsecutiveCommasAll(s) ==
    LET InRun(i) == /\ s[i] = ","
                    /\ \/ i < Len(s) /\ s[i + 1] = ","
                       \/ i > 1 /\ s[i - 1] = ","
    IN  FoldLeft(LAMBDA acc, i : IF InRun(i) THEN acc ELSE Append(acc, s[i]),
                 <<>>, [i \in 1..Len(s) |-> i])

\* A comma before another comma is dropped.
Doubled(s, i) == i < Len(s) /\ s[i] = "," /\ s[i + 1] = ","

removeConsecutiveCommas(s) ==
    LET tmp[i \in 0..Len(s)] ==
            IF i = 0 THEN <<>>
            ELSE IF Doubled(s, i) THEN tmp[i - 1] ELSE Append(tmp[i - 1], s[i])
    IN  tmp[Len(s)]

HasColon(s) == \E i \in 1..Len(s) : s[i] = ":"

\* at_tok_start: the line after its first colon.
AfterColon(s) == From(s, FirstWhere(s, LAMBDA c : c = ":") + 1)

skipWhiteSpace(s) == From(s, FirstWhere(s, LAMBDA c : c # " "))

skipNextComma(s) == From(s, FirstWhere(s, LAMBDA c : c = ",") + 1)

\* strsep: the token before the delimiter, and what follows it.
Strsep(s, delim) ==
    LET i == FirstWhere(s, LAMBDA c : c = delim)
    IN  [tok |-> SubSeq(s, 1, i - 1), rest |-> From(s, i + 1)]

\* Mutant: after a quoted token the cursor stays at the comma.
nextTokAtComma(s) ==
    LET t == skipWhiteSpace(s)
    IN  IF t # <<>> /\ Head(t) = Quote THEN Strsep(Tail(t), Quote)
        ELSE Strsep(t, ",")

nextTok(s) ==
    LET t == skipWhiteSpace(s)
    IN  IF t # <<>> /\ Head(t) = Quote
        THEN LET q == Strsep(Tail(t), Quote)
             IN  [q EXCEPT !.rest = skipNextComma(@)]
        ELSE Strsep(t, ",")

\* strtol: the numeral a token begins with, empty if it begins with none.
Numeral(tok) ==
    LET t == skipWhiteSpace(tok)
        sign == IF t # <<>> /\ Head(t) = "-" THEN 1 ELSE 0
        end == FirstWhere(From(t, sign + 1), LAMBDA c : c \notin Digits)
    IN  IF end = 1 THEN <<>> ELSE SubSeq(t, 1, sign + end - 1)

\* A dash that stands for a value that is missing.
Dash(s) == Len(s) >= 2 /\ s[1] = "-" /\ s[2] = ","

Init ==
    /\ in_line \in Lines
    /\ fmt \in Fmts
    /\ LET line == removeConsecutiveCommas(in_line)
       IN  /\ rest = IF HasColon(line) THEN AfterColon(line) ELSE <<>>
           /\ scanning = HasColon(line)
    /\ p = 1
    /\ out = <<>>

\* No field, or no conversion, is left.
Finish ==
    /\ scanning
    /\ rest = <<>> \/ p > Len(fmt)
    /\ scanning' = FALSE
    /\ UNCHANGED <<in_line, fmt, rest, p, out>>

More == scanning /\ rest # <<>> /\ p <= Len(fmt)

\* A missing value counts; %d stores -1 for it and %s nothing.
Missing ==
    /\ More /\ Dash(rest)
    /\ rest' = From(rest, 3)
    /\ out' = Append(out, IF fmt[p] = "d" THEN <<"-", "1">> ELSE <<"unset">>)
    /\ p' = p + 1
    /\ UNCHANGED <<in_line, fmt, scanning>>

\* at_tok_nextint and at_tok_nextstr; a token that is no number ends the scan.
Convert ==
    /\ More /\ ~Dash(rest)
    /\ LET t == nextTok(rest)
       IN  /\ rest' = t.rest
           /\ IF fmt[p] = "d" /\ Numeral(t.tok) = <<>>
              THEN scanning' = FALSE /\ UNCHANGED <<out, p>>
              ELSE /\ out' = Append(out, IF fmt[p] = "d" THEN Numeral(t.tok)
                                                         ELSE t.tok)
                   /\ p' = p + 1
                   /\ UNCHANGED scanning
    /\ UNCHANGED <<in_line, fmt>>

Next == Finish \/ Missing \/ Convert

Spec == Init /\ [][Next]_vars

----------------------------------------------------------------------------
(****************************************************************************)
(* The reference: the fields of a line by the places of its commas, a comma *)
(* being inside a string if the quotes before it are odd in number.         *)
(****************************************************************************)
Quotes(s, i, j) == {m \in i..j : s[m] = Quote}

Separators(s) ==
    {i \in 1..Len(s) : s[i] = "," /\ Cardinality(Quotes(s, 1, i - 1)) % 2 = 0}

\* Where the fields begin: the first one, and those behind a separator that are
\* not empty.  An empty field vanishes, and the others move up.
Fields(s) ==
    {i \in 1..Len(s) : \/ i = 1
                       \/ i - 1 \in Separators(s) /\ i \notin Separators(s)}

\* The place behind the field that begins at i: its separator, or the line's end.
End(s, i) == Min({j \in Separators(s) : j >= i} \cup {Len(s) + 1})

\* A field is a string between quotes, or has none; no two commas in a string.
FieldIsRegular(s, i) ==
    LET q == Quotes(s, i, End(s, i) - 1)
    IN  \/ q = {}
        \/ \E a, b \in q :
              /\ a < b /\ q = {a, b} /\ \A m \in i..(a - 1) : s[m] = " "
              /\ \A m \in i..(End(s, i) - 2) : ~(s[m] = "," /\ s[m + 1] = ",")

Regular(s) == \A i \in Fields(s) : FieldIsRegular(s, i)

\* The string in a field's quotes, or the field from its first non-space.
Text(s, i) ==
    LET q == Quotes(s, i, End(s, i) - 1)
    IN  IF q = {} THEN skipWhiteSpace(SubSeq(s, i, End(s, i) - 1))
        ELSE SubSeq(s, Min(q) + 1, Max(q) - 1)

\* A field that stands for a missing value.
IsMissing(s, i) == SubSeq(s, i, End(s, i) - 1) = <<"-">> /\ End(s, i) <= Len(s)

\* What a conversion makes of a field; a number may be missing, or none.
Value(s, i, conversion) ==
    CASE IsMissing(s, i) /\ conversion = "d"  -> <<"-", "1">>
      [] IsMissing(s, i) /\ conversion # "d"  -> <<"unset">>
      [] ~IsMissing(s, i) /\ conversion = "d" -> Numeral(Text(s, i))
      [] OTHER                                -> Text(s, i)

----------------------------------------------------------------------------
\* The line after its colon, as it came.
Body == AfterColon(in_line)

InDomain == HasColon(in_line) /\ Regular(Body)

FieldCount == Cardinality(Fields(Body))

\* The value of the k-th field.
Expected(k) ==
    Value(Body, CHOOSE i \in Fields(Body) : Cardinality(Fields(Body) \cap 1..i) = k, fmt[k])

\* Each conversion stores the value of its own field, where the line is one of
\* plain and quoted fields; empty fields do not count, a comma in quotes does
\* not separate.
StoresFields ==
    InDomain => Len(out) <= FieldCount /\ \A k \in 1..Len(out) : out[k] = Expected(k)

\* The number returned says how far the line goes: the scan stops only at the
\* end of the format or of the line, or at a field that is not the number it
\* should be; and a line without a colon has no fields.
CountsFields ==
    ~scanning =>
        IF HasColon(in_line)
        THEN InDomain =>
               \/ Len(out) = Min({Len(fmt), FieldCount})
               \/ /\ Len(out) < FieldCount /\ fmt[Len(out) + 1] = "d"
                  /\ Expected(Len(out) + 1) = <<>>
        ELSE out = <<>>
=============================================================================
