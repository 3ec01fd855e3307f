------------------------------- MODULE Reports -------------------------------
(****************************************************************************)
(* What src/atc/cellMgtFrame.c reads from the modem's report on the serving *)
(* cell and what src/request_proc.c makes of it; and the texts in which the *)
(* band lock is asked for, set and reported.                                *)
(*                                                                          *)
(* A text of bands is a sequence of characters, for it may be cut off; all  *)
(* other texts are names.                                                   *)
(****************************************************************************)
EXTENDS Integers, Sequences, SequencesExt, FiniteSetsExt

CONSTANT MaxBands       \* MAX_BANDS: 32 in the code

ASSUME MaxBandsAssumption == MaxBands \in Nat \ {0}

----------------------------------------------------------------------------
(****************************************************************************)
(* The signal                                                               *)
(****************************************************************************)
LteFields == {"lte_rssi", "lte_rsrq", "lte_rsrp", "lte_sinr"}
NrFields == {"nr5g_rsrq", "nr5g_rsrp", "nr5g_sinr"}

\* A line of the report: its first three words ("" for one that is missing),
\* and whether all of its numbers are there.
Cell(type, state, rat, full) ==
    [type |-> type, state |-> state, rat |-> rat, full |-> full]

Connections == {"NOCONN", "CONNECT"}

\* Lines that say nothing of the signal.
PassedOver(l) ==
    \/ l.type # "servingcell" \/ l.state \in {"", "SEARCH", "LIMSRV"}
    \/ l.state \in Connections /\ l.rat = ""

Rat(l) == IF l.state \in Connections THEN l.rat ELSE l.state

\* The fields read from a line.
FieldsIn(l) ==
    CASE ~l.full                        -> {}
      [] Rat(l) \in {"NR5G-SA", "NR5G-NSA"} -> NrFields
      [] Rat(l) = "LTE" /\ Rat(l) = l.state -> {"lte_rssi"}
      [] Rat(l) = "LTE"                 -> LteFields
      [] OTHER                          -> {}

\* The network's type and the fields read from a whole report.
Signal(report) ==
    FoldLeft(LAMBDA sig, l :
                IF PassedOver(l) THEN sig
                ELSE [net |-> Rat(l), read |-> sig.read \cup FieldsIn(l)],
             [net |-> "NO SERVER", read |-> {}], report)

\* The fields of the answer.
Shown(net) ==
    CASE net = "LTE"      -> LteFields
      [] net = "NR5G-NSA" -> NrFields
      [] net = "NR5G-SA"  -> LteFields \cup NrFields
      [] OTHER            -> {}

\* The fields that have a level (cellMgtFrame.c:615-642).
Graded == {"lte_rssi"} \cup NrFields

----------------------------------------------------------------------------
(****************************************************************************)
(* The bands                                                                *)
(****************************************************************************)
MAX_BAND_LENGTH == 4
MAX_STRING_LENGTH == MaxBands * (MAX_BAND_LENGTH + 1)

\* Mutant: room is kept for one character more.
StrncatShort(s, t) ==
    s \o SubSeq(t, 1, Min({Len(t), MAX_STRING_LENGTH - Len(s) - 2}))

\* strncat(s, t, MAX_STRING_LENGTH - strlen(s) - 1)
Strncat(s, t) ==
    s \o SubSeq(t, 1, Min({Len(t), MAX_STRING_LENGTH - Len(s) - 1}))

removePrefix(s) ==
    LET dst[i \in 0..Len(s)] ==
            IF i = 0 THEN <<>>
            ELSE IF s[i] \in {"B", "N"} THEN dst[i - 1] ELSE Append(dst[i - 1], s[i])
    IN  dst[Len(s)]

\* parse_bands_json, for one array of the document.
BandText(items) ==
    LET text[i \in 0..Len(items)] ==
            IF i = 0 THEN <<>>
            ELSE Strncat(IF i = 1 THEN <<>> ELSE Strncat(text[i - 1], <<":">>), items[i])
    IN  removePrefix(text[Len(items)])

\* The tokens strtok finds between colons: where they begin, and how far the one
\* that begins at i goes.
Starts(s) == {i \in 1..Len(s) : s[i] # ":" /\ (i = 1 \/ s[i - 1] = ":")}

TokenAt(s, i) ==
    SubSeq(s, i, CHOOSE j \in i..Len(s) : /\ \A m \in i..j : s[m] # ":"
                                          /\ j = Len(s) \/ s[j + 1] = ":")

Tokens(s) ==
    [k \in 1..Cardinality(Starts(s)) |->
        TokenAt(s, CHOOSE i \in Starts(s) : Cardinality(Starts(s) \cap 1..i) = k)]

\* fmt_bands2json drops commas and dashes.
Cleaned(s) == SelectSeq(s, LAMBDA c : c \notin {",", "-"})

AllBands == <<"a", "l", "l">>

Techs == {"lte", "nr"}

BandPrefix == [lte |-> "B", nr |-> "N"]

\* "all" for one technology resets both (AT+QNWPREFCFG="all_band_reset").
Resets(texts) == \E p \in Techs : Contains(Tokens(texts[p]), AllBands)

\* The bands locked after texts was set where locked was.
Locked(texts, locked, factory) ==
    [p \in Techs |->
        CASE texts[p] = <<>> \/ Contains(Tokens(texts[p]), AllBands) ->
                IF Resets(texts) THEN factory[p] ELSE locked[p]
          [] OTHER -> texts[p]]
=============================================================================
