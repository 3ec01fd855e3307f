----------------------------- MODULE MCLineReader -----------------------------
(* Instances of LineReader for TLC. *)
EXTENDS LineReader, TLC

\* Every mix of ordinary bytes and ends of line, up to a length that holds
\* several lines and overflows the buffer.
Plain(n) == UNION {{[i \in 1..k |-> IF i \in e THEN NL ELSE i] : e \in SUBSET (1..k)}
                       : k \in 0..n}

MCPlain == Plain(8)
=============================================================================
