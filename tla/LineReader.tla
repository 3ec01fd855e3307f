------------------------------ MODULE LineReader ------------------------------
(****************************************************************************)
(* readline() of src/atc/atchannel.c: the reader thread cuts the bytes that *)
(* arrive from the modem, in whatever pieces read() returns them, into      *)
(* lines.  The buffer, its two cursors and its NULs are modelled byte by    *)
(* byte, because every line is found by scanning for a NUL or an end of     *)
(* line; pointers are offsets into s_ATBuffer.                              *)
(*                                                                          *)
(* A byte of the input that is neither an end of line nor part of the "> "  *)
(* prompt is represented by its position in the input, so that a line tells *)
(* where its bytes came from.                                               *)
(****************************************************************************)
EXTENDS Integers, Sequences

CONSTANTS
    MAX_AT_RESPONSE,    \* size of the buffer (4096 in the code)
    Inputs              \* the byte sequences the modem may send

NUL == 0
NL  == -1               \* '\r' or '\n'
GT  == -2               \* '>'
SP  == -3               \* ' '

ASSUME SizeAssumption == MAX_AT_RESPONSE \in Nat \ {0}

ASSUME InputAssumption ==
    /\ Inputs \subseteq Seq(Int)
    /\ \A in \in Inputs : \A i \in 1..Len(in) : in[i] \in {NL, GT, SP, i}

VARIABLES
    s_ATBuffer,      \* the buffer and the two bytes after it
    s_ATBufferCur,   \* where the unread part starts
    p_read,          \* where the next byte goes, inside the while loop
    pc,              \* "enter": in readLoop, "read": inside the while loop
    input, taken,    \* what the modem sends, and how much of it was read
    lines            \* the lines returned so far

vars == <<s_ATBuffer, s_ATBufferCur, p_read, pc, input, taken, lines>>

Offsets == 0..(MAX_AT_RESPONSE + 1)

Init ==
    /\ s_ATBuffer = [i \in Offsets |-> NUL]
    /\ s_ATBufferCur = 0 /\ p_read = 0
    /\ pc = "enter"
    /\ input \in Inputs
    /\ taken = 0
    /\ lines = <<>>

\* The first offset from i on whose byte satisfies P: a while loop over *p.
First(buf, i, P(_)) ==
    CHOOSE j \in Offsets :
        j >= i /\ P(buf[j]) /\ \A k \in Offsets : i <= k /\ k < j => ~P(buf[k])

SkipNewlines(buf, cur) == First(buf, cur, LAMBDA b : b # NL)

StrEnd(buf, cur) == First(buf, cur, LAMBDA b : b = NUL)

None == -1      \* a NULL pointer

FindNextEOL(buf, cur) ==
    IF buf[cur] = GT /\ buf[cur + 1] = SP /\ buf[cur + 2] = NUL
    THEN cur + 2
    ELSE LET e == First(buf, cur, LAMBDA b : b \in {NUL, NL})
         IN  IF buf[e] = NUL THEN None ELSE e

\* Mutant: the cursor is left on the NUL that ends the line.
ReturnLineOnNul(buf, cur, eol) ==
    /\ lines' = Append(lines, [i \in 1..(eol - cur) |-> buf[cur + i - 1]])
    /\ s_ATBuffer' = [buf EXCEPT ![eol] = NUL]
    /\ s_ATBufferCur' = eol
    /\ pc' = "enter"

\* Mutant: the NUL goes one byte too early, over the line's last byte.
ReturnLineCropped(buf, cur, eol) ==
    /\ lines' = Append(lines, [i \in 1..(eol - cur - 1) |-> buf[cur + i - 1]])
    /\ s_ATBuffer' = [buf EXCEPT ![eol - 1] = NUL]
    /\ s_ATBufferCur' = eol + 1
    /\ pc' = "enter"

\* A full line: put a NUL over its end and return it.
ReturnLine(buf, cur, eol) ==
    /\ lines' = Append(lines, [i \in 1..(eol - cur) |-> buf[cur + i - 1]])
    /\ s_ATBuffer' = [buf EXCEPT ![eol] = NUL]
    /\ s_ATBufferCur' = eol + 1
    /\ pc' = "enter"

MoveUp(buf, cur, len) ==
    [i \in Offsets |-> IF i <= len THEN buf[cur + i] ELSE buf[i]]

\* readline is called and the buffer is consumed.
EnterEmpty ==
    /\ pc = "enter" /\ s_ATBuffer[s_ATBufferCur] = NUL
    /\ s_ATBufferCur' = 0 /\ p_read' = 0
    /\ s_ATBuffer' = [s_ATBuffer EXCEPT ![0] = NUL]
    /\ pc' = "read"
    /\ UNCHANGED <<input, taken, lines>>

\* readline is called and there are bytes left from the last read: a line,
\* or the start of one, which is moved up.
EnterRest ==
    /\ pc = "enter" /\ s_ATBuffer[s_ATBufferCur] # NUL
    /\ LET cur == SkipNewlines(s_ATBuffer, s_ATBufferCur)
           eol == FindNextEOL(s_ATBuffer, cur)
           len == StrEnd(s_ATBuffer, cur) - cur
       IN  \/ /\ eol # None
              /\ ReturnLine(s_ATBuffer, cur, eol)
              /\ UNCHANGED p_read
           \/ /\ eol = None
              /\ s_ATBuffer' = MoveUp(s_ATBuffer, cur, len)
              /\ s_ATBufferCur' = 0 /\ p_read' = len
              /\ pc' = "read"
              /\ UNCHANGED lines
    /\ UNCHANGED <<input, taken>>

\* Mutant: the full buffer is kept.
DitchNothing == pc = "read" /\ p_read = MAX_AT_RESPONSE /\ UNCHANGED vars

\* The buffer is full and holds no complete line: ditch it.
Ditch ==
    /\ pc = "read" /\ p_read = MAX_AT_RESPONSE
    /\ s_ATBufferCur' = 0 /\ p_read' = 0
    /\ s_ATBuffer' = [s_ATBuffer EXCEPT ![0] = NUL]
    /\ UNCHANGED <<pc, input, taken, lines>>

\* What the buffer holds after read() put n bytes at p_read, and the code a
\* NUL after them.
Filled(n) ==
    [i \in Offsets |->
        IF i >= p_read /\ i < p_read + n THEN input[taken + i - p_read + 1]
        ELSE IF i = p_read + n THEN NUL ELSE s_ATBuffer[i]]

AfterRead(n) == p_read + n

\* read() returns the next n bytes.
Read(n) ==
    /\ pc = "read" /\ p_read < MAX_AT_RESPONSE
    /\ n <= MAX_AT_RESPONSE - p_read
    /\ taken + n <= Len(input)
    /\ LET cur == SkipNewlines(Filled(n), s_ATBufferCur)
           eol == FindNextEOL(Filled(n), cur)
       IN  \/ /\ eol # None
              /\ ReturnLine(Filled(n), cur, eol)
           \/ /\ eol = None
              /\ s_ATBuffer' = Filled(n)
              /\ s_ATBufferCur' = cur
              /\ UNCHANGED <<pc, lines>>
    /\ p_read' = AfterRead(n)
    /\ taken' = taken + n
    /\ UNCHANGED input

Next == EnterEmpty \/ EnterRest \/ Ditch \/ \E n \in 1..MAX_AT_RESPONSE : Read(n)

Spec == Init /\ [][Next]_vars

\* The reader thread runs, and the bytes on their way arrive.
FairSpec == Spec /\ WF_vars(Next)

----------------------------------------------------------------------------
(****************************************************************************)
(* Properties                                                               *)
(****************************************************************************)
TypeOK ==
    /\ s_ATBuffer \in [Offsets -> {NUL, NL, GT, SP} \union 1..Len(input)]
    /\ s_ATBufferCur \in Offsets
    /\ p_read \in 0..MAX_AT_RESPONSE
    /\ pc \in {"enter", "read"}
    /\ input \in Inputs
    /\ taken \in 0..Len(input)

\* The lines of s: <<i, j>> for the bytes i to j-1 between two ends of line,
\* the second one at j.
LineSpans(s) ==
    {span \in (1..Len(s)) \X (1..Len(s)) :
        /\ span[1] < span[2] /\ s[span[2]] = NL
        /\ span[1] = 1 \/ s[span[1] - 1] = NL
        /\ \A k \in span[1]..(span[2] - 1) : s[k] # NL}

\* The bytes from the k-th on of the line at span.
From(s, span, k) == SubSeq(s, k, span[2] - 1)

\* An ordinary byte is its position in the input: no two lines begin alike.
InOrder(ls) == \A m, n \in 1..Len(ls) : m < n => ls[m][1] < ls[n][1]

\* The sequence ls holds every line of s once and in order, and nothing else.
AreLinesOf(ls, s) ==
    /\ \A n \in 1..Len(ls) : \E span \in LineSpans(s) : ls[n] = From(s, span, span[1])
    /\ \A span \in LineSpans(s) : \E n \in 1..Len(ls) : ls[n] = From(s, span, span[1])
    /\ InOrder(ls)

\* Ends of line and then none: from i to j.
OneLine(s, i, j) == i <= j /\ \A a, b \in i..j : a < b /\ s[a] # NL => s[b] # NL

\* Every line of s fits in the buffer with the ends of line before it.
Fits(s) == \A i, j \in 1..Len(s) : OneLine(s, i, j) => j - i + 1 < MAX_AT_RESPONSE

Taken == SubSeq(input, 1, taken)

\* However read() cuts the bytes up, the lines returned are those the modem
\* sent: whenever the reader waits for more it has returned every complete
\* line of what it has read, if the lines fit the buffer.
LinesAreTheInput ==
    (pc = "read" /\ Fits(input)) => AreLinesOf(lines, Taken)

\* A line that does not fit loses its head and nothing else: what is returned
\* is always the tail of one line of the input, never a splice of two, and
\* the lines come in order.
TailsOfLines ==
    /\ \A n \in 1..Len(lines) : \E span \in LineSpans(Taken) :
         \E k \in span[1]..(span[2] - 1) : lines[n] = From(Taken, span, k)
    /\ InOrder(lines)

\* Everything sent is read in the end, and the last line is not left behind.
AllDelivered ==
    <>[](taken = Len(input) /\ (Fits(input) => AreLinesOf(lines, input)))
=============================================================================
