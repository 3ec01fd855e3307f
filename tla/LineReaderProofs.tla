--------------------------- MODULE LineReaderProofs ---------------------------
(****************************************************************************)
(* Proofs about LineReader, for a modem that sends no "> " prompt: lines of *)
(* any length, a buffer of any size and any way read() cuts the bytes up.   *)
(* After a prompt the cursor is left behind the NUL that ends the buffer,   *)
(* and what is returned next depends on what an earlier read left there.    *)
(****************************************************************************)
EXTENDS LineReader, SequenceTheorems, WellFoundedInduction, TLAPS

\* The modem sends ordinary bytes and ends of line.
NoPrompt == \A in \in Inputs : \A i \in 1..Len(in) : in[i] \in {NL, i}

\* A set of numbers has a least element.
LEMMA Least ==
    ASSUME NEW T, T \subseteq Nat, T # {}
    PROVE  \E x \in T : \A y \in T : x <= y
<1> DEFINE R == {ss \in Nat \X Nat : ss[1] < ss[2]}
<1>1. IsWellFoundedOn(R, Nat)
    BY NatLessThanWellFounded DEF OpToRel
<1>2. PICK x \in T : \A y \in T : ~(<<y, x>> \in R)
    BY <1>1, WFMin
<1>3. ASSUME NEW y \in T PROVE x <= y
  <2>1. <<y, x>> \in Nat \X Nat
      OBVIOUS
  <2>2. ~(y < x)
      BY <1>2, <2>1
  <2> QED BY <2>2
<1> QED BY <1>3

----------------------------------------------------------------------------
(****************************************************************************)
(* The scans.  A buffer B holds bytes from c to q-1 and a NUL at q.         *)
(****************************************************************************)
Holds(B, c, q) ==
    /\ q \in 0..MAX_AT_RESPONSE /\ c \in 0..q
    /\ B[q] = NUL
    /\ \A i \in c..(q - 1) : B[i] \in Int /\ B[i] >= NL /\ B[i] # NUL

\* Skipping ends of line stops inside the bytes or at the NUL.
LEMMA SkipStops ==
    ASSUME NEW B, NEW c, NEW q, Holds(B, c, q)
    PROVE  LET k == SkipNewlines(B, c)
           IN  /\ k \in c..q /\ B[k] # NL
               /\ \A i \in c..(k - 1) : B[i] = NL
<1> DEFINE T == {j \in Offsets : j >= c /\ B[j] # NL}
<1>1. q \in T /\ T \subseteq Nat /\ c \in Nat /\ q \in Nat
    BY SizeAssumption DEF Holds, Offsets, NUL, NL
<1>2. PICK x \in T : \A y \in T : x <= y
    BY <1>1, Least
<1>3. \A k \in Offsets : c <= k /\ k < x => ~(B[k] # NL)
  <2>1. SUFFICES ASSUME NEW k \in Offsets, c <= k, k < x, B[k] # NL PROVE FALSE
      OBVIOUS
  <2>2. k \in T
      BY <2>1, <1>1 DEF Offsets
  <2> QED BY <1>1, <1>2, <2>1, <2>2
<1> DEFINE s == SkipNewlines(B, c)
<1>4. s \in Offsets /\ s >= c /\ B[s] # NL
      /\ \A k \in Offsets : c <= k /\ k < s => ~(B[k] # NL)
    BY <1>2, <1>3 DEF SkipNewlines, First
<1>5. s <= q
    BY <1>1, <1>4 DEF Offsets
<1>6. \A i \in c..(s - 1) : B[i] = NL
    BY <1>1, <1>4, SizeAssumption DEF Offsets
<1> QED BY <1>1, <1>4, <1>5, <1>6 DEF Offsets

\* The string that starts at c ends at q.
LEMMA EndsAtNul ==
    ASSUME NEW B, NEW c, NEW q, Holds(B, c, q)
    PROVE  StrEnd(B, c) = q
<1>1. q \in Offsets /\ c \in Nat /\ q \in Nat /\ q >= c
    BY SizeAssumption DEF Holds, Offsets
<1>2. \A k \in Offsets : c <= k /\ k < q => ~(B[k] = NUL)
    BY <1>1 DEF Holds, Offsets
<1> DEFINE s == StrEnd(B, c)
<1>3. s \in Offsets /\ s >= c /\ B[s] = NUL
      /\ \A k \in Offsets : c <= k /\ k < s => ~(B[k] = NUL)
    BY <1>1, <1>2 DEF StrEnd, First, Holds
<1>4. ~(s < q) /\ ~(q < s)
    BY <1>1, <1>2, <1>3 DEF Holds
<1> QED BY <1>1, <1>3, <1>4 DEF Offsets

\* Where the next end of line is, or that there is none before the NUL.
LEMMA FindsEOL ==
    ASSUME NEW B, NEW c, NEW q, Holds(B, c, q), B[c] # NL
    PROVE  LET e == FindNextEOL(B, c)
           IN  \/ /\ e = None
                  /\ \A i \in c..(q - 1) : B[i] # NL
               \/ /\ e # None /\ e \in (c + 1)..(q - 1) /\ B[e] = NL
                  /\ \A i \in c..(e - 1) : B[i] # NL
<1>1. q \in Offsets /\ c \in Nat /\ q \in Nat /\ q >= c /\ c \in Offsets
    BY SizeAssumption DEF Holds, Offsets
<1> DEFINE T == {j \in Offsets : j >= c /\ B[j] \in {NUL, NL}}
<1>2. q \in T /\ T \subseteq Nat
    BY <1>1 DEF Holds, Offsets
<1>3. PICK x \in T : \A y \in T : x <= y
    BY <1>2, Least
<1>4. \A k \in Offsets : c <= k /\ k < x => ~(B[k] \in {NUL, NL})
  <2>1. SUFFICES ASSUME NEW k \in Offsets, c <= k, k < x, B[k] \in {NUL, NL} PROVE FALSE
      OBVIOUS
  <2>2. k \in T
      BY <2>1, <1>1 DEF Offsets
  <2> QED BY <1>2, <1>3, <2>1, <2>2
<1> DEFINE e == CHOOSE j \in Offsets :
        j >= c /\ B[j] \in {NUL, NL}
        /\ \A k \in Offsets : c <= k /\ k < j => ~(B[k] \in {NUL, NL})
<1>5. e \in Offsets /\ e >= c /\ B[e] \in {NUL, NL}
      /\ \A k \in Offsets : c <= k /\ k < e => ~(B[k] \in {NUL, NL})
    BY <1>3, <1>4
<1>6. B[c] # GT
    BY <1>1 DEF Holds, GT, NL, NUL
<1>7. FindNextEOL(B, c) = IF B[e] = NUL THEN None ELSE e
    BY <1>6 DEF FindNextEOL, First
<1> HIDE DEF e
<1>8. e \in Nat /\ e <= q
    BY <1>1, <1>5 DEF Offsets, Holds
<1>9. \A i \in c..(e - 1) : B[i] # NL
    BY <1>1, <1>5, <1>8, SizeAssumption DEF Offsets
<1>10. CASE B[e] = NUL
  <2>1. e = q
      BY <1>1, <1>5, <1>8, <1>10 DEF Holds
  <2> QED BY <1>7, <1>9, <1>10, <2>1
<1>11. CASE B[e] # NUL
  <2>1. B[e] = NL /\ e # c /\ e # q
      BY <1>5, <1>11 DEF Holds
  <2>2. e \in (c + 1)..(q - 1)
      BY <1>1, <1>5, <1>8, <2>1
  <2> QED BY <1>7, <1>8, <1>9, <1>11, <2>1, <2>2 DEF None
<1> QED BY <1>10, <1>11

----------------------------------------------------------------------------
(****************************************************************************)
(* The inductive invariant.  Base is how much of the input came before the  *)
(* byte at offset 0, and Pos before the byte at the cursor: the buffer is   *)
(* a window on the input.                                                   *)
(****************************************************************************)
Base == taken - p_read
Pos  == Base + s_ATBufferCur

\* The bytes k to e-1 of the input.
Piece(k, e) == [i \in 1..(e - k) |-> input[k + i - 1]]

\* The bytes k to e-1 are the tail of a line that ends at e.
IsTail(k, e) ==
    /\ k \in 1..Len(input) /\ e \in 1..Len(input) /\ k < e
    /\ input[e] = NL /\ \A x \in k..(e - 1) : input[x] # NL

StartsLine(k) == k = 1 \/ input[k - 1] = NL

\* The cursors are in order, and between them the buffer is the input.
Window ==
    /\ TypeOK
    /\ lines \in Seq(Seq(Int))
    /\ s_ATBufferCur \in 0..p_read /\ p_read <= taken
    /\ s_ATBuffer[p_read] = NUL
    /\ \A i \in s_ATBufferCur..(p_read - 1) : s_ATBuffer[i] = input[Base + i + 1]

\* The reader waits: ends of line to skip, then a line that is not complete.
Waiting ==
    pc = "read" =>
        /\ \A x \in (Base + 1)..Pos : input[x] = NL
        /\ \A x \in (Pos + 1)..taken : input[x] # NL

\* Each line returned is the tail of a line that ends before the cursor.
Tails ==
    \A n \in 1..Len(lines) : \E k, e \in 1..Len(input) :
        IsTail(k, e) /\ e <= Pos /\ lines[n] = Piece(k, e)

Ordered == \A m, n \in 1..Len(lines) : m < n => lines[m][1] < lines[n][1]

\* If every line fits, the cursor is where a line may start, every line
\* returned is whole, and every line before the cursor was returned.
Whole ==
    Fits(input) =>
        /\ Pos = 0 \/ input[Pos] = NL
        /\ \A n \in 1..Len(lines) : \E k, e \in 1..Len(input) :
             IsTail(k, e) /\ StartsLine(k) /\ e <= Pos /\ lines[n] = Piece(k, e)
        /\ \A k, e \in 1..Len(input) : IsTail(k, e) /\ StartsLine(k) /\ e <= Pos =>
             \E n \in 1..Len(lines) : lines[n] = Piece(k, e)

Inv == Window /\ Waiting /\ Tails /\ Ordered /\ Whole

----------------------------------------------------------------------------
\* The input is a sequence of numbers, each its position or an end of line.
LEMMA InputIsPlain ==
    ASSUME NoPrompt, input \in Inputs
    PROVE  /\ input \in Seq(Int) /\ Len(input) \in Nat
           /\ \A i \in 1..Len(input) : input[i] = NL \/ input[i] = i
BY InputAssumption DEF NoPrompt

\* A line that is returned begins with the position of its first byte.
LEMMA FirstByte ==
    ASSUME NoPrompt, input \in Inputs, NEW k, NEW e, IsTail(k, e)
    PROVE  Piece(k, e)[1] = k /\ Piece(k, e) \in Seq(Int)
<1>1. k \in 1..Len(input) /\ e \in 1..Len(input) /\ k < e /\ input[k] # NL /\ Len(input) \in Nat
    BY InputIsPlain DEF IsTail
<1>2. input[k] = k
    BY <1>1, InputIsPlain
<1>3. \A i \in 1..(e - k) : input[k + i - 1] \in Int
    BY <1>1, InputIsPlain DEF NL
<1>4. Piece(k, e) \in Seq(Int)
    BY <1>1, <1>3, IsASeq DEF Piece
<1>5. Piece(k, e)[1] = input[k + 1 - 1] /\ k + 1 - 1 = k
    BY <1>1 DEF Piece
<1> QED BY <1>2, <1>4, <1>5

\* In the window the buffer holds bytes and ends with a NUL.
LEMMA WindowHolds ==
    ASSUME NoPrompt, Window
    PROVE  /\ Holds(s_ATBuffer, s_ATBufferCur, p_read)
           /\ Base \in Nat /\ Base + p_read = taken /\ Pos \in 0..taken
           /\ taken \in 0..Len(input) /\ Len(input) \in Nat /\ p_read \in Nat /\ s_ATBufferCur \in Nat
<1>1. /\ p_read \in 0..MAX_AT_RESPONSE /\ s_ATBufferCur \in 0..p_read
      /\ taken \in 0..Len(input) /\ Len(input) \in Nat /\ input \in Inputs /\ p_read <= taken
    BY InputIsPlain DEF Window, TypeOK
<1>2. Base \in Nat /\ Base + p_read = taken /\ Pos \in 0..taken
    BY <1>1, SizeAssumption DEF Base, Pos
<1>3. ASSUME NEW i \in s_ATBufferCur..(p_read - 1)
      PROVE  s_ATBuffer[i] \in Int /\ s_ATBuffer[i] >= NL /\ s_ATBuffer[i] # NUL
  <2>1. Base + i + 1 \in 1..Len(input)
      BY <1>1, <1>2, SizeAssumption
  <2>2. s_ATBuffer[i] = input[Base + i + 1]
      BY DEF Window
  <2>3. input[Base + i + 1] = NL \/ input[Base + i + 1] = Base + i + 1
      BY <1>1, <2>1, InputIsPlain
  <2> QED BY <2>1, <2>2, <2>3 DEF NL, NUL
<1>4. Holds(s_ATBuffer, s_ATBufferCur, p_read)
    BY <1>1, <1>3 DEF Holds, Window
<1> QED BY <1>1, <1>2, <1>4, SizeAssumption

LEMMA InitInv == NoPrompt /\ Init => Inv
<1> SUFFICES ASSUME NoPrompt, Init PROVE Inv
    OBVIOUS
<1> USE DEF Init
<1>1. Len(input) \in Nat /\ MAX_AT_RESPONSE \in Nat
    BY InputIsPlain, SizeAssumption
<1>2. Window
    BY <1>1 DEF Window, TypeOK, Offsets, Base
<1>3. Len(lines) = 0 /\ Pos = 0
    BY DEF Pos, Base
<1>4. Tails /\ Ordered /\ Waiting
    BY <1>3 DEF Tails, Ordered, Waiting
<1>5. Whole
  <2>1. \A k, e \in 1..Len(input) : ~(e <= Pos)
      BY <1>1, <1>3
  <2> QED BY <1>3, <2>1 DEF Whole
<1> QED BY <1>2, <1>4, <1>5 DEF Inv

----------------------------------------------------------------------------
(****************************************************************************)
(* The two ways the cursor goes on: over ends of line, and over a line.     *)
(****************************************************************************)
\* Behind ends of line, the cursor is where a line may start.
LEMMA NewlinesOnly ==
    ASSUME NoPrompt, Inv, NEW q \in Pos..Len(input),
           \A x \in (Pos + 1)..q : input[x] = NL
    PROVE  /\ Fits(input) => q = 0 \/ input[q] = NL
           /\ \A k, e \in 1..Len(input) : ~(IsTail(k, e) /\ StartsLine(k) /\ Fits(input) /\ Pos < e /\ e <= q)
<1>1. Pos \in Nat /\ q \in Nat /\ Len(input) \in Nat
    BY WindowHolds DEF Inv
<1>2. ASSUME Fits(input) PROVE Pos = 0 \/ input[Pos] = NL
    BY <1>2 DEF Inv, Whole
<1>3. ASSUME Fits(input) PROVE q = 0 \/ input[q] = NL
    BY <1>1, <1>2, <1>3
<1>4. ASSUME NEW k \in 1..Len(input), NEW e \in 1..Len(input),
             IsTail(k, e), Fits(input), Pos < e, e <= q
      PROVE  FALSE
  <2>1. e - 1 \in k..(e - 1) /\ input[e - 1] # NL
      BY <1>4 DEF IsTail
  <2>2. CASE e - 1 = Pos
      BY <1>1, <1>2, <1>4, <2>1, <2>2
  <2>3. CASE e - 1 # Pos
    <3>1. e - 1 \in (Pos + 1)..q
        BY <1>1, <1>4, <2>3
    <3> QED BY <2>1, <3>1
  <2> QED BY <2>2, <2>3
<1> QED BY <1>3, <1>4

LEMMA SkipsOn ==
    ASSUME NoPrompt, Inv, input' = input, lines' = lines, Pos' \in Pos..Len(input),
           \A x \in (Pos + 1)..Pos' : input[x] = NL
    PROVE  Tails' /\ Ordered' /\ Whole'
<1>1. Pos \in Nat /\ Pos' \in Nat /\ Pos <= Pos' /\ Len(input) \in Nat
    BY WindowHolds DEF Inv
<1>2. /\ \A k, e \in 1..Len(input) : IsTail(k, e)' = IsTail(k, e)
      /\ \A k \in 1..Len(input) : StartsLine(k)' = StartsLine(k)
      /\ \A k, e \in 1..Len(input) : Piece(k, e)' = Piece(k, e)
    BY DEF IsTail, StartsLine, Piece
<1>3. Tails'
  <2> SUFFICES ASSUME NEW n \in 1..Len(lines)
               PROVE  \E k, e \in 1..Len(input) :
                          IsTail(k, e)' /\ e <= Pos' /\ lines[n] = Piece(k, e)'
      BY DEF Tails
  <2>1. PICK k \in 1..Len(input), e \in 1..Len(input) :
            IsTail(k, e) /\ e <= Pos /\ lines[n] = Piece(k, e)
      BY DEF Inv, Tails
  <2> QED BY <1>1, <1>2, <2>1
<1>4. Ordered'
    BY DEF Inv, Ordered
<1>5. ASSUME Fits(input) PROVE Pos' = 0 \/ input[Pos'] = NL
    BY <1>5, NewlinesOnly
<1>6. ASSUME Fits(input), NEW n \in 1..Len(lines)
      PROVE  \E k, e \in 1..Len(input) :
                 IsTail(k, e)' /\ StartsLine(k)' /\ e <= Pos' /\ lines[n] = Piece(k, e)'
  <2>1. PICK k \in 1..Len(input), e \in 1..Len(input) :
            IsTail(k, e) /\ StartsLine(k) /\ e <= Pos /\ lines[n] = Piece(k, e)
      BY <1>6 DEF Inv, Whole
  <2> QED BY <1>1, <1>2, <2>1
<1>7. ASSUME Fits(input), NEW k \in 1..Len(input), NEW e \in 1..Len(input),
             IsTail(k, e), StartsLine(k), e <= Pos'
      PROVE  \E n \in 1..Len(lines) : lines[n] = Piece(k, e)
  <2>1. e <= Pos
      BY <1>1, <1>7, NewlinesOnly
  <2> QED BY <1>7, <2>1 DEF Inv, Whole
<1>8. Fits(input)' = Fits(input)
    OBVIOUS
<1>9. Whole'
  <2>1. ASSUME Fits(input), NEW n \in 1..Len(lines)
        PROVE  \E k, e \in 1..Len(input) :
                   (IsTail(k, e) /\ StartsLine(k) /\ e <= Pos /\ lines[n] = Piece(k, e))'
      BY <1>6, <2>1
  <2>2. ASSUME Fits(input), NEW k \in 1..Len(input), NEW e \in 1..Len(input),
               (IsTail(k, e) /\ StartsLine(k) /\ e <= Pos)'
        PROVE  \E n \in 1..Len(lines) : lines[n] = Piece(k, e)'
      BY <1>2, <1>7, <2>2
  <2> QED BY <1>5, <1>8, <2>1, <2>2 DEF Whole
<1> QED BY <1>3, <1>4, <1>9

LEMMA ReturnsTail ==
    ASSUME NoPrompt, Inv, input' = input, NEW k, NEW e, IsTail(k, e), Pos < k,
           \A x \in (Pos + 1)..(k - 1) : input[x] = NL,
           Pos' = e, lines' = Append(lines, Piece(k, e))
    PROVE  lines' \in Seq(Seq(Int)) /\ Tails' /\ Ordered' /\ Whole'
<1>1. Pos \in Nat /\ Pos' = e /\ Len(input) \in Nat
      /\ k \in 1..Len(input) /\ e \in 1..Len(input) /\ k < e /\ input \in Inputs
    BY WindowHolds DEF Inv, IsTail, Window, TypeOK
<1>2. /\ \A j, f \in 1..Len(input) : IsTail(j, f)' = IsTail(j, f)
      /\ \A j \in 1..Len(input) : StartsLine(j)' = StartsLine(j)
      /\ \A j, f \in 1..Len(input) : Piece(j, f)' = Piece(j, f)
    BY DEF IsTail, StartsLine, Piece
<1>3. Piece(k, e)[1] = k /\ Piece(k, e) \in Seq(Int) /\ lines \in Seq(Seq(Int))
    BY FirstByte, <1>1 DEF Inv, Window
<1> DEFINE N == Len(lines)
<1>4. /\ lines' \in Seq(Seq(Int)) /\ Len(lines') = N + 1 /\ N \in Nat
      /\ \A n \in 1..N : lines'[n] = lines[n]
      /\ lines'[N + 1] = Piece(k, e)
    BY <1>3, AppendProperties, LenProperties
<1> HIDE DEF N
<1>5. Tails'
  <2> SUFFICES ASSUME NEW n \in 1..(N + 1)
               PROVE  \E j, f \in 1..Len(input) :
                          (IsTail(j, f) /\ f <= Pos /\ lines[n] = Piece(j, f))'
      BY <1>4 DEF Tails
  <2>1. CASE n = N + 1
    <3>1. IsTail(k, e) /\ e <= e /\ lines'[n] = Piece(k, e)
        BY <1>1, <1>4, <2>1
    <3> QED BY <1>1, <1>2, <3>1
  <2>2. CASE n # N + 1
    <3>1. n \in 1..N
        BY <1>4, <2>2
    <3>2. PICK j \in 1..Len(input), f \in 1..Len(input) :
              IsTail(j, f) /\ f <= Pos /\ lines[n] = Piece(j, f)
        BY <3>1 DEF Inv, Tails, N
    <3>3. f <= Pos' /\ lines'[n] = Piece(j, f)
        BY <1>1, <1>4, <3>1, <3>2
    <3> QED BY <1>2, <3>2, <3>3
  <2> QED BY <2>1, <2>2
<1>6. Ordered'
  <2>1. ASSUME NEW m \in 1..N PROVE lines[m][1] < k
    <3>1. PICK j \in 1..Len(input), f \in 1..Len(input) :
              IsTail(j, f) /\ f <= Pos /\ lines[m] = Piece(j, f)
        BY DEF Inv, Tails, N
    <3>2. lines[m][1] = j
        BY <1>1, <3>1, FirstByte
    <3>3. j < f
        BY <3>1 DEF IsTail
    <3> QED BY <1>1, <3>1, <3>2, <3>3
  <2> SUFFICES ASSUME NEW m \in 1..(N + 1), NEW n \in 1..(N + 1), m < n
               PROVE  lines'[m][1] < lines'[n][1]
      BY <1>4 DEF Ordered
  <2>2. m \in 1..N
      BY <1>4
  <2>3. CASE n = N + 1
      BY <1>3, <1>4, <2>1, <2>2, <2>3
  <2>4. CASE n # N + 1
    <3>1. n \in 1..N
        BY <1>4, <2>4
    <3>2. lines[m][1] < lines[n][1]
        BY <2>2, <3>1 DEF Inv, Ordered, N
    <3> QED BY <1>4, <2>2, <3>1, <3>2
  <2> QED BY <2>3, <2>4
<1>7. ASSUME Fits(input) PROVE StartsLine(k)
  <2>1. k - 1 \in Pos..Len(input) /\ \A x \in (Pos + 1)..(k - 1) : input[x] = NL
      BY <1>1
  <2>2. k - 1 = 0 \/ input[k - 1] = NL
      BY <1>7, <2>1, NewlinesOnly
  <2> QED BY <1>1, <2>2 DEF StartsLine
<1>8. ASSUME Fits(input), NEW n \in 1..(N + 1)
      PROVE  \E j, f \in 1..Len(input) :
                 IsTail(j, f) /\ StartsLine(j) /\ f <= e /\ lines'[n] = Piece(j, f)
  <2>1. CASE n = N + 1
      BY <1>1, <1>4, <1>7, <1>8, <2>1
  <2>2. CASE n # N + 1
    <3>1. n \in 1..N
        BY <1>4, <2>2
    <3>2. PICK j \in 1..Len(input), f \in 1..Len(input) :
              IsTail(j, f) /\ StartsLine(j) /\ f <= Pos /\ lines[n] = Piece(j, f)
        BY <1>8, <3>1 DEF Inv, Whole, N
    <3>3. f <= e
        BY <1>1, <3>2
    <3> QED BY <1>4, <3>1, <3>2, <3>3
  <2> QED BY <2>1, <2>2
<1>9. ASSUME Fits(input), NEW j \in 1..Len(input), NEW f \in 1..Len(input),
             IsTail(j, f), StartsLine(j), f <= e
      PROVE  \E n \in 1..(N + 1) : lines'[n] = Piece(j, f)
  <2>1. CASE f <= Pos
    <3>1. PICK n \in 1..N : lines[n] = Piece(j, f)
        BY <1>9, <2>1 DEF Inv, Whole, N
    <3> QED BY <1>4, <3>1
  <2>2. CASE Pos < f
    <3>1. ~(f <= k - 1)
      <4>1. k - 1 \in Pos..Len(input) /\ \A x \in (Pos + 1)..(k - 1) : input[x] = NL
          BY <1>1
      <4> QED BY <1>9, <2>2, <4>1, NewlinesOnly
    <3>2. f = e
        BY <1>1, <1>9, <3>1 DEF IsTail
    <3>3. ~(k < j)
      <4>1. k < j => input[j - 1] = NL /\ j - 1 \in k..(e - 1)
          BY <1>1, <1>9, <3>2 DEF StartsLine, IsTail
      <4> QED BY <4>1 DEF IsTail
    <3>4. ~(j < k)
      <4>1. j < k => k - 1 \in j..(f - 1) /\ k # 1
          BY <1>1, <3>2
      <4>2. input[k - 1] = NL \/ k = 1
          BY <1>7, <1>9 DEF StartsLine
      <4> QED BY <1>9, <4>1, <4>2 DEF IsTail
    <3>5. j = k
        BY <1>1, <3>3, <3>4
    <3> QED BY <1>4, <3>2, <3>5
  <2>3. f <= Pos \/ Pos < f
      BY <1>1
  <2> QED BY ONLY <2>1, <2>2, <2>3, Zenon
<1>10. input[e] = NL
    BY DEF IsTail
<1>11. Whole'
  <2>1. Fits(input)' = Fits(input) /\ Len(lines') = N + 1
      BY <1>4
  <2>2. ASSUME Fits(input), NEW n \in 1..(N + 1)
        PROVE  \E j, f \in 1..Len(input) :
                   (IsTail(j, f) /\ StartsLine(j) /\ f <= Pos /\ lines[n] = Piece(j, f))'
      BY <1>1, <1>2, <1>8, <2>2
  <2>3. ASSUME Fits(input), NEW j \in 1..Len(input), NEW f \in 1..Len(input),
               (IsTail(j, f) /\ StartsLine(j) /\ f <= Pos)'
        PROVE  \E n \in 1..(N + 1) : lines'[n] = Piece(j, f)'
    <3>1. IsTail(j, f) /\ StartsLine(j) /\ f <= e /\ Piece(j, f)' = Piece(j, f)
        BY <1>1, <1>2, <2>3
    <3> QED BY <1>9, <2>3, <3>1, Zenon
  <2>4. (Pos = 0 \/ input[Pos] = NL)'
      BY <1>1, <1>10
  <2> HIDE DEF N
  <2>5. ASSUME Fits(input), NEW n \in 1..Len(lines)'
        PROVE  \E j, f \in 1..Len(input)' :
                   (IsTail(j, f) /\ StartsLine(j) /\ f <= Pos /\ lines[n] = Piece(j, f))'
      BY <2>1, <2>2, <2>5
  <2>6. ASSUME Fits(input), NEW j \in 1..Len(input)', NEW f \in 1..Len(input)',
               (IsTail(j, f) /\ StartsLine(j) /\ f <= Pos)'
        PROVE  \E n \in 1..Len(lines)' : lines'[n] = Piece(j, f)'
    <3>1. j \in 1..Len(input) /\ f \in 1..Len(input)
        BY <2>6
    <3>2. PICK n \in 1..(N + 1) : lines'[n] = Piece(j, f)'
        BY <2>3, <2>6, <3>1
    <3> QED BY <2>1, <3>2
  <2> QED BY <2>1, <2>4, <2>5, <2>6, Zenon DEF Whole
<1> QED BY <1>4, <1>5, <1>6, <1>11

----------------------------------------------------------------------------
(****************************************************************************)
(* The steps.  Shows(B, q, t): B holds the unread bytes up to q, the last   *)
(* of which is the input's t-th.                                            *)
(****************************************************************************)
Bytes == {NUL, NL, GT, SP} \union 1..Len(input)

Shows(B, q, t) ==
    /\ B \in [Offsets -> Bytes]
    /\ Holds(B, s_ATBufferCur, q)
    /\ Base + q = t /\ t \in taken..Len(input)
    /\ \A i \in s_ATBufferCur..(q - 1) : B[i] = input[Base + i + 1]

\* Skipping the ends of line in B is skipping those of the input.
LEMMA SkipsInput ==
    ASSUME NoPrompt, Inv, NEW B, NEW q, NEW t, Shows(B, q, t)
    PROVE  LET c == SkipNewlines(B, s_ATBufferCur)
           IN  /\ c \in s_ATBufferCur..q /\ Holds(B, c, q) /\ B[c] # NL
               /\ \A x \in (Pos + 1)..(Base + c) : input[x] = NL
<1> DEFINE c == SkipNewlines(B, s_ATBufferCur)
<1>1. /\ Holds(B, s_ATBufferCur, q) /\ Base + q = t
      /\ \A i \in s_ATBufferCur..(q - 1) : B[i] = input[Base + i + 1]
    BY DEF Shows
<1>2. c \in s_ATBufferCur..q /\ B[c] # NL /\ \A i \in s_ATBufferCur..(c - 1) : B[i] = NL
    BY <1>1, SkipStops
<1>3. Base \in Nat /\ s_ATBufferCur \in Nat /\ q \in Nat /\ q <= MAX_AT_RESPONSE
      /\ MAX_AT_RESPONSE \in Nat
    BY <1>1, WindowHolds, SizeAssumption DEF Inv, Holds
<1> HIDE DEF c
<1>4. Holds(B, c, q)
    BY <1>1, <1>2, <1>3 DEF Holds
<1>5. ASSUME NEW x \in (Pos + 1)..(Base + c) PROVE input[x] = NL
  <2> DEFINE i == x - Base - 1
  <2>1. i \in s_ATBufferCur..(c - 1) /\ i \in s_ATBufferCur..(q - 1) /\ Base + i + 1 = x
      BY <1>2, <1>3 DEF Pos
  <2> HIDE DEF i
  <2>2. B[i] = NL /\ B[i] = input[Base + i + 1]
      BY <1>1, <1>2, <2>1
  <2> QED BY <2>1, <2>2
<1> QED BY <1>2, <1>4, <1>5 DEF c

\* A line is found and returned.
LEMMA LineFound ==
    ASSUME NoPrompt, Inv, NEW B, NEW q, NEW t, Shows(B, q, t),
           LET c == SkipNewlines(B, s_ATBufferCur)
               e == FindNextEOL(B, c)
           IN  e # None /\ ReturnLine(B, c, e),
           input' = input, p_read' = q, taken' = t
    PROVE  Inv'
<1> DEFINE c == SkipNewlines(B, s_ATBufferCur)
           e == FindNextEOL(B, c)
<1>1. e # None /\ ReturnLine(B, c, e)
    OBVIOUS
<1>2. /\ c \in s_ATBufferCur..q /\ Holds(B, c, q) /\ B[c] # NL
      /\ \A x \in (Pos + 1)..(Base + c) : input[x] = NL
    BY SkipsInput
<1>3. e \in (c + 1)..(q - 1) /\ B[e] = NL /\ \A i \in c..(e - 1) : B[i] # NL
    BY <1>1, <1>2, FindsEOL
<1>4. /\ Base \in Nat /\ s_ATBufferCur \in Nat /\ q \in Nat /\ q \in 0..MAX_AT_RESPONSE
      /\ MAX_AT_RESPONSE \in Nat /\ t \in taken..Len(input) /\ Len(input) \in Nat
      /\ taken \in Nat /\ Base + q = t /\ B[q] = NUL /\ Pos = Base + s_ATBufferCur
    BY WindowHolds, SizeAssumption DEF Inv, Holds, Shows, Pos
<1>5. \A i \in s_ATBufferCur..(q - 1) : B[i] = input[Base + i + 1]
    BY DEF Shows
<1> HIDE DEF c, e
<1>6. c \in Nat /\ e \in Nat /\ c < e /\ e < q /\ s_ATBufferCur <= c
    BY <1>2, <1>3, <1>4, SMTT(20)
<1> DEFINE k == Base + c + 1
           f == Base + e + 1
<1>7. k \in 1..Len(input) /\ f \in 1..Len(input) /\ k < f /\ Pos < k /\ k - 1 = Base + c
      /\ f \in Nat /\ k \in Nat /\ f - k = e - c
    BY <1>4, <1>6
<1>8. input[f] = NL
    BY <1>3, <1>4, <1>5, <1>6
<1>9. ASSUME NEW x \in k..(f - 1) PROVE input[x] # NL
  <2> DEFINE i == x - Base - 1
  <2>1. i \in c..(e - 1) /\ i \in s_ATBufferCur..(q - 1) /\ Base + i + 1 = x
      BY <1>4, <1>6
  <2> HIDE DEF i
  <2> QED BY <1>3, <1>5, <2>1
<1>10. IsTail(k, f)
    BY <1>7, <1>8, <1>9 DEF IsTail
<1>11. [i \in 1..(e - c) |-> B[c + i - 1]] = Piece(k, f)
  <2>1. ASSUME NEW i \in 1..(e - c) PROVE B[c + i - 1] = input[k + i - 1]
    <3>1. c + i - 1 \in s_ATBufferCur..(q - 1) /\ Base + (c + i - 1) + 1 = k + i - 1
        BY <1>4, <1>6
    <3> HIDE DEF k
    <3> QED BY <1>5, <3>1
  <2> HIDE DEF k, f
  <2> QED BY <1>7, <2>1 DEF Piece
<1>12. /\ lines' = Append(lines, Piece(k, f))
       /\ s_ATBuffer' = [B EXCEPT ![e] = NUL] /\ s_ATBufferCur' = e + 1 /\ pc' = "enter"
    BY <1>1, <1>11 DEF ReturnLine
<1>13. Base' = Base /\ Pos' = f
    BY <1>4, <1>6, <1>12, SMTT(20) DEF Base, Pos
<1>14. lines' \in Seq(Seq(Int)) /\ Tails' /\ Ordered' /\ Whole'
  <2>1. \A x \in (Pos + 1)..(k - 1) : input[x] = NL
      BY <1>2, <1>7
  <2> HIDE DEF k, f
  <2> QED BY <1>7, <1>10, <1>12, <1>13, <2>1, ReturnsTail
<1>15. Waiting'
    BY <1>12 DEF Waiting
<1>16. Window'
  <2>1. B \in [Offsets -> Bytes] /\ e \in Offsets /\ q \in Offsets
      BY <1>4, <1>6 DEF Shows, Offsets
  <2>2. s_ATBuffer' \in [Offsets -> Bytes] /\ s_ATBuffer'[q] = NUL
      BY <1>4, <1>6, <1>12, <2>1 DEF Bytes
  <2>3. input \in Inputs
      BY DEF Inv, Window, TypeOK
  <2>4. TypeOK'
      BY <1>4, <1>6, <1>12, <2>2, <2>3 DEF TypeOK, Offsets, Bytes
  <2>5. \A i \in (e + 1)..(q - 1) : s_ATBuffer'[i] = input[Base + i + 1]
    <3> SUFFICES ASSUME NEW i \in (e + 1)..(q - 1) PROVE s_ATBuffer'[i] = input[Base + i + 1]
        OBVIOUS
    <3>1. i \in Offsets /\ i # e /\ i \in s_ATBufferCur..(q - 1)
        BY <1>4, <1>6 DEF Offsets
    <3>2. s_ATBuffer'[i] = B[i]
        BY <1>12, <2>1, <3>1
    <3> QED BY <1>5, <3>1, <3>2
  <2>6. e + 1 \in 0..q /\ q <= t
      BY <1>4, <1>6
  <2> QED BY <1>12, <1>13, <1>14, <2>2, <2>4, <2>5, <2>6 DEF Window
<1> QED BY <1>14, <1>15, <1>16 DEF Inv

\* What read() put into the buffer is the next piece of the input.
LEMMA FilledShows ==
    ASSUME NoPrompt, Inv, pc = "read", NEW n \in 1..MAX_AT_RESPONSE,
           n <= MAX_AT_RESPONSE - p_read, taken + n <= Len(input)
    PROVE  Shows(Filled(n), p_read + n, taken + n)
<1>1. /\ Base \in Nat /\ s_ATBufferCur \in Nat /\ p_read \in Nat /\ MAX_AT_RESPONSE \in Nat
      /\ taken \in Nat /\ Base + p_read = taken /\ Len(input) \in Nat /\ s_ATBufferCur <= p_read
      /\ s_ATBuffer \in [Offsets -> Bytes] /\ input \in Inputs
    BY WindowHolds, SizeAssumption DEF Inv, Window, TypeOK, Bytes
<1>2. \A i \in 1..Len(input) : input[i] \in {NL, i}
    BY <1>1, InputIsPlain
<1>3. ASSUME NEW i \in Offsets PROVE Filled(n)[i] \in Bytes
  <2>1. CASE i >= p_read /\ i < p_read + n
    <3>1. taken + i - p_read + 1 \in 1..Len(input) /\ Filled(n)[i] = input[taken + i - p_read + 1]
        BY <1>1, <2>1 DEF Filled, Offsets
    <3> QED BY <1>2, <3>1 DEF Bytes
  <2>2. CASE i = p_read + n
      BY <1>1, <2>2 DEF Filled, Bytes
  <2>3. CASE ~(i >= p_read /\ i < p_read + n) /\ i # p_read + n
    <3>1. Filled(n)[i] = s_ATBuffer[i]
        BY <2>3 DEF Filled
    <3> QED BY <1>1, <3>1
  <2> QED BY <2>1, <2>2, <2>3
<1>4. Filled(n) \in [Offsets -> Bytes]
    BY <1>3 DEF Filled
<1>5. Filled(n)[p_read + n] = NUL
  <2>1. p_read + n \in Offsets
      BY <1>1 DEF Offsets
  <2> QED BY <1>1, <2>1 DEF Filled
<1>6. ASSUME NEW i \in s_ATBufferCur..(p_read + n - 1)
      PROVE  Filled(n)[i] = input[Base + i + 1] /\ Base + i + 1 \in 1..Len(input)
  <2>1. i \in Offsets /\ Base + i + 1 = taken + i - p_read + 1 /\ Base + i + 1 \in 1..Len(input)
      BY <1>1 DEF Offsets
  <2>2. CASE i >= p_read
    <3>1. Filled(n)[i] = input[taken + i - p_read + 1]
        BY <1>1, <2>1, <2>2 DEF Filled
    <3> QED BY <2>1, <3>1
  <2>3. CASE i < p_read
    <3>1. i \in s_ATBufferCur..(p_read - 1) /\ i # p_read + n
        BY <1>1, <2>3
    <3>2. Filled(n)[i] = s_ATBuffer[i]
        BY <1>1, <2>1, <2>3, <3>1 DEF Filled
    <3> QED BY <2>1, <3>1, <3>2 DEF Inv, Window
  <2> QED BY <1>1, <2>2, <2>3
<1>7. ASSUME NEW i \in s_ATBufferCur..(p_read + n - 1)
      PROVE  Filled(n)[i] \in Int /\ Filled(n)[i] >= NL /\ Filled(n)[i] # NUL
  <2> DEFINE x == Base + i + 1
  <2>1. Filled(n)[i] = input[x] /\ x \in 1..Len(input)
      BY <1>6
  <2> HIDE DEF x
  <2>2. input[x] = NL \/ input[x] = x
      BY <1>2, <2>1
  <2> QED BY <2>1, <2>2 DEF NL, NUL
<1>8. Holds(Filled(n), s_ATBufferCur, p_read + n)
  <2>1. p_read + n \in 0..MAX_AT_RESPONSE /\ s_ATBufferCur \in 0..(p_read + n)
      BY <1>1
  <2> DEFINE B == Filled(n)
             q == p_read + n
  <2>2. ASSUME NEW i \in s_ATBufferCur..(q - 1)
        PROVE  B[i] \in Int /\ B[i] >= NL /\ B[i] # NUL
    <3>1. i \in s_ATBufferCur..(p_read + n - 1)
        BY <1>1 DEF q
    <3> QED BY <1>7, <3>1
  <2>3. q \in 0..MAX_AT_RESPONSE /\ s_ATBufferCur \in 0..q
      BY <2>1
  <2>4. B[q] = NUL
      BY <1>5
  <2> HIDE DEF B, q
  <2>5. Holds(B, s_ATBufferCur, q)
      BY <2>2, <2>3, <2>4 DEF Holds
  <2> QED BY <2>5 DEF B, q
<1>9. Base + (p_read + n) = taken + n /\ taken + n \in taken..Len(input)
    BY <1>1
<1> DEFINE B == Filled(n)
           q == p_read + n
           t == taken + n
<1>10. /\ B \in [Offsets -> Bytes] /\ Holds(B, s_ATBufferCur, q)
       /\ Base + q = t /\ t \in taken..Len(input)
    BY <1>4, <1>8, <1>9
<1>11. \A i \in s_ATBufferCur..(q - 1) : B[i] = input[Base + i + 1]
  <2> SUFFICES ASSUME NEW i \in s_ATBufferCur..(q - 1) PROVE B[i] = input[Base + i + 1]
      OBVIOUS
  <2>1. i \in s_ATBufferCur..(p_read + n - 1)
      BY <1>1 DEF q
  <2> QED BY <1>6, <2>1
<1> HIDE DEF B, q, t
<1>12. Shows(B, q, t)
    BY <1>10, <1>11 DEF Shows
<1> QED BY <1>12 DEF B, q, t

LEMMA BufferShows ==
    ASSUME NoPrompt, Inv
    PROVE  Shows(s_ATBuffer, p_read, taken)
BY WindowHolds DEF Inv, Window, TypeOK, Shows, Bytes

\* No line is found: the cursor stops behind the ends of line.
LEMMA NoneFound ==
    ASSUME NoPrompt, Inv, NEW B, NEW q, NEW t, Shows(B, q, t),
           FindNextEOL(B, SkipNewlines(B, s_ATBufferCur)) = None,
           input' = input, lines' = lines, taken' = t,
           Pos' = Base + SkipNewlines(B, s_ATBufferCur)
    PROVE  /\ Tails' /\ Ordered' /\ Whole'
           /\ \A x \in (Pos' + 1)..t : input[x] # NL
<1> DEFINE c == SkipNewlines(B, s_ATBufferCur)
<1>1. /\ c \in s_ATBufferCur..q /\ Holds(B, c, q) /\ B[c] # NL
      /\ \A x \in (Pos + 1)..(Base + c) : input[x] = NL
    BY SkipsInput
<1>2. \A i \in c..(q - 1) : B[i] # NL
    BY <1>1, FindsEOL
<1>3. /\ Base \in Nat /\ s_ATBufferCur \in Nat /\ q \in Nat
      /\ t \in taken..Len(input) /\ Len(input) \in Nat
      /\ taken \in Nat /\ Base + q = t /\ Pos = Base + s_ATBufferCur
    BY WindowHolds, SizeAssumption DEF Inv, Holds, Shows, Pos
<1>4. \A i \in s_ATBufferCur..(q - 1) : B[i] = input[Base + i + 1]
    BY DEF Shows
<1>5. Pos' = Base + c
    OBVIOUS
<1> HIDE DEF c
<1>6. c \in Nat /\ Pos' \in Pos..Len(input)
    BY <1>1, <1>3, <1>5
<1>7. Tails' /\ Ordered' /\ Whole'
    BY <1>1, <1>5, <1>6, SkipsOn
<1>8. ASSUME NEW x \in (Pos' + 1)..t PROVE input[x] # NL
  <2> DEFINE i == x - Base - 1
  <2>1. i \in c..(q - 1) /\ i \in s_ATBufferCur..(q - 1) /\ Base + i + 1 = x
      BY <1>1, <1>3, <1>5, <1>6
  <2> HIDE DEF i
  <2> QED BY <1>2, <1>4, <2>1
<1> QED BY <1>7, <1>8

LEMMA EnterEmptyInv == NoPrompt /\ Inv /\ EnterEmpty => Inv'
<1> SUFFICES ASSUME NoPrompt, Inv, EnterEmpty PROVE Inv'
    OBVIOUS
<1>1. /\ Holds(s_ATBuffer, s_ATBufferCur, p_read) /\ Base \in Nat /\ Base + p_read = taken
      /\ taken \in 0..Len(input) /\ Len(input) \in Nat /\ p_read \in Nat /\ s_ATBufferCur \in Nat
      /\ MAX_AT_RESPONSE \in Nat
    BY WindowHolds, SizeAssumption DEF Inv
<1>2. s_ATBufferCur = p_read
    BY <1>1 DEF EnterEmpty, Holds
<1>3. Pos = taken /\ Base' = taken /\ Pos' = taken
    BY <1>1, <1>2 DEF Pos, Base, EnterEmpty
<1>4. Tails' /\ Ordered' /\ Whole'
    BY <1>1, <1>3, SkipsOn DEF EnterEmpty
<1>5. Window' /\ Waiting'
  <2>1. s_ATBuffer' \in [Offsets -> Bytes] /\ s_ATBuffer'[0] = NUL
      BY <1>1 DEF EnterEmpty, Inv, Window, TypeOK, Offsets, Bytes
  <2>2. TypeOK'
      BY <1>1, <2>1 DEF EnterEmpty, Inv, Window, TypeOK, Offsets, Bytes
  <2>3. Window'
      BY <1>1, <2>1, <2>2 DEF EnterEmpty, Inv, Window
  <2> QED BY <1>1, <1>3, <2>3 DEF Waiting, EnterEmpty
<1> QED BY <1>4, <1>5 DEF Inv

\* The start of a line moves to the front with the NUL behind it.
LEMMA EnterRestInv == NoPrompt /\ Inv /\ EnterRest => Inv'
<1> SUFFICES ASSUME NoPrompt, Inv, EnterRest PROVE Inv'
    OBVIOUS
<1>1. Shows(s_ATBuffer, p_read, taken)
    BY BufferShows
<1> DEFINE c == SkipNewlines(s_ATBuffer, s_ATBufferCur)
           e == FindNextEOL(s_ATBuffer, c)
           len == StrEnd(s_ATBuffer, c) - c
<1>2. CASE e # None /\ ReturnLine(s_ATBuffer, c, e) /\ UNCHANGED p_read
    BY <1>1, <1>2, LineFound DEF EnterRest
<1>3. CASE /\ e = None
           /\ s_ATBuffer' = MoveUp(s_ATBuffer, c, len)
           /\ s_ATBufferCur' = 0 /\ p_read' = len
           /\ pc' = "read"
           /\ UNCHANGED lines
  <2>1. /\ c \in s_ATBufferCur..p_read /\ Holds(s_ATBuffer, c, p_read)
      BY <1>1, SkipsInput
  <2>2. len = p_read - c
      BY <2>1, EndsAtNul
  <2>3. /\ Base \in Nat /\ Base + p_read = taken
        /\ taken \in 0..Len(input) /\ Len(input) \in Nat /\ p_read \in Nat /\ s_ATBufferCur \in Nat
        /\ MAX_AT_RESPONSE \in Nat /\ p_read <= MAX_AT_RESPONSE /\ input \in Inputs
        /\ s_ATBuffer \in [Offsets -> Bytes] /\ s_ATBuffer[p_read] = NUL
      BY WindowHolds, SizeAssumption DEF Inv, Window, TypeOK, Bytes
  <2>4. input' = input /\ taken' = taken
      BY DEF EnterRest
  <2>5. c \in Nat /\ s_ATBufferCur <= c /\ c <= p_read
      BY <2>1, <2>3
  <2>6. Base' = Base + c /\ Pos' = Base + c
      BY <1>3, <2>2, <2>3, <2>4, <2>5 DEF Base, Pos
  <2>7. Tails' /\ Ordered' /\ Whole' /\ \A x \in (Pos' + 1)..taken : input[x] # NL
      BY <1>1, <1>3, <2>4, <2>6, NoneFound
  <2> HIDE DEF c, e
  <2>8. Waiting'
      BY <2>3, <2>4, <2>5, <2>6, <2>7 DEF Waiting
  <2>9. \A i \in Offsets : s_ATBuffer'[i] = IF i <= len THEN s_ATBuffer[c + i] ELSE s_ATBuffer[i]
      BY <1>3 DEF MoveUp
  <2>10. len \in 0..MAX_AT_RESPONSE /\ len <= taken
      BY <2>2, <2>3, <2>5
  <2> HIDE DEF len
  <2>11. \A i \in 0..len : i \in Offsets /\ c + i \in Offsets /\ s_ATBuffer'[i] = s_ATBuffer[c + i]
      BY <2>2, <2>3, <2>5, <2>9, <2>10 DEF Offsets
  <2>12. s_ATBuffer' \in [Offsets -> Bytes]
    <3>1. ASSUME NEW i \in Offsets PROVE s_ATBuffer'[i] \in Bytes
      <4>1. CASE i <= len
        <5>1. i \in 0..len
            BY <2>10, <4>1 DEF Offsets
        <5> QED BY <2>3, <2>11, <5>1
      <4>2. CASE ~(i <= len)
          BY <2>3, <2>9, <4>2
      <4> QED BY <4>1, <4>2
    <3> QED BY <1>3, <3>1 DEF MoveUp
  <2>13. s_ATBuffer'[len] = NUL
    <3>1. len \in 0..len /\ c + len = p_read
        BY <2>2, <2>3, <2>5, <2>10
    <3> QED BY <2>3, <2>11, <3>1
  <2>14. \A i \in 0..(len - 1) : s_ATBuffer'[i] = input[Base + c + i + 1]
    <3> SUFFICES ASSUME NEW i \in 0..(len - 1) PROVE s_ATBuffer'[i] = input[Base + c + i + 1]
        OBVIOUS
    <3>1. i \in 0..len /\ c + i \in s_ATBufferCur..(p_read - 1) /\ Base + (c + i) + 1 = Base + c + i + 1
        BY <2>2, <2>3, <2>5, <2>10
    <3>2. s_ATBuffer[c + i] = input[Base + (c + i) + 1]
        BY <3>1 DEF Inv, Window
    <3> QED BY <2>11, <3>1, <3>2
  <2>15. TypeOK'
      BY <1>3, <2>3, <2>4, <2>10, <2>12 DEF TypeOK, Bytes, Offsets
  <2>16. Window'
      BY <1>3, <2>4, <2>6, <2>10, <2>13, <2>14, <2>15 DEF Window, Inv
  <2> QED BY <2>7, <2>8, <2>16 DEF Inv
<1> QED BY <1>2, <1>3 DEF EnterRest

\* A full buffer without a line is forgotten: the cursor goes on.
LEMMA DitchInv == NoPrompt /\ Inv /\ Ditch => Inv'
<1> SUFFICES ASSUME NoPrompt, Inv, Ditch PROVE Inv'
    OBVIOUS
<1>1. /\ Base \in Nat /\ Base + p_read = taken /\ Pos \in 0..taken
      /\ taken \in 0..Len(input) /\ Len(input) \in Nat /\ p_read = MAX_AT_RESPONSE
      /\ MAX_AT_RESPONSE \in Nat \ {0} /\ s_ATBufferCur \in Nat /\ pc = "read" /\ input \in Inputs
      /\ s_ATBuffer \in [Offsets -> Bytes]
    BY WindowHolds, SizeAssumption DEF Inv, Ditch, Window, TypeOK, Bytes
<1>2. input' = input /\ lines' = lines /\ pc' = pc /\ taken' = taken
    BY DEF Ditch
<1>3. Base' = taken /\ Pos' = taken
    BY <1>1, <1>2 DEF Base, Pos, Ditch
<1>4. ~Fits(input)
  <2>1. ASSUME NEW a \in (Base + 1)..taken, NEW b \in (Base + 1)..taken, a < b, input[a] # NL
        PROVE  input[b] # NL
    <3>1. ~(a \in (Base + 1)..Pos)
        BY <1>1, <2>1 DEF Inv, Waiting
    <3>2. b \in (Pos + 1)..taken
        BY <1>1, <2>1, <3>1
    <3> QED BY <1>1, <3>2 DEF Inv, Waiting
  <2>2. Base + 1 \in 1..Len(input) /\ taken \in 1..Len(input) /\ Base + 1 <= taken
        /\ ~(taken - (Base + 1) + 1 < MAX_AT_RESPONSE)
      BY <1>1
  <2>3. OneLine(input, Base + 1, taken)
      BY <2>1, <2>2 DEF OneLine
  <2> QED BY <2>2, <2>3 DEF Fits
<1>5. Tails'
  <2> SUFFICES ASSUME NEW n \in 1..Len(lines)
               PROVE  \E k, e \in 1..Len(input) :
                          (IsTail(k, e) /\ e <= Pos /\ lines[n] = Piece(k, e))'
      BY <1>2 DEF Tails
  <2>1. PICK k \in 1..Len(input), e \in 1..Len(input) :
            IsTail(k, e) /\ e <= Pos /\ lines[n] = Piece(k, e)
      BY DEF Inv, Tails
  <2>2. IsTail(k, e)' /\ e <= Pos' /\ lines'[n] = Piece(k, e)'
      BY <1>1, <1>2, <1>3, <2>1 DEF IsTail, Piece
  <2> QED BY <2>2
<1>6. Ordered' /\ Whole'
    BY <1>2, <1>4 DEF Inv, Ordered, Whole
<1>7. s_ATBuffer' \in [Offsets -> Bytes] /\ s_ATBuffer'[0] = NUL
    BY <1>1 DEF Ditch, Offsets, Bytes
<1>8. TypeOK'
    BY <1>1, <1>2, <1>7 DEF Ditch, TypeOK, Offsets, Bytes
<1>9. Window' /\ Waiting'
    BY <1>1, <1>2, <1>3, <1>7, <1>8 DEF Ditch, Inv, Window, Waiting
<1> QED BY <1>5, <1>6, <1>9 DEF Inv

LEMMA ReadInv == ASSUME NoPrompt, Inv, NEW n \in 1..MAX_AT_RESPONSE, Read(n) PROVE Inv'
<1> DEFINE B == Filled(n)
           q == p_read + n
           t == taken + n
           c == SkipNewlines(B, s_ATBufferCur)
           e == FindNextEOL(B, c)
<1>1. Shows(B, q, t)
    BY FilledShows DEF Read
<1>2. input' = input /\ p_read' = q /\ taken' = t /\ pc = "read"
    BY DEF Read, AfterRead
<1>3. CASE e # None /\ ReturnLine(B, c, e)
  <2> HIDE DEF B, q, t
  <2> QED BY <1>1, <1>2, <1>3, LineFound
<1>4. CASE e = None /\ s_ATBuffer' = B /\ s_ATBufferCur' = c /\ UNCHANGED <<pc, lines>>
  <2> HIDE DEF B, q, t
  <2>1. c \in s_ATBufferCur..q /\ Holds(B, c, q)
        /\ \A x \in (Pos + 1)..(Base + c) : input[x] = NL
      BY <1>1, SkipsInput
  <2>2. /\ Base \in Nat /\ s_ATBufferCur \in Nat /\ q \in Nat /\ q \in 0..MAX_AT_RESPONSE
        /\ MAX_AT_RESPONSE \in Nat /\ t \in taken..Len(input) /\ Len(input) \in Nat
        /\ taken \in Nat /\ Base + q = t /\ B[q] = NUL /\ Pos = Base + s_ATBufferCur
        /\ input \in Inputs /\ B \in [Offsets -> Bytes]
      BY <1>1, WindowHolds, SizeAssumption DEF Inv, Holds, Shows, Pos, Window, TypeOK
  <2>3. \A i \in s_ATBufferCur..(q - 1) : B[i] = input[Base + i + 1]
      BY <1>1 DEF Shows
  <2> HIDE DEF c
  <2>4. c \in Nat /\ s_ATBufferCur <= c /\ c <= q
      BY <2>1, <2>2
  <2>5. Base' = Base /\ Pos' = Base + c
      BY <1>2, <1>4, <2>2, <2>4 DEF Base, Pos
  <2>6. Tails' /\ Ordered' /\ Whole' /\ \A x \in (Pos' + 1)..t : input[x] # NL
      BY <1>1, <1>2, <1>4, <2>5, NoneFound DEF c, e
  <2>7. Waiting'
    <3>1. \A x \in (Base + 1)..(Base + c) : input[x] = NL
      <4>1. \A x \in (Base + 1)..Pos : input[x] = NL
          BY <1>2 DEF Inv, Waiting
      <4> QED BY <2>1, <2>2, <2>4, <4>1
    <3> QED BY <1>2, <2>5, <2>6, <3>1 DEF Waiting
  <2>8. TypeOK'
      BY <1>2, <1>4, <2>2, <2>4 DEF TypeOK, Bytes, Offsets, Inv, Window
  <2>9. \A i \in c..(q - 1) : s_ATBuffer'[i] = input[Base + i + 1]
      BY <1>4, <2>2, <2>3, <2>4
  <2>10. c \in 0..q /\ q <= t /\ lines' \in Seq(Seq(Int)) /\ s_ATBuffer'[q] = NUL
      BY <1>4, <2>2, <2>4 DEF Inv, Window
  <2>11. Window'
      BY <1>2, <1>4, <2>5, <2>8, <2>9, <2>10 DEF Window
  <2> QED BY <2>6, <2>7, <2>11 DEF Inv
<1> QED BY <1>3, <1>4 DEF Read

LEMMA StutterInv == Inv /\ UNCHANGED vars => Inv'
<1> SUFFICES ASSUME Inv, UNCHANGED vars PROVE Inv'
    OBVIOUS
<1>1. Window' /\ Waiting'
    BY DEF vars, Inv, Window, Waiting, TypeOK, Base, Pos
<1>2. Pos' = Pos /\ input' = input /\ lines' = lines
    BY DEF vars, Base, Pos
<1>3. Ordered'
    BY <1>2, Zenon DEF Inv, Ordered
<1>4. /\ \A k, e : IsTail(k, e)' = IsTail(k, e)
      /\ \A k : StartsLine(k)' = StartsLine(k)
      /\ \A k, e : Piece(k, e)' = Piece(k, e)
    BY <1>2 DEF IsTail, StartsLine, Piece
<1>5. Tails'
    BY <1>2, <1>4, Zenon DEF Inv, Tails
<1>6. Whole'
    BY <1>2, <1>4, Zenon DEF Inv, Whole
<1> QED BY <1>1, <1>3, <1>5, <1>6 DEF Inv

LEMMA NextInv == NoPrompt /\ Inv /\ [Next]_vars => Inv'
BY EnterEmptyInv, EnterRestInv, DitchInv, ReadInv, StutterInv DEF Next

LEMMA Invariance == ASSUME NoPrompt PROVE Spec => []Inv
<1>1. Init => Inv
    BY InitInv
<1>2. Inv /\ [Next]_vars => Inv'
    BY NextInv
<1> QED BY <1>1, <1>2, PTL DEF Spec

----------------------------------------------------------------------------
(****************************************************************************)
(* What the invariant says of the lines.                                    *)
(****************************************************************************)
\* What was read of the input is a sequence of the same bytes.
LEMMA TakenIsPrefix ==
    ASSUME NoPrompt, input \in Inputs, taken \in 0..Len(input)
    PROVE  /\ Taken \in Seq(Int) /\ Len(Taken) = taken
           /\ \A i \in 1..taken : Taken[i] = input[i]
<1>1. /\ input \in Seq(Int) /\ Len(input) \in Nat /\ taken \in Nat /\ 1 \in Int /\ taken \in Int
      /\ \A i \in 1..taken : input[i] \in Int
    BY InputIsPlain, ElementOfSeq
<1>2. /\ SubSeq(input, 1, taken) \in Seq(Int)
      /\ Len(SubSeq(input, 1, taken)) = IF 1 <= taken THEN taken - 1 + 1 ELSE 0
      /\ \A i \in 1..(taken - 1 + 1) : SubSeq(input, 1, taken)[i] = input[1 + i - 1]
    BY <1>1, SubSeqProperties
<1>3. Len(Taken) = taken /\ Taken \in Seq(Int)
    BY <1>1, <1>2 DEF Taken
<1>4. ASSUME NEW i \in 1..taken PROVE Taken[i] = input[i]
  <2>1. i \in 1..(taken - 1 + 1) /\ 1 + i - 1 = i
      BY <1>1
  <2> QED BY <1>2, <2>1 DEF Taken
<1> QED BY <1>3, <1>4

\* The bytes of a span of what was read are a piece of the input.
LEMMA FromIsPiece ==
    ASSUME NoPrompt, input \in Inputs, taken \in 0..Len(input),
           NEW span, NEW k, k \in 1..span[2], span[2] \in 1..taken
    PROVE  From(Taken, span, k) = Piece(k, span[2])
<1> DEFINE e == span[2]
           s == From(Taken, span, k)
<1>1. /\ Taken \in Seq(Int) /\ Len(Taken) = taken /\ \A i \in 1..taken : Taken[i] = input[i]
      /\ taken \in Nat /\ Len(input) \in Nat
    BY TakenIsPrefix, InputIsPlain
<1> HIDE DEF e
<1>2. k \in Nat /\ e \in Nat /\ k >= 1 /\ k <= e /\ e <= taken
    BY <1>1 DEF e
<1>3. \A i \in k..(e - 1) : Taken[i] \in Int
    BY <1>1, <1>2, ElementOfSeq
<1>4. /\ SubSeq(Taken, k, e - 1) \in Seq(Int)
      /\ Len(SubSeq(Taken, k, e - 1)) = IF k <= e - 1 THEN e - 1 - k + 1 ELSE 0
      /\ \A i \in 1..(e - 1 - k + 1) : SubSeq(Taken, k, e - 1)[i] = Taken[k + i - 1]
  <2>1. k \in Int /\ e - 1 \in Int
      BY <1>2
  <2> QED BY <1>3, <2>1, SubSeqProperties
<1>5. s = SubSeq(Taken, k, e - 1)
    BY DEF From, e
<1> HIDE DEF s
<1>6. s \in Seq(Int) /\ Len(s) = e - k
    BY <1>2, <1>4, <1>5
<1>7. s = [i \in 1..(e - k) |-> s[i]]
    BY <1>6, LenProperties
<1>8. ASSUME NEW i \in 1..(e - k) PROVE s[i] = input[k + i - 1]
  <2>1. i \in 1..(e - 1 - k + 1) /\ k + i - 1 \in 1..taken
      BY <1>1, <1>2
  <2> QED BY <1>1, <1>4, <1>5, <2>1
<1>9. s = Piece(k, e)
    BY <1>7, <1>8 DEF Piece
<1> QED BY <1>9 DEF s, e

\* A line of what was read is a line of the input that ends before.
LEMMA SpanOfTaken ==
    ASSUME NoPrompt, input \in Inputs, taken \in 0..Len(input), NEW b, NEW e
    PROVE  <<b, e>> \in LineSpans(Taken) <=>
               IsTail(b, e) /\ StartsLine(b) /\ e <= taken
<1>1. /\ Len(Taken) = taken /\ \A i \in 1..taken : Taken[i] = input[i]
      /\ taken \in Nat /\ Len(input) \in Nat /\ taken <= Len(input)
    BY TakenIsPrefix, InputIsPlain
<1>2. <<b, e>> \in LineSpans(Taken) <=>
          /\ b \in 1..taken /\ e \in 1..taken /\ b < e /\ Taken[e] = NL
          /\ b = 1 \/ Taken[b - 1] = NL
          /\ \A k \in b..(e - 1) : Taken[k] # NL
    BY <1>1 DEF LineSpans
<1>3. ASSUME b \in 1..taken, e \in 1..taken, b < e
      PROVE  <<b, e>> \in LineSpans(Taken) <=> IsTail(b, e) /\ StartsLine(b) /\ e <= taken
  <2>1. Taken[e] = input[e] /\ (b # 1 => Taken[b - 1] = input[b - 1])
        /\ \A k \in b..(e - 1) : Taken[k] = input[k]
      BY <1>1, <1>3
  <2>2. b \in 1..Len(input) /\ e \in 1..Len(input) /\ e <= taken
      BY <1>1, <1>3
  <2> QED BY <1>2, <1>3, <2>1, <2>2 DEF IsTail, StartsLine
<1>4. ASSUME IsTail(b, e), StartsLine(b), e <= taken
      PROVE  b \in 1..taken /\ e \in 1..taken /\ b < e
    BY <1>1, <1>4 DEF IsTail
<1> QED BY <1>2, <1>3, <1>4

\* Every tail of a line belongs to a line.
LEMMA TailHasLine ==
    ASSUME NoPrompt, input \in Inputs, NEW k, NEW e, IsTail(k, e)
    PROVE  \E b \in 1..k : IsTail(b, e) /\ StartsLine(b)
<1>1. /\ k \in 1..Len(input) /\ e \in 1..Len(input) /\ k < e /\ Len(input) \in Nat
      /\ input[e] = NL /\ \A x \in k..(e - 1) : input[x] # NL
    BY InputIsPlain DEF IsTail
<1> DEFINE T == {b \in 1..k : \A x \in b..(e - 1) : input[x] # NL}
<1>2. k \in T /\ T \subseteq Nat
    BY <1>1
<1>3. PICK b \in T : \A y \in T : b <= y
    BY <1>2, Least
<1>4. b \in 1..k /\ \A x \in b..(e - 1) : input[x] # NL
    OBVIOUS
<1>5. IsTail(b, e)
    BY <1>1, <1>4 DEF IsTail
<1>6. ASSUME b # 1, input[b - 1] # NL PROVE FALSE
  <2>1. \A x \in (b - 1)..(e - 1) : x = b - 1 \/ x \in b..(e - 1)
      BY <1>1, <1>4
  <2>2. b - 1 \in T
      BY <1>1, <1>4, <1>6, <2>1
  <2>3. ~(b <= b - 1)
      BY <1>1, <1>4
  <2> QED BY <1>3, <2>2, <2>3
<1> QED BY <1>4, <1>5, <1>6 DEF StartsLine

LEMMA InvTails == NoPrompt /\ Inv => TailsOfLines
<1> SUFFICES ASSUME NoPrompt, Inv PROVE TailsOfLines
    OBVIOUS
<1>1. /\ input \in Inputs /\ taken \in 0..Len(input) /\ Pos \in 0..taken
      /\ Len(input) \in Nat
    BY WindowHolds DEF Inv, Window, TypeOK
<1>2. ASSUME NEW n \in 1..Len(lines)
      PROVE  \E span \in LineSpans(Taken) :
                 \E k \in span[1]..(span[2] - 1) : lines[n] = From(Taken, span, k)
  <2>1. PICK k \in 1..Len(input), e \in 1..Len(input) :
            IsTail(k, e) /\ e <= Pos /\ lines[n] = Piece(k, e)
      BY DEF Inv, Tails
  <2>2. PICK b \in 1..k : IsTail(b, e) /\ StartsLine(b)
      BY <1>1, <2>1, TailHasLine
  <2> DEFINE span == <<b, e>>
  <2>3. span \in LineSpans(Taken) /\ span[1] = b /\ span[2] = e
      BY <1>1, <2>1, <2>2, SpanOfTaken
  <2>4. k \in 1..e /\ e \in 1..taken /\ k \in b..(e - 1)
      BY <1>1, <2>1, <2>2 DEF IsTail
  <2> HIDE DEF span
  <2>5. lines[n] = From(Taken, span, k)
      BY <1>1, <2>1, <2>3, <2>4, FromIsPiece
  <2> QED BY <2>3, <2>4, <2>5
<1>3. InOrder(lines)
    BY DEF Inv, Ordered, InOrder
<1> QED BY <1>2, <1>3 DEF TailsOfLines

LEMMA InvLines == NoPrompt /\ Inv => LinesAreTheInput
<1> SUFFICES ASSUME NoPrompt, Inv, pc = "read", Fits(input)
             PROVE  AreLinesOf(lines, Taken)
    BY DEF LinesAreTheInput
<1>1. /\ input \in Inputs /\ taken \in 0..Len(input) /\ Pos \in 0..taken
      /\ Len(input) \in Nat
    BY WindowHolds DEF Inv, Window, TypeOK
<1>2. ASSUME NEW n \in 1..Len(lines)
      PROVE  \E span \in LineSpans(Taken) : lines[n] = From(Taken, span, span[1])
  <2>1. PICK k \in 1..Len(input), e \in 1..Len(input) :
            IsTail(k, e) /\ StartsLine(k) /\ e <= Pos /\ lines[n] = Piece(k, e)
      BY DEF Inv, Whole
  <2> DEFINE span == <<k, e>>
  <2>2. span \in LineSpans(Taken) /\ span[1] = k /\ span[2] = e
      BY <1>1, <2>1, SpanOfTaken
  <2>3. k \in 1..e /\ e \in 1..taken
      BY <1>1, <2>1 DEF IsTail
  <2> HIDE DEF span
  <2>4. lines[n] = From(Taken, span, span[1])
      BY <1>1, <2>1, <2>2, <2>3, FromIsPiece
  <2> QED BY <2>2, <2>4
<1>3. ASSUME NEW span \in LineSpans(Taken)
      PROVE  \E n \in 1..Len(lines) : lines[n] = From(Taken, span, span[1])
  <2> DEFINE k == span[1]
             e == span[2]
  <2>1. span = <<k, e>>
      BY DEF LineSpans
  <2>2. IsTail(k, e) /\ StartsLine(k) /\ e <= taken
      BY <1>1, <2>1, SpanOfTaken
  <2>3. k \in 1..Len(input) /\ e \in 1..Len(input) /\ input[e] = NL
        /\ k \in 1..e /\ e \in 1..taken
      BY <1>1, <2>2 DEF IsTail
  <2>4. ~(e \in (Pos + 1)..taken)
      BY <2>3 DEF Inv, Waiting
  <2>5. e <= Pos
      BY <1>1, <2>3, <2>4
  <2>6. From(Taken, span, k) = Piece(k, e)
      BY <1>1, <2>3, FromIsPiece
  <2> HIDE DEF k, e
  <2>7. PICK n \in 1..Len(lines) : lines[n] = Piece(k, e)
      BY <2>2, <2>3, <2>5 DEF Inv, Whole
  <2> QED BY <2>6, <2>7 DEF k
<1>4. InOrder(lines)
    BY DEF Inv, Ordered, InOrder
<1> QED BY <1>2, <1>3, <1>4 DEF AreLinesOf

\* The cursors stay inside the buffer and the two bytes behind it, and the
\* buffer holds nothing but bytes of the input and NULs, however long the
\* lines are.
THEOREM TypeCorrect == ASSUME NoPrompt PROVE Spec => []TypeOK
<1>1. Inv => TypeOK
    BY DEF Inv, Window
<1> QED BY <1>1, Invariance, PTL

\* However read() cuts the bytes up and however small the buffer is, each
\* line readline() returns is the tail of one line of the input, and the
\* lines come in the order they were sent.
THEOREM NoSplice == ASSUME NoPrompt PROVE Spec => []TailsOfLines
<1>1. Inv => TailsOfLines
    BY InvTails
<1> QED BY <1>1, Invariance, PTL

\* If the lines fit the buffer, then whenever the reader waits for more it has
\* returned every complete line of what it has read, whole, once, in order.
THEOREM NoneLost == ASSUME NoPrompt PROVE Spec => []LinesAreTheInput
<1>1. Inv => LinesAreTheInput
    BY InvLines
<1> QED BY <1>1, Invariance, PTL
=============================================================================
