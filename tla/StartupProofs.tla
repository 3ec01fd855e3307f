---------------------------- MODULE StartupProofs ----------------------------
(* Theorems about Startup, for any times and any modem.                     *)
EXTENDS Startup, TLAPS

Early == {"listen", "portfile", "open"}

(* What has been done by when: the port file is there from "open" on, the    *)
(* device is opened in "open", and cmf is filled in on the only way to "run" *)
(* that has the device open.  The program has a cause to end once it ended.  *)
Progress ==
    /\ phase \in {"listen", "portfile"} => ~portFile
    /\ phase \in Early => ~opened
    /\ phase = "run" /\ opened => ops
    /\ phase # "ended" => cause = "none"

StartupInv == Progress /\ StaleFileHasCause /\ CrashNeedsFailedOpen

LEMMA StartupInit == Init => StartupInv
BY DEF Init, StartupInv, Progress, StaleFileHasCause, CrashNeedsFailedOpen

LEMMA StartupStep == StartupInv /\ [Next]_vars => StartupInv'
<1> SUFFICES ASSUME StartupInv, [Next]_vars PROVE StartupInv'
    OBVIOUS
<1> USE DEF StartupInv, Progress, StaleFileHasCause, CrashNeedsFailedOpen, Early
<1>1. CASE Listen
    BY <1>1 DEF Listen, End
<1>2. CASE WritePortFile
    BY <1>2 DEF WritePortFile, End
<1>3. CASE Open
    BY <1>3 DEF Open
<1>4. CASE SliceExpires \/ NextSlice \/ Retry \/ Tick
    BY <1>4 DEF SliceExpires, NextSlice, Retry, Tick
<1>12. CASE HangUp
    BY <1>12 DEF HangUp
<1>5. CASE HandshakeFails
    BY <1>5 DEF HandshakeFails, End
<1>6. CASE DrainEnds \/ InitOps
    BY <1>6 DEF DrainEnds, InitOps
<1>7. CASE Answer
    BY <1>7 DEF Answer
<1>8. CASE Serve
    BY <1>8 DEF Serve, End
<1>9. CASE LineDies
    BY <1>9 DEF LineDies, End
<1>10. CASE Signal
    BY <1>10 DEF Signal, End
<1>11. CASE UNCHANGED vars
    BY <1>11 DEF vars
<1> QED BY <1>1, <1>2, <1>3, <1>4, <1>5, <1>6, <1>7, <1>8, <1>9, <1>10, <1>11,
          <1>12 DEF Next, Main

LEMMA StartupCorrect == Spec => []StartupInv
BY StartupInit, StartupStep, PTL DEF Spec

(* A port file that outlives the program is the work of a failed handshake,  *)
(* a dead line or a crash, however the signals fall.                         *)
THEOREM StaleFileCause == Spec => []StaleFileHasCause
<1>1. StartupInv => StaleFileHasCause
    BY DEF StartupInv
<1> QED BY <1>1, StartupCorrect, PTL

(* A request only calls through an empty cmf if the device was not opened.   *)
THEOREM CrashNeedsNoDevice == Spec => []CrashNeedsFailedOpen
<1>1. StartupInv => CrashNeedsFailedOpen
    BY DEF StartupInv
<1> QED BY <1>1, StartupCorrect, PTL


----------------------------------------------------------------------------
(* When what comes.                                                         *)

(* The time from the first attempt to the end of the slice that is on.       *)
SliceEnd == ((try - 1) * Slices + slice) * SliceTicks

(* When attempt n was made.                                                  *)
Made(n) == (n - 1) * HANDSHAKE_TIMEOUT

(* The answers on their way are those to the last attempts, in order.        *)
LastAnswers ==
    \A i \in 1..Len(due) : due[i] = Made(try - Len(due) + i) + latency

Handshaking ==
    /\ try \in 1..HANDSHAKE_RETRY_COUNT
    /\ deadline = SliceEnd /\ now <= deadline /\ deadline <= now + SliceTicks
    /\ wait # "failed" /\ (wait = "expired" => now = deadline)
    /\ Len(due) <= try /\ LastAnswers
    /\ \A i \in 1..Len(due) : now <= due[i]
    /\ OffBoundary => Len(due) = try

Timing ==
    /\ now \in Nat /\ deadline \in Nat /\ latency \in Nat
    /\ slice \in 1..Slices /\ wait \in {"waiting", "expired", "failed"}
    /\ due \in Seq(Nat) /\ hungup \in BOOLEAN
    /\ phase \in Early => due = <<>> /\ now = 0 /\ ~hungup /\ ~opened
    /\ hungup => due = <<>>
    /\ phase = "handshake" /\ ~hungup => Handshaking

LEMMA SlicesFit == HANDSHAKE_TIMEOUT \in Nat \ {0} /\ SliceTicks <= HANDSHAKE_TIMEOUT
BY TimesAssumption DEF HANDSHAKE_TIMEOUT

LEMMA SliceEndsOffBoundary ==
    ASSUME NEW n \in Nat
    PROVE  (n * SliceTicks) % SliceTicks = 0
BY TimesAssumption, Z3

LEMMA TimingInit == Init => Timing
<1> SUFFICES ASSUME Init PROVE Timing
    OBVIOUS
<1>1. phase = "listen" /\ opened = FALSE /\ hungup = FALSE
    BY DEF Init
<1>2. /\ now = 0 /\ deadline = 0 /\ latency \in Nat /\ slice = 1
      /\ wait = "waiting" /\ due = <<>>
    BY TimesAssumption DEF Init
<1>3. slice \in 1..Slices /\ due \in Seq(Nat) /\ now \in Nat /\ deadline \in Nat
    BY <1>2, TimesAssumption
<1>4. phase # "handshake" /\ hungup \in BOOLEAN
      /\ wait \in {"waiting", "expired", "failed"}
    BY <1>1, <1>2
<1> QED BY <1>1, <1>2, <1>3, <1>4 DEF Timing

(* An attempt keeps the order of the answers.                                *)
LEMMA AttemptKeeps ==
    ASSUME Timing, NEW n \in 1..HANDSHAKE_RETRY_COUNT, Attempt(n), Writes,
           now = Made(n),
           n = 1 => due = <<>>,
           n > 1 => Handshaking /\ try = n - 1,
           UNCHANGED latency
    PROVE  Handshaking' /\ due' \in Seq(Nat) /\ slice' \in 1..Slices
           /\ deadline' \in Nat
<1> USE TimesAssumption
<1>0. /\ now \in Nat /\ latency \in Nat /\ due \in Seq(Nat)
      /\ Len(due) \in Nat
    BY DEF Timing
<1>1. /\ try' = n /\ slice' = 1 /\ wait' = "waiting" /\ now' = now
      /\ deadline' = now + SliceTicks /\ due' = Append(due, now + latency)
    BY DEF Attempt, Writes
<1>2. deadline' = SliceEnd'
    BY <1>1, Z3 DEF SliceEnd, Made, HANDSHAKE_TIMEOUT
<1>3. Len(due') = Len(due) + 1 /\ due'[Len(due')] = now + latency
      /\ \A i \in 1..Len(due) : due'[i] = due[i]
    BY <1>0, <1>1
<1>4. Len(due) <= n - 1
    BY <1>0 DEF Handshaking
<1>5. LastAnswers'
  <2> SUFFICES ASSUME NEW i \in 1..Len(due')
               PROVE  due'[i] = Made(n - Len(due') + i) + latency
      BY <1>1 DEF LastAnswers, Made
  <2>1. CASE i = Len(due')
      BY <1>3, <2>1
  <2>2. CASE i \in 1..Len(due)
    <3>1. n > 1 /\ due[i] = Made(n - 1 - Len(due) + i) + latency
        BY <1>0, <1>4, <2>2, SMTT(20) DEF Handshaking, LastAnswers
    <3>2. n - 1 - Len(due) + i = n - Len(due') + i
        BY <1>0, <1>3
    <3> QED BY <1>3, <2>2, <3>1, <3>2
  <2> QED BY <1>0, <1>3, <2>1, <2>2
<1>6. \A i \in 1..Len(due') : now' <= due'[i]
  <2> SUFFICES ASSUME NEW i \in 1..Len(due') PROVE now' <= due'[i]
      OBVIOUS
  <2>1. CASE i = Len(due')
      BY <1>0, <1>1, <1>3, <2>1
  <2>2. CASE i \in 1..Len(due)
      BY <1>0, <1>1, <1>3, <1>4, <2>2 DEF Handshaking
  <2> QED BY <1>0, <1>3, <2>1, <2>2
<1>7. OffBoundary' => Len(due') = try'
    BY <1>0, <1>1, <1>3, SMTT(20) DEF OffBoundary, Handshaking
<1>8. now + latency \in Nat /\ now + SliceTicks \in Nat
    BY <1>0
<1>9. Len(due') <= try'
    BY <1>0, <1>1, <1>3, <1>4
<1>10. now' <= deadline' /\ deadline' <= now' + SliceTicks
    BY <1>0, <1>1
<1>11. due' \in Seq(Nat) /\ deadline' \in Nat
    BY <1>0, <1>1, <1>8
<1>12. try' \in 1..HANDSHAKE_RETRY_COUNT /\ wait' \notin {"expired", "failed"}
       /\ slice' \in 1..Slices
    BY <1>1
<1> QED BY <1>2, <1>5, <1>6, <1>7, <1>9, <1>10, <1>11, <1>12 DEF Handshaking

(* The answer at the head of due arrives: the others follow it.              *)
LEMMA TakeAnswer ==
    ASSUME Timing, AnswerDue, due' = Tail(due)
    PROVE  /\ Len(due) \in Nat \ {0} /\ due[1] = now
           /\ due' \in Seq(Nat) /\ Len(due') = Len(due) - 1
           /\ \A i \in 1..Len(due') : i + 1 \in 1..Len(due) /\ due'[i] = due[i + 1]
BY DEF Timing, AnswerDue

(* On a dead line nothing is left to be timed.                              *)
LEMMA TimingOfDead ==
    ASSUME Timing, [Next]_vars, hungup
    PROVE  Timing'
<1> USE TimesAssumption DEF Timing
<1>1. due = <<>> /\ ~AnswerDue /\ ~HangUp /\ ~Open /\ ~Listen /\ ~WritePortFile
    BY DEF AnswerDue, HangUp, Open, Listen, WritePortFile, Early
<1>2. CASE Retry
    BY <1>1, <1>2 DEF Retry, Attempt, Writes, WriteFails, Early
<1>3. CASE SliceExpires
    BY <1>1, <1>3 DEF SliceExpires, Early
<1>4. CASE NextSlice
    BY <1>1, <1>4 DEF NextSlice, Early
<1>5. CASE HandshakeFails \/ DrainEnds \/ InitOps \/ Serve \/ LineDies \/ Signal
    BY <1>1, <1>5 DEF HandshakeFails, DrainEnds, InitOps, Serve, LineDies, Signal, End,
                      timing, Early
<1>6. CASE Tick
    BY <1>1, <1>6 DEF Tick, Waiting, Early
<1>7. CASE UNCHANGED vars
    BY <1>1, <1>7 DEF vars, Early
<1> QED BY <1>1, <1>2, <1>3, <1>4, <1>5, <1>6, <1>7 DEF Next, Main, Answer

LEMMA TimingStep == Timing /\ [Next]_vars => Timing'
<1> SUFFICES ASSUME Timing, [Next]_vars PROVE Timing'
    OBVIOUS
<1> USE TimesAssumption
<1>h. CASE hungup
    BY <1>h, TimingOfDead
<1>g. SUFFICES ASSUME ~hungup PROVE Timing'
    BY <1>h
<1>t. /\ now \in Nat /\ deadline \in Nat /\ latency \in Nat /\ hungup \in BOOLEAN
      /\ slice \in 1..Slices /\ due \in Seq(Nat)
      /\ wait \in {"waiting", "expired", "failed"}
    BY DEF Timing
<1>a. ASSUME UNCHANGED <<latency, timing>>, phase' # "handshake",
             phase' \in Early => phase \in Early /\ UNCHANGED opened
      PROVE  Timing'
    BY <1>t, <1>g, <1>a DEF Timing, timing
<1>1. CASE Listen \/ WritePortFile \/ HandshakeFails \/ DrainEnds \/ InitOps \/ Serve
           \/ LineDies \/ Signal
  <2>1. UNCHANGED <<latency, timing>>
      BY <1>1 DEF Listen, WritePortFile, HandshakeFails, DrainEnds, InitOps, Serve,
                  LineDies, Signal
  <2>2. /\ phase' \in Early => phase \in Early /\ UNCHANGED opened
        /\ phase' # "handshake"
      BY <1>1 DEF Listen, WritePortFile, HandshakeFails, DrainEnds, InitOps, Serve,
                  LineDies, Signal, End, Early
  <2> QED BY <1>a, <2>1, <2>2
<1>2. CASE Open
  <2>1. CASE phase' = "run" /\ UNCHANGED timing
      BY <1>a, <1>2, <2>1 DEF Open, Early
  <2>2. CASE phase' = "handshake" /\ Attempt(1)
    <3>1. due = <<>> /\ now = 0 /\ UNCHANGED latency /\ Writes
        BY <1>2, <1>g, <2>2 DEF Open, Timing, Early, Attempt, WriteFails
    <3>2. now = Made(1)
        BY <3>1, SlicesFit DEF Made
    <3>3. Handshaking' /\ due' \in Seq(Nat) /\ slice' \in 1..Slices /\ deadline' \in Nat
        BY <2>2, <3>1, <3>2, AttemptKeeps
    <3>4. /\ hungup' = FALSE /\ now' = now /\ wait' = "waiting"
          /\ phase' \notin Early
        BY <1>g, <1>t, <2>2, <3>1 DEF Attempt, Writes, Early
    <3> QED BY <1>t, <2>2, <3>1, <3>3, <3>4 DEF Timing
  <2> QED BY <1>2, <2>1, <2>2 DEF Open
<1>3. CASE SliceExpires
    BY <1>t, <1>g, <1>3 DEF SliceExpires, Timing, Handshaking, SliceEnd, LastAnswers, OffBoundary
<1>4. CASE NextSlice
  <2>1. /\ slice' = slice + 1 /\ wait' = "waiting" /\ deadline' = now + SliceTicks
        /\ UNCHANGED <<phase, latency, now, try, due, hungup>> /\ phase = "handshake"
        /\ now = SliceEnd /\ Handshaking /\ slice < Slices /\ try \in Nat
      BY <1>4, <1>g DEF NextSlice, Timing, Handshaking
  <2>2. deadline' = SliceEnd'
      BY <1>t, <2>1 DEF SliceEnd
  <2>3. /\ now' <= deadline' /\ deadline' <= now' + SliceTicks /\ deadline' \in Nat
        /\ slice' \in 1..Slices /\ wait' \notin {"expired", "failed"}
      BY <1>t, <2>1
  <2>4. Handshaking'
      BY <2>1, <2>2, <2>3 DEF Handshaking, LastAnswers, OffBoundary
  <2> QED BY <1>t, <1>g, <2>1, <2>3, <2>4 DEF Timing, Early
<1>5. CASE Retry
  <2>1. /\ Attempt(try + 1) /\ UNCHANGED <<phase, latency>> /\ Handshaking
        /\ phase = "handshake" /\ Writes
        /\ slice = Slices /\ try < HANDSHAKE_RETRY_COUNT /\ now = SliceEnd
      BY <1>5, <1>g DEF Retry, Failed, Timing, Handshaking, Attempt, WriteFails
  <2>2. try + 1 \in 1..HANDSHAKE_RETRY_COUNT /\ try \in Nat \ {0}
      BY <2>1 DEF Handshaking
  <2>3. now = Made(try + 1)
      BY <2>1, <2>2, Z3 DEF SliceEnd, Made, HANDSHAKE_TIMEOUT
  <2>4. Handshaking' /\ due' \in Seq(Nat) /\ slice' \in 1..Slices /\ deadline' \in Nat
      BY <2>1, <2>2, <2>3, AttemptKeeps
  <2>5. /\ hungup' = FALSE /\ now' = now /\ wait' = "waiting"
        /\ phase' \notin Early
      BY <1>g, <1>t, <2>1 DEF Attempt, Writes, Early
  <2> QED BY <1>t, <2>1, <2>4, <2>5 DEF Timing
<1>6. CASE Answer
  <2>1. /\ due' = Tail(due) /\ AnswerDue
        /\ UNCHANGED <<latency, now, try, slice, wait, hungup>>
      BY <1>6 DEF Answer
  <2>2. /\ Len(due) \in Nat \ {0} /\ due[1] = now
        /\ due' \in Seq(Nat) /\ Len(due') = Len(due) - 1
        /\ \A i \in 1..Len(due') : i + 1 \in 1..Len(due) /\ due'[i] = due[i + 1]
      BY <2>1, TakeAnswer
  <2>3. phase \notin Early
      BY <2>2 DEF Timing
  <2>4. CASE phase' # "handshake"
    <3>1. deadline' \in Nat /\ phase' \notin Early
        BY <1>t, <1>6, <2>3 DEF Answer, Early
    <3> QED BY <1>t, <1>g, <2>1, <2>2, <2>4, <3>1 DEF Timing
  <2>5. CASE phase' = "handshake"
    <3>1. /\ phase = "handshake" /\ wait = "expired" /\ deadline' = deadline
          /\ Handshaking /\ now = deadline /\ deadline = SliceEnd
        BY <1>t, <1>g, <1>6, <2>5 DEF Answer, Timing, Handshaking
    <3>2. ~OffBoundary
      <4> SUFFICES ASSUME OffBoundary PROVE FALSE
          OBVIOUS
      <4>1. now = Made(1) + latency
          BY <2>2, <3>1 DEF Handshaking, LastAnswers
      <4>2. Made(1) = 0
          BY SlicesFit DEF Made
      <4>3. (try - 1) * Slices + slice \in Nat
          BY <1>t, <3>1 DEF Handshaking
      <4>4. latency = SliceEnd
          BY <1>t, <3>1, <4>1, <4>2
      <4>5. latency % SliceTicks = 0
          BY <4>3, <4>4, SliceEndsOffBoundary DEF SliceEnd
      <4> QED BY <4>5 DEF OffBoundary
    <3>3. LastAnswers'
      <4> SUFFICES ASSUME NEW i \in 1..Len(due')
                   PROVE  due'[i] = Made(try - Len(due') + i) + latency
          BY <2>1 DEF LastAnswers, Made
      <4>1. due'[i] = due[i + 1] /\ i + 1 \in 1..Len(due)
          BY <2>2
      <4>2. due[i + 1] = Made(try - Len(due) + (i + 1)) + latency
          BY <3>1, <4>1 DEF Handshaking, LastAnswers
      <4>3. try - Len(due) + (i + 1) = try - Len(due') + i
          BY <2>2, <3>1 DEF Handshaking
      <4> QED BY <4>1, <4>2, <4>3
    <3>4. Handshaking'
      <4>1. try' = try /\ slice' = slice /\ now' = now /\ deadline' = deadline
            /\ wait' = wait /\ latency' = latency
          BY <2>1, <3>1
      <4>2. SliceEnd' = SliceEnd /\ OffBoundary' = OffBoundary
          BY <4>1 DEF SliceEnd, OffBoundary
      <4>3. \A i \in 1..Len(due') : now' <= due'[i]
          BY <2>2, <3>1, <4>1 DEF Handshaking
      <4>4. Len(due') <= try'
          BY <2>2, <3>1, <4>1 DEF Handshaking
      <4>5. /\ try \in 1..HANDSHAKE_RETRY_COUNT /\ now <= deadline
            /\ deadline <= now + SliceTicks
          BY <3>1 DEF Handshaking
      <4> QED BY <3>1, <3>2, <3>3, <4>1, <4>2, <4>3, <4>4, <4>5 DEF Handshaking
    <3> QED BY <1>t, <1>g, <2>1, <2>2, <2>5, <3>1, <3>4 DEF Timing, Early
  <2> QED BY <2>4, <2>5
<1>7. CASE Tick
  <2>1. /\ now' = now + 1 /\ ~AnswerDue /\ now < deadline
        /\ UNCHANGED <<phase, latency, try, slice, wait, deadline, due, hungup>>
        /\ phase \in {"handshake", "drain"}
      BY <1>7 DEF Tick, Waiting
  <2>2. CASE phase = "handshake"
    <3>1. Handshaking
        BY <1>g, <2>2 DEF Timing
    <3>2. \A i \in 1..Len(due) : now' <= due[i]
      <4> SUFFICES ASSUME NEW i \in 1..Len(due) PROVE now' <= due[i]
          OBVIOUS
      <4>1. due # <<>> /\ due[1] # now /\ now <= due[1] /\ due[1] \in Nat
          BY <1>t, <2>1, <3>1 DEF AnswerDue, Handshaking
      <4>2. due[1] <= due[i]
        <5>1. /\ due[1] = Made(try - Len(due) + 1) + latency
              /\ due[i] = Made(try - Len(due) + i) + latency
            BY <3>1 DEF Handshaking, LastAnswers
        <5>2. try \in Nat /\ Len(due) \in Nat /\ i \in Nat \ {0}
            BY <1>t, <3>1 DEF Handshaking
        <5>3. Made(try - Len(due) + i) = Made(try - Len(due) + 1) + (i - 1) * HANDSHAKE_TIMEOUT
            BY <5>2, SlicesFit DEF Made
        <5>4. (i - 1) * HANDSHAKE_TIMEOUT \in Nat
            BY <5>2, SlicesFit
        <5>5. Made(try - Len(due) + 1) \in Int
            BY <5>2, SlicesFit DEF Made
        <5> QED BY <1>t, <5>1, <5>3, <5>4, <5>5
      <4>3. due[i] \in Nat
          BY <1>t
      <4> QED BY <1>t, <2>1, <4>1, <4>2, <4>3
    <3>3. Handshaking'
        BY <1>t, <2>1, <3>1, <3>2 DEF Handshaking, SliceEnd, LastAnswers, OffBoundary
    <3> QED BY <1>t, <1>g, <2>1, <2>2, <3>3 DEF Timing, Early
  <2>3. CASE phase = "drain"
      BY <1>t, <1>g, <2>1, <2>3 DEF Timing, Early
  <2> QED BY <2>1, <2>2, <2>3
<1>8. CASE UNCHANGED vars
    BY <1>g, <1>8 DEF vars, Timing, Handshaking, SliceEnd, LastAnswers, OffBoundary
<1>9. CASE HangUp
  <2>1. /\ hungup' = TRUE /\ due' = <<>> /\ phase \notin Early
        /\ UNCHANGED <<phase, opened, latency, now, slice, wait, deadline>>
      BY <1>9 DEF HangUp, Timing
  <2> QED BY <1>t, <2>1 DEF Timing
<1> QED BY <1>1, <1>2, <1>3, <1>4, <1>5, <1>6, <1>7, <1>8, <1>9 DEF Next, Main

LEMMA TimingHolds == Spec => []Timing
BY TimingInit, TimingStep, PTL DEF Spec

----------------------------------------------------------------------------
(* A slow modem.  The last attempt times out at the end of all of them; no   *)
(* answer was missed, so the answer to the first is still to come.           *)
LEMMA LastAttemptEnds ==
    ASSUME Timing, HandshakeFails, OffBoundary, ~hungup
    PROVE  HANDSHAKE_RETRY_COUNT * HANDSHAKE_TIMEOUT <= latency
<1> USE TimesAssumption
<1>1. /\ Handshaking /\ now = SliceEnd /\ slice = Slices
      /\ try = HANDSHAKE_RETRY_COUNT /\ Len(due) = try
    BY DEF HandshakeFails, Failed, Timing, Handshaking
<1>2. now <= due[1] /\ due[1] = Made(1) + latency
    BY <1>1 DEF Handshaking, LastAnswers
<1>3. Made(1) = 0
    BY SlicesFit DEF Made
<1>4. now = HANDSHAKE_RETRY_COUNT * HANDSHAKE_TIMEOUT
    BY <1>1, Z3 DEF SliceEnd, HANDSHAKE_TIMEOUT
<1>5. latency \in Nat
    BY DEF Timing
<1> QED BY <1>2, <1>3, <1>4, <1>5

LEMMA PassesStep == Timing /\ SlowModemPasses /\ [Next]_vars => SlowModemPasses'
<1> SUFFICES ASSUME Timing, SlowModemPasses, [Next]_vars PROVE SlowModemPasses'
    OBVIOUS
<1>1. latency' = latency
    BY DEF Next, Main, vars, timing, Listen, WritePortFile, Open, SliceExpires, NextSlice,
           Retry, HandshakeFails, DrainEnds, InitOps, Answer, Serve, HangUp,
           LineDies, Signal, Tick
<1>2. CASE HandshakeFails
  <2>1. OffBoundary /\ ~hungup => ~(latency < HANDSHAKE_RETRY_COUNT * HANDSHAKE_TIMEOUT)
    <3>1. latency \in Nat /\ HANDSHAKE_RETRY_COUNT * HANDSHAKE_TIMEOUT \in Nat
        BY TimesAssumption, SlicesFit DEF Timing
    <3> QED BY <1>2, <3>1, LastAttemptEnds
  <2>2. hungup' = hungup
      BY <1>2 DEF HandshakeFails, timing
  <2> QED BY <1>1, <2>1, <2>2 DEF SlowModemPasses, OffBoundary
<1>3. CASE ~HandshakeFails
  <2>1. cause' = cause \/ cause' # "handshake"
      BY <1>3 DEF Next, Main, vars, End, Listen, WritePortFile, Open, SliceExpires,
                  NextSlice, Retry, DrainEnds, InitOps, Answer, Serve,
                  HangUp, LineDies, Signal, Tick
  <2>2. hungup => hungup'
      BY DEF Next, Main, vars, timing, Listen, WritePortFile, Open, SliceExpires, NextSlice,
             Retry, Attempt, HandshakeFails, DrainEnds, InitOps, Answer, Serve, HangUp,
             LineDies, Signal, Tick
  <2> QED BY <1>1, <2>1, <2>2 DEF SlowModemPasses, OffBoundary
<1> QED BY <1>2, <1>3

(* A modem that answers within the time of all the attempts together passes  *)
(* the handshake, for any number of attempts and any length of their waits,  *)
(* unless the line goes dead or an answer falls on the end of a slice.       *)
THEOREM SlowModem == Spec => []SlowModemPasses
<1>1. Init => SlowModemPasses
    BY DEF Init, SlowModemPasses
<1> QED BY <1>1, PassesStep, TimingHolds, PTL DEF Spec

----------------------------------------------------------------------------
(* The pause.                                                                *)
Drains ==
    latency < HANDSHAKE_TIMEOUT + HANDSHAKE_TIMEOUT =>
        /\ phase = "drain" => \A i \in 1..Len(due) : due[i] <= deadline
        /\ phase \in {"init", "run"} => \A i \in 1..Len(due) : due[i] <= now

(* The current attempt was made before now.                                  *)
LEMMA AttemptMade == ASSUME Timing, Handshaking PROVE Made(try) <= now
<1> USE TimesAssumption
<1> DEFINE m == (try - 1) * Slices
<1>1. m \in Nat /\ slice \in Nat \ {0} /\ now \in Nat
    BY DEF Timing, Handshaking
<1>2. SliceEnd = (m + slice) * SliceTicks /\ SliceEnd <= now + SliceTicks
    BY DEF SliceEnd, Handshaking
<1>a. try - 1 \in Nat
    BY DEF Handshaking
<1>3. Made(try) = m * SliceTicks
    BY <1>a, Z3 DEF Made, HANDSHAKE_TIMEOUT
<1> HIDE DEF m
<1>4. (m + slice) * SliceTicks = m * SliceTicks + (slice - 1) * SliceTicks + SliceTicks
    BY <1>1
<1>5. (slice - 1) * SliceTicks \in Nat /\ m * SliceTicks \in Nat
    BY <1>1
<1> QED BY <1>1, <1>2, <1>3, <1>4, <1>5

(* The wait ends with an answer of a modem faster than two timeouts: it was  *)
(* to the last attempt or to the one before, and at most the last is missing.*)
LEMMA AtMostOneMissing ==
    ASSUME Timing, Handshaking, AnswerDue, due' = Tail(due),
           latency < HANDSHAKE_TIMEOUT + HANDSHAKE_TIMEOUT
    PROVE  \A i \in 1..Len(due') : due'[i] <= now + HANDSHAKE_TIMEOUT
<1> USE SlicesFit
<1> DEFINE T == HANDSHAKE_TIMEOUT
<1>1. /\ Len(due) \in Nat \ {0} /\ due[1] = now /\ Len(due') = Len(due) - 1
      /\ \A i \in 1..Len(due') : i + 1 \in 1..Len(due) /\ due'[i] = due[i + 1]
    BY TakeAnswer
<1>2. now \in Nat /\ latency \in Nat /\ try \in Nat
    BY DEF Timing, Handshaking
<1>3. \A i \in 1..Len(due) : due[i] = Made(try - Len(due) + i) + latency
    BY DEF Handshaking, LastAnswers
<1>4. now = Made(try - Len(due) + 1) + latency
    BY <1>1, <1>3
<1>5. Made(try - Len(due) + 1) = Made(try) - (Len(due) - 1) * T
    BY <1>1, <1>2 DEF Made
<1> DEFINE k == Len(due) - 1
<1>6. k \in Nat /\ Made(try) \in Int
    BY <1>1, <1>2 DEF Made
<1>7. now = Made(try) - k * T + latency /\ Made(try) <= now
    BY <1>4, <1>5, AttemptMade
<1> HIDE DEF T
<1>8. T \in Nat \ {0} /\ latency < T + T
    BY DEF T
<1>a. SUFFICES ASSUME NEW i \in 1..Len(due') PROVE due'[i] <= now + T
    BY DEF T
<1>9. k = 1 /\ i = 1
  <2>1. k >= 1 /\ i \in 1..k
      BY <1>1
  <2> HIDE DEF k
  <2>2. k * T <= latency
      BY <1>2, <1>6, <1>7, <1>8
  <2>3. k >= 2 => k * T >= T + T
    <3> SUFFICES ASSUME k >= 2 PROVE k * T >= T + T
        OBVIOUS
    <3>1. k - 2 \in Nat /\ k * T = (k - 2) * T + T + T
        BY <1>6, <1>8
    <3>2. (k - 2) * T \in Nat
        BY <1>8, <3>1
    <3> QED BY <1>8, <3>1, <3>2
  <2>4. k * T \in Nat
      BY <1>6, <1>8
  <2> QED BY <1>2, <1>6, <1>8, <2>1, <2>2, <2>3, <2>4
<1>10. due'[i] = Made(try) + latency
  <2>a. Len(due) \in Nat
      BY <1>1
  <2>0. Len(due) = 2 /\ i + 1 = 2
      BY <1>9, <2>a DEF k
  <2>1. due'[i] = due[2] /\ 2 \in 1..Len(due)
    <3>1. due'[i] = due[i + 1]
        BY <1>1
    <3> QED BY <2>0, <3>1
  <2>2. due[2] = Made(try - 2 + 2) + latency
      BY <1>3, <2>0, <2>1
  <2> QED BY <1>2, <2>1, <2>2
<1>11. now = Made(try) - T + latency
  <2>1. 1 * T = T
      BY <1>8
  <2> QED BY <1>7, <1>9, <2>1
<1> QED BY <1>2, <1>6, <1>8, <1>10, <1>11

LEMMA DrainsStep ==
    ASSUME DrainTicks = HANDSHAKE_TIMEOUT
    PROVE  Timing /\ Drains /\ [Next]_vars => Drains'
<1> SUFFICES ASSUME Timing, Drains, [Next]_vars PROVE Drains'
    OBVIOUS
<1> USE TimesAssumption DEF Drains
<1>1. CASE UNCHANGED <<due, latency, deadline>> /\ phase' \notin {"drain", "init", "run"}
    BY <1>1
<1>2. CASE UNCHANGED <<phase, latency, now, deadline, due>>
    BY <1>2
<1>3. CASE Open
  <2>1. CASE phase' = "run" /\ UNCHANGED timing
      BY <1>3, <2>1 DEF Open, Timing, Early, timing
  <2>2. CASE phase' = "handshake"
      BY <2>2
  <2> QED BY <1>3, <2>1, <2>2 DEF Open
<1>4. CASE Answer
  <2>1. /\ due' = Tail(due) /\ AnswerDue /\ UNCHANGED <<latency, now>>
      BY <1>4 DEF Answer
  <2>2. /\ Len(due) \in Nat \ {0} /\ due[1] = now
        /\ due' \in Seq(Nat) /\ Len(due') = Len(due) - 1
        /\ \A i \in 1..Len(due') : i + 1 \in 1..Len(due) /\ due'[i] = due[i + 1]
      BY <2>1, TakeAnswer
  <2>3. CASE phase = "handshake" /\ wait = "waiting"
    <3>1. phase' = "drain" /\ deadline' = now + HANDSHAKE_TIMEOUT /\ Handshaking
        BY <1>4, <2>1, <2>3 DEF Answer, Timing, AnswerDue
    <3>2. ASSUME latency < HANDSHAKE_TIMEOUT + HANDSHAKE_TIMEOUT
          PROVE  \A i \in 1..Len(due') : due'[i] <= now + HANDSHAKE_TIMEOUT
        BY <2>1, <3>1, <3>2, AtMostOneMissing
    <3> QED BY <2>1, <3>1, <3>2
  <2>4. CASE ~(phase = "handshake" /\ wait = "waiting")
    <3>1. phase' = phase /\ deadline' = deadline
        BY <1>4, <2>4 DEF Answer
    <3> QED BY <2>1, <2>2, <3>1
  <2> QED BY <2>3, <2>4
<1>5. CASE DrainEnds
    BY <1>5 DEF DrainEnds, timing
<1>6. CASE InitOps
    BY <1>6 DEF InitOps, timing
<1>7. CASE Tick
  <2>1. /\ UNCHANGED <<phase, latency, deadline, due>>
        /\ phase \notin {"init", "run"}
      BY <1>7 DEF Tick, Waiting
  <2> QED BY <2>1
<1>8. CASE Retry \/ NextSlice \/ SliceExpires
  <2>1. phase' = "handshake"
      BY <1>8 DEF Retry, NextSlice, SliceExpires
  <2> QED BY <2>1
<1>9. CASE Listen \/ WritePortFile \/ HandshakeFails \/ Serve \/ LineDies \/ Signal
  <2>1. phase' \notin {"drain", "init", "run"}
      BY <1>9 DEF Listen, WritePortFile, HandshakeFails, Serve, LineDies, Signal, End
  <2> QED BY <2>1
<1>10. CASE UNCHANGED vars
    BY <1>10 DEF vars
<1>11. CASE HangUp
    BY <1>11 DEF HangUp
<1> QED BY <1>3, <1>4, <1>5, <1>6, <1>7, <1>8, <1>9, <1>10, <1>11 DEF Next, Main

(* The code pauses for as long as one attempt lasts.  Then no answer to the  *)
(* handshake comes after the pause, from any modem that answers in less than *)
(* two timeouts, whichever attempt was answered and whichever not.           *)
THEOREM PauseIsLongEnough ==
    ASSUME DrainTicks = HANDSHAKE_TIMEOUT
    PROVE  Spec => []DrainedIfQuick
<1>1. Init => Drains
    BY DEF Init, Drains
<1>2. Timing /\ Drains => DrainedIfQuick
  <2> SUFFICES ASSUME Timing, Drains, phase \in {"init", "run"},
                      latency < HANDSHAKE_TIMEOUT + DrainTicks, StillDue
               PROVE  FALSE
      BY DEF DrainedIfQuick
  <2>1. PICK i \in 1..Len(due) : due[i] > now
      BY DEF StillDue
  <2>2. due[i] <= now /\ now \in Nat /\ due[i] \in Nat
      BY DEF Drains, Timing
  <2> QED BY <2>1, <2>2
<1>3. Timing /\ Drains /\ [Next]_vars => Drains'
    BY DrainsStep
<1> QED BY <1>1, <1>2, <1>3, TimingHolds, PTL DEF Spec
=============================================================================
