--------------------------- MODULE ATServiceProofs ---------------------------
(* What callers may rely on, whatever implements ATService.                 *)
EXTENDS ATService, TLAPS

Records == [num : Numbers, done : {"no", "ok", "error"},
            of : Numbers \cup {0}, from : SUBSET (Numbers \cup {0})]

Returns == [err : Errs, answer : {"none", "ok", "error"},
            of : Numbers \cup {0}, from : SUBSET (Numbers \cup {0})]

(* The steps keep the types.                                                 *)
LEMMA LeaveType ==
    ASSUME ServiceTypeOK, NEW c \in Callers, NEW r \in Returns, Leave(c, r),
           upset' \subseteq {"refused", "late"}
    PROVE  ServiceTypeOK'
BY DEF ServiceTypeOK, Leave, Returns

LEMMA WithoutType == \A e \in Errs : Without(e) \in Returns
BY DEF Without, Returns

LEMMA OutcomesType ==
    ASSUME ServiceTypeOK, pending.done # "no"
    PROVE  Outcomes(pending) \subseteq Returns
<1>1. pending \in Records
    BY DEF ServiceTypeOK, Nothing, Records
<1>2. With(pending) \in Returns
    BY <1>1 DEF With, Records, Returns, Errs
<1>3. Without("0") \in Returns /\ Without("INVALID_RESPONSE") \in Returns
    BY WithoutType DEF Errs
<1> QED BY <1>2, <1>3 DEF Outcomes

LEMMA ServiceStepType == ServiceTypeOK /\ [ServiceNext]_serviceVars => ServiceTypeOK'
<1> SUFFICES ASSUME ServiceTypeOK, [ServiceNext]_serviceVars PROVE ServiceTypeOK'
    OBVIOUS
<1>1. ASSUME NEW c \in Callers, Ask(c) PROVE ServiceTypeOK'
  <2>1. Without("0") \in Returns
      BY WithoutType DEF Errs
  <2> QED BY <1>1, <2>1 DEF Ask, ServiceTypeOK, Returns
<1>2. ASSUME NEW c \in Callers, Refuse(c) \/ Fail(c) \/ Expire(c) PROVE ServiceTypeOK'
  <2>1. PICK e \in Errs : Leave(c, Without(e))
      BY <1>2 DEF Refuse, Fail, Expire, Errs
  <2>2. upset' \subseteq {"refused", "late"}
      BY <1>2 DEF Refuse, Fail, Expire, ServiceTypeOK
  <2> QED BY <2>1, <2>2, LeaveType, WithoutType
<1>3. ASSUME NEW c \in Callers, NEW n \in Numbers, Send(c, n) PROVE ServiceTypeOK'
  <2>1. [Nothing EXCEPT !.num = n] \in Records
      BY DEF Nothing, Records
  <2> QED BY <1>3, <2>1 DEF Send, Sent, ServiceTypeOK, Records
<1>4. ASSUME NEW c \in Callers, NEW r \in Outcomes(pending), Take(c, r) PROVE ServiceTypeOK'
  <2>1. r \in Returns /\ Leave(c, r) /\ upset' \subseteq {"refused", "late"}
      BY <1>4, OutcomesType DEF Take, ServiceTypeOK
  <2> QED BY <2>1, LeaveType
<1>5. ASSUME NEW c \in Callers, Crash(c) PROVE ServiceTypeOK'
    BY <1>5 DEF Crash, ServiceTypeOK
<1>6. ASSUME NEW n \in Numbers \cup {0}, NEW kept \in BOOLEAN, NEW last \in BOOLEAN,
             Line(n, kept, last)
      PROVE  ServiceTypeOK'
  <2>1. kept => [pending EXCEPT !.from = pending.from \cup {n}] \in Records
      BY <1>6 DEF Line, ServiceTypeOK, Records
  <2> QED BY <1>6, <2>1 DEF Line, ServiceTypeOK, Records
<1>7. ASSUME NEW n \in Numbers \cup {0}, NEW done \in {"ok", "error"}, Final(n, done)
      PROVE  ServiceTypeOK'
  <2>1. pending # Nothing => [pending EXCEPT !.done = done, !.of = n] \in Records
      BY <1>7 DEF ServiceTypeOK, Records
  <2> QED BY <1>7, <2>1 DEF Final, ServiceTypeOK, Records
<1>8. ASSUME NEW n \in Numbers \cup {0}, Lost(n) PROVE ServiceTypeOK'
    BY <1>8 DEF Lost, ServiceTypeOK
<1>9. ASSUME HangUp \/ Exit \/ UNCHANGED serviceVars PROVE ServiceTypeOK'
    BY <1>9 DEF HangUp, Exit, serviceVars, ServiceTypeOK
<1> QED BY <1>1, <1>2, <1>3, <1>4, <1>5, <1>6, <1>7, <1>8, <1>9
        DEF ServiceNext, Caller, Modem

LEMMA ServiceInitType == ServiceInit => ServiceTypeOK
<1>1. Without("0") \in Returns
    BY WithoutType DEF Errs
<1> QED BY <1>1 DEF ServiceInit, ServiceTypeOK, Returns

(* For any callers and numbers, the service keeps its types.                 *)
THEOREM ServiceTypeCorrect == ServiceSpec => []ServiceTypeOK
BY ServiceInitType, ServiceStepType, PTL DEF ServiceSpec

----------------------------------------------------------------------------
(* Why answers stay in step: a call is sent only when nothing is pending, so *)
(* as long as every call waits for its final line, nothing more can come for *)
(* a command whose call is over.                                             *)

Waiting(c) == at[c] = "waiting"

(* Whoever waits waits for what is pending, and only one call does.          *)
OneWaits ==
    /\ \A c \in Callers : Waiting(c) => pending # Nothing /\ num[c] = pending.num
    /\ \A c, d \in Callers : Waiting(c) /\ Waiting(d) => c = d

(* Until a call is refused nobody loses what it waits for.                   *)
WaitInv == "refused" \notin upset => OneWaits /\ alive # "crashed"

LEMMA StepWait ==
    ASSUME 0 \notin Numbers, ServiceTypeOK, WaitInv, [ServiceNext]_serviceVars
    PROVE  WaitInv'
<1> SUFFICES ASSUME "refused" \notin upset' PROVE OneWaits' /\ alive' # "crashed"
    BY DEF WaitInv
<1>1. "refused" \notin upset
    BY DEF ServiceNext, Caller, Modem, serviceVars, Ask, Refuse, Fail, Expire, Leave,
           Send, Sent, Take, Crash, Line, Final, Lost, HangUp, Exit
<1>2. OneWaits /\ alive # "crashed"
    BY <1>1 DEF WaitInv
<1>3. ASSUME UNCHANGED <<at, num, alive>>, pending' # Nothing \/ pending = Nothing,
             pending'.num = pending.num
      PROVE  OneWaits' /\ alive' # "crashed"
    BY <1>2, <1>3 DEF OneWaits, Waiting
<1>4. ASSUME NEW c \in Callers, Ask(c) PROVE OneWaits' /\ alive' # "crashed"
    BY <1>2, <1>4 DEF Ask, OneWaits, Waiting, ServiceTypeOK
<1>5. ASSUME NEW c \in Callers, NEW n \in Numbers, Send(c, n)
      PROVE  OneWaits' /\ alive' # "crashed"
  <2>1. /\ pending = Nothing /\ alive' = alive
        /\ at' = [at EXCEPT ![c] = "waiting"] /\ num' = [num EXCEPT ![c] = n]
        /\ pending' = [Nothing EXCEPT !.num = n]
      BY <1>5 DEF Send, Sent
  <2>2. pending'.num = n /\ pending' # Nothing
      BY <2>1 DEF Nothing
  <2>3. /\ \A d \in Callers : Waiting(d)' => d = c
        /\ num'[c] = n
      BY <1>2, <2>1 DEF OneWaits, Waiting, ServiceTypeOK
  <2> QED BY <1>2, <2>1, <2>2, <2>3 DEF OneWaits
(* Whoever leaves was the only one that waited, or nobody did.               *)
<1>6. ASSUME NEW c \in Callers, NEW r, Leave(c, r), Waiting(c) \/ pending = Nothing
      PROVE  OneWaits' /\ alive' # "crashed"
  <2>1. at' = [at EXCEPT ![c] = "out"] /\ alive' = alive
      BY <1>6 DEF Leave
  <2>2. \A d \in Callers : ~Waiting(d)'
      BY <1>2, <1>6, <2>1 DEF OneWaits, Waiting, ServiceTypeOK
  <2> QED BY <1>2, <2>1, <2>2 DEF OneWaits
<1>7. ASSUME NEW c \in Callers,
             Fail(c) \/ Expire(c) \/ \E r \in Outcomes(pending) : Take(c, r)
      PROVE  OneWaits' /\ alive' # "crashed"
    BY <1>6, <1>7 DEF Fail, Expire, Take, Waiting
<1>8. ASSUME NEW c \in Callers, Refuse(c) \/ Crash(c) PROVE FALSE
    BY <1>2, <1>8 DEF Refuse, Crash, OneWaits, Waiting
<1>9. ASSUME NEW n \in Numbers \cup {0}, NEW kept \in BOOLEAN, NEW last \in BOOLEAN,
             Line(n, kept, last)
      PROVE  OneWaits' /\ alive' # "crashed"
  <2>1. UNCHANGED <<at, num, alive>> /\ (~kept => pending' = pending)
      BY <1>9 DEF Line
  <2>2. kept => pending \in Records /\ pending # Nothing
      BY <1>9 DEF Line, ServiceTypeOK, Records
  <2>3. kept => pending' \in Records /\ pending'.num = pending.num
      BY <1>9, <2>2 DEF Line, Records
  <2>4. kept => pending' # Nothing
      BY <2>3 DEF Nothing, Records
  <2> QED BY <1>3, <2>1, <2>3, <2>4
<1>10. ASSUME NEW n \in Numbers \cup {0}, NEW done \in {"ok", "error"}, Final(n, done)
       PROVE  OneWaits' /\ alive' # "crashed"
  <2>1. UNCHANGED <<at, num, alive>> /\ (pending = Nothing => pending' = pending)
      BY <1>10 DEF Final
  <2>2. pending # Nothing => pending \in Records
      BY DEF ServiceTypeOK, Records
  <2>3. pending # Nothing => pending' \in Records /\ pending'.num = pending.num
      BY <1>10, <2>2 DEF Final, Records
  <2>4. pending # Nothing => pending' # Nothing
      BY <2>3 DEF Nothing, Records
  <2> QED BY <1>3, <2>1, <2>3, <2>4
<1>11. ASSUME (\E n \in Numbers \cup {0} : Lost(n)) \/ HangUp \/ UNCHANGED serviceVars
       PROVE  OneWaits' /\ alive' # "crashed"
    BY <1>3, <1>11 DEF Lost, HangUp, serviceVars
<1>12. ASSUME Exit PROVE OneWaits' /\ alive' # "crashed"
    BY <1>2, <1>12 DEF Exit, OneWaits, Waiting
<1> QED BY <1>4, <1>5, <1>7, <1>8, <1>9, <1>10, <1>11, <1>12
        DEF ServiceNext, Caller, Modem

(* A call only finds its response gone after some call was refused.          *)
THEOREM CrashAfterRefusal ==
    ASSUME 0 \notin Numbers
    PROVE  ServiceSpec => [](alive = "crashed" => "refused" \in upset)
<1>1. ServiceInit => WaitInv
    BY DEF ServiceInit, WaitInv, OneWaits, Waiting
<1>2. ServiceTypeOK /\ WaitInv /\ [ServiceNext]_serviceVars => WaitInv'
    BY StepWait
<1>3. WaitInv => (alive = "crashed" => "refused" \in upset)
    BY DEF WaitInv
<1> QED BY <1>1, <1>2, <1>3, ServiceTypeCorrect, PTL DEF ServiceSpec

(* Lines are owed to an unfinished response only, and what it holds is its   *)
(* own.                                                                      *)
OwedIsPending ==
    \A k \in owed : pending # Nothing /\ pending.done = "no" /\ k = pending.num

PendingHoldsItsOwn ==
    /\ pending.done # "no" => pending.of = pending.num
    /\ pending.from \subseteq {0, pending.num}

ReturnsItsOwn(c) ==
    ret[c].answer # "none" => /\ ret[c].of = num[c]
                              /\ ret[c].from \subseteq {0, num[c]}

(* Nothing is returned before a call is over.                                *)
NothingYet == \A c \in Callers : at[c] # "out" => ret[c].answer = "none"

StepInv ==
    (upset = {} /\ ~Strays) =>
        /\ OneWaits /\ OwedIsPending /\ PendingHoldsItsOwn
        /\ \A c \in Callers : ReturnsItsOwn(c)

LEMMA StepNothingYet ==
    ServiceTypeOK /\ NothingYet /\ [ServiceNext]_serviceVars => NothingYet'
<1> SUFFICES ASSUME ServiceTypeOK, NothingYet, [ServiceNext]_serviceVars PROVE NothingYet'
    OBVIOUS
<1>1. ASSUME NEW c \in Callers, Ask(c) PROVE NothingYet'
    BY <1>1 DEF Ask, Without, NothingYet, ServiceTypeOK
<1>2. ASSUME NEW c \in Callers, NEW r, Leave(c, r) PROVE NothingYet'
    BY <1>2 DEF Leave, NothingYet, ServiceTypeOK
<1>3. ASSUME NEW c \in Callers, NEW n \in Numbers, Send(c, n) PROVE NothingYet'
    BY <1>3 DEF Send, Sent, NothingYet, ServiceTypeOK
<1>4. ASSUME NEW c \in Callers,
             Refuse(c) \/ Fail(c) \/ Expire(c) \/ \E r \in Outcomes(pending) : Take(c, r)
      PROVE  NothingYet'
    BY <1>2, <1>4 DEF Refuse, Fail, Expire, Take
<1>5. ASSUME (\E c \in Callers : Crash(c)) \/ Modem \/ Exit \/ UNCHANGED serviceVars
      PROVE  NothingYet'
  <2>1. UNCHANGED <<at, ret>>
      BY <1>5 DEF Crash, Modem, Line, Final, Lost, HangUp, Exit, serviceVars
  <2> QED BY <2>1 DEF NothingYet
<1> QED BY <1>1, <1>3, <1>4, <1>5 DEF ServiceNext, Caller

LEMMA StepInStep ==
    ASSUME 0 \notin Numbers, ServiceTypeOK, NothingYet, StepInv, [ServiceNext]_serviceVars
    PROVE  StepInv'
<1> SUFFICES ASSUME upset' = {}, ~Strays PROVE StepInv'
    BY DEF StepInv
<1>1. upset = {}
    BY DEF ServiceNext, Caller, Modem, serviceVars, Ask, Refuse, Fail, Expire, Leave,
           Send, Sent, Take, Crash, Line, Final, Lost, HangUp, Exit
<1>2. /\ OneWaits /\ OwedIsPending /\ PendingHoldsItsOwn
      /\ \A c \in Callers : ReturnsItsOwn(c)
    BY <1>1 DEF StepInv
<1>3. ASSUME UNCHANGED <<at, num, ret, pending, owed, upset>> PROVE StepInv'
    BY <1>3 DEF StepInv, OneWaits, OwedIsPending, PendingHoldsItsOwn, ReturnsItsOwn, Waiting
<1>4. ASSUME NEW c \in Callers, Ask(c) PROVE StepInv'
    BY <1>2, <1>4 DEF Ask, Without, StepInv, OneWaits, OwedIsPending,
       PendingHoldsItsOwn, ReturnsItsOwn, Waiting, ServiceTypeOK
(* Nothing is pending, so nobody waits and nothing is owed.                  *)
<1>5. ASSUME NEW c \in Callers, NEW n \in Numbers, Send(c, n) PROVE StepInv'
  <2>1. /\ at[c] = "asking" /\ pending = Nothing
        /\ at' = [at EXCEPT ![c] = "waiting"] /\ num' = [num EXCEPT ![c] = n]
        /\ pending' = [Nothing EXCEPT !.num = n] /\ owed' = owed \cup {n} /\ ret' = ret
      BY <1>5 DEF Send, Sent
  <2>2. owed = {} /\ \A d \in Callers : ~Waiting(d)
      BY <1>2, <2>1 DEF OwedIsPending, OneWaits
  <2>3. /\ pending'.num = n /\ pending'.done = "no" /\ pending'.from = {}
        /\ pending' # Nothing
      BY <2>1 DEF Nothing
  <2>4. \A d \in Callers : /\ Waiting(d)' => d = c
                           /\ d # c => num'[d] = num[d]
      BY <2>1, <2>2 DEF Waiting, ServiceTypeOK
  <2>5. num'[c] = n /\ ret[c].answer = "none"
      BY <2>1 DEF NothingYet, ServiceTypeOK
  <2>6. OneWaits' /\ OwedIsPending' /\ PendingHoldsItsOwn'
      BY <2>1, <2>2, <2>3, <2>4, <2>5 DEF OneWaits, OwedIsPending, PendingHoldsItsOwn
  <2>7. \A d \in Callers : ReturnsItsOwn(d)'
      BY <1>2, <2>1, <2>4, <2>5 DEF ReturnsItsOwn
  <2> QED BY <2>6, <2>7 DEF StepInv
(* A call that leaves with nothing or with its own answer.                   *)
<1>6. ASSUME NEW c \in Callers, NEW r, Leave(c, r), owed = {},
             \A d \in Callers : Waiting(d) => d = c,
             r.answer # "none" => r.of = num[c] /\ r.from \subseteq {0, num[c]}
      PROVE  StepInv'
  <2>1. /\ at' = [at EXCEPT ![c] = "out"] /\ ret' = [ret EXCEPT ![c] = r]
        /\ pending' = Nothing /\ num' = num /\ owed' = owed
      BY <1>6 DEF Leave
  <2>2. \A d \in Callers : ~Waiting(d)'
      BY <1>6, <2>1 DEF Waiting, ServiceTypeOK
  <2>3. OneWaits' /\ OwedIsPending' /\ PendingHoldsItsOwn'
      BY <1>6, <2>1, <2>2 DEF OneWaits, OwedIsPending, PendingHoldsItsOwn, Nothing
  <2>4. \A d \in Callers : ReturnsItsOwn(d)'
      BY <1>2, <1>6, <2>1 DEF ReturnsItsOwn, ServiceTypeOK
  <2> QED BY <2>3, <2>4 DEF StepInv
<1>7. ASSUME NEW c \in Callers, Refuse(c) \/ Expire(c) PROVE StepInv'
    BY <1>7 DEF Refuse, Expire
<1>8. ASSUME NEW c \in Callers, Fail(c) PROVE StepInv'
  <2>1. PICK e \in {"CHANNEL_CLOSED", "GENERIC"} : Leave(c, Without(e))
      BY <1>8 DEF Fail
  <2>2. pending = Nothing
      BY <1>8 DEF Fail
  <2>3. owed = {} /\ \A d \in Callers : ~Waiting(d)
      BY <1>2, <2>2 DEF OwedIsPending, OneWaits
  <2>4. Without(e).answer = "none"
      BY DEF Without
  <2> QED BY <1>6, <2>1, <2>3, <2>4
<1>9. ASSUME NEW c \in Callers, NEW r \in Outcomes(pending), Take(c, r) PROVE StepInv'
  <2>1. Leave(c, r) /\ pending.done # "no" /\ Waiting(c)
      BY <1>9 DEF Take, Waiting
  <2>2. owed = {} /\ num[c] = pending.num /\ \A d \in Callers : Waiting(d) => d = c
      BY <1>2, <2>1 DEF OwedIsPending, OneWaits
  <2>3. r.answer # "none" => r.of = pending.of /\ r.from = pending.from
      BY DEF Outcomes, With, Without
  <2>4. r.answer # "none" => r.of = num[c] /\ r.from \subseteq {0, num[c]}
      BY <1>2, <2>1, <2>2, <2>3 DEF PendingHoldsItsOwn
  <2> QED BY <1>6, <2>1, <2>2, <2>4
<1>10. ASSUME NEW n \in Numbers \cup {0}, NEW kept \in BOOLEAN, NEW last \in BOOLEAN,
              Line(n, kept, last)
       PROVE  StepInv'
  <2>1. /\ UNCHANGED <<at, num, ret>> /\ owed' \subseteq owed
        /\ n = 0 \/ n \in owed
      BY <1>10 DEF Line
  <2>2. CASE ~kept
    <3>1. pending' = pending
        BY <1>10, <2>2 DEF Line
    <3> QED BY <1>2, <2>1, <3>1 DEF StepInv, OneWaits, OwedIsPending,
            PendingHoldsItsOwn, ReturnsItsOwn, Waiting
  <2>3. CASE kept
    <3>1. pending \in Records /\ pending # Nothing
        BY <1>10, <2>3 DEF Line, ServiceTypeOK, Records
    <3>2. /\ pending'.num = pending.num /\ pending'.done = pending.done
          /\ pending'.of = pending.of /\ pending'.from = pending.from \cup {n}
        BY <1>10, <2>3, <3>1 DEF Line, Records
    <3>3. pending' # Nothing
        BY <3>1, <3>2 DEF Nothing, Records
    <3>4. n \in {0, pending.num}
        BY <1>2, <2>1 DEF OwedIsPending
    <3> QED BY <1>2, <2>1, <3>1, <3>2, <3>3, <3>4 DEF StepInv, OneWaits, OwedIsPending,
            PendingHoldsItsOwn, ReturnsItsOwn, Waiting
  <2> QED BY <2>2, <2>3
<1>11. ASSUME NEW n \in Numbers \cup {0}, NEW done \in {"ok", "error"}, Final(n, done)
       PROVE  StepInv'
  <2>1. UNCHANGED <<at, num, ret>> /\ owed' = owed \ {n} /\ n \in owed
      BY <1>11 DEF Final
  <2>2. pending # Nothing /\ n = pending.num /\ \A k \in owed : k = n
      BY <1>2, <2>1 DEF OwedIsPending
  <2>3. pending \in Records
      BY <2>2 DEF ServiceTypeOK, Records
  <2>4. /\ pending'.num = pending.num /\ pending'.of = n
        /\ pending'.from = pending.from
      BY <1>11, <2>2, <2>3 DEF Final, Records
  <2>5. pending' # Nothing
      BY <2>3, <2>4 DEF Nothing, Records
  <2>6. owed' = {}
      BY <2>1, <2>2
  <2> QED BY <1>2, <2>1, <2>2, <2>4, <2>5, <2>6 DEF StepInv, OneWaits, OwedIsPending,
          PendingHoldsItsOwn, ReturnsItsOwn, Waiting
<1>12. ASSUME NEW n \in Numbers \cup {0}, Lost(n) PROVE StepInv'
    BY <1>2, <1>12 DEF Lost, StepInv, OneWaits, OwedIsPending, PendingHoldsItsOwn,
       ReturnsItsOwn, Waiting
<1>13. ASSUME (\E c \in Callers : Crash(c)) \/ HangUp \/ Exit \/ UNCHANGED serviceVars
       PROVE  StepInv'
    BY <1>3, <1>13 DEF Crash, HangUp, Exit, serviceVars
<1> QED BY <1>4, <1>5, <1>7, <1>8, <1>9, <1>10, <1>11, <1>12, <1>13
        DEF ServiceNext, Caller, Modem

LEMMA ServiceInitInStep == ServiceInit => NothingYet /\ StepInv
BY DEF ServiceInit, NothingYet, StepInv, OneWaits, OwedIsPending,
   PendingHoldsItsOwn, ReturnsItsOwn, Waiting, Nothing, Without

(* Until a call is refused or gives up, whatever a call returns was ended by *)
(* its own command's final line and holds no other command's lines: all that *)
(* callers need for it is that a command is only sent when none is pending.  *)
THEOREM InStepCorrect == ASSUME 0 \notin Numbers PROVE ServiceSpec => []InStep
<1>1. ServiceSpec => []NothingYet
    BY ServiceInitInStep, StepNothingYet, ServiceTypeCorrect, PTL DEF ServiceSpec
<1>2. ServiceTypeOK /\ NothingYet /\ StepInv /\ [ServiceNext]_serviceVars => StepInv'
    BY StepInStep
<1>3. StepInv => InStep
    BY DEF StepInv, InStep, ReturnsItsOwn
<1> QED BY <1>1, <1>2, <1>3, ServiceInitInStep, ServiceTypeCorrect, PTL DEF ServiceSpec
=============================================================================
