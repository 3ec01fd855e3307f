--------------------------- MODULE DeviceOpsProofs ---------------------------
(* Theorems about the device operations, for any workers, requests, networks *)
(* and bounds, and any modem.                                                *)
EXTENDS DeviceOps, WellFoundedInduction, TLAPS

P == INSTANCE ATServiceProofs WITH Callers <- Workers, Strays <- MaxSlips > 0

----------------------------------------------------------------------------
(* What an operation does between its calls is a call or a step of its own.  *)
Asks(w) == \E j, cmd, next : \E keep \in BOOLEAN : Call(w, j, cmd, keep, next)

Thinks(w) ==
    /\ Running
    /\ UNCHANGED <<serviceVars, modemVars, timeouts, slips>>

LEMMA OperationSteps ==
    ASSUME NEW w \in Workers,
           Request(w) \/ Simple(w) \/ Preference(w) \/ Bands(w) \/ Network(w)
    PROVE  Running /\ (Asks(w) \/ Thinks(w))
<1> USE DEF At, AtQuestion
<1>1. CASE Request(w)
    BY <1>1 DEF Request, Thinks
<1>2. ASSUME NEW j, Local(w, j), Running PROVE Thinks(w)
    BY <1>2 DEF Local, Thinks
<1>3. ASSUME NEW j, Return(w, j) \/ Stays(w, j), Running PROVE Thinks(w)
    BY <1>2, <1>3 DEF Return, Stays
<1>4. CASE Simple(w)
  <2>1. CASE Ask(w) \/ AskAgain(w) \/ SysInfo(w) \/ SysInfoAsk(w) \/ GetLockBand(w)
                \/ GetLockBandNr(w) \/ SetSlot(w)
      BY <2>1 DEF Asks, Ask, AskAgain, SysInfo, SysInfoAsk, GetLockBand, GetLockBandNr, SetSlot
  <2>2. CASE IccidCrashes(w)
      BY <2>2 DEF IccidCrashes, Thinks
  <2>3. CASE Asked(w) \/ SysInfoDone(w) \/ GetLockBandDone(w) \/ SetSlotDone(w)
      BY <1>3, <2>3 DEF Asked, SysInfoDone, SysInfoAnswered, GetLockBandDone, SetSlotDone
  <2> QED BY <1>4, <2>1, <2>2, <2>3 DEF Simple
<1>5. CASE Preference(w)
    BY <1>3, <1>5 DEF Preference, Asks, SearchPref, SearchPrefSet, SearchPrefOn, SearchPrefDone
<1>6. CASE Bands(w)
  <2>1. CASE LockBand(w) \/ LockReset(w) \/ LockRestore(w) \/ LockRadioOn(w)
                \/ \E p \in {"lte", "nr"} : LockPart(w, p)
      BY <2>1 DEF Asks, LockBand, LockReset, LockRestore, LockRadioOn, LockPart
  <2>2. CASE LockAll(w) \/ LockDone(w) \/ \E p \in {"lte", "nr"} : LockPartDone(w, p)
      BY <1>3, <2>2 DEF LockAll, LockDone, LockPartDone
  <2> QED BY <1>6, <2>1, <2>2 DEF Bands
<1>7. CASE Network(w)
  <2>1. CASE NetISP(w) \/ NetISPAsk(w) \/ Connect(w) \/ ConnectAsk(w) \/ ConnectDefine(w)
                \/ ConnectUp(w)
      BY <2>1 DEF Asks, NetISP, NetISPAsk, Connect, ConnectAsk, ConnectDefine, ConnectUp
  <2>2. CASE NetISPNote(w) \/ ConnectDone(w)
      BY <1>3, <2>2 DEF NetISPNote, ConnectDone
  <2> QED BY <1>7, <2>1, <2>2 DEF Network
<1> QED BY <1>1, <1>4, <1>5, <1>6, <1>7

(* The operations use the channel as its callers may: each step is a step of *)
(* the service, or none.                                                     *)
LEMMA StepIsTheService ==
    P!ServiceTypeOK /\ [Next]_vars => [P!ServiceNext]_(P!serviceVars)
<1> SUFFICES ASSUME P!ServiceTypeOK, [Next]_vars
             PROVE  P!ServiceNext \/ UNCHANGED serviceVars
    BY DEF P!serviceVars, serviceVars
<1>1. ASSUME NEW w \in Workers, P!Caller(w), Running PROVE P!ServiceNext
    BY <1>1 DEF P!ServiceNext, Running
<1>2. ASSUME P!Modem \/ P!Exit, Running PROVE P!ServiceNext
    BY <1>2 DEF P!ServiceNext, Running
<1>3. ASSUME NEW w \in Workers, Request(w) \/ Simple(w) \/ Preference(w) \/ Bands(w) \/ Network(w)
      PROVE  P!ServiceNext \/ UNCHANGED serviceVars
  <2>1. CASE Asks(w)
    <3>1. P!Ask(w)
        BY <2>1 DEF Asks, Call, Svc!Ask, P!Ask, Svc!Without, P!Without
    <3> QED BY <1>1, <1>3, <3>1, OperationSteps DEF P!Caller
  <2>2. CASE Thinks(w)
      BY <2>2 DEF Thinks
  <2> QED BY <1>3, <2>1, <2>2, OperationSteps
<1>4. ASSUME NEW w \in Workers, Channel(w) PROVE P!ServiceNext
  <2>1. CASE Sends(w)
    <3>1. PICK n \in Numbers : Svc!Send(w, n)
        BY <2>1 DEF Sends
    <3>2. P!Send(w, n)
        BY <3>1 DEF Svc!Send, P!Send, Svc!Sent, P!Sent, Svc!Nothing, P!Nothing
    <3> QED BY <1>1, <2>1, <3>2 DEF P!Caller, Sends
  <2>2. CASE Refused(w) \/ TimesOut(w) \/ WakesToNothing(w)
    <3>1. Running /\ (Svc!Refuse(w) \/ Svc!Fail(w) \/ Svc!Expire(w) \/ Svc!Crash(w))
        BY <2>2 DEF Refused, TimesOut, WakesToNothing
    <3>2. P!Refuse(w) \/ P!Fail(w) \/ P!Expire(w) \/ P!Crash(w)
        BY <3>1 DEF Svc!Refuse, P!Refuse, Svc!Fail, P!Fail, Svc!Expire, P!Expire, Svc!Crash,
           P!Crash, Svc!Leave, P!Leave, Svc!Without, P!Without, Svc!Nothing, P!Nothing
    <3> QED BY <1>1, <3>1, <3>2 DEF P!Caller
  <2>3. CASE Takes(w)
    <3>1. Running /\ \E r : Svc!Take(w, r)
        BY <2>3 DEF Takes, TakesNothing, TakesInvalid, TakesResponse
    <3>2. \E r : P!Take(w, r)
        BY <3>1 DEF Svc!Take, P!Take, Svc!Outcomes, P!Outcomes, Svc!Leave, P!Leave,
           Svc!With, P!With, Svc!Without, P!Without, Svc!Nothing, P!Nothing
    <3>3. \E r \in P!Outcomes(pending) : P!Take(w, r)
        BY <3>2 DEF P!Take
    <3> QED BY <1>1, <3>1, <3>3 DEF P!Caller
  <2> QED BY <1>4, <2>1, <2>2, <2>3 DEF Channel
<1>5. CASE LineComes
  <2>1. PICK kept \in BOOLEAN : Svc!Line(Oldest, kept, FALSE)
      BY <1>5 DEF LineComes
  <2>2. P!Line(Oldest, kept, FALSE)
      BY <2>1 DEF Svc!Line, P!Line, Svc!Nothing, P!Nothing
  <2>3. Oldest \in Numbers \cup {0}
      BY <2>1 DEF Svc!Line, P!ServiceTypeOK
  <2> QED BY <1>2, <1>5, <2>2, <2>3 DEF P!Modem, LineComes
<1>6. CASE Answers \/ Strays
  <2>1. PICK n \in {Oldest, 0}, done \in {"ok", "error"} : Svc!Final(n, done)
      BY <1>6 DEF Answers, Strays
  <2>2. P!Final(n, done) /\ n \in Numbers \cup {0}
      BY <2>1 DEF Svc!Final, P!Final, Svc!Nothing, P!Nothing, P!ServiceTypeOK
  <2> QED BY <1>2, <1>6, <2>2 DEF P!Modem, Answers, Strays
<1>7. CASE Ignores
  <2>1. P!Lost(Oldest) /\ Oldest \in Numbers
      BY <1>7 DEF Ignores, Svc!Lost, P!Lost, P!ServiceTypeOK
  <2> QED BY <1>2, <1>7, <2>1 DEF P!Modem, Ignores
<1>8. CASE HangsUp
    BY <1>2, <1>8 DEF HangsUp, Svc!HangUp, P!HangUp, P!Modem
<1>9. CASE Exits
    BY <1>2, <1>9 DEF Exits, Svc!Exit, P!Exit
<1>10. CASE UNCHANGED vars
    BY <1>10 DEF vars
<1> QED BY <1>3, <1>4, <1>5, <1>6, <1>7, <1>8, <1>9, <1>10 DEF Next, Modem

LEMMA InitIsTheService == Init => P!ServiceInit
BY DEF Init, Svc!ServiceInit, P!ServiceInit, Svc!Without, P!Without, Svc!Nothing, P!Nothing

(* Every behaviour of the operations is one of the service's, so what holds  *)
(* of ATService holds here.                                                  *)
THEOREM OperationsUseTheService == Spec => P!ServiceSpec /\ []P!ServiceTypeOK
<1>1. Spec => []P!ServiceTypeOK
    BY InitIsTheService, StepIsTheService, P!ServiceInitType, P!ServiceStepType, PTL DEF Spec
<1> QED BY <1>1, InitIsTheService, StepIsTheService, PTL DEF Spec, P!ServiceSpec

----------------------------------------------------------------------------
(* What is known of a job's response pointer.                                *)
JobFields == {"op", "pc", "asked", "keeps", "resp", "got", "twice", "res", "isp", "i",
              "status", "bands", "accepted"}

HistFields == {"crash", "radioLost", "formatLost", "lineless", "leakers"}

Shapes ==
    /\ DOMAIN job = Workers /\ \A w \in Workers : DOMAIN job[w] = JobFields
    /\ DOMAIN hist = HistFields /\ slips \in Nat

(* A response is freed with the pointer left on it only before a plain       *)
(* command whose answer then takes its place, if there is one.               *)
FreedIsReplaced(w) ==
    job[w].resp = "freed" =>
        \/ ~Clean
        \/ at[w] # "out" /\ job[w].keeps /\ job[w].asked.kind = "NO_RESULT"

(* The ICCID operation is left without a second response for a cause.        *)
Second(j) == j.op.name = "iccid" /\ j.pc = "second"

NullHasCause(w) ==
    Second(job[w]) => /\ job[w].keeps
                      /\ at[w] = "out" /\ job[w].resp = "null" => hist.lineless \/ ~Clean

CrashKnown ==
    /\ hist.crash = "pending" => alive = "crashed"
    /\ hist.crash = "iccid" => hist.lineless \/ ~Clean

ResponseInv ==
    /\ Shapes /\ CrashKnown
    /\ \A w \in Workers : /\ job[w].twice => ~Clean
                          /\ FreedIsReplaced(w)
                          /\ NullHasCause(w)

(* A job between two calls whose response may be freed or stored over.       *)
Sound(j) ==
    /\ DOMAIN j = JobFields
    /\ j.twice => ~Clean
    /\ j.resp = "freed" => ~Clean

LEMMA OutIsSound ==
    ASSUME ResponseInv, NEW w \in Workers, at[w] = "out" PROVE Sound(job[w])
BY DEF ResponseInv, Shapes, FreedIsReplaced, Sound

LEMMA FreeFields ==
    ASSUME NEW j, DOMAIN j = JobFields
    PROVE  /\ DOMAIN Free(j) = JobFields /\ DOMAIN SafeFree(j) = JobFields
           /\ Free(j).twice = (j.twice \/ j.resp = "freed")
           /\ SafeFree(j).twice = (j.twice \/ j.resp = "freed")
           /\ Free(j).op = j.op /\ SafeFree(j).op = j.op
           /\ SafeFree(j).resp = "null"
BY DEF Free, SafeFree, JobFields

(* What has gone wrong on the channel stays so.                              *)
LEMMA CleanIsLost ==
    ASSUME P!ServiceTypeOK, Shapes, [Next]_vars, ~Clean PROVE ~Clean'
<1>1. P!ServiceNext \/ UNCHANGED serviceVars
    BY StepIsTheService DEF P!serviceVars, serviceVars
<1>2. upset \subseteq upset' /\ (lineUp' => lineUp)
  <2>1. ASSUME NEW w \in Workers, P!Caller(w) PROVE upset \subseteq upset' /\ lineUp' = lineUp
    <3>1. ASSUME NEW r, P!Leave(w, r) PROVE lineUp' = lineUp
        BY <3>1 DEF P!Leave
    <3>2. CASE P!Ask(w) \/ P!Crash(w) \/ \E n \in Numbers : P!Send(w, n)
        BY <3>2 DEF P!Ask, P!Crash, P!Send, P!Sent
    <3>3. CASE P!Refuse(w) \/ P!Fail(w) \/ P!Expire(w)
        BY <3>1, <3>3 DEF P!Refuse, P!Fail, P!Expire
    <3>4. CASE \E r \in P!Outcomes(pending) : P!Take(w, r)
        BY <3>1, <3>4 DEF P!Take
    <3> QED BY <2>1, <3>2, <3>3, <3>4 DEF P!Caller
  <2>2. ASSUME P!Modem \/ P!Exit PROVE upset' = upset /\ (lineUp' => lineUp)
    <3>1. CASE P!HangUp \/ P!Exit
        BY <3>1 DEF P!HangUp, P!Exit
    <3>2. CASE \E n \in Numbers \cup {0} : P!Lost(n)
        BY <3>2 DEF P!Lost
    <3>3. CASE \E n \in Numbers \cup {0}, kept, last \in BOOLEAN : P!Line(n, kept, last)
        BY <3>3 DEF P!Line
    <3>4. CASE \E n \in Numbers \cup {0}, done \in {"ok", "error"} : P!Final(n, done)
        BY <3>4 DEF P!Final
    <3> QED BY <2>2, <3>1, <3>2, <3>3, <3>4 DEF P!Modem
  <2> QED BY <1>1, <2>1, <2>2 DEF P!ServiceNext, serviceVars
<1>3. slips' = slips \/ slips' = slips + 1
  <2>1. ASSUME NEW w \in Workers, Asks(w) \/ Thinks(w) PROVE slips' = slips
      BY <2>1 DEF Asks, Call, Thinks
  <2>2. ASSUME NEW w \in Workers, Channel(w) PROVE slips' = slips
      BY <2>2 DEF Channel, Sends, Refused, TimesOut, WakesToNothing, Takes
  <2>3. ASSUME Modem PROVE slips' = slips \/ slips' = slips + 1
      BY <2>3 DEF Modem, LineComes, Answers, Ignores, Strays, HangsUp, Exits
  <2> QED BY <2>1, <2>2, <2>3, OperationSteps DEF Next, vars
<1> QED BY <1>2, <1>3 DEF Clean, Shapes

(* A call keeps what is known, if a freed response is left to be replaced    *)
(* only.                                                                     *)
LEMMA CallKeeps ==
    ASSUME P!ServiceTypeOK, ResponseInv, ~Clean => ~Clean',
           NEW w \in Workers, NEW j, NEW cmd, NEW keep \in BOOLEAN, NEW next,
           Running, Call(w, j, cmd, keep, next),
           DOMAIN j = JobFields, j.twice => ~Clean,
           j.resp = "freed" => ~Clean \/ (keep /\ cmd.kind = "NO_RESULT"),
           j.op.name = "iccid" /\ next = "second" => keep
    PROVE  ResponseInv'
<1> DEFINE k == [j EXCEPT !.pc = next, !.asked = cmd, !.keeps = keep]
<1>1. /\ job' = [job EXCEPT ![w] = k]
      /\ at' = [at EXCEPT ![w] = "asking"] /\ alive' = alive
      /\ UNCHANGED <<hist, slips>>
    BY DEF Call, Svc!Ask
<1>2. /\ DOMAIN k = JobFields /\ k.twice = j.twice /\ k.resp = j.resp /\ k.op = j.op
      /\ k.pc = next /\ k.asked = cmd /\ k.keeps = keep
    BY DEF JobFields
<1> HIDE DEF k
<1>3. /\ job'[w] = k /\ at'[w] = "asking"
      /\ \A v \in Workers : v # w => job'[v] = job[v] /\ at'[v] = at[v]
      /\ Shapes' /\ CrashKnown'
    BY <1>1, <1>2 DEF ResponseInv, Shapes, CrashKnown, P!ServiceTypeOK
<1>4. (job[w].twice => ~Clean)' /\ FreedIsReplaced(w)' /\ NullHasCause(w)'
    BY <1>2, <1>3 DEF FreedIsReplaced, NullHasCause, Second
<1>5. ASSUME NEW v \in Workers, v # w
      PROVE  (job[v].twice => ~Clean)' /\ FreedIsReplaced(v)' /\ NullHasCause(v)'
    BY <1>1, <1>3, <1>5 DEF ResponseInv, FreedIsReplaced, NullHasCause
<1> QED BY <1>3, <1>4, <1>5 DEF ResponseInv

LEMMA LocalKeeps ==
    ASSUME ResponseInv, ~Clean => ~Clean',
           NEW w \in Workers, NEW j, job' = [job EXCEPT ![w] = j], Sound(j), j.pc # "second",
           UNCHANGED <<at, alive, slips>>,
           DOMAIN hist' = HistFields, hist'.crash = hist.crash, hist'.lineless = hist.lineless
    PROVE  ResponseInv'
<1>1. /\ job'[w] = j
      /\ \A v \in Workers : v # w => job'[v] = job[v]
      /\ Shapes' /\ CrashKnown'
    BY DEF ResponseInv, Shapes, CrashKnown, Sound
<1>2. (job[w].twice => ~Clean)' /\ FreedIsReplaced(w)' /\ NullHasCause(w)'
    BY <1>1 DEF FreedIsReplaced, NullHasCause, Second, Sound
<1>3. ASSUME NEW v \in Workers, v # w
      PROVE  (job[v].twice => ~Clean)' /\ FreedIsReplaced(v)' /\ NullHasCause(v)'
    BY <1>1, <1>3 DEF ResponseInv, FreedIsReplaced, NullHasCause
<1> QED BY <1>1, <1>2, <1>3 DEF ResponseInv

LEMMA ReturnKeeps ==
    ASSUME ResponseInv, ~Clean => ~Clean',
           NEW w \in Workers, NEW j, Return(w, j), DOMAIN j = JobFields, j.twice => ~Clean
    PROVE  ResponseInv'
<1> DEFINE k == [j EXCEPT !.op = Idle, !.pc = "start", !.asked = NoCommand,
                          !.keeps = FALSE, !.resp = "null", !.got = {}, !.i = 1]
<1>1. DOMAIN k = JobFields /\ k.twice = j.twice /\ k.resp = "null" /\ k.pc = "start"
    BY DEF JobFields
<1>2. job' = [job EXCEPT ![w] = k] /\ UNCHANGED <<at, alive, slips>>
    BY DEF Return, Local, serviceVars
<1>3. DOMAIN hist' = HistFields /\ hist'.crash = hist.crash /\ hist'.lineless = hist.lineless
    BY DEF Return, ResponseInv, Shapes, HistFields
<1> HIDE DEF k
<1> QED BY <1>1, <1>2, <1>3, LocalKeeps DEF Sound

LEMMA StaysKeeps ==
    ASSUME ResponseInv, ~Clean => ~Clean',
           NEW w \in Workers, NEW j, Stays(w, j), Sound(j), j.pc # "second"
    PROVE  ResponseInv'
BY LocalKeeps DEF Stays, Local, serviceVars, ResponseInv, Shapes

LEMMA SafeFreeSound ==
    ASSUME NEW j, Sound(j)
    PROVE  Sound(SafeFree(j)) /\ SafeFree(j).op = j.op
BY FreeFields DEF Sound

(* Results that are noted leave the response alone.                          *)
Like(k, j) == /\ DOMAIN k = JobFields /\ k.twice = j.twice /\ k.resp = j.resp
              /\ k.op = j.op

LEMMA Notes ==
    ASSUME NEW j, DOMAIN j = JobFields, NEW p, NEW x
    PROVE  /\ Like([j EXCEPT !.res[p] = x], j) /\ Like([j EXCEPT !.bands[p] = x], j)
           /\ Like([j EXCEPT !.isp[p] = x], j) /\ Like([j EXCEPT !.status = x], j)
BY DEF Like, JobFields

LEMMA LikeSound ==
    ASSUME NEW j, NEW k, Sound(j), Like(k, j) PROVE Sound(k)
BY DEF Sound, Like

(* The pointer is kept, and a plain command's answer takes its place.        *)
LEMMA ReplaceKeeps ==
    ASSUME P!ServiceTypeOK, ResponseInv, ~Clean => ~Clean', NEW w \in Workers, Running,
           NEW j, Sound(j), NEW cmd, cmd.kind = "NO_RESULT", NEW next,
           Call(w, Free(j), cmd, TRUE, next)
    PROVE  ResponseInv'
<1>1. DOMAIN Free(j) = JobFields /\ (Free(j).twice => ~Clean)
    BY FreeFields DEF Sound
<1> QED BY <1>1, CallKeeps

LEMMA SimpleKeeps ==
    ASSUME P!ServiceTypeOK, ResponseInv, ~Clean => ~Clean',
           NEW w \in Workers, Simple(w)
    PROVE  ResponseInv'
<1> USE DEF At, AtQuestion
<1>1. ASSUME NEW j, NEW cmd, NEW next, Call(w, j, cmd, TRUE, next), Running, Sound(j)
      PROVE  ResponseInv'
    BY <1>1, CallKeeps DEF Sound
<1>2. ASSUME NEW j, Return(w, j) \/ Return(w, SafeFree(j)), Sound(j) PROVE ResponseInv'
  <2>1. DOMAIN j = JobFields /\ (j.twice => ~Clean) /\ Sound(SafeFree(j))
      BY <1>2, SafeFreeSound DEF Sound
  <2> QED BY <1>2, <2>1, ReturnKeeps DEF Sound
<1>3. CASE Ask(w) \/ AskAgain(w)
    BY <1>1, <1>3, OutIsSound, SafeFreeSound DEF Ask, AskAgain
<1>4. CASE Asked(w)
    BY <1>2, <1>4, OutIsSound DEF Asked
<1>5. CASE IccidCrashes(w)
  <2>1. hist' = [hist EXCEPT !.crash = "iccid"] /\ UNCHANGED <<job, at, alive, slips>>
      BY <1>5 DEF IccidCrashes, serviceVars
  <2>2. hist.lineless \/ ~Clean
      BY <1>5 DEF IccidCrashes, ResponseInv, NullHasCause, Second
  <2>3. Shapes' /\ hist'.lineless = hist.lineless /\ hist'.crash = "iccid"
      BY <2>1 DEF ResponseInv, Shapes, HistFields
  <2> QED BY <2>1, <2>2, <2>3 DEF ResponseInv, CrashKnown, FreedIsReplaced, NullHasCause
<1>6. CASE SysInfo(w) \/ SysInfoAsk(w)
    BY <1>1, <1>6, OutIsSound DEF SysInfo, SysInfoAsk
<1>7. CASE SysInfoDone(w)
  <2>1. at[w] = "out"
      BY <1>7 DEF SysInfoDone, SysInfoAnswered
  <2>2. Sound(job[w]) /\ Sound(StatusIn(job[w]))
      BY <2>1, OutIsSound, Notes, LikeSound DEF Sound, StatusIn
  <2> QED BY <1>2, <1>7, <2>2 DEF SysInfoDone
<1>8. CASE GetLockBand(w) \/ GetLockBandNr(w) \/ GetLockBandDone(w)
  <2>1. Sound(job[w])
      BY <1>8, OutIsSound DEF GetLockBand, GetLockBandNr, GetLockBandDone
  <2>2. \A p : Sound(BandIn(w, p))
      BY <2>1, Notes, LikeSound DEF Sound, BandIn
  <2> QED BY <1>1, <1>2, <1>8, <2>1, <2>2, SafeFreeSound
          DEF GetLockBand, GetLockBandNr, GetLockBandDone
<1>9. CASE SetSlot(w) \/ SetSlotDone(w)
  <2>1. Sound(job[w])
      BY <1>9, OutIsSound DEF SetSlot, SetSlotDone
  <2>2. Sound([job[w] EXCEPT !.res["slot"] = Outcome(w)])
      BY <2>1, Notes, LikeSound DEF Sound
  <2> QED BY <1>1, <1>2, <1>9, <2>1, <2>2 DEF SetSlot, SetSlotDone
<1> QED BY <1>3, <1>4, <1>5, <1>6, <1>7, <1>8, <1>9 DEF Simple

LEMMA PreferenceKeeps ==
    ASSUME P!ServiceTypeOK, ResponseInv, ~Clean => ~Clean',
           NEW w \in Workers, Preference(w)
    PROVE  ResponseInv'
<1> USE DEF At
<1>1. Running /\ Sound(job[w])
    BY OutIsSound DEF Preference, SearchPref, SearchPrefSet, SearchPrefOn, SearchPrefDone
<1>2. ASSUME NEW j, NEW cmd, NEW next, NEW keep \in BOOLEAN, Call(w, j, cmd, keep, next),
             Sound(j), next # "second"
      PROVE  ResponseInv'
    BY <1>1, <1>2, CallKeeps DEF Sound
<1>3. CASE SearchPref(w) \/ SearchPrefSet(w)
    BY <1>1, <1>2, <1>3 DEF SearchPref, SearchPrefSet
<1>4. CASE SearchPrefOn(w)
  <2>1. Sound([job[w] EXCEPT !.res["pref"] = Outcome(w)])
      BY <1>1, Notes, LikeSound DEF Sound
  <2> QED BY <1>2, <1>4, <2>1 DEF SearchPrefOn
<1>5. CASE SearchPrefDone(w)
    BY <1>1, <1>5, ReturnKeeps, SafeFreeSound DEF SearchPrefDone, Sound
<1> QED BY <1>3, <1>4, <1>5 DEF Preference

LEMMA BandsKeep ==
    ASSUME P!ServiceTypeOK, ResponseInv, ~Clean => ~Clean',
           NEW w \in Workers, Bands(w)
    PROVE  ResponseInv'
<1> USE DEF At
<1>1. Running /\ Sound(job[w]) /\ job[w].op.name = "lock"
    BY OutIsSound DEF Bands, LockBand, LockReset, LockRestore, LockAll, LockPart, LockPartDone,
       LockRadioOn, LockDone
<1>2. ASSUME NEW cmd, NEW next, NEW keep \in BOOLEAN, Call(w, job[w], cmd, keep, next)
      PROVE  ResponseInv'
    BY <1>1, <1>2, CallKeeps DEF Sound
<1>3. \A o, done : BandStep(o, done) # "second"
    BY DEF BandStep
<1>4. CASE LockBand(w) \/ LockReset(w) \/ LockRestore(w) \/ LockRadioOn(w)
    BY <1>2, <1>4 DEF LockBand, LockReset, LockRestore, LockRadioOn
<1>5. CASE LockAll(w)
  <2> DEFINE r == [p \in Parts |-> IF p \in Named(job[w].op, "all")
                                   THEN Outcome(w) ELSE job[w].res[p]]
             k == [job[w] EXCEPT !.res = r, !.pc = BandStep(job[w].op, {})]
  <2>1. Stays(w, k)
      BY <1>5 DEF LockAll
  <2>2. Like(k, job[w]) /\ k.pc # "second"
      BY <1>1, <1>3 DEF Like, JobFields, Sound
  <2> QED BY <1>1, <2>1, <2>2, StaysKeeps, LikeSound
<1>6. ASSUME NEW p \in {"lte", "nr"}, LockPart(w, p) PROVE ResponseInv'
  <2>1. Setting({p}).kind = "NO_RESULT"
      BY DEF Setting, Order, Command
  <2>2. Call(w, Free(job[w]), Setting({p}), TRUE, AfterPart[p])
      BY <1>6 DEF LockPart
  <2> QED BY <1>1, <2>1, <2>2, ReplaceKeeps
<1>7. ASSUME NEW p \in {"lte", "nr"}, LockPartDone(w, p) PROVE ResponseInv'
  <2> DEFINE k == [job[w] EXCEPT !.res[p] = Outcome(w), !.pc = BandStep(job[w].op, {"lte", p})]
  <2>1. Stays(w, k)
      BY <1>7 DEF LockPartDone
  <2>2. Like(k, job[w]) /\ k.pc # "second"
      BY <1>1, <1>3 DEF Like, JobFields, Sound
  <2> QED BY <1>1, <2>1, <2>2, StaysKeeps, LikeSound
<1>8. CASE LockDone(w)
    BY <1>1, <1>8, ReturnKeeps DEF LockDone, Sound
<1> QED BY <1>4, <1>5, <1>6, <1>7, <1>8 DEF Bands

LEMMA NetworkKeeps ==
    ASSUME P!ServiceTypeOK, ResponseInv, ~Clean => ~Clean',
           NEW w \in Workers, Network(w)
    PROVE  ResponseInv'
<1> USE DEF At
<1>1. Running /\ Sound(job[w])
    BY OutIsSound DEF Network, NetISP, NetISPAsk, NetISPNote, Connect, ConnectAsk, ConnectDefine,
       ConnectUp, ConnectDone
<1>2. ASSUME NEW cmd, NEW next, NEW keep \in BOOLEAN, Call(w, job[w], cmd, keep, next),
             next # "second"
      PROVE  ResponseInv'
    BY <1>1, <1>2, CallKeeps DEF Sound
<1>3. CASE NetISP(w) \/ NetISPAsk(w) \/ Connect(w) \/ ConnectAsk(w)
    BY <1>2, <1>3 DEF NetISP, NetISPAsk, Connect, ConnectAsk
<1>4. CASE NetISPNote(w)
  <2> DEFINE j == [job[w] EXCEPT !.isp[Formats[job[w].i]] = Operator(w)]
  <2>1. Like(j, job[w]) /\ Sound(j)
      BY <1>1, Notes, LikeSound DEF Sound
  <2> HIDE DEF j
  <2>2. Stays(w, [j EXCEPT !.i = @ + 1, !.pc = "start"]) \/ Return(w, SafeFree(j))
      BY <1>4 DEF NetISPNote, j
  <2>3. Sound([j EXCEPT !.i = j.i + 1, !.pc = "start"])
      BY <2>1 DEF Sound, JobFields
  <2>4. [j EXCEPT !.i = j.i + 1, !.pc = "start"].pc # "second"
      BY <2>1 DEF Sound, JobFields
  <2> QED BY <2>1, <2>2, <2>3, <2>4, StaysKeeps, ReturnKeeps, SafeFreeSound DEF Sound
<1>5. ASSUME NEW j, Sound(j), NEW name, NEW next, Call(w, Free(j), Plain(name), TRUE, next)
      PROVE  ResponseInv'
  <2>1. Plain(name).kind = "NO_RESULT"
      BY DEF Plain, Order, Command
  <2> QED BY <1>1, <1>5, <2>1, ReplaceKeeps
<1>6. CASE ConnectDefine(w)
  <2>1. Sound([job[w] EXCEPT !.isp["code"] = Operator(w)])
      BY <1>1, Notes, LikeSound DEF Sound
  <2> QED BY <1>1, <1>5, <1>6, <2>1 DEF ConnectDefine
<1>7. CASE ConnectUp(w)
    BY <1>1, <1>5, <1>7 DEF ConnectUp
<1>8. CASE ConnectDone(w)
    BY <1>1, <1>8, ReturnKeeps DEF ConnectDone, Sound
<1> QED BY <1>3, <1>4, <1>6, <1>7, <1>8 DEF Network

LEMMA RequestKeeps ==
    ASSUME ResponseInv, ~Clean => ~Clean', NEW w \in Workers, Request(w) PROVE ResponseInv'
<1>1. PICK o \in Requests : job' = [job EXCEPT ![w] = NewJob(o)]
    BY DEF Request
<1>2. Sound(NewJob(o)) /\ NewJob(o).pc # "second"
    BY DEF NewJob, Sound, JobFields
<1>3. UNCHANGED <<at, alive, slips, hist>>
    BY DEF Request, serviceVars
<1> QED BY <1>1, <1>2, <1>3, LocalKeeps DEF ResponseInv, Shapes

LEMMA ChannelKeeps ==
    ASSUME P!ServiceTypeOK, ResponseInv, ~Clean => ~Clean',
           NEW w \in Workers, Channel(w)
    PROVE  ResponseInv'
<1>1. hist.crash = "none"
    BY DEF Channel, Sends, Refused, TimesOut, WakesToNothing, Takes, Running
<1>2. CASE Sends(w)
  <2>1. /\ UNCHANGED <<job, slips, alive>> /\ at' = [at EXCEPT ![w] = "waiting"]
      BY <1>2 DEF Sends, Svc!Send, Svc!Sent
  <2>2. at'[w] # "out" /\ \A v \in Workers : v # w => at'[v] = at[v]
      BY <2>1 DEF P!ServiceTypeOK
  <2>a. /\ DOMAIN hist' = HistFields /\ hist'.crash = hist.crash
        /\ hist'.lineless = hist.lineless
      BY <1>2 DEF Sends, ResponseInv, Shapes, HistFields
  <2>3. Shapes' /\ CrashKnown'
      BY <2>1, <2>a, <1>1 DEF ResponseInv, Shapes, CrashKnown
  <2>4. at[w] = "asking"
      BY <1>2 DEF Sends, Svc!Send, Svc!Sent
  <2> QED BY <2>1, <2>2, <2>3, <2>4, <2>a DEF ResponseInv, FreedIsReplaced, NullHasCause
(* A call that fails leaves a mark on the channel.                           *)
<1>3. CASE Refused(w) \/ TimesOut(w)
  <2>1. ~Clean'
    <3>1. CASE Svc!Refuse(w) \/ Svc!Expire(w)
        BY <3>1 DEF Svc!Refuse, Svc!Expire, Clean
    <3>2. CASE Svc!Fail(w)
        BY <3>2 DEF Svc!Fail, Svc!Leave, Clean
    <3> QED BY <1>3, <3>1, <3>2 DEF Refused, TimesOut
  <2>2. UNCHANGED <<job, slips>>
      BY <1>3 DEF Refused, TimesOut
  <2>3. DOMAIN hist' = HistFields /\ hist'.crash = "none"
      BY <1>1, <1>3 DEF Refused, TimesOut, Missed, ResponseInv, Shapes, HistFields
  <2> QED BY <2>1, <2>2, <2>3 DEF ResponseInv, Shapes, CrashKnown, FreedIsReplaced, NullHasCause
<1>4. CASE WakesToNothing(w)
  <2>1. UNCHANGED <<job, at, slips>> /\ alive' = "crashed"
        /\ hist' = [hist EXCEPT !.crash = "pending"]
      BY <1>4 DEF WakesToNothing, Svc!Crash
  <2>2. Shapes' /\ CrashKnown' /\ hist'.lineless = hist.lineless
      BY <2>1 DEF ResponseInv, Shapes, CrashKnown, HistFields
  <2> QED BY <2>1, <2>2 DEF ResponseInv, FreedIsReplaced, NullHasCause
<1>5. CASE Takes(w)
  <2>1. UNCHANGED slips /\ at' = [at EXCEPT ![w] = "out"]
      BY <1>5 DEF Takes, TakesNothing, TakesInvalid, TakesResponse, Svc!Take, Svc!Leave
  <2>2. \A v \in Workers : v # w => at'[v] = at[v]
      BY <2>1
  <2>3. CASE TakesNothing(w)
    <3>1. UNCHANGED <<job, hist>> /\ ~job[w].keeps
        BY <2>3 DEF TakesNothing
    <3>2. Shapes' /\ CrashKnown'
        BY <1>1, <2>1, <3>1 DEF ResponseInv, Shapes, CrashKnown
    <3> QED BY <2>2, <3>1, <3>2 DEF ResponseInv, FreedIsReplaced, NullHasCause
  <2>4. ASSUME NEW resp \in {"null", "live"}, NEW got, Stored(w, resp, got), job[w].keeps,
               resp = "null" => Invalid(w)
        PROVE  ResponseInv'
    <3> DEFINE k == [job[w] EXCEPT !.resp = resp, !.got = got]
    <3>1. /\ DOMAIN k = JobFields /\ k.twice = job[w].twice /\ k.resp = resp
          /\ k.op = job[w].op /\ k.pc = job[w].pc /\ k.keeps
        BY <2>4 DEF JobFields, ResponseInv, Shapes
    <3>2. job' = [job EXCEPT ![w] = k]
        BY <2>4 DEF Stored, ResponseInv, Shapes, JobFields
    <3> HIDE DEF k
    <3>3. /\ DOMAIN hist' = HistFields /\ hist'.crash = "none"
          /\ hist.lineless \/ Invalid(w) => hist'.lineless
        BY <1>1, <2>4 DEF Stored, ResponseInv, Shapes, HistFields
    <3>4. job'[w] = k /\ \A v \in Workers : v # w => job'[v] = job[v]
        BY <3>2 DEF ResponseInv, Shapes
    <3>5. Shapes' /\ CrashKnown'
        BY <2>1, <3>1, <3>2, <3>3 DEF ResponseInv, Shapes, CrashKnown
    <3>6. (job[w].twice => ~Clean)' /\ FreedIsReplaced(w)' /\ NullHasCause(w)'
        BY <2>4, <3>1, <3>3, <3>4 DEF ResponseInv, FreedIsReplaced, NullHasCause
    <3>7. ASSUME NEW v \in Workers, v # w
          PROVE  (job[v].twice => ~Clean)' /\ FreedIsReplaced(v)' /\ NullHasCause(v)'
        BY <2>2, <3>3, <3>4, <3>7 DEF ResponseInv, FreedIsReplaced, NullHasCause
    <3> QED BY <3>5, <3>6, <3>7 DEF ResponseInv
  <2> QED BY <1>5, <2>3, <2>4 DEF Takes, TakesInvalid, TakesResponse
<1> QED BY <1>2, <1>3, <1>4, <1>5 DEF Channel

LEMMA ModemKeeps ==
    ASSUME P!ServiceTypeOK, ResponseInv, ~Clean => ~Clean', Modem
    PROVE  ResponseInv'
<1>1. hist.crash = "none" /\ at' = at
    BY DEF Modem, LineComes, Answers, Ignores, Strays, HangsUp, Exits, Running, Svc!Line,
       Svc!Final, Svc!Lost, Svc!HangUp, Svc!Exit
<1>2. slips' \in Nat
  <2>1. slips' = slips \/ slips' = slips + 1
      BY DEF Modem, LineComes, Answers, Ignores, Strays, HangsUp, Exits
  <2> QED BY <2>1 DEF ResponseInv, Shapes
<1>3. /\ DOMAIN hist' = HistFields /\ hist'.crash = hist.crash
      /\ hist'.lineless = hist.lineless
    BY DEF Modem, LineComes, Answers, Ignores, Strays, HangsUp, Exits, Missed,
       ResponseInv, Shapes, HistFields
<1>4. /\ DOMAIN job' = Workers
      /\ \A v \in Workers : /\ Like(job'[v], job[v]) /\ job'[v].pc = job[v].pc
                            /\ job'[v].keeps = job[v].keeps /\ job'[v].asked = job[v].asked
  <2>1. CASE job' = job
      BY <2>1 DEF ResponseInv, Shapes, Like
  <2>2. ASSUME NEW by, NEW x, job' = [job EXCEPT ![by].accepted = x] PROVE <1>4
      BY <2>2 DEF ResponseInv, Shapes, Like, JobFields
  <2> QED BY <2>1, <2>2 DEF Modem, LineComes, Answers, Ignores, Strays, HangsUp, Exits
<1>5. Shapes' /\ CrashKnown'
    BY <1>1, <1>2, <1>3, <1>4 DEF Shapes, CrashKnown, Like
<1> QED BY <1>1, <1>3, <1>4, <1>5 DEF ResponseInv, FreedIsReplaced, NullHasCause, Second, Like

LEMMA ResponseInit == Init => ResponseInv
<1> SUFFICES ASSUME Init PROVE ResponseInv
    OBVIOUS
<1>1. /\ DOMAIN NewJob(Idle) = JobFields /\ ~NewJob(Idle).twice
      /\ NewJob(Idle).resp = "null" /\ NewJob(Idle).pc = "start"
    BY DEF NewJob, JobFields
<1>2. /\ DOMAIN hist = HistFields /\ hist.crash = "none" /\ slips \in Nat
      /\ DOMAIN job = Workers /\ \A w \in Workers : job[w] = NewJob(Idle)
    BY DEF Init, HistFields
<1> QED BY <1>1, <1>2 DEF ResponseInv, Shapes, CrashKnown, FreedIsReplaced, NullHasCause, Second

LEMMA ResponseStep == P!ServiceTypeOK /\ ResponseInv /\ [Next]_vars => ResponseInv'
<1> SUFFICES ASSUME P!ServiceTypeOK, ResponseInv, [Next]_vars PROVE ResponseInv'
    OBVIOUS
<1>1. ~Clean => ~Clean'
    BY CleanIsLost DEF ResponseInv
<1>2. CASE UNCHANGED vars
    BY <1>2 DEF vars, serviceVars, ResponseInv, Shapes, CrashKnown, FreedIsReplaced,
       NullHasCause, Second, Clean
<1> QED BY <1>1, <1>2, RequestKeeps, ChannelKeeps, SimpleKeeps, PreferenceKeeps, BandsKeep,
        NetworkKeeps, ModemKeeps DEF Next

LEMMA ResponseCorrect == Spec => []ResponseInv
BY OperationsUseTheService, ResponseInit, ResponseStep, PTL DEF Spec

(* Operations free a response twice only after a call of some operation      *)
(* ended without a response, whatever they are and however they overlap.     *)
THEOREM FreedTwiceCause == Spec => []FreedTwiceNeedsFailure
<1>1. ResponseInv => FreedTwiceNeedsFailure
    BY DEF ResponseInv, FreedTwiceNeedsFailure
<1> QED BY <1>1, ResponseCorrect, PTL

(* The program crashes on a missing response only after a refusal, or in the *)
(* ICCID operation for want of a line.                                       *)
THEOREM CrashCause == Spec => []CrashHasCause
<1>0. 0 \notin Numbers
    BY BoundsAssumption
<1>1. Spec => [](alive = "crashed" => "refused" \in upset)
    BY <1>0, OperationsUseTheService, P!CrashAfterRefusal, PTL
<1>2. ResponseInv /\ (alive = "crashed" => "refused" \in upset) => CrashHasCause
    BY DEF ResponseInv, CrashKnown, CrashHasCause
<1> QED BY <1>1, <1>2, ResponseCorrect, PTL

----------------------------------------------------------------------------
(* Operations that free what they get: nothing is there when the first call  *)
(* starts, and no call stores over a response that is live.                  *)
Empty(j) ==
    /\ j.op.name \in CarefulOnes
    /\ j.pc = "start" \/ (j.op.name = "pref" /\ j.pc = "set")
    => j.resp = "null"

NoLoss(w) ==
    job[w].op.name \in CarefulOnes =>
        /\ at[w] # "out" => job[w].pc # "start"
        /\ at[w] # "out" /\ job[w].keeps => job[w].resp = "null"
        /\ at[w] # "out" /\ job[w].op.name = "pref" /\ job[w].pc = "set" => ~job[w].keeps

LeakInv ==
    /\ hist.leakers \cap CarefulOnes = {}
    /\ \A w \in Workers : Empty(job[w]) /\ NoLoss(w)

LEMMA LeakByCall ==
    ASSUME P!ServiceTypeOK, Shapes, LeakInv,
           NEW w \in Workers, NEW j, NEW cmd, NEW keep \in BOOLEAN, NEW next,
           Call(w, j, cmd, keep, next), DOMAIN j = JobFields,
           j.op.name \in CarefulOnes =>
               /\ next # "start"
               /\ keep => j.resp = "null"
               /\ j.op.name = "pref" /\ next = "set" => ~keep /\ j.resp = "null"
    PROVE  LeakInv'
<1> DEFINE k == [j EXCEPT !.pc = next, !.asked = cmd, !.keeps = keep]
<1>1. /\ job' = [job EXCEPT ![w] = k] /\ hist' = hist
      /\ at' = [at EXCEPT ![w] = "asking"]
    BY DEF Call, Svc!Ask
<1>2. k.resp = j.resp /\ k.op = j.op /\ k.pc = next /\ k.keeps = keep
    BY DEF JobFields
<1> HIDE DEF k
<1>3. job'[w] = k /\ \A v \in Workers : v # w => job'[v] = job[v] /\ at'[v] = at[v]
    BY <1>1 DEF Shapes, P!ServiceTypeOK
<1>4. Empty(job[w])' /\ NoLoss(w)'
    BY <1>2, <1>3 DEF Empty, NoLoss
<1>5. ASSUME NEW v \in Workers, v # w PROVE Empty(job[v])' /\ NoLoss(v)'
    BY <1>3, <1>5 DEF LeakInv, Empty, NoLoss
<1> QED BY <1>1, <1>4, <1>5 DEF LeakInv

(* A step outside a call.                                                    *)
LEMMA LeakByOwn ==
    ASSUME Shapes, LeakInv, NEW w \in Workers, NEW k, job' = [job EXCEPT ![w] = k],
           at' = at, at[w] = "out", Empty(k), hist'.leakers \cap CarefulOnes = {}
    PROVE  LeakInv'
<1>1. job'[w] = k /\ \A v \in Workers : v # w => job'[v] = job[v]
    BY DEF Shapes
<1> QED BY <1>1 DEF LeakInv, Empty, NoLoss

LEMMA LeakByReturn ==
    ASSUME Shapes, LeakInv, NEW w \in Workers, NEW j, Return(w, j), at[w] = "out",
           DOMAIN j = JobFields, j.op.name \in CarefulOnes => j.resp # "live"
    PROVE  LeakInv'
<1> DEFINE k == [j EXCEPT !.op = Idle, !.pc = "start", !.asked = NoCommand,
                          !.keeps = FALSE, !.resp = "null", !.got = {}, !.i = 1]
<1>1. Empty(k)
    BY DEF Empty, JobFields
<1>2. job' = [job EXCEPT ![w] = k] /\ at' = at
    BY DEF Return, Local, serviceVars
<1>3. hist'.leakers = IF j.resp = "live" THEN hist.leakers \cup {j.op.name} ELSE hist.leakers
    BY DEF Return, Shapes, HistFields
<1> HIDE DEF k
<1> QED BY <1>1, <1>2, <1>3, LeakByOwn DEF LeakInv

LEMMA FreedIsGone ==
    ASSUME NEW j, DOMAIN j = JobFields
    PROVE  /\ DOMAIN SafeFree(j) = JobFields
           /\ SafeFree(j).resp = "null" /\ SafeFree(j).op = j.op
BY FreeFields

LEMMA CarefulQuestions ==
    \A name \in CarefulOnes \cap DOMAIN Questions : Questions[name].frees = "always"
<1>1. \A cmd, second : [Question(cmd, "always") EXCEPT !.second = second].frees = "always"
    BY DEF Question
<1>2. \A cmd : Question(cmd, "always").frees = "always"
    BY DEF Question
<1>3. /\ GMI.frees = "always" /\ GMM.frees = "always" /\ GMR.frees = "always"
      /\ GSN.frees = "always" /\ Temperature.frees = "always"
      /\ SIMStatus.frees = "always" /\ SIMSlot.frees = "always"
      /\ SIMICCID.frees = "always" /\ SIMNUM.frees = "always"
      /\ NetSignal.frees = "always" /\ EtherNetMode.frees = "always"
    BY <1>1, <1>2 DEF GMI, GMM, GMR, GSN, Temperature, SIMStatus, SIMSlot, SIMICCID, SIMNUM,
       NetSignal, EtherNetMode
<1> QED BY <1>3 DEF Questions, CarefulOnes

LEMMA LeakSimple ==
    ASSUME P!ServiceTypeOK, Shapes, LeakInv, NEW w \in Workers, Simple(w) PROVE LeakInv'
<1> USE DEF At, AtQuestion
<1>1. /\ DOMAIN job[w] = JobFields /\ at[w] = "out"
      /\ Empty(job[w])
    BY DEF LeakInv, Shapes, Simple, Ask, AskAgain, Asked, IccidCrashes, SysInfo, SysInfoAsk,
       SysInfoDone, SysInfoAnswered, GetLockBand, GetLockBandNr, GetLockBandDone, SetSlot, SetSlotDone
<1> DEFINE Fresh(j) == DOMAIN j = JobFields /\ (j.op.name \in CarefulOnes => j.resp = "null")
<1>2. ASSUME NEW j, NEW cmd, NEW next, Call(w, j, cmd, TRUE, next), Fresh(j),
             next # "start", next # "set"
      PROVE  LeakInv'
    BY <1>2, LeakByCall
<1>0. job[w].op.name \notin CarefulOnes \/ job[w].pc = "start" => Fresh(job[w])
    BY <1>1 DEF Empty
<1> HIDE DEF Fresh
<1>3. ASSUME NEW j, Return(w, SafeFree(j)), DOMAIN j = JobFields PROVE LeakInv'
    BY <1>1, <1>3, LeakByReturn, FreedIsGone
<1>4. CASE Ask(w)
  <2>1. Fresh(job[w])
      BY <1>0, <1>4 DEF Ask
  <2> QED BY <1>2, <1>4, <2>1 DEF Ask
<1>5. CASE AskAgain(w)
  <2>1. Fresh(SafeFree(job[w]))
      BY <1>1, FreedIsGone DEF Fresh
  <2> QED BY <1>2, <1>5, <2>1 DEF AskAgain
<1>6. CASE Asked(w)
  <2>1. job[w].op.name \in DOMAIN Questions
      BY <1>6 DEF Asked
  <2>2. CASE QuestionOf(w).frees = "always"
      BY <1>1, <1>3, <1>6, <2>2 DEF Asked
  <2>3. CASE QuestionOf(w).frees # "always"
    <3>1. job[w].op.name \notin CarefulOnes
        BY <2>1, <2>3, CarefulQuestions DEF QuestionOf
    <3>2. Return(w, job[w]) \/ Return(w, SafeFree(job[w]))
        BY <1>6 DEF Asked
    <3> QED BY <1>1, <1>3, <3>1, <3>2, LeakByReturn
  <2> QED BY <2>2, <2>3
<1>7. CASE IccidCrashes(w)
  <2>1. hist' = [hist EXCEPT !.crash = "iccid"] /\ UNCHANGED <<job, at>>
      BY <1>7 DEF IccidCrashes, serviceVars
  <2>2. hist'.leakers = hist.leakers
      BY <2>1 DEF Shapes, HistFields
  <2> QED BY <2>1, <2>2 DEF LeakInv, Empty, NoLoss
<1>8. CASE SysInfo(w) \/ SysInfoAsk(w)
  <2>1. Fresh(job[w])
      BY <1>0, <1>8 DEF SysInfo, SysInfoAsk, CarefulOnes
  <2> QED BY <1>2, <1>8, <2>1 DEF SysInfo, SysInfoAsk
<1>9. CASE SysInfoDone(w)
  <2>1. DOMAIN StatusIn(job[w]) = JobFields
      BY <1>1 DEF StatusIn
  <2> QED BY <1>1, <1>3, <1>9, <2>1 DEF SysInfoDone
<1>10. CASE GetLockBand(w)
    BY <1>0, <1>2, <1>10 DEF GetLockBand
<1>11. CASE GetLockBandNr(w) \/ GetLockBandDone(w)
  <2>1. \A p : DOMAIN BandIn(w, p) = JobFields
      BY <1>1, Notes DEF BandIn, Like
  <2>2. \A p : Fresh(SafeFree(BandIn(w, p)))
      BY <2>1, FreedIsGone DEF Fresh
  <2> QED BY <1>2, <1>3, <1>11, <2>1, <2>2 DEF GetLockBandNr, GetLockBandDone
<1>12. CASE SetSlot(w)
    BY <1>0, <1>2, <1>12 DEF SetSlot
<1>13. CASE SetSlotDone(w)
    BY <1>1, <1>3, <1>13 DEF SetSlotDone
<1> QED BY <1>4, <1>5, <1>6, <1>7, <1>8, <1>9, <1>10, <1>11, <1>12, <1>13 DEF Simple

LEMMA LeakPreference ==
    ASSUME P!ServiceTypeOK, Shapes, LeakInv, NEW w \in Workers, Preference(w) PROVE LeakInv'
<1> USE DEF At
<1>1. /\ DOMAIN job[w] = JobFields /\ at[w] = "out" /\ job[w].op.name = "pref"
      /\ Empty(job[w]) /\ "pref" \in CarefulOnes
    BY DEF LeakInv, Shapes, Preference, SearchPref, SearchPrefSet, SearchPrefOn,
       SearchPrefDone, CarefulOnes
<1>2. CASE SearchPref(w)
    BY <1>1, <1>2, LeakByCall DEF SearchPref, Empty
<1>3. CASE SearchPrefSet(w)
    BY <1>1, <1>3, LeakByCall DEF SearchPrefSet, Empty
<1>4. CASE SearchPrefOn(w)
  <2> DEFINE j == [job[w] EXCEPT !.res["pref"] = Outcome(w)]
  <2>1. DOMAIN j = JobFields
      BY <1>1
  <2>2. Call(w, j, RadioOn, FALSE, "done")
      BY <1>4 DEF SearchPrefOn
  <2> HIDE DEF j
  <2> QED BY <2>1, <2>2, LeakByCall
<1>5. CASE SearchPrefDone(w)
    BY <1>1, <1>5, LeakByReturn, FreedIsGone DEF SearchPrefDone
<1> QED BY <1>2, <1>3, <1>4, <1>5 DEF Preference

(* The others lose responses, but none of them is careful.                   *)
LEMMA LeakOthers ==
    ASSUME P!ServiceTypeOK, Shapes, LeakInv, NEW w \in Workers, Bands(w) \/ Network(w)
    PROVE  LeakInv'
<1> USE DEF At
<1>1. /\ DOMAIN job[w] = JobFields /\ at[w] = "out"
      /\ job[w].op.name \in {"lock", "isp", "connect"}
    BY DEF Shapes, Bands, LockBand, LockReset, LockRestore, LockAll, LockPart, LockPartDone,
       LockRadioOn, LockDone, Network, NetISP, NetISPAsk, NetISPNote, Connect, ConnectAsk,
       ConnectDefine, ConnectUp, ConnectDone
<1>2. job[w].op.name \notin CarefulOnes
    BY <1>1 DEF CarefulOnes
<1> DEFINE Mine(j) == DOMAIN j = JobFields /\ j.op = job[w].op
<1>3. ASSUME NEW j, Mine(j), NEW cmd, NEW keep \in BOOLEAN, NEW next,
             Call(w, j, cmd, keep, next)
      PROVE  LeakInv'
    BY <1>2, <1>3, LeakByCall
<1>4. ASSUME NEW j, Mine(j), Return(w, j) PROVE LeakInv'
    BY <1>1, <1>2, <1>4, LeakByReturn
<1>5. ASSUME NEW j, Mine(j), Stays(w, j) PROVE LeakInv'
  <2>1. job' = [job EXCEPT ![w] = j] /\ at' = at /\ hist' = hist /\ Empty(j)
      BY <1>2, <1>5 DEF Stays, Local, serviceVars, Empty
  <2> QED BY <1>1, <2>1, LeakByOwn DEF LeakInv
<1>6. Mine(job[w]) /\ Mine(Free(job[w])) /\ Mine(SafeFree(job[w]))
    BY <1>1, FreeFields
<1>7. CASE Bands(w)
  <2>1. CASE LockBand(w) \/ LockReset(w) \/ LockRestore(w) \/ LockRadioOn(w)
      BY <1>3, <1>6, <2>1 DEF LockBand, LockReset, LockRestore, LockRadioOn
  <2>2. ASSUME NEW p \in {"lte", "nr"}, LockPart(w, p) PROVE LeakInv'
      BY <1>3, <1>6, <2>2 DEF LockPart
  <2>3. ASSUME NEW j, Stays(w, j), Mine(j) PROVE LeakInv'
      BY <1>5, <2>3
  <2>4. CASE LockAll(w)
      BY <1>1, <2>3, <2>4 DEF LockAll, JobFields
  <2>5. ASSUME NEW p \in {"lte", "nr"}, LockPartDone(w, p) PROVE LeakInv'
      BY <1>1, <2>3, <2>5 DEF LockPartDone, JobFields
  <2>6. CASE LockDone(w)
      BY <1>4, <1>6, <2>6 DEF LockDone
  <2> QED BY <1>7, <2>1, <2>2, <2>4, <2>5, <2>6 DEF Bands
<1>8. CASE Network(w)
  <2>1. CASE NetISP(w) \/ NetISPAsk(w) \/ Connect(w) \/ ConnectAsk(w) \/ ConnectUp(w)
      BY <1>3, <1>6, <2>1 DEF NetISP, NetISPAsk, Connect, ConnectAsk, ConnectUp
  <2>2. CASE NetISPNote(w)
    <3> DEFINE j == [job[w] EXCEPT !.isp[Formats[job[w].i]] = Operator(w)]
               k == [j EXCEPT !.i = @ + 1, !.pc = "start"]
    <3>1. Mine(j)
        BY <1>1, Notes DEF Like
    <3>2. Stays(w, k) \/ Return(w, SafeFree(j))
        BY <2>2 DEF NetISPNote
    <3> HIDE DEF j
    <3>3. Mine(k) /\ Mine(SafeFree(j))
        BY <3>1, FreeFields DEF JobFields
    <3> QED BY <1>4, <1>5, <3>2, <3>3
  <2>3. CASE ConnectDefine(w)
    <3> DEFINE j == IF job[w].op.apn THEN job[w]
                    ELSE [job[w] EXCEPT !.isp["code"] = Operator(w)]
    <3>1. Mine(j)
        BY <1>1, Notes DEF Like
    <3>2. Call(w, Free(j), Plain("CGDCONT"), TRUE, "up")
        BY <2>3 DEF ConnectDefine
    <3> HIDE DEF j
    <3>3. Mine(Free(j))
        BY <3>1, FreeFields
    <3> QED BY <1>3, <3>2, <3>3
  <2>4. CASE ConnectDone(w)
      BY <1>4, <1>6, <2>4 DEF ConnectDone
  <2> QED BY <1>8, <2>1, <2>2, <2>3, <2>4 DEF Network
<1> QED BY <1>7, <1>8

LEMMA LeakChannel ==
    ASSUME P!ServiceTypeOK, Shapes, LeakInv, NEW w \in Workers, Channel(w) PROVE LeakInv'
<1>1. CASE Sends(w)
  <2>1. /\ job' = job /\ at' = [at EXCEPT ![w] = "waiting"]
        /\ at[w] = "asking"
      BY <1>1 DEF Sends, Svc!Send, Svc!Sent
  <2>2. \A v \in Workers : at'[v] # "out" => at[v] # "out"
      BY <2>1 DEF P!ServiceTypeOK
  <2>3. hist'.leakers = hist.leakers
      BY <1>1 DEF Sends, Shapes, HistFields
  <2> QED BY <2>1, <2>2, <2>3 DEF LeakInv, Empty, NoLoss
<1>2. CASE Refused(w) \/ TimesOut(w) \/ WakesToNothing(w)
  <2>1. job' = job /\ (at' = at \/ at' = [at EXCEPT ![w] = "out"])
      BY <1>2 DEF Refused, TimesOut, WakesToNothing, Svc!Refuse, Svc!Fail, Svc!Expire,
         Svc!Crash, Svc!Leave
  <2>2. \A v \in Workers : at'[v] # "out" => at[v] # "out"
      BY <2>1 DEF P!ServiceTypeOK
  <2>3. hist'.leakers = hist.leakers
      BY <1>2 DEF Refused, TimesOut, WakesToNothing, Missed, Shapes, HistFields
  <2> QED BY <2>1, <2>2, <2>3 DEF LeakInv, Empty, NoLoss
<1>3. CASE Takes(w)
  <2>1. at' = [at EXCEPT ![w] = "out"] /\ at[w] = "waiting"
      BY <1>3 DEF Takes, TakesNothing, TakesInvalid, TakesResponse, Svc!Take, Svc!Leave
  <2>2. at'[w] = "out" /\ \A v \in Workers : at'[v] # "out" => at[v] # "out"
      BY <2>1 DEF P!ServiceTypeOK
  <2>3. CASE TakesNothing(w)
      BY <2>2, <2>3 DEF TakesNothing, LeakInv, Empty, NoLoss
  <2>4. ASSUME NEW resp, NEW got, Stored(w, resp, got), job[w].keeps
        PROVE  LeakInv'
    <3> DEFINE k == [job[w] EXCEPT !.resp = resp, !.got = got]
    <3>1. k.resp = resp /\ k.op = job[w].op /\ k.pc = job[w].pc
        BY DEF JobFields, Shapes
    <3>2. job' = [job EXCEPT ![w] = k]
        BY <2>4 DEF Stored, Shapes, JobFields
    <3> HIDE DEF k
    <3>3. job'[w] = k /\ \A v \in Workers : v # w => job'[v] = job[v]
        BY <3>2 DEF Shapes
    <3>4. /\ hist'.leakers = hist.leakers
             \/ hist'.leakers = hist.leakers \cup {job[w].op.name}
          /\ job[w].resp # "live" => hist'.leakers = hist.leakers
        BY <2>4 DEF Stored, Shapes, HistFields
    <3>5. job[w].op.name \in CarefulOnes => job[w].resp # "live"
        BY <2>1, <2>4 DEF LeakInv, NoLoss
    <3>6. hist'.leakers \cap CarefulOnes = {}
        BY <3>4, <3>5 DEF LeakInv
    <3>7. Empty(job[w])'
        BY <2>1, <2>4, <3>1, <3>3 DEF LeakInv, Empty, NoLoss
    <3> QED BY <2>2, <3>3, <3>6, <3>7 DEF LeakInv, NoLoss, Empty
  <2> QED BY <1>3, <2>3, <2>4 DEF Takes, TakesInvalid, TakesResponse
<1> QED BY <1>1, <1>2, <1>3 DEF Channel

LEMMA LeakModem == ASSUME Shapes, LeakInv, Modem PROVE LeakInv'
<1>1. at' = at
    BY DEF Modem, LineComes, Answers, Ignores, Strays, HangsUp, Exits, Svc!Line, Svc!Final,
       Svc!Lost, Svc!HangUp, Svc!Exit
<1>2. hist'.leakers = hist.leakers
    BY DEF Modem, LineComes, Answers, Ignores, Strays, HangsUp, Exits, Missed,
       Shapes, HistFields
<1>3. \A v \in Workers : /\ job'[v].op = job[v].op /\ job'[v].pc = job[v].pc
                          /\ job'[v].keeps = job[v].keeps /\ job'[v].resp = job[v].resp
  <2>1. CASE job' = job
      BY <2>1
  <2>2. ASSUME NEW by, NEW x, job' = [job EXCEPT ![by].accepted = x] PROVE <1>3
      BY <2>2 DEF Shapes, JobFields
  <2> QED BY <2>1, <2>2 DEF Modem, LineComes, Answers, Ignores, Strays, HangsUp, Exits
<1> QED BY <1>1, <1>2, <1>3 DEF LeakInv, Empty, NoLoss

LEMMA LeakRequest ==
    ASSUME Shapes, LeakInv, NEW w \in Workers, Request(w) PROVE LeakInv'
<1>1. PICK o \in Requests : job' = [job EXCEPT ![w] = NewJob(o)]
    BY DEF Request
<1>2. at' = at /\ at[w] = "out" /\ hist' = hist
    BY DEF Request, serviceVars
<1>3. Empty(NewJob(o))
    BY DEF NewJob, Empty
<1> QED BY <1>1, <1>2, <1>3, LeakByOwn DEF LeakInv

LEMMA LeakInit == Init => LeakInv
<1> SUFFICES ASSUME Init PROVE LeakInv
    OBVIOUS
<1>1. NewJob(Idle).op = Idle /\ NewJob(Idle).resp = "null"
    BY DEF NewJob
<1>2. hist.leakers = {} /\ \A w \in Workers : job[w] = NewJob(Idle)
    BY DEF Init
<1>3. Idle.name \notin CarefulOnes
    BY DEF Idle, CarefulOnes
<1> QED BY <1>1, <1>2, <1>3 DEF LeakInv, Empty, NoLoss

LEMMA LeakStep ==
    P!ServiceTypeOK /\ Shapes /\ LeakInv /\ [Next]_vars => LeakInv'
<1> SUFFICES ASSUME P!ServiceTypeOK, Shapes, LeakInv, [Next]_vars PROVE LeakInv'
    OBVIOUS
<1>1. CASE UNCHANGED vars
    BY <1>1 DEF vars, serviceVars, LeakInv, Empty, NoLoss
<1> QED BY <1>1, LeakRequest, LeakChannel, LeakSimple, LeakPreference, LeakOthers, LeakModem
        DEF Next

(* The operations named in CarefulOnes free every response they get, with    *)
(* any number of workers and whatever becomes of their calls.                *)
THEOREM CarefulOnesDo == Spec => []CarefulOnesFree
<1>1. Spec => []Shapes
  <2>1. ResponseInv => Shapes
      BY DEF ResponseInv
  <2> QED BY <2>1, ResponseCorrect, PTL
<1>2. LeakInv => CarefulOnesFree
    BY DEF LeakInv, CarefulOnesFree
<1> QED BY <1>1, <1>2, OperationsUseTheService, LeakInit, LeakStep, PTL DEF Spec

----------------------------------------------------------------------------
(****************************************************************************)
(* What the operations leave behind: the radio they switch off, what they   *)
(* say of it, and the lines they read.                                      *)
(****************************************************************************)
(* Some number of a set of numbers is the least.                             *)
LEMMA Least ==
    ASSUME NEW T, T \subseteq Nat, T # {}
    PROVE  \E x \in T : \A y \in T : x <= y
<1> DEFINE R == {ss \in Nat \X Nat : ss[1] < ss[2]}
<1>1. IsWellFoundedOn(R, Nat)
    BY NatLessThanWellFounded DEF OpToRel
<1>2. PICK x \in T : \A y \in T : ~(<<y, x>> \in R)
    BY <1>1, WFMin
<1>3. ASSUME NEW y \in T PROVE x <= y
  <2>1. <<y, x>> \in Nat \X Nat
      OBVIOUS
  <2>2. ~(y < x)
      BY <1>2, <2>1
  <2> QED BY <2>2
<1> QED BY <1>3

LEMMA OldestIsOwed ==
    ASSUME P!ServiceTypeOK, owed # {}
    PROVE  Oldest \in owed /\ \A k \in owed : Oldest <= k
<1>1. owed \subseteq Nat
    BY BoundsAssumption DEF P!ServiceTypeOK
<1> QED BY <1>1, Least DEF Oldest

----------------------------------------------------------------------------
(* The radio.  An operation that has asked for AT+CFUN=0 is at one of these  *)
(* steps until it asks for AT+CFUN=1.                                        *)
OffSteps ==
    [pref |-> {"set", "on"},
     lock |-> {"reset", "after reset", "after restore", "lte", "after lte", "nr",
               "after nr", "on"}]

OffAt(name, pc) == name \in {"pref", "lock"} /\ pc \in OffSteps[name]

HasItOff(j) == OffAt(j.op.name, j.pc)

(* The radio goes on by what this worker does, or by what was sent last.     *)
WillAsk(w) == HasItOff(job[w]) \/ (at[w] = "asking" /\ job[w].asked = RadioOn)

OnComes ==
    \E m \in owed : /\ sent[m].cmd = RadioOn
                    /\ \A k \in owed : sent[k].cmd = RadioOff => k < m

OffOrComing == modem.radio = "0" \/ \E k \in owed : sent[k].cmd = RadioOff

(* The only commands named CFUN are these two.                               *)
Switches(cmd) == cmd.name = "CFUN" => cmd \in {RadioOff, RadioOn}

RadioKnown ==
    /\ DOMAIN modem = {"radio", "format", "act"}
    /\ \A w \in Workers : Switches(job[w].asked)
    /\ \A n \in owed : Switches(sent[n].cmd)
    /\ \A w \in Workers :
          at[w] # "out" => /\ job[w].op # Idle
                           /\ job[w].asked = RadioOff => HasItOff(job[w])

GoesOn == lineUp /\ ~hist.radioLost /\ OffOrComing
              => OnComes \/ \E w \in Workers : WillAsk(w)

RadioInv == RadioKnown /\ GoesOn

LEMMA OnIsNotOff == RadioOn # RadioOff /\ Switches(RadioOn) /\ Switches(RadioOff)
BY DEF RadioOn, RadioOff, Radio, Order, Command, Switches

LEMMA SwitchArgs ==
    /\ RadioOff.name = "CFUN" /\ RadioOff.arg = "0"
    /\ RadioOn.name = "CFUN" /\ RadioOn.arg = "1"
BY DEF RadioOn, RadioOff, Radio, Order, Command

(* Commands by another name are neither.                                     *)
LEMMA NoSwitch ==
    ASSUME NEW cmd, cmd.name # "CFUN"
    PROVE  Switches(cmd) /\ cmd # RadioOff /\ cmd # RadioOn
BY SwitchArgs DEF Switches

(* Worker w goes from its job to k; nothing else changes that matters here.  *)
LEMMA RadioByStep ==
    ASSUME Shapes, RadioInv, NEW w \in Workers, NEW k,
           job' = [job EXCEPT ![w] = k], UNCHANGED <<owed, sent, modem, lineUp>>,
           hist'.radioLost = hist.radioLost,
           at' = at \/ at' = [at EXCEPT ![w] = "asking"], DOMAIN at = Workers,
           Switches(k.asked), at[w] = "out",
           at'[w] # "out" => k.op # Idle /\ (k.asked = RadioOff => HasItOff(k)),
           HasItOff(job[w]) => HasItOff(k) \/ (at'[w] = "asking" /\ k.asked = RadioOn)
    PROVE  RadioInv'
<1>1. job'[w] = k /\ \A v \in Workers : v # w => job'[v] = job[v] /\ at'[v] = at[v]
    BY DEF Shapes
<1>2. RadioKnown'
    BY <1>1 DEF RadioInv, RadioKnown
<1>3. OffOrComing' = OffOrComing /\ OnComes' = OnComes
    BY DEF OffOrComing, OnComes
<1>4. ASSUME NEW v \in Workers, WillAsk(v) PROVE WillAsk(v)'
    BY <1>1, <1>4 DEF WillAsk
<1>5. GoesOn'
    BY <1>3, <1>4 DEF RadioInv, GoesOn
<1> QED BY <1>2, <1>5 DEF RadioInv

LEMMA RadioByCall ==
    ASSUME P!ServiceTypeOK, Shapes, RadioInv,
           NEW w \in Workers, NEW j, NEW cmd, NEW keep \in BOOLEAN, NEW next,
           Call(w, j, cmd, keep, next), DOMAIN j = JobFields, j.op # Idle,
           Switches(cmd), cmd = RadioOff => OffAt(j.op.name, next),
           HasItOff(job[w]) => OffAt(j.op.name, next) \/ cmd = RadioOn
    PROVE  RadioInv'
<1> DEFINE k == [j EXCEPT !.pc = next, !.asked = cmd, !.keeps = keep]
<1>1. /\ job' = [job EXCEPT ![w] = k] /\ hist' = hist
      /\ at' = [at EXCEPT ![w] = "asking"] /\ at[w] = "out"
      /\ UNCHANGED <<owed, sent, modem, lineUp>> /\ DOMAIN at = Workers
    BY DEF Call, Svc!Ask, modemVars, P!ServiceTypeOK
<1>2. k.op = j.op /\ k.pc = next /\ k.asked = cmd
    BY DEF JobFields
<1> HIDE DEF k
<1>3. at'[w] = "asking"
    BY <1>1
<1> QED BY <1>1, <1>2, <1>3, RadioByStep DEF HasItOff

(* A call of an operation that leaves the radio alone.                       *)
LEMMA RadioByOther ==
    ASSUME P!ServiceTypeOK, Shapes, RadioInv,
           NEW w \in Workers, NEW j, NEW cmd, NEW keep \in BOOLEAN, NEW next,
           Call(w, j, cmd, keep, next), DOMAIN j = JobFields, j.op = job[w].op,
           job[w].op.name \notin {"pref", "lock", "idle"}, cmd.name # "CFUN"
    PROVE  RadioInv'
<1>1. ~HasItOff(job[w]) /\ j.op # Idle
    BY DEF HasItOff, OffAt, Idle
<1> QED BY <1>1, NoSwitch, RadioByCall

LEMMA RadioByStay ==
    ASSUME P!ServiceTypeOK, Shapes, RadioInv, NEW w \in Workers, NEW j, Stays(w, j),
           at[w] = "out", Switches(j.asked), HasItOff(job[w]) => HasItOff(j)
    PROVE  RadioInv'
<1>1. /\ job' = [job EXCEPT ![w] = j] /\ at' = at /\ hist' = hist /\ DOMAIN at = Workers
      /\ UNCHANGED <<owed, sent, modem, lineUp>>
    BY DEF Stays, Local, serviceVars, modemVars, P!ServiceTypeOK
<1> QED BY <1>1, RadioByStep

LEMMA RadioByReturn ==
    ASSUME P!ServiceTypeOK, Shapes, RadioInv, NEW w \in Workers, NEW j, Return(w, j),
           at[w] = "out", DOMAIN j = JobFields, ~HasItOff(job[w])
    PROVE  RadioInv'
<1> DEFINE k == [j EXCEPT !.op = Idle, !.pc = "start", !.asked = NoCommand,
                          !.keeps = FALSE, !.resp = "null", !.got = {}, !.i = 1]
<1>1. /\ job' = [job EXCEPT ![w] = k] /\ at' = at /\ DOMAIN at = Workers
      /\ UNCHANGED <<owed, sent, modem, lineUp>>
    BY DEF Return, Local, serviceVars, modemVars, P!ServiceTypeOK
<1>2. hist'.radioLost = hist.radioLost
    BY DEF Return, Shapes, HistFields
<1>3. Switches(k.asked)
    BY DEF JobFields, Switches, NoCommand, Command
<1> HIDE DEF k
<1> QED BY <1>1, <1>2, <1>3, RadioByStep

LEMMA CommandNames ==
    /\ \A name, prefix : Single(name, prefix).name = name /\ Single(name, prefix).parts = {}
    /\ \A name, prefix : Multi(name, prefix).name = name /\ Multi(name, prefix).parts = {}
    /\ \A name : Numeric(name).name = name /\ Numeric(name).parts = {}
    /\ \A parts : Setting(parts).name = "set" /\ Setting(parts).parts = parts
    /\ \A f : Format(f).name = "COPS=3" /\ Format(f).parts = {}
    /\ \A name : Plain(name).name = name /\ Plain(name).parts = {}
    /\ RadioOn.parts = {} /\ RadioOff.parts = {} /\ NoCommand.parts = {}
    /\ NoCommand.name = ""
BY DEF Single, Multi, Numeric, Setting, Format, Plain, Order, Command, NoCommand, RadioOn,
   RadioOff, Radio

(* A question switches nothing and sets nothing.                             *)
OnlyAsks(cmd) == cmd.name # "CFUN" /\ cmd.parts = {}

LEMMA NamedOther ==
    ASSUME NEW name, name # "CFUN"
    PROVE  /\ \A prefix : OnlyAsks(Single(name, prefix))
           /\ \A prefix : OnlyAsks(Multi(name, prefix))
           /\ OnlyAsks(Numeric(name))
BY DEF OnlyAsks, Single, Multi, Numeric, Command

LEMMA OtherQuestions ==
    /\ OnlyAsks(AskOperator) /\ OnlyAsks(AskBand.lte) /\ OnlyAsks(AskBand.nr)
    /\ OnlyAsks(NoCommand)
    /\ \A act : OnlyAsks(Registration(act))
<1>1. OnlyAsks(NoCommand)
    BY DEF OnlyAsks, NoCommand, Command
<1>2. OnlyAsks(AskOperator)
    BY NamedOther DEF AskOperator
<1>3. AskBand.lte = Single("lte_band", "+QNWPREFCFG: lte")
      /\ AskBand.nr = Single("nr_band", "+QNWPREFCFG: nr")
    BY DEF AskBand
<1>4. OnlyAsks(AskBand.lte) /\ OnlyAsks(AskBand.nr)
    BY <1>3, NamedOther
<1>5. /\ OnlyAsks(Single("CGREG?", "+CGREG:")) /\ OnlyAsks(Single("CEREG?", "+CEREG:"))
      /\ OnlyAsks(Single("C5GREG?", "+C5GREG:"))
    BY NamedOther
<1>6. \A act : OnlyAsks(Registration(act))
    BY <1>1, <1>5 DEF Registration
<1> QED BY <1>1, <1>2, <1>4, <1>6

LEMMA QuestionsOnlyAsk ==
    \A name \in DOMAIN Questions : /\ OnlyAsks(Questions[name].first)
                                   /\ OnlyAsks(Questions[name].second)
<1> DEFINE Fine(q) == OnlyAsks(q.first) /\ OnlyAsks(q.second)
<1>1. \A cmd, frees : OnlyAsks(cmd) => Fine(Question(cmd, frees))
    BY OtherQuestions DEF Question
<1>2. \A cmd, frees, c :
         OnlyAsks(cmd) /\ OnlyAsks(c) => Fine([Question(cmd, frees) EXCEPT !.second = c])
    BY DEF Question
<1> HIDE DEF Fine
<1>3. /\ OnlyAsks(Single("GMI", "")) /\ OnlyAsks(Single("GMM", ""))
      /\ OnlyAsks(Single("GMR", "")) /\ OnlyAsks(Single("ICCID", ""))
      /\ OnlyAsks(Single("CCID", "")) /\ OnlyAsks(Multi("raw", ""))
    BY DEF OnlyAsks, Single, Multi, Command
<1>4. Fine(GMI) /\ Fine(GMM) /\ Fine(GMR) /\ Fine(AtRaw)
    BY <1>1, <1>3, Zenon DEF GMI, GMM, GMR, AtRaw
<1>5. Fine(SIMICCID)
    BY <1>2, <1>3, Zenon DEF SIMICCID
<1>6. /\ \A prefix : OnlyAsks(Single("CPIN?", prefix))
      /\ \A prefix : OnlyAsks(Single("QUIMSLOT?", prefix))
      /\ \A prefix : OnlyAsks(Single("CNUM", prefix))
      /\ \A prefix : OnlyAsks(Multi("qeng", prefix))
      /\ \A prefix : OnlyAsks(Single("QCFG", prefix))
      /\ \A prefix : OnlyAsks(Multi("CGPADDR", prefix))
      /\ \A prefix : OnlyAsks(Single("mode_pref", prefix))
      /\ \A prefix : OnlyAsks(Single("GSN", prefix))
      /\ \A prefix : OnlyAsks(Single("TEMP", prefix))
      /\ \A prefix : OnlyAsks(Multi("QTEMP", prefix))
      /\ OnlyAsks(Numeric("CIMI")) /\ OnlyAsks(Numeric("GSN"))
    BY NamedOther
<1>7. Fine(SIMStatus) /\ Fine(SIMSlot) /\ Fine(SIMIMSI) /\ Fine(SIMNUM) /\ Fine(NetSignal)
    BY <1>1, <1>6, Zenon DEF SIMStatus, SIMSlot, SIMIMSI, SIMNUM, NetSignal
<1>8. Fine(NetCellInfo) /\ Fine(EtherNetMode) /\ Fine(NetWorkSearchPref) /\ Fine(IpAddress)
    BY <1>1, <1>6, Zenon DEF NetCellInfo, EtherNetMode, NetWorkSearchPref, IpAddress
<1>9. Fine(GSN) /\ Fine(Temperature)
    BY <1>2, <1>6, Zenon DEF GSN, Temperature
<1>10. \A name \in DOMAIN Questions : Fine(Questions[name])
    BY <1>4, <1>5, <1>7, <1>8, <1>9 DEF Questions
<1> QED BY <1>10 DEF Fine

LEMMA RadioSimple ==
    ASSUME P!ServiceTypeOK, Shapes, RadioInv, NEW w \in Workers, Simple(w) PROVE RadioInv'
<1> USE DEF At, AtQuestion
<1>1. /\ DOMAIN job[w] = JobFields /\ at[w] = "out"
      /\ job[w].op.name \in DOMAIN Questions \cup {"iccid", "sysinfo", "getlock", "slot"}
    BY DEF Shapes, Simple, Ask, AskAgain, Asked, IccidCrashes, SysInfo, SysInfoAsk,
       SysInfoDone, SysInfoAnswered, GetLockBand, GetLockBandNr, GetLockBandDone, SetSlot, SetSlotDone
<1>2. job[w].op.name \notin {"pref", "lock", "idle"}
    BY <1>1 DEF Questions
<1>3. ~HasItOff(job[w])
    BY <1>2 DEF HasItOff, OffAt
<1>4. ASSUME NEW j, NEW cmd, NEW next, Call(w, j, cmd, TRUE, next), Like(j, job[w]) \/ j = SafeFree(job[w]),
             cmd.name # "CFUN"
      PROVE  RadioInv'
  <2>1. DOMAIN j = JobFields /\ j.op = job[w].op
      BY <1>1, <1>4, FreeFields DEF Like
  <2> QED BY <1>2, <1>4, <2>1, RadioByOther
<1>5. ASSUME NEW j, Return(w, j) \/ Return(w, SafeFree(j)), DOMAIN j = JobFields PROVE RadioInv'
    BY <1>1, <1>3, <1>5, RadioByReturn, FreeFields
<1>6. \A p : Like(BandIn(w, p), job[w])
    BY <1>1, Notes DEF BandIn, Like
<1>7. Like(job[w], job[w])
    BY <1>1 DEF Like
<1>8. CASE Ask(w) \/ AskAgain(w)
  <2>1. QuestionOf(w).first.name # "CFUN" /\ QuestionOf(w).second.name # "CFUN"
      BY <1>8, QuestionsOnlyAsk DEF QuestionOf, Ask, AskAgain, OnlyAsks
  <2> QED BY <1>4, <1>7, <1>8, <2>1 DEF Ask, AskAgain
<1>9. CASE Asked(w)
    BY <1>1, <1>5, <1>9 DEF Asked
<1>10. CASE IccidCrashes(w)
  <2>1. hist'.radioLost = hist.radioLost /\ UNCHANGED <<job, at, owed, sent, modem, lineUp>>
      BY <1>10 DEF IccidCrashes, Shapes, HistFields, serviceVars, modemVars
  <2> QED BY <2>1 DEF RadioInv, RadioKnown, GoesOn, OffOrComing, OnComes, WillAsk
<1>11. CASE SysInfo(w) \/ SysInfoAsk(w)
  <2>1. AskOperator.name # "CFUN" /\ \A act : Registration(act).name # "CFUN"
      BY OtherQuestions DEF OnlyAsks
  <2>2. AfterOperator(w).name # "CFUN"
      BY <2>1, OtherQuestions DEF AfterOperator, OnlyAsks
  <2> QED BY <1>4, <1>7, <1>11, <2>1, <2>2 DEF SysInfo, SysInfoAsk
<1>12. CASE SysInfoDone(w)
  <2>1. DOMAIN StatusIn(job[w]) = JobFields
      BY <1>1 DEF StatusIn
  <2> QED BY <1>1, <1>5, <1>12, <2>1 DEF SysInfoDone
<1>13. CASE GetLockBand(w) \/ GetLockBandNr(w)
  <2>1. AskBand.lte.name # "CFUN" /\ AskBand.nr.name # "CFUN"
      BY OtherQuestions DEF OnlyAsks
  <2>2. ASSUME GetLockBandNr(w) PROVE RadioInv'
    <3>1. DOMAIN SafeFree(BandIn(w, "lte")) = JobFields
          /\ SafeFree(BandIn(w, "lte")).op = job[w].op
        BY <1>6, FreeFields DEF Like
    <3> QED BY <1>2, <2>1, <2>2, <3>1, RadioByOther DEF GetLockBandNr
  <2> QED BY <1>4, <1>7, <1>13, <2>1, <2>2 DEF GetLockBand
<1>14. CASE GetLockBandDone(w)
    BY <1>5, <1>6, <1>14 DEF GetLockBandDone, Like
<1>15. CASE SetSlot(w)
    BY <1>4, <1>7, <1>15, CommandNames DEF SetSlot
<1>16. CASE SetSlotDone(w)
    BY <1>1, <1>5, <1>16 DEF SetSlotDone
<1> QED BY <1>8, <1>9, <1>10, <1>11, <1>12, <1>13, <1>14, <1>15, <1>16 DEF Simple

LEMMA RadioPreference ==
    ASSUME P!ServiceTypeOK, Shapes, RadioInv, NEW w \in Workers, Preference(w)
    PROVE  RadioInv'
<1> USE DEF At
<1>0. /\ DOMAIN job[w] = JobFields /\ at[w] = "out" /\ job[w].op.name = "pref"
    BY DEF Shapes, Preference, SearchPref, SearchPrefSet, SearchPrefOn, SearchPrefDone
<1>1. /\ DOMAIN job[w] = JobFields /\ at[w] = "out" /\ job[w].op.name = "pref"
      /\ job[w].op # Idle
    BY <1>0 DEF Idle
<1>2. Switches(Setting({"pref"})) /\ Setting({"pref"}) # RadioOff
    BY CommandNames, NoSwitch
<1>a. /\ OffAt("pref", "set") /\ OffAt("pref", "on") /\ ~OffAt("pref", "start")
      /\ ~OffAt("pref", "done")
    BY DEF OffAt, OffSteps
<1>3. CASE SearchPref(w)
    BY <1>1, <1>3, <1>a, OnIsNotOff, RadioByCall DEF SearchPref
<1>4. CASE SearchPrefSet(w)
    BY <1>1, <1>2, <1>4, <1>a, RadioByCall DEF SearchPrefSet
<1>5. CASE SearchPrefOn(w)
  <2> DEFINE j == [job[w] EXCEPT !.res["pref"] = Outcome(w)]
  <2>1. DOMAIN j = JobFields /\ j.op = job[w].op
      BY <1>1, Notes DEF Like
  <2>2. Call(w, j, RadioOn, FALSE, "done")
      BY <1>5 DEF SearchPrefOn
  <2> HIDE DEF j
  <2> QED BY <1>1, <2>1, <2>2, OnIsNotOff, RadioByCall
<1>6. CASE SearchPrefDone(w)
  <2>1. ~HasItOff(job[w])
      BY <1>1, <1>6, <1>a DEF SearchPrefDone, HasItOff
  <2> QED BY <1>1, <1>6, <2>1, RadioByReturn, FreeFields DEF SearchPrefDone
<1> QED BY <1>3, <1>4, <1>5, <1>6 DEF Preference

LEMMA RadioBands ==
    ASSUME P!ServiceTypeOK, Shapes, RadioInv, NEW w \in Workers, Bands(w)
    PROVE  RadioInv'
<1> USE DEF At
<1>0. /\ DOMAIN job[w] = JobFields /\ at[w] = "out" /\ job[w].op.name = "lock"
    BY DEF Shapes, Bands, LockBand, LockReset, LockRestore, LockAll, LockPart, LockPartDone,
       LockRadioOn, LockDone
<1>1. /\ DOMAIN job[w] = JobFields /\ at[w] = "out" /\ job[w].op.name = "lock"
      /\ job[w].op # Idle /\ Switches(job[w].asked)
    BY <1>0 DEF Idle, RadioInv, RadioKnown
<1>2. \A parts : Switches(Setting(parts)) /\ Setting(parts) # RadioOff
    BY CommandNames, NoSwitch
<1>3. /\ \A o, done : OffAt("lock", BandStep(o, done))
      /\ OffAt("lock", "reset") /\ OffAt("lock", "after reset")
      /\ OffAt("lock", "after restore")
      /\ \A p \in {"lte", "nr"} : OffAt("lock", AfterPart[p]) /\ OffAt("lock", p)
    BY DEF BandStep, OffAt, OffSteps, AfterPart
<1>4. CASE LockBand(w)
  <2>1. OffAt("lock", IF Named(job[w].op, "all") = {} THEN BandStep(job[w].op, {}) ELSE "reset")
      BY <1>3
  <2> QED BY <1>1, <1>4, <2>1, OnIsNotOff, RadioByCall DEF LockBand
<1>5. CASE LockReset(w) \/ LockRestore(w)
    BY <1>1, <1>2, <1>3, <1>5, RadioByCall DEF LockReset, LockRestore
<1>6. CASE LockAll(w)
  <2> DEFINE r == [p \in Parts |-> IF p \in Named(job[w].op, "all")
                                   THEN Outcome(w) ELSE job[w].res[p]]
             k == [job[w] EXCEPT !.res = r, !.pc = BandStep(job[w].op, {})]
  <2>1. Stays(w, k)
      BY <1>6 DEF LockAll
  <2>2. k.asked = job[w].asked /\ HasItOff(k)
      BY <1>1, <1>3 DEF HasItOff, JobFields
  <2> HIDE DEF k
  <2> QED BY <1>1, <2>1, <2>2, RadioByStay
<1>7. ASSUME NEW p \in {"lte", "nr"}, LockPart(w, p) PROVE RadioInv'
  <2>1. DOMAIN Free(job[w]) = JobFields /\ Free(job[w]).op = job[w].op
      BY <1>1, FreeFields
  <2>2. Call(w, Free(job[w]), Setting({p}), TRUE, AfterPart[p])
      BY <1>7 DEF LockPart
  <2>3. Switches(Setting({p})) /\ Setting({p}) # RadioOff /\ OffAt("lock", AfterPart[p])
      BY <1>2, <1>3
  <2> HIDE DEF Switches
  <2> QED BY <1>1, <2>1, <2>2, <2>3, RadioByCall
<1>8. ASSUME NEW p \in {"lte", "nr"}, LockPartDone(w, p) PROVE RadioInv'
  <2> DEFINE k == [job[w] EXCEPT !.res[p] = Outcome(w), !.pc = BandStep(job[w].op, {"lte", p})]
  <2>1. Stays(w, k)
      BY <1>8 DEF LockPartDone
  <2>2. k.asked = job[w].asked /\ HasItOff(k)
      BY <1>1, <1>3 DEF HasItOff, JobFields
  <2> HIDE DEF k
  <2> QED BY <1>1, <2>1, <2>2, RadioByStay
<1>9. CASE LockRadioOn(w)
    BY <1>1, <1>9, OnIsNotOff, RadioByCall DEF LockRadioOn
<1>10. CASE LockDone(w)
  <2>1. ~HasItOff(job[w])
      BY <1>10 DEF LockDone, HasItOff, OffAt, OffSteps
  <2> QED BY <1>1, <1>10, <2>1, RadioByReturn DEF LockDone
<1> QED BY <1>4, <1>5, <1>6, <1>7, <1>8, <1>9, <1>10 DEF Bands

LEMMA RadioNetwork ==
    ASSUME P!ServiceTypeOK, Shapes, RadioInv, NEW w \in Workers, Network(w)
    PROVE  RadioInv'
<1> USE DEF At
<1>1. /\ DOMAIN job[w] = JobFields /\ at[w] = "out" /\ Switches(job[w].asked)
      /\ job[w].op.name \notin {"pref", "lock", "idle"}
    BY DEF Shapes, Network, NetISP, NetISPAsk, NetISPNote, Connect, ConnectAsk, ConnectDefine,
       ConnectUp, ConnectDone, RadioInv, RadioKnown
<1>2. ~HasItOff(job[w])
    BY <1>1 DEF HasItOff, OffAt
<1>3. ASSUME NEW j, NEW cmd, NEW keep \in BOOLEAN, NEW next, Call(w, j, cmd, keep, next),
             DOMAIN j = JobFields, j.op = job[w].op, cmd.name # "CFUN"
      PROVE  RadioInv'
    BY <1>1, <1>3, RadioByOther
<1>4. /\ AskOperator.name # "CFUN" /\ Plain("CGDCONT").name # "CFUN"
      /\ Plain("QNETDEVCTL").name # "CFUN" /\ \A f : Format(f).name # "CFUN"
  <2>1. AskOperator.name # "CFUN"
      BY OtherQuestions DEF OnlyAsks
  <2>2. \A f : Format(f).name # "CFUN"
      BY CommandNames
  <2>3. Plain("CGDCONT").name # "CFUN" /\ Plain("QNETDEVCTL").name # "CFUN"
      BY DEF Plain, Order, Command
  <2> QED BY <2>1, <2>2, <2>3
<1>5. CASE NetISP(w) \/ NetISPAsk(w) \/ Connect(w) \/ ConnectAsk(w)
    BY <1>1, <1>3, <1>4, <1>5 DEF NetISP, NetISPAsk, Connect, ConnectAsk
<1>6. CASE NetISPNote(w)
  <2> DEFINE j == [job[w] EXCEPT !.isp[Formats[job[w].i]] = Operator(w)]
             k == [j EXCEPT !.i = @ + 1, !.pc = "start"]
  <2>1. DOMAIN j = JobFields /\ j.op = job[w].op /\ j.asked = job[w].asked
      BY <1>1 DEF JobFields
  <2>2. Stays(w, k) \/ Return(w, SafeFree(j))
      BY <1>6 DEF NetISPNote
  <2> HIDE DEF j
  <2>3. k.asked = job[w].asked
      BY <2>1 DEF JobFields
  <2> HIDE DEF k
  <2> QED BY <1>1, <1>2, <2>1, <2>2, <2>3, RadioByStay, RadioByReturn, FreeFields
<1>7. CASE ConnectDefine(w)
  <2> DEFINE j == IF job[w].op.apn THEN job[w]
                  ELSE [job[w] EXCEPT !.isp["code"] = Operator(w)]
  <2>1. DOMAIN j = JobFields /\ j.op = job[w].op
      BY <1>1, Notes DEF Like
  <2>2. Call(w, Free(j), Plain("CGDCONT"), TRUE, "up")
      BY <1>7 DEF ConnectDefine
  <2> HIDE DEF j
  <2>3. DOMAIN Free(j) = JobFields /\ Free(j).op = job[w].op
      BY <2>1, FreeFields
  <2> QED BY <1>3, <1>4, <2>2, <2>3
<1>8. CASE ConnectUp(w)
    BY <1>1, <1>3, <1>4, <1>8, FreeFields DEF ConnectUp
<1>9. CASE ConnectDone(w)
    BY <1>1, <1>2, <1>9, RadioByReturn DEF ConnectDone
<1> QED BY <1>5, <1>6, <1>7, <1>8, <1>9 DEF Network

(* The places and the last commands of all jobs are what they were.          *)
SamePlaces ==
    \A v \in Workers : /\ job'[v].op = job[v].op /\ job'[v].pc = job[v].pc
                       /\ job'[v].asked = job[v].asked

LEMMA RadioRequest ==
    ASSUME P!ServiceTypeOK, Shapes, RadioInv, NEW w \in Workers, Request(w)
    PROVE  RadioInv'
<1>1. PICK o \in Requests : job' = [job EXCEPT ![w] = NewJob(o)]
    BY DEF Request
<1>2. /\ at' = at /\ DOMAIN at = Workers /\ at[w] = "out" /\ hist' = hist
      /\ UNCHANGED <<owed, sent, modem, lineUp>> /\ job[w].op = Idle
    BY DEF Request, serviceVars, modemVars, P!ServiceTypeOK
<1>3. Switches(NewJob(o).asked)
    BY DEF NewJob, Switches, NoCommand, Command
<1>4. ~HasItOff(job[w])
    BY <1>2 DEF HasItOff, OffAt, Idle
<1> QED BY <1>1, <1>2, <1>3, <1>4, RadioByStep

(* Worker w leaves its call or wakes up in it.                               *)
LEMMA RadioByLeaving ==
    ASSUME P!ServiceTypeOK, RadioInv, NEW w \in Workers, SamePlaces,
           UNCHANGED <<owed, sent, modem, lineUp>>, hist'.radioLost = hist.radioLost,
           at' = at \/ (at[w] = "waiting" /\ at' = [at EXCEPT ![w] = "out"])
    PROVE  RadioInv'
<1>1. \A v \in Workers : /\ at'[v] # "out" => at[v] # "out"
                         /\ at[v] = "asking" => at'[v] = "asking"
    BY DEF P!ServiceTypeOK
<1>2. RadioKnown'
    BY <1>1 DEF SamePlaces, RadioInv, RadioKnown, HasItOff
<1>3. \A v \in Workers : WillAsk(v) => WillAsk(v)'
    BY <1>1 DEF SamePlaces, WillAsk, HasItOff
<1>4. OffOrComing' = OffOrComing /\ OnComes' = OnComes
    BY DEF OffOrComing, OnComes
<1> QED BY <1>2, <1>3, <1>4 DEF RadioInv, GoesOn

LEMMA RadioSends ==
    ASSUME P!ServiceTypeOK, Shapes, RadioInv, NEW w \in Workers, Sends(w) PROVE RadioInv'
<1>1. PICK n \in Numbers :
        /\ Svc!Send(w, n)
        /\ sent' = [k \in Numbers |->
                      IF k = n THEN [by |-> w, cmd |-> job[w].asked]
                      ELSE IF k \in owed THEN sent[k] ELSE Unsent]
    BY DEF Sends
<1>2. /\ owed \subseteq Numbers /\ DOMAIN at = Workers
    BY DEF P!ServiceTypeOK
<1>3. /\ at[w] = "asking" /\ \A k \in owed : k < n
      /\ at' = [at EXCEPT ![w] = "waiting"] /\ owed' = owed \cup {n}
      /\ UNCHANGED <<job, modem, lineUp>>
      /\ hist'.radioLost = (hist.radioLost /\ job[w].asked # RadioOn)
    BY <1>1 DEF Sends, Svc!Send, Svc!Sent, Shapes, HistFields
<1>4. /\ sent'[n].cmd = job[w].asked
      /\ \A k \in owed : k # n => sent'[k] = sent[k]
    BY <1>1, <1>2
<1>5. RadioKnown'
    BY <1>2, <1>3, <1>4 DEF RadioInv, RadioKnown, HasItOff
<1>6. ASSUME NEW v \in Workers, HasItOff(job[v]) \/ (v # w /\ WillAsk(v)) PROVE WillAsk(v)'
    BY <1>2, <1>3, <1>6 DEF WillAsk
<1>7. CASE job[w].asked = RadioOn
  <2>1. OnComes'
    <3>1. n \in owed' /\ sent'[n].cmd = RadioOn
        BY <1>3, <1>4, <1>7
    <3>2. ASSUME NEW k \in owed', sent'[k].cmd = RadioOff PROVE k < n
        BY <1>3, <1>4, <1>7, <3>2, OnIsNotOff
    <3> QED BY <3>1, <3>2 DEF OnComes
  <2> QED BY <1>5, <2>1 DEF RadioInv, GoesOn
<1>8. CASE job[w].asked = RadioOff
  <2>1. WillAsk(w)'
      BY <1>3, <1>6, <1>8 DEF RadioInv, RadioKnown
  <2> QED BY <1>5, <2>1 DEF RadioInv, GoesOn
<1>9. CASE job[w].asked \notin {RadioOn, RadioOff}
  <2>1. OffOrComing' => OffOrComing
      BY <1>3, <1>4, <1>9 DEF OffOrComing
  <2>2. \A v \in Workers : WillAsk(v) => WillAsk(v)'
      BY <1>6, <1>9 DEF WillAsk
  <2>3. \A k \in owed : k # n
    <3>1. \A k \in owed : k < n
        BY <1>3
    <3>2. n \notin owed
        BY <3>1, BoundsAssumption
    <3> QED BY <3>2
  <2>4. OnComes => OnComes'
      BY <1>3, <1>4, <1>9, <2>3 DEF OnComes
  <2> QED BY <1>3, <1>5, <1>9, <2>1, <2>2, <2>4 DEF RadioInv, GoesOn
<1> QED BY <1>7, <1>8, <1>9

LEMMA RadioRefused ==
    ASSUME P!ServiceTypeOK, Shapes, RadioInv, NEW w \in Workers, Refused(w) PROVE RadioInv'
<1>1. /\ at' = [at EXCEPT ![w] = "out"] /\ UNCHANGED <<job, owed, sent, modem, lineUp>>
      /\ hist'.radioLost = (hist.radioLost \/ job[w].asked = RadioOn)
      /\ DOMAIN at = Workers
    BY DEF Refused, Svc!Refuse, Svc!Fail, Svc!Leave, Missed, Shapes, HistFields, modemVars,
       P!ServiceTypeOK
<1>2. RadioKnown'
    BY <1>1 DEF RadioInv, RadioKnown, HasItOff
<1>3. \A v \in Workers : WillAsk(v) => WillAsk(v)' \/ (v = w /\ job[w].asked = RadioOn)
    BY <1>1 DEF WillAsk
<1>4. OffOrComing' = OffOrComing /\ OnComes' = OnComes
    BY <1>1 DEF OffOrComing, OnComes
<1> QED BY <1>1, <1>2, <1>3, <1>4 DEF RadioInv, GoesOn

LEMMA RadioChannel ==
    ASSUME P!ServiceTypeOK, Shapes, RadioInv, NEW w \in Workers, Channel(w) PROVE RadioInv'
<1>1. CASE TimesOut(w) \/ WakesToNothing(w)
  <2>1. /\ UNCHANGED <<job, owed, sent, modem, lineUp>>
        /\ hist'.radioLost = hist.radioLost
        /\ at' = at \/ (at[w] = "waiting" /\ at' = [at EXCEPT ![w] = "out"])
      BY <1>1 DEF TimesOut, WakesToNothing, Svc!Expire, Svc!Crash, Svc!Leave, modemVars,
         Shapes, HistFields
  <2> QED BY <2>1, RadioByLeaving DEF SamePlaces
<1>2. CASE Takes(w)
  <2>1. /\ UNCHANGED <<owed, sent, modem, lineUp>>
        /\ at[w] = "waiting" /\ at' = [at EXCEPT ![w] = "out"]
      BY <1>2 DEF Takes, TakesNothing, TakesInvalid, TakesResponse, Svc!Take, Svc!Leave,
         modemVars
  <2>2. ASSUME NEW resp, NEW got, Stored(w, resp, got)
        PROVE  SamePlaces /\ hist'.radioLost = hist.radioLost
    <3>1. job' = [job EXCEPT ![w].resp = resp, ![w].got = got]
          /\ hist'.radioLost = hist.radioLost
        BY <2>2 DEF Stored, Shapes, HistFields
    <3> QED BY <3>1 DEF SamePlaces, Shapes, JobFields
  <2>3. SamePlaces /\ hist'.radioLost = hist.radioLost
      BY <1>2, <2>2 DEF Takes, TakesNothing, TakesInvalid, TakesResponse, SamePlaces
  <2> QED BY <2>1, <2>3, RadioByLeaving
<1> QED BY <1>1, <1>2, RadioSends, RadioRefused DEF Channel

(* The oldest command n is answered or lost.                                 *)
LEMMA RadioByAnswer ==
    ASSUME P!ServiceTypeOK, RadioInv, SamePlaces, at' = at, UNCHANGED <<sent, lineUp>>,
           NEW n \in owed, owed' = owed \ {n},
           \/ CarryOut(sent[n].cmd) /\ hist'.radioLost = hist.radioLost
           \/ /\ modem' = modem
              /\ hist'.radioLost =
                    (hist.radioLost \/ (sent[n].cmd = RadioOn
                                         /\ \A k \in owed : k = n \/ sent[k].cmd # RadioOn)),
           \A k \in owed : n <= k
    PROVE  RadioInv'
<1> DEFINE cmd == sent[n].cmd
<1>1. Switches(cmd)
    BY DEF RadioInv, RadioKnown
<1>2. /\ DOMAIN modem' = {"radio", "format", "act"}
      /\ modem'.radio = "0" => modem.radio = "0" \/ (cmd = RadioOff /\ CarryOut(cmd))
      /\ CarryOut(cmd) /\ cmd = RadioOn => modem'.radio = "1"
    BY <1>1, SwitchArgs DEF CarryOut, RadioInv, RadioKnown, Switches
<1> HIDE DEF cmd
<1>3. RadioKnown'
    BY <1>2 DEF SamePlaces, RadioInv, RadioKnown, HasItOff
<1>4. \A v \in Workers : WillAsk(v) => WillAsk(v)'
    BY DEF SamePlaces, WillAsk, HasItOff
<1>5. OffOrComing' => OffOrComing
    BY <1>2 DEF OffOrComing, cmd
<1>6. ASSUME OnComes, ~OnComes', ~hist'.radioLost PROVE ~OffOrComing'
  <2>1. PICK m \in owed : /\ sent[m].cmd = RadioOn
                          /\ \A k \in owed : sent[k].cmd = RadioOff => k < m
      BY <1>6 DEF OnComes
  <2>2. m = n
      BY <1>6, <2>1 DEF OnComes
  <2>3. cmd = RadioOn
      BY <2>1, <2>2 DEF cmd
  <2>4. \A k \in owed' : sent'[k].cmd # RadioOff
    <3> SUFFICES ASSUME NEW k \in owed, sent[k].cmd = RadioOff PROVE FALSE
        OBVIOUS
    <3>1. k < n /\ n <= k
        BY <2>1, <2>2
    <3>2. k \in Nat /\ n \in Nat
        BY BoundsAssumption DEF P!ServiceTypeOK
    <3> QED BY <3>1, <3>2
  <2>5. CASE CarryOut(cmd)
      BY <1>2, <2>3, <2>4, <2>5 DEF OffOrComing
  <2>6. CASE ~CarryOut(cmd)
    <3>1. PICK k \in owed : k # n /\ sent[k].cmd = RadioOn
        BY <1>6, <2>3, <2>6 DEF cmd
    <3>2. OnComes'
        BY <2>4, <3>1 DEF OnComes
    <3> QED BY <1>6, <3>2
  <2> QED BY <2>5, <2>6
<1>7. hist.radioLost => hist'.radioLost
    OBVIOUS
<1> QED BY <1>3, <1>4, <1>5, <1>6, <1>7 DEF RadioInv, GoesOn

LEMMA RadioModem ==
    ASSUME P!ServiceTypeOK, Shapes, RadioInv, Modem PROVE RadioInv'
<1>1. CASE LineComes \/ Strays \/ Exits
  <2>1. UNCHANGED <<job, at, sent, modem, lineUp, hist>>
      BY <1>1 DEF LineComes, Strays, Exits, Svc!Line, Svc!Final, Svc!Exit, modemVars
  <2>2. owed' = owed
    <3>1. owed' = owed \/ owed' = owed \ {0}
        BY <1>1 DEF LineComes, Strays, Exits, Svc!Line, Svc!Final, Svc!Exit
    <3>2. 0 \notin owed
        BY BoundsAssumption DEF P!ServiceTypeOK
    <3> QED BY <3>1, <3>2
  <2> QED BY <2>1, <2>2 DEF RadioInv, RadioKnown, GoesOn, OffOrComing, OnComes, WillAsk
<1>2. CASE HangsUp
  <2>1. UNCHANGED <<job, at, sent, modem, owed, hist>> /\ ~lineUp'
      BY <1>2 DEF HangsUp, Svc!HangUp, modemVars
  <2> QED BY <2>1 DEF RadioInv, RadioKnown, GoesOn
<1>3. CASE Answers \/ Ignores
  <2>1. UNCHANGED <<at, sent, lineUp>> /\ owed' = owed \ {Oldest}
      BY <1>3 DEF Answers, Ignores, Svc!Final, Svc!Lost
  <2>2. Oldest \in owed /\ \A k \in owed : Oldest <= k
      BY <1>3, OldestIsOwed DEF Answers, Ignores
  <2>3. SamePlaces
    <3>1. CASE job' = job
        BY <3>1 DEF SamePlaces
    <3>2. ASSUME NEW by, NEW x, job' = [job EXCEPT ![by].accepted = x] PROVE SamePlaces
        BY <3>2 DEF SamePlaces, Shapes, JobFields
    <3> QED BY <1>3, <3>1, <3>2 DEF Answers, Ignores
  <2>4. \/ CarryOut(sent[Oldest].cmd) /\ hist'.radioLost = hist.radioLost
        \/ /\ modem' = modem
           /\ hist'.radioLost =
                 (hist.radioLost \/ (sent[Oldest].cmd = RadioOn
                                      /\ \A k \in owed : k = Oldest \/ sent[k].cmd # RadioOn))
      BY <1>3 DEF Answers, Ignores, Missed, LastOn, Shapes, HistFields
  <2> QED BY <2>1, <2>2, <2>3, <2>4, RadioByAnswer
<1> QED BY <1>1, <1>2, <1>3 DEF Modem

LEMMA RadioInit == Init => RadioInv
<1> SUFFICES ASSUME Init PROVE RadioInv
    OBVIOUS
<1>1. /\ modem.radio = "1" /\ DOMAIN modem = {"radio", "format", "act"}
      /\ owed = {} /\ \A w \in Workers : at[w] = "out" /\ job[w].asked = NoCommand
  <2>1. NewJob(Idle).asked = NoCommand
      BY DEF NewJob
  <2> QED BY <2>1 DEF Init, Svc!ServiceInit
<1>2. Switches(NoCommand)
    BY DEF Switches, NoCommand, Command
<1> QED BY <1>1, <1>2 DEF RadioInv, RadioKnown, GoesOn, OffOrComing

LEMMA RadioStep ==
    P!ServiceTypeOK /\ Shapes /\ RadioInv /\ [Next]_vars => RadioInv'
<1> SUFFICES ASSUME P!ServiceTypeOK, Shapes, RadioInv, [Next]_vars PROVE RadioInv'
    OBVIOUS
<1>1. CASE UNCHANGED vars
    BY <1>1 DEF vars, serviceVars, modemVars, RadioInv, RadioKnown, GoesOn, OffOrComing,
       OnComes, WillAsk
<1> QED BY <1>1, RadioRequest, RadioChannel, RadioSimple, RadioPreference, RadioBands,
        RadioNetwork, RadioModem DEF Next

LEMMA ShapesHold == Spec => []Shapes
<1>1. ResponseInv => Shapes
    BY DEF ResponseInv
<1> QED BY <1>1, ResponseCorrect, PTL

(* However many operations overlap, fail and time out, in whatever order the *)
(* late answers come: the radio that they switch off is on again when all is *)
(* done, unless the last AT+CFUN=1 was refused, ignored or answered ERROR.   *)
THEOREM RadioIsBack == Spec => []RadioComesBack
<1>1. RadioInv => RadioComesBack
  <2> SUFFICES ASSUME RadioInv, lineUp, Quiet, modem.radio = "0", ~hist.radioLost
               PROVE  FALSE
      BY DEF RadioComesBack
  <2>1. PICK w \in Workers : WillAsk(w)
      BY DEF RadioInv, GoesOn, OffOrComing, OnComes, Quiet
  <2>2. job[w].op = Idle /\ at[w] = "out"
      BY DEF Quiet, RadioInv, RadioKnown
  <2>3. ~HasItOff(job[w])
      BY <2>2 DEF HasItOff, OffAt, Idle
  <2> QED BY <2>1, <2>2, <2>3 DEF WillAsk
<1>2. P!ServiceTypeOK /\ Shapes /\ RadioInv /\ [Next]_vars => RadioInv'
    BY RadioStep
<1> QED BY <1>1, <1>2, RadioInit, ShapesHold, OperationsUseTheService, PTL DEF Spec

----------------------------------------------------------------------------
(* What the operations say.  The settings a job has yet to report on, those  *)
(* its last call was about, and whether the outcome of that is noted.        *)
Unset(j) ==
    CASE j.op.name = "pref" /\ j.pc \in {"start", "set", "on"} -> {"pref"}
      [] j.op.name = "slot" /\ j.pc \in {"start", "done"} -> {"slot"}
      [] j.op.name = "lock" /\ j.pc \in {"start", "reset", "after reset", "after restore"}
            -> {"lte", "nr"}
      [] j.op.name = "lock" /\ j.pc \in {"lte", "after lte"}
            -> {"lte"} \cup Named(j.op, "some")
      [] j.op.name = "lock" /\ j.pc \in {"nr", "after nr"} -> {"nr"}
      [] OTHER -> {}

Open(j) ==
    \/ j.op.name = "pref" /\ j.pc = "on"
    \/ j.op.name = "slot" /\ j.pc = "done"
    \/ j.op.name = "lock" /\ j.pc \in {"after reset", "after restore", "after lte",
                                       "after nr"}

AskedFor(j) ==
    CASE j.op.name = "pref" -> {"pref"}
      [] j.op.name = "slot" -> {"slot"}
      [] j.op.name = "lock" /\ j.pc \in {"after reset", "after restore"}
            -> Named(j.op, "all")
      [] j.op.name = "lock" /\ j.pc = "after lte" -> {"lte"}
      [] OTHER -> {"nr"}

Planned(j) ==
    /\ DOMAIN j.res = Parts
    /\ \A p \in Unset(j) : j.res[p] = "not done"
    /\ Open(j) => j.keeps /\ j.asked = Setting(AskedFor(j))

PlanInv ==
    \A w \in Workers :
        /\ Planned(job[w])
        /\ at[w] # "out" /\ ~Open(job[w]) => job[w].asked.parts = {}

(* While nothing has gone wrong, the response that is pending is for the     *)
(* worker that waits, and what the modem owes is the rest of it.             *)
OneWaits ==
    /\ pending = P!Nothing => owed = {} /\ \A w \in Workers : at[w] # "waiting"
    /\ pending # P!Nothing =>
          /\ \E w \in Workers : at[w] = "waiting"
          /\ owed = IF pending.done = "no" THEN {pending.num} ELSE {}
    /\ \A w \in Workers :
          at[w] = "waiting" =>
              /\ num[w] = pending.num
              /\ sent[pending.num].by = w /\ sent[pending.num].cmd = job[w].asked

(* What a job says of the settings but those that are open is true.          *)
Settled(j) == \A p \in Parts : j.res[p] = "SUCCESS" <=> p \in j.accepted

Taken(w) ==
    CASE at[w] = "asking" -> FALSE
      [] at[w] = "waiting" -> pending.done = "ok"
      [] OTHER -> ~Failed(w)

Truth(w) ==
    \A p \in Parts :
        IF Open(job[w]) /\ p \in AskedFor(job[w])
        THEN p \in job[w].accepted <=> Taken(w)
        ELSE job[w].res[p] = "SUCCESS" <=> p \in job[w].accepted

TruthInv == PlanInv /\ (Clean => OneWaits /\ \A w \in Workers : Truth(w))

LEMMA AskedIsUnset == ASSUME NEW j, Open(j) PROVE AskedFor(j) \subseteq Unset(j)
<1>1. Named(j.op, "all") \subseteq {"lte", "nr"}
    BY DEF Named
<1> QED BY <1>1 DEF Open, AskedFor, Unset

(* A job that has asked for nothing new, or whose last call failed.          *)
LEMMA SettledUnlessOpen ==
    ASSUME NEW w \in Workers, Truth(w), ~Open(job[w]) PROVE Settled(job[w])
BY DEF Truth, Settled

LEMMA SettledIfFailed ==
    ASSUME NEW w \in Workers, Planned(job[w]), Truth(w), at[w] = "out", Failed(w)
    PROVE  Settled(job[w])
<1> SUFFICES ASSUME NEW p \in Parts
             PROVE  job[w].res[p] = "SUCCESS" <=> p \in job[w].accepted
    BY DEF Settled
<1>1. CASE Open(job[w]) /\ p \in AskedFor(job[w])
  <2>1. job[w].res[p] = "not done"
      BY <1>1, AskedIsUnset DEF Planned
  <2>2. p \notin job[w].accepted
      BY <1>1 DEF Truth, Taken
  <2> QED BY <2>1, <2>2
<1> QED BY <1>1 DEF Truth

(* Noting the outcome settles a job.                                         *)
LEMMA NotingSettles ==
    ASSUME NEW w \in Workers, Truth(w), at[w] = "out", Open(job[w]), NEW k,
           k.accepted = job[w].accepted,
           \A p \in Parts : k.res[p] = IF p \in AskedFor(job[w]) THEN Outcome(w)
                                                                 ELSE job[w].res[p]
    PROVE  Settled(k)
BY DEF Truth, Taken, Settled, Outcome

(* The other workers, as long as they see the same response.                 *)
LEMMA TruthOfOthers ==
    ASSUME NEW v \in Workers, job'[v] = job[v], at'[v] = at[v], ret'[v] = ret[v],
           at[v] = "waiting" => pending'.done = pending.done
    PROVE  Truth(v) <=> Truth(v)'
BY DEF Truth, Taken, Failed

LEMMA TruthByCall ==
    ASSUME P!ServiceTypeOK, Shapes, ~Clean => ~Clean', TruthInv,
           NEW w \in Workers, NEW j, NEW cmd, NEW keep \in BOOLEAN, NEW next,
           Call(w, j, cmd, keep, next), DOMAIN j = JobFields,
           Clean => Settled(j),
           NEW k, k = [j EXCEPT !.pc = next, !.asked = cmd, !.keeps = keep],
           Planned(k), Open(k) \/ cmd.parts = {}
    PROVE  TruthInv'
<1>1. /\ job' = [job EXCEPT ![w] = k] /\ DOMAIN at = Workers /\ DOMAIN ret = Workers
      /\ at' = [at EXCEPT ![w] = "asking"] /\ at[w] = "out"
      /\ ret' = [ret EXCEPT ![w] = Svc!Without("0")] /\ num' = [num EXCEPT ![w] = 0]
      /\ UNCHANGED <<owed, sent, pending>>
    BY DEF Call, Svc!Ask, modemVars, P!ServiceTypeOK
<1>2. /\ job'[w] = k /\ at'[w] = "asking"
      /\ \A v \in Workers : v # w => /\ job'[v] = job[v] /\ at'[v] = at[v]
                                     /\ ret'[v] = ret[v] /\ num'[v] = num[v]
    BY <1>1 DEF Shapes, P!ServiceTypeOK
<1>3. k.res = j.res /\ k.accepted = j.accepted /\ k.asked = cmd /\ DOMAIN k = JobFields
    BY DEF JobFields
<1>4. PlanInv'
  <2> SUFFICES ASSUME NEW v \in Workers
               PROVE  /\ Planned(job'[v])
                      /\ at'[v] # "out" /\ ~Open(job'[v]) => job'[v].asked.parts = {}
      BY DEF PlanInv
  <2>1. CASE v = w
      BY <1>2, <1>3, <2>1
  <2>2. CASE v # w
      BY <1>2, <2>2 DEF TruthInv, PlanInv
  <2> QED BY <2>1, <2>2
<1>5. ASSUME Clean' PROVE OneWaits'
  <2>1. OneWaits
      BY <1>5 DEF TruthInv
  <2>2. \A v \in Workers : at'[v] = "waiting" <=> at[v] = "waiting"
      BY <1>1, <1>2
  <2> QED BY <1>1, <1>2, <2>1, <2>2 DEF OneWaits
<1>6. ASSUME Clean' PROVE Truth(w)'
  <2> SUFFICES ASSUME NEW p \in Parts
               PROVE  IF Open(k) /\ p \in AskedFor(k) THEN p \notin k.accepted
                      ELSE k.res[p] = "SUCCESS" <=> p \in k.accepted
      BY <1>2 DEF Truth, Taken
  <2>1. k.res[p] = "SUCCESS" <=> p \in k.accepted
      BY <1>3, <1>6 DEF Settled
  <2>2. Open(k) /\ p \in AskedFor(k) => k.res[p] = "not done"
      BY AskedIsUnset DEF Planned
  <2> QED BY <2>1, <2>2
<1>7. ASSUME Clean', NEW v \in Workers, v # w PROVE Truth(v)'
    BY <1>1, <1>2, <1>7, TruthOfOthers DEF TruthInv
<1> QED BY <1>4, <1>5, <1>6, <1>7 DEF TruthInv

(* A call about no setting, by a job that has nothing open.                  *)
LEMMA TruthByPlainCall ==
    ASSUME P!ServiceTypeOK, Shapes, ~Clean => ~Clean', TruthInv,
           NEW w \in Workers, NEW j, NEW cmd, NEW keep \in BOOLEAN, NEW next,
           Call(w, j, cmd, keep, next), DOMAIN j = JobFields, cmd.parts = {},
           j.res = job[w].res, j.accepted = job[w].accepted, j.op = job[w].op,
           j.op.name \notin {"pref", "lock", "slot"}
    PROVE  TruthInv'
<1> DEFINE k == [j EXCEPT !.pc = next, !.asked = cmd, !.keeps = keep]
<1>1. k.op = j.op /\ k.res = j.res
    BY DEF JobFields
<1>2. ~Open(job[w]) /\ (\A x : x.op = j.op => ~Open(x) /\ Unset(x) = {})
    BY DEF Open, Unset
<1>3. Planned(k)
    BY <1>1, <1>2 DEF TruthInv, PlanInv, Planned
<1>4. Clean => Settled(j)
    BY <1>2, SettledUnlessOpen DEF TruthInv, Settled
<1> HIDE DEF k
<1> QED BY <1>3, <1>4, TruthByCall DEF k

(* A step of its own that leaves nothing open.                               *)
LEMMA TruthByOwn ==
    ASSUME P!ServiceTypeOK, Shapes, ~Clean => ~Clean', TruthInv, NEW w \in Workers, NEW k,
           job' = [job EXCEPT ![w] = k], UNCHANGED <<at, ret, num, pending, owed, sent>>,
           at[w] = "out", Planned(k), ~Open(k), Clean => Settled(k)
    PROVE  TruthInv'
<1>1. job'[w] = k /\ \A v \in Workers : v # w => job'[v] = job[v]
    BY DEF Shapes
<1>2. PlanInv'
    BY <1>1 DEF TruthInv, PlanInv
<1>3. ASSUME Clean' PROVE OneWaits'
    BY <1>1, <1>3 DEF TruthInv, OneWaits
<1>4. ASSUME Clean' PROVE Truth(w)'
    BY <1>1, <1>4 DEF Truth, Settled
<1>5. ASSUME Clean', NEW v \in Workers, v # w PROVE Truth(v)'
    BY <1>1, <1>5, TruthOfOthers DEF TruthInv
<1> QED BY <1>2, <1>3, <1>4, <1>5 DEF TruthInv

LEMMA TruthByReturn ==
    ASSUME P!ServiceTypeOK, Shapes, ~Clean => ~Clean', TruthInv, NEW w \in Workers, NEW j,
           Return(w, j), at[w] = "out", DOMAIN j = JobFields, DOMAIN j.res = Parts,
           Clean => Settled(j)
    PROVE  TruthInv'
<1> DEFINE k == [j EXCEPT !.op = Idle, !.pc = "start", !.asked = NoCommand,
                          !.keeps = FALSE, !.resp = "null", !.got = {}, !.i = 1]
<1>1. /\ job' = [job EXCEPT ![w] = k]
      /\ UNCHANGED <<at, ret, num, pending, owed, sent>>
    BY DEF Return, Local, serviceVars, modemVars
<1>2. k.op = Idle /\ k.res = j.res /\ k.accepted = j.accepted
    BY DEF JobFields
<1> HIDE DEF k
<1>3. Planned(k) /\ ~Open(k)
    BY <1>2 DEF Planned, Open, Unset, Idle
<1>4. Clean => Settled(k)
    BY <1>2 DEF Settled
<1> QED BY <1>1, <1>3, <1>4, TruthByOwn

LEMMA TruthByStay ==
    ASSUME P!ServiceTypeOK, Shapes, ~Clean => ~Clean', TruthInv, NEW w \in Workers, NEW k,
           Stays(w, k), at[w] = "out", Planned(k), ~Open(k), Clean => Settled(k)
    PROVE  TruthInv'
<1>1. /\ job' = [job EXCEPT ![w] = k]
      /\ UNCHANGED <<at, ret, num, pending, owed, sent>>
    BY DEF Stays, Local, serviceVars, modemVars
<1> QED BY <1>1, TruthByOwn

LEMMA FreeKeepsRes ==
    ASSUME NEW j, DOMAIN j = JobFields
    PROVE  /\ Free(j).res = j.res /\ SafeFree(j).res = j.res
           /\ Free(j).accepted = j.accepted /\ SafeFree(j).accepted = j.accepted
BY DEF Free, SafeFree, JobFields

(* Results that are no outcome of a setting.                                 *)
SameRes(k, j) ==
    /\ DOMAIN k = JobFields /\ k.res = j.res /\ k.accepted = j.accepted /\ k.op = j.op

LEMMA NotesOther ==
    ASSUME NEW j, DOMAIN j = JobFields, NEW p, NEW x
    PROVE  /\ SameRes([j EXCEPT !.bands[p] = x], j) /\ SameRes([j EXCEPT !.isp[p] = x], j)
           /\ SameRes([j EXCEPT !.status = x], j) /\ SameRes(Free(j), j)
           /\ SameRes(SafeFree(j), j) /\ SameRes(j, j)
<1>1. /\ SameRes([j EXCEPT !.bands[p] = x], j) /\ SameRes([j EXCEPT !.isp[p] = x], j)
      /\ SameRes([j EXCEPT !.status = x], j) /\ SameRes(j, j)
    BY DEF SameRes, JobFields
<1> QED BY <1>1, FreeFields, FreeKeepsRes DEF SameRes

LEMMA SameResTwice ==
    ASSUME NEW i, NEW j, NEW k, SameRes(k, j), SameRes(j, i) PROVE SameRes(k, i)
BY DEF SameRes

LEMMA TruthSimple ==
    ASSUME P!ServiceTypeOK, Shapes, ~Clean => ~Clean', TruthInv, NEW w \in Workers, Simple(w)
    PROVE  TruthInv'
<1> USE DEF At, AtQuestion
<1>1. /\ DOMAIN job[w] = JobFields /\ at[w] = "out"
      /\ job[w].op.name \in DOMAIN Questions \cup {"iccid", "sysinfo", "getlock", "slot"}
    BY DEF Shapes, Simple, Ask, AskAgain, Asked, IccidCrashes, SysInfo, SysInfoAsk,
       SysInfoDone, SysInfoAnswered, GetLockBand, GetLockBandNr, GetLockBandDone, SetSlot, SetSlotDone
<1>0. DOMAIN job[w].res = Parts
    BY DEF TruthInv, PlanInv, Planned
<1>2. CASE job[w].op.name # "slot"
  <2>1. job[w].op.name \notin {"pref", "lock", "slot"}
      BY <1>1, <1>2 DEF Questions
  <2>2. Clean => Settled(job[w])
    <3>1. ~Open(job[w])
        BY <2>1 DEF Open
    <3> QED BY <3>1, SettledUnlessOpen DEF TruthInv
  <2>3. ASSUME NEW j, NEW cmd, NEW next, Call(w, j, cmd, TRUE, next), SameRes(j, job[w]),
               OnlyAsks(cmd)
        PROVE  TruthInv'
    <3>1. cmd.parts = {} /\ j.op.name \notin {"pref", "lock", "slot"}
        BY <2>1, <2>3 DEF SameRes, OnlyAsks
    <3> QED BY <2>3, <3>1, TruthByPlainCall DEF SameRes
  <2>4. ASSUME NEW j, Return(w, j) \/ Return(w, SafeFree(j)), SameRes(j, job[w])
        PROVE  TruthInv'
    <3>1. ASSUME NEW i, SameRes(i, job[w]), Return(w, i) PROVE TruthInv'
      <4>1. DOMAIN i = JobFields /\ DOMAIN i.res = Parts /\ (Clean => Settled(i))
          BY <1>0, <2>2, <3>1 DEF SameRes, Settled
      <4> QED BY <1>1, <3>1, <4>1, TruthByReturn
    <3>2. SameRes(SafeFree(j), job[w])
      <4>1. DOMAIN j = JobFields
          BY <2>4 DEF SameRes
      <4> QED BY <2>4, <4>1, NotesOther, SameResTwice
    <3> QED BY <2>4, <3>1, <3>2
  <2>5. SameRes(job[w], job[w]) /\ SameRes(SafeFree(job[w]), job[w])
      BY <1>1, NotesOther
  <2>6. CASE Ask(w) \/ AskAgain(w)
    <3>1. OnlyAsks(QuestionOf(w).first) /\ OnlyAsks(QuestionOf(w).second)
        BY <2>6, QuestionsOnlyAsk DEF QuestionOf, Ask, AskAgain
    <3> QED BY <2>3, <2>5, <2>6, <3>1 DEF Ask, AskAgain
  <2>7. CASE Asked(w)
      BY <2>4, <2>5, <2>7 DEF Asked
  <2>8. CASE IccidCrashes(w)
    <3>1. UNCHANGED <<job, at, ret, num, pending, owed, sent>>
        BY <2>8 DEF IccidCrashes, serviceVars, modemVars
    <3> QED BY <3>1 DEF TruthInv, PlanInv, OneWaits, Truth, Taken, Failed
  <2>9. CASE SysInfo(w) \/ SysInfoAsk(w)
    <3>1. OnlyAsks(AskOperator) /\ OnlyAsks(AfterOperator(w))
        BY OtherQuestions DEF AfterOperator
    <3> QED BY <2>3, <2>5, <2>9, <3>1 DEF SysInfo, SysInfoAsk
  <2>10. CASE SysInfoDone(w)
    <3>1. SameRes(StatusIn(job[w]), job[w])
        BY <1>1, NotesOther DEF StatusIn
    <3> QED BY <2>4, <2>5, <2>10, <3>1 DEF SysInfoDone
  <2>11. \A p : SameRes(BandIn(w, p), job[w])
      BY <1>1, NotesOther DEF BandIn
  <2>12. CASE GetLockBand(w)
      BY <2>3, <2>5, <2>12, OtherQuestions DEF GetLockBand
  <2>13. CASE GetLockBandNr(w)
    <3>1. SameRes(SafeFree(BandIn(w, "lte")), job[w])
        BY <2>11, NotesOther, SameResTwice DEF SameRes
    <3> QED BY <2>3, <2>13, <3>1, OtherQuestions DEF GetLockBandNr
  <2>14. CASE GetLockBandDone(w)
      BY <2>4, <2>11, <2>14 DEF GetLockBandDone
  <2> QED BY <1>2, <2>6, <2>7, <2>8, <2>9, <2>10, <2>12, <2>13, <2>14
          DEF Simple, SetSlot, SetSlotDone
<1>3. CASE job[w].op.name = "slot"
  <2>1. SetSlot(w) \/ SetSlotDone(w)
      BY <1>3 DEF Simple, Ask, AskAgain, Asked, IccidCrashes, SysInfo, SysInfoAsk, SysInfoDone,
         SysInfoAnswered, GetLockBand, GetLockBandNr, GetLockBandDone, Questions
  <2>2. CASE SetSlot(w)
    <3> DEFINE k == [job[w] EXCEPT !.pc = "done", !.asked = Setting({"slot"}), !.keeps = TRUE]
    <3>1. /\ k.op = job[w].op /\ k.pc = "done" /\ k.res = job[w].res /\ k.keeps
          /\ k.asked = Setting({"slot"})
        BY <1>1 DEF JobFields
    <3>2. job[w].pc = "start" /\ Call(w, job[w], Setting({"slot"}), TRUE, "done")
        BY <2>2 DEF SetSlot
    <3> HIDE DEF k
    <3>3. Planned(k) /\ Open(k)
        BY <1>0, <1>3, <3>1, <3>2 DEF Planned, Open, Unset, AskedFor, TruthInv, PlanInv
    <3>4. Clean => Settled(job[w])
      <4>1. ~Open(job[w])
          BY <1>3, <3>2 DEF Open
      <4> QED BY <4>1, SettledUnlessOpen DEF TruthInv
    <3> QED BY <1>1, <3>2, <3>3, <3>4, TruthByCall DEF k
  <2>3. CASE SetSlotDone(w)
    <3> DEFINE j == [job[w] EXCEPT !.res["slot"] = Outcome(w)]
    <3>1. /\ DOMAIN j = JobFields /\ DOMAIN j.res = Parts /\ j.accepted = job[w].accepted
          /\ \A p \in Parts : j.res[p] = IF p \in {"slot"} THEN Outcome(w) ELSE job[w].res[p]
        BY <1>0, <1>1 DEF JobFields, Parts
    <3>2. Return(w, SafeFree(j))
        BY <2>3 DEF SetSlotDone
    <3> HIDE DEF j
    <3>3. Clean => Settled(j)
      <4>1. Open(job[w]) /\ AskedFor(job[w]) = {"slot"}
          BY <1>3, <2>3 DEF Open, AskedFor, SetSlotDone
      <4> QED BY <1>1, <3>1, <4>1, NotingSettles DEF TruthInv
    <3>4. SameRes(SafeFree(j), j)
        BY <3>1, NotesOther
    <3> QED BY <1>1, <3>1, <3>2, <3>3, <3>4, TruthByReturn DEF SameRes, Settled
  <2> QED BY <2>1, <2>2, <2>3
<1> QED BY <1>2, <1>3

LEMMA TruthPreference ==
    ASSUME P!ServiceTypeOK, Shapes, ~Clean => ~Clean', TruthInv,
           NEW w \in Workers, Preference(w)
    PROVE  TruthInv'
<1> USE DEF At
<1>1. /\ DOMAIN job[w] = JobFields /\ at[w] = "out" /\ job[w].op.name = "pref"
      /\ DOMAIN job[w].res = Parts /\ Planned(job[w])
    BY DEF Shapes, Preference, SearchPref, SearchPrefSet, SearchPrefOn, SearchPrefDone,
       TruthInv, PlanInv, Planned
<1>2. job[w].pc # "on" => (Clean => Settled(job[w]))
  <2>1. job[w].pc # "on" => ~Open(job[w])
      BY <1>1 DEF Open
  <2> QED BY <2>1, SettledUnlessOpen DEF TruthInv
<1>3. CASE SearchPref(w)
  <2> DEFINE k == [job[w] EXCEPT !.pc = "set", !.asked = RadioOff, !.keeps = FALSE]
  <2>1. k.op = job[w].op /\ k.pc = "set" /\ k.res = job[w].res
      BY <1>1 DEF JobFields
  <2>2. job[w].pc = "start" /\ Call(w, job[w], RadioOff, FALSE, "set")
      BY <1>3 DEF SearchPref
  <2> HIDE DEF k
  <2>3. Planned(k)
      BY <1>1, <2>1, <2>2 DEF Planned, Open, Unset
  <2>4. RadioOff.parts = {}
      BY CommandNames
  <2> QED BY <1>1, <1>2, <2>2, <2>3, <2>4, TruthByCall DEF k
<1>4. CASE SearchPrefSet(w)
  <2> DEFINE k == [job[w] EXCEPT !.pc = "on", !.asked = Setting({"pref"}), !.keeps = TRUE]
  <2>1. /\ k.op = job[w].op /\ k.pc = "on" /\ k.res = job[w].res /\ k.keeps
        /\ k.asked = Setting({"pref"})
      BY <1>1 DEF JobFields
  <2>2. job[w].pc = "set" /\ Call(w, job[w], Setting({"pref"}), TRUE, "on")
      BY <1>4 DEF SearchPrefSet
  <2> HIDE DEF k
  <2>3. Planned(k) /\ Open(k)
      BY <1>1, <2>1, <2>2 DEF Planned, Open, Unset, AskedFor
  <2> QED BY <1>1, <1>2, <2>2, <2>3, TruthByCall DEF k
<1>5. CASE SearchPrefOn(w)
  <2> DEFINE j == [job[w] EXCEPT !.res["pref"] = Outcome(w)]
             k == [j EXCEPT !.pc = "done", !.asked = RadioOn, !.keeps = FALSE]
  <2>1. /\ DOMAIN j = JobFields /\ DOMAIN j.res = Parts /\ j.accepted = job[w].accepted
        /\ \A p \in Parts : j.res[p] = IF p \in {"pref"} THEN Outcome(w) ELSE job[w].res[p]
        /\ j.op = job[w].op
      BY <1>1 DEF JobFields, Parts
  <2>2. Call(w, j, RadioOn, FALSE, "done") /\ job[w].pc = "on"
      BY <1>5 DEF SearchPrefOn
  <2> HIDE DEF j
  <2>3. Clean => Settled(j)
    <3>1. Open(job[w]) /\ AskedFor(job[w]) = {"pref"}
        BY <1>1, <2>2 DEF Open, AskedFor
    <3> QED BY <1>1, <2>1, <3>1, NotingSettles DEF TruthInv
  <2>4. k.op = j.op /\ k.pc = "done" /\ k.res = j.res
      BY <2>1 DEF JobFields
  <2> HIDE DEF k
  <2>5. Planned(k)
      BY <1>1, <2>1, <2>4 DEF Planned, Open, Unset
  <2>6. RadioOn.parts = {}
      BY CommandNames
  <2> QED BY <2>1, <2>2, <2>3, <2>5, <2>6, TruthByCall DEF k
<1>6. CASE SearchPrefDone(w)
  <2>1. Return(w, SafeFree(job[w])) /\ job[w].pc = "done"
      BY <1>6 DEF SearchPrefDone
  <2>2. SameRes(SafeFree(job[w]), job[w])
      BY <1>1, NotesOther
  <2> QED BY <1>1, <1>2, <2>1, <2>2, TruthByReturn DEF SameRes, Settled
<1> QED BY <1>3, <1>4, <1>5, <1>6 DEF Preference

(* Lock: the bands named "some" are set after those named "all".             *)
LEMMA NextBand ==
    ASSUME NEW k, k.op.name = "lock", NEW done, k.pc = BandStep(k.op, done)
    PROVE  /\ ~Open(k)
           /\ \A p \in Unset(k) : p \in Named(k.op, "some") /\ (p = "lte" => p \notin done)
<1>1. Named(k.op, "some") \subseteq {"lte", "nr"}
    BY DEF Named
<1>2. CASE k.pc = "lte"
    BY <1>1, <1>2 DEF BandStep, Open, Unset
<1>3. CASE k.pc = "nr"
    BY <1>1, <1>3 DEF BandStep, Open, Unset
<1>4. CASE k.pc = "on"
    BY <1>4 DEF Open, Unset
<1> QED BY <1>2, <1>3, <1>4 DEF BandStep

LEMMA TruthBands ==
    ASSUME P!ServiceTypeOK, Shapes, ~Clean => ~Clean', TruthInv,
           NEW w \in Workers, Bands(w)
    PROVE  TruthInv'
<1> USE DEF At
<1> DEFINE o == job[w].op
<1>1. /\ DOMAIN job[w] = JobFields /\ at[w] = "out" /\ o.name = "lock"
      /\ DOMAIN job[w].res = Parts /\ Planned(job[w]) /\ (Clean => Truth(w))
    BY DEF Shapes, Bands, LockBand, LockReset, LockRestore, LockAll, LockPart, LockPartDone,
       LockRadioOn, LockDone, TruthInv, PlanInv, Planned
<1>2. Named(o, "all") \subseteq {"lte", "nr"}
    BY DEF Named
<1>a. AfterPart["lte"] = "after lte" /\ AfterPart["nr"] = "after nr"
    BY DEF AfterPart
<1>3. ASSUME ~Open(job[w]) \/ Failed(w), Clean PROVE Settled(job[w])
    BY <1>1, <1>3, SettledUnlessOpen, SettledIfFailed
<1>4. CASE LockBand(w)
  <2> DEFINE next == IF Named(o, "all") = {} THEN BandStep(o, {}) ELSE "reset"
             k == [job[w] EXCEPT !.pc = next, !.asked = RadioOff, !.keeps = FALSE]
  <2>1. k.op = job[w].op /\ k.pc = next /\ k.res = job[w].res
      BY <1>1 DEF JobFields
  <2>2. job[w].pc = "start" /\ Call(w, job[w], RadioOff, FALSE, next)
      BY <1>4 DEF LockBand
  <2> HIDE DEF k
  <2>3. Unset(job[w]) = {"lte", "nr"} /\ ~Open(job[w])
      BY <1>1, <2>2 DEF Unset, Open
  <2>4. Unset(k) \subseteq {"lte", "nr"} /\ ~Open(k)
    <3>1. CASE next = "reset"
        BY <1>1, <2>1, <3>1 DEF Unset, Open
    <3>2. CASE next = BandStep(o, {})
        BY <1>1, <2>1, <3>2, NextBand DEF Named
    <3> QED BY <3>1, <3>2
  <2>5. Planned(k)
      BY <1>1, <2>1, <2>3, <2>4 DEF Planned
  <2>6. RadioOff.parts = {}
      BY CommandNames
  <2> HIDE DEF next
  <2> QED BY <1>1, <1>3, <2>2, <2>3, <2>5, <2>6, TruthByCall DEF k
<1>5. ASSUME NEW next \in {"after reset", "after restore"},
             Call(w, job[w], Setting(Named(o, "all")), TRUE, next),
             job[w].pc \in {"reset", "after reset"}, job[w].pc = "after reset" => Failed(w)
      PROVE  TruthInv'
  <2> DEFINE k == [job[w] EXCEPT !.pc = next, !.asked = Setting(Named(o, "all")), !.keeps = TRUE]
  <2>1. /\ k.op = job[w].op /\ k.pc = next /\ k.res = job[w].res /\ k.keeps
        /\ k.asked = Setting(Named(o, "all"))
      BY <1>1 DEF JobFields
  <2> HIDE DEF k
  <2>2. Unset(job[w]) = {"lte", "nr"} /\ Unset(k) = {"lte", "nr"} /\ Open(k)
        /\ AskedFor(k) = Named(o, "all")
      BY <1>1, <1>5, <2>1 DEF Unset, Open, AskedFor
  <2>3. Planned(k)
      BY <1>1, <2>1, <2>2 DEF Planned
  <2>4. Clean => Settled(job[w])
      BY <1>1, <1>3, <1>5 DEF Open
  <2> QED BY <1>1, <1>5, <2>2, <2>3, <2>4, TruthByCall DEF k
<1>6. CASE LockReset(w) \/ LockRestore(w)
    BY <1>5, <1>6 DEF LockReset, LockRestore
<1>7. CASE LockAll(w)
  <2> DEFINE r == [p \in Parts |-> IF p \in Named(o, "all") THEN Outcome(w) ELSE job[w].res[p]]
             k == [job[w] EXCEPT !.res = r, !.pc = BandStep(o, {})]
  <2>1. Stays(w, k) /\ job[w].pc \in {"after reset", "after restore"}
      BY <1>7 DEF LockAll
  <2>2. /\ k.op = o /\ k.pc = BandStep(o, {}) /\ k.res = r /\ k.accepted = job[w].accepted
      BY <1>1 DEF JobFields
  <2>3. \A p \in Parts : r[p] = IF p \in Named(o, "all") THEN Outcome(w) ELSE job[w].res[p]
      OBVIOUS
  <2>a. DOMAIN r = Parts
      OBVIOUS
  <2> HIDE DEF k, r
  <2>4. Open(job[w]) /\ AskedFor(job[w]) = Named(o, "all") /\ Unset(job[w]) = {"lte", "nr"}
      BY <1>1, <2>1 DEF Open, AskedFor, Unset
  <2>5. Clean => Settled(k)
      BY <1>1, <2>2, <2>3, <2>4, NotingSettles
  <2>6. ~Open(k) /\ \A p \in Unset(k) : p \in Named(o, "some")
      BY <1>1, <2>2, NextBand
  <2>7. ASSUME NEW p \in Unset(k) PROVE k.res[p] = "not done"
    <3>1. p \in {"lte", "nr"} /\ o[p] = "some"
        BY <2>6 DEF Named
    <3>2. p \notin Named(o, "all") /\ p \in Parts
        BY <3>1 DEF Named, Parts
    <3> QED BY <1>1, <2>2, <2>3, <2>4, <3>1, <3>2 DEF Planned
  <2>8. Planned(k)
      BY <2>2, <2>6, <2>7, <2>a DEF Planned
  <2> QED BY <1>1, <2>1, <2>5, <2>6, <2>8, TruthByStay
<1>8. ASSUME NEW p \in {"lte", "nr"}, LockPart(w, p) PROVE TruthInv'
  <2> DEFINE j == Free(job[w])
             k == [j EXCEPT !.pc = AfterPart[p], !.asked = Setting({p}), !.keeps = TRUE]
  <2>1. SameRes(j, job[w])
      BY <1>1, NotesOther
  <2>2. Call(w, j, Setting({p}), TRUE, AfterPart[p]) /\ job[w].pc = p
      BY <1>8 DEF LockPart
  <2> HIDE DEF j
  <2>3. /\ k.op = o /\ k.pc = AfterPart[p] /\ k.res = job[w].res /\ k.keeps
        /\ k.asked = Setting({p})
      BY <2>1 DEF SameRes, JobFields
  <2> HIDE DEF k
  <2>4. ~Open(job[w])
      BY <1>1, <2>2 DEF Open
  <2>5. Open(k) /\ AskedFor(k) = {p} /\ Unset(k) = Unset(job[w])
    <3>1. CASE p = "lte"
      <4>1. k.pc = "after lte" /\ job[w].pc = "lte" /\ k.op.name = "lock"
          BY <1>1, <1>a, <2>2, <2>3, <3>1
      <4>2. Open(k) /\ AskedFor(k) = {"lte"}
          BY <4>1 DEF Open, AskedFor
      <4>3. Unset(k) = {"lte"} \cup Named(o, "some") /\ Unset(job[w]) = Unset(k)
          BY <1>1, <2>3, <4>1 DEF Unset
      <4> QED BY <3>1, <4>2, <4>3
    <3>2. CASE p = "nr"
      <4>1. k.pc = "after nr" /\ job[w].pc = "nr" /\ k.op.name = "lock"
          BY <1>1, <1>a, <2>2, <2>3, <3>2
      <4>2. Open(k) /\ AskedFor(k) = {"nr"}
          BY <4>1 DEF Open, AskedFor
      <4>3. Unset(k) = {"nr"} /\ Unset(job[w]) = {"nr"}
          BY <1>1, <4>1 DEF Unset
      <4> QED BY <3>2, <4>2, <4>3
    <3> QED BY <3>1, <3>2
  <2>6. Planned(k)
      BY <1>1, <2>3, <2>5 DEF Planned
  <2>7. Clean => Settled(j)
      BY <1>3, <2>1, <2>4 DEF SameRes, Settled
  <2>8. DOMAIN j = JobFields
      BY <2>1 DEF SameRes
  <2> DEFINE next == AfterPart[p]
             cmd == Setting({p})
  <2>9. Call(w, j, cmd, TRUE, next) /\ k = [j EXCEPT !.pc = next, !.asked = cmd, !.keeps = TRUE]
      BY <2>2 DEF k
  <2> HIDE DEF next, cmd
  <2> QED BY <2>5, <2>6, <2>7, <2>8, <2>9, TruthByCall
<1>9. ASSUME NEW p \in {"lte", "nr"}, LockPartDone(w, p) PROVE TruthInv'
  <2> DEFINE j == [job[w] EXCEPT !.res[p] = Outcome(w)]
             k == [job[w] EXCEPT !.res[p] = Outcome(w), !.pc = BandStep(o, {"lte", p})]
  <2>1. Stays(w, k) /\ job[w].pc = AfterPart[p]
      BY <1>9 DEF LockPartDone
  <2>2. /\ k.op = o /\ k.pc = BandStep(o, {"lte", p}) /\ k.accepted = job[w].accepted
        /\ DOMAIN k.res = Parts
        /\ \A q \in Parts : k.res[q] = IF q \in {p} THEN Outcome(w) ELSE job[w].res[q]
      BY <1>1 DEF JobFields, Parts
  <2> HIDE DEF k
  <2>3. Open(job[w]) /\ AskedFor(job[w]) = {p}
    <3>1. \/ job[w].pc = "after lte" /\ p = "lte"
          \/ job[w].pc = "after nr" /\ p = "nr"
      <4>1. CASE p = "lte"
          BY <1>a, <2>1, <4>1
      <4>2. CASE p = "nr"
          BY <1>a, <2>1, <4>2
      <4> QED BY <4>1, <4>2
    <3> QED BY <1>1, <3>1 DEF Open, AskedFor
  <2>4. Clean => Settled(k)
      BY <1>1, <2>2, <2>3, NotingSettles
  <2> DEFINE done == {"lte", p}
  <2>b. k.op.name = "lock" /\ k.pc = BandStep(k.op, done)
      BY <1>1, <2>2
  <2>c. "lte" \in done
      OBVIOUS
  <2> HIDE DEF done
  <2>5. ~Open(k) /\ \A q \in Unset(k) : q \in Named(o, "some") /\ q # "lte"
      BY <2>2, <2>b, <2>c, NextBand
  <2>6. ASSUME NEW q \in Unset(k) PROVE k.res[q] = "not done"
    <3>1. q = "nr" /\ q \in Named(o, "some")
        BY <2>5, <2>6 DEF Named
    <3>2. p # "nr"
      <4> SUFFICES ASSUME p = "nr" PROVE FALSE
          OBVIOUS
      <4>1. k.pc = "on"
          BY <2>2 DEF BandStep
      <4> QED BY <1>1, <2>2, <2>6, <4>1 DEF Unset
    <3>3. q \in Unset(job[w])
      <4>1. job[w].pc = "after lte"
          BY <1>a, <2>1, <3>2
      <4> QED BY <1>1, <3>1, <4>1 DEF Unset
    <3> QED BY <1>1, <2>2, <3>1, <3>2, <3>3 DEF Planned, Parts
  <2>7. Planned(k)
      BY <2>2, <2>5, <2>6 DEF Planned
  <2> QED BY <1>1, <2>1, <2>4, <2>5, <2>7, TruthByStay
<1>10. CASE LockRadioOn(w)
  <2> DEFINE k == [job[w] EXCEPT !.pc = "done", !.asked = RadioOn, !.keeps = FALSE]
  <2>1. k.op = o /\ k.pc = "done" /\ k.res = job[w].res
      BY <1>1 DEF JobFields
  <2>2. job[w].pc = "on" /\ Call(w, job[w], RadioOn, FALSE, "done")
      BY <1>10 DEF LockRadioOn
  <2> HIDE DEF k
  <2>3. Planned(k) /\ ~Open(job[w])
      BY <1>1, <2>1, <2>2 DEF Planned, Open, Unset
  <2>4. RadioOn.parts = {}
      BY CommandNames
  <2> QED BY <1>1, <1>3, <2>2, <2>3, <2>4, TruthByCall DEF k
<1>11. CASE LockDone(w)
  <2>1. Return(w, job[w]) /\ job[w].pc = "done"
      BY <1>11 DEF LockDone
  <2>2. Clean => Settled(job[w])
      BY <1>1, <1>3, <2>1 DEF Open
  <2> QED BY <1>1, <2>1, <2>2, TruthByReturn
<1> QED BY <1>4, <1>6, <1>7, <1>8, <1>9, <1>10, <1>11 DEF Bands

LEMMA TruthNetwork ==
    ASSUME P!ServiceTypeOK, Shapes, ~Clean => ~Clean', TruthInv,
           NEW w \in Workers, Network(w)
    PROVE  TruthInv'
<1> USE DEF At
<1>1. /\ DOMAIN job[w] = JobFields /\ at[w] = "out" /\ DOMAIN job[w].res = Parts
      /\ job[w].op.name \in {"isp", "connect"} /\ (Clean => Truth(w)) /\ Planned(job[w])
    BY DEF Shapes, Network, NetISP, NetISPAsk, NetISPNote, Connect, ConnectAsk, ConnectDefine,
       ConnectUp, ConnectDone, TruthInv, PlanInv, Planned
<1>2. Clean => Settled(job[w])
  <2>1. ~Open(job[w])
      BY <1>1 DEF Open
  <2> QED BY <1>1, <2>1, SettledUnlessOpen
<1>3. ASSUME NEW j, NEW cmd, NEW keep \in BOOLEAN, NEW next, Call(w, j, cmd, keep, next),
             SameRes(j, job[w]), cmd.parts = {}
      PROVE  TruthInv'
  <2>1. j.op.name \notin {"pref", "lock", "slot"}
      BY <1>1, <1>3 DEF SameRes
  <2> QED BY <1>3, <2>1, TruthByPlainCall DEF SameRes
<1>4. ASSUME NEW j, Return(w, j), SameRes(j, job[w]) PROVE TruthInv'
  <2>1. DOMAIN j = JobFields /\ DOMAIN j.res = Parts /\ (Clean => Settled(j))
      BY <1>1, <1>2, <1>4 DEF SameRes, Settled
  <2> QED BY <1>1, <1>4, <2>1, TruthByReturn
<1>5. /\ AskOperator.parts = {} /\ Plain("CGDCONT").parts = {}
      /\ Plain("QNETDEVCTL").parts = {} /\ \A f : Format(f).parts = {}
  <2>1. AskOperator.parts = {}
      BY OtherQuestions DEF OnlyAsks
  <2>2. \A f : Format(f).parts = {}
      BY CommandNames
  <2>3. Plain("CGDCONT").parts = {} /\ Plain("QNETDEVCTL").parts = {}
      BY DEF Plain, Order, Command
  <2> QED BY <2>1, <2>2, <2>3
<1>6. SameRes(job[w], job[w]) /\ SameRes(Free(job[w]), job[w])
    BY <1>1, NotesOther
<1>7. CASE NetISP(w) \/ NetISPAsk(w) \/ Connect(w) \/ ConnectAsk(w)
    BY <1>3, <1>5, <1>6, <1>7 DEF NetISP, NetISPAsk, Connect, ConnectAsk
<1>8. CASE NetISPNote(w)
  <2> DEFINE j == [job[w] EXCEPT !.isp[Formats[job[w].i]] = Operator(w)]
             k == [j EXCEPT !.i = @ + 1, !.pc = "start"]
  <2>1. SameRes(j, job[w])
      BY <1>1, NotesOther
  <2>2. Stays(w, k) \/ Return(w, SafeFree(j))
      BY <1>8 DEF NetISPNote
  <2> HIDE DEF j
  <2>3. SameRes(k, job[w]) /\ SameRes(SafeFree(j), job[w])
    <3>1. SameRes(k, j)
        BY <2>1 DEF SameRes, JobFields
    <3>2. SameRes(SafeFree(j), j)
        BY <2>1, NotesOther DEF SameRes
    <3> QED BY <2>1, <3>1, <3>2, SameResTwice
  <2> HIDE DEF k
  <2>4. ~Open(k) /\ Planned(k) /\ (Clean => Settled(k))
      BY <1>1, <1>2, <2>3 DEF SameRes, Settled, Open, Planned, Unset
  <2> QED BY <1>1, <1>4, <2>2, <2>3, <2>4, TruthByStay
<1>9. CASE ConnectDefine(w)
  <2> DEFINE j == IF job[w].op.apn THEN job[w]
                  ELSE [job[w] EXCEPT !.isp["code"] = Operator(w)]
  <2>1. SameRes(j, job[w])
      BY <1>1, NotesOther
  <2>2. Call(w, Free(j), Plain("CGDCONT"), TRUE, "up")
      BY <1>9 DEF ConnectDefine
  <2> HIDE DEF j
  <2>3. SameRes(Free(j), job[w])
    <3>1. SameRes(Free(j), j)
        BY <2>1, NotesOther DEF SameRes
    <3> QED BY <2>1, <3>1, SameResTwice
  <2> QED BY <1>3, <1>5, <2>2, <2>3
<1>10. CASE ConnectUp(w)
    BY <1>3, <1>5, <1>6, <1>10 DEF ConnectUp
<1>11. CASE ConnectDone(w)
    BY <1>4, <1>6, <1>11 DEF ConnectDone
<1> QED BY <1>7, <1>8, <1>9, <1>10, <1>11 DEF Network

LEMMA TruthRequest ==
    ASSUME P!ServiceTypeOK, Shapes, ~Clean => ~Clean', TruthInv, NEW w \in Workers, Request(w)
    PROVE  TruthInv'
<1>1. PICK o \in Requests : job' = [job EXCEPT ![w] = NewJob(o)]
    BY DEF Request
<1>2. UNCHANGED <<at, ret, num, pending, owed, sent>> /\ at[w] = "out"
    BY DEF Request, serviceVars, modemVars
<1> DEFINE k == NewJob(o)
<1>3. /\ DOMAIN k.res = Parts /\ k.pc = "start" /\ k.accepted = {}
      /\ \A p \in Parts : k.res[p] = "not done"
    BY DEF NewJob, Parts
<1>4. Unset(k) \subseteq Parts
    BY DEF Unset, Parts, Named
<1> HIDE DEF k
<1>5. ~Open(k) \/ (k.op.name = "slot" /\ FALSE)
    BY <1>3 DEF Open
<1>6. Planned(k) /\ Settled(k) /\ ~Open(k)
    BY <1>3, <1>4, <1>5 DEF Planned, Settled
<1> QED BY <1>1, <1>2, <1>6, TruthByOwn DEF k

(* A step after which something has gone wrong has nothing to keep but the   *)
(* plans.                                                                    *)
SamePlans ==
    \A v \in Workers : /\ job'[v].op = job[v].op /\ job'[v].pc = job[v].pc
                       /\ job'[v].asked = job[v].asked /\ job'[v].keeps = job[v].keeps
                       /\ job'[v].res = job[v].res

LEMMA PlansKept ==
    ASSUME PlanInv, SamePlans, \A v \in Workers : at'[v] # "out" => at[v] # "out"
    PROVE  PlanInv'
<1> SUFFICES ASSUME NEW v \in Workers
             PROVE  /\ Planned(job'[v])
                    /\ at'[v] # "out" /\ ~Open(job'[v]) => job'[v].asked.parts = {}
    BY DEF PlanInv
<1>1. Open(job'[v]) = Open(job[v]) /\ AskedFor(job'[v]) = AskedFor(job[v])
      /\ Unset(job'[v]) = Unset(job[v])
    BY DEF SamePlans, Open, AskedFor, Unset
<1>2. Planned(job[v]) /\ (at[v] # "out" /\ ~Open(job[v]) => job[v].asked.parts = {})
    BY DEF PlanInv
<1>3. /\ job'[v].res = job[v].res /\ job'[v].asked = job[v].asked
      /\ job'[v].keeps = job[v].keeps
    BY DEF SamePlans
<1>4. Planned(job'[v])
    BY <1>1, <1>2, <1>3 DEF Planned
<1> QED BY <1>1, <1>2, <1>3, <1>4

LEMMA TruthSends ==
    ASSUME P!ServiceTypeOK, Shapes, ~Clean => ~Clean', TruthInv, NEW w \in Workers, Sends(w)
    PROVE  TruthInv'
<1>1. PICK n \in Numbers :
        /\ Svc!Send(w, n)
        /\ sent' = [k \in Numbers |->
                      IF k = n THEN [by |-> w, cmd |-> job[w].asked]
                      ELSE IF k \in owed THEN sent[k] ELSE Unsent]
    BY DEF Sends
<1>2. sent'[n] = [by |-> w, cmd |-> job[w].asked]
    BY <1>1
<1>3. sent'[n].by = w /\ sent'[n].cmd = job[w].asked
    BY <1>2
<1>4. /\ at[w] = "asking" /\ job' = job /\ ret' = ret
      /\ at' = [at EXCEPT ![w] = "waiting"] /\ num' = [num EXCEPT ![w] = n]
      /\ owed' = owed \cup {n} /\ pending = P!Nothing
      /\ pending' = [P!Nothing EXCEPT !.num = n]
    BY <1>1 DEF Sends, Svc!Send, Svc!Sent, Svc!Nothing, P!Nothing
<1>5. /\ at'[w] = "waiting" /\ num'[w] = n
      /\ \A v \in Workers : v # w => at'[v] = at[v] /\ num'[v] = num[v]
    BY <1>4 DEF P!ServiceTypeOK
<1>6. pending' # P!Nothing /\ pending'.num = n /\ pending'.done = "no"
    BY <1>4, BoundsAssumption DEF P!Nothing
<1>7. PlanInv'
    BY <1>4, <1>5, PlansKept DEF TruthInv, SamePlans
<1>8. ASSUME Clean' PROVE OneWaits' /\ \A v \in Workers : Truth(v)'
  <2>1. owed = {} /\ (\A v \in Workers : at[v] # "waiting") /\ \A v \in Workers : Truth(v)
      BY <1>4, <1>8 DEF TruthInv, OneWaits
  <2>2. OneWaits'
      BY <1>3, <1>4, <1>5, <1>6, <2>1 DEF OneWaits
  <2>3. Truth(w)'
      BY <1>4, <1>5, <1>6, <2>1 DEF Truth, Taken
  <2>4. ASSUME NEW v \in Workers, v # w PROVE Truth(v)'
      BY <1>4, <1>5, <2>1, <2>4, TruthOfOthers
  <2> QED BY <2>2, <2>3, <2>4
<1> QED BY <1>7, <1>8 DEF TruthInv

(* Worker w gets its answer: it is the only one that waits.                  *)
LEMMA TruthTakes ==
    ASSUME P!ServiceTypeOK, Shapes, ~Clean => ~Clean', TruthInv, NEW w \in Workers, Takes(w)
    PROVE  TruthInv'
<1>1. /\ at[w] = "waiting" /\ at' = [at EXCEPT ![w] = "out"] /\ pending' = P!Nothing
      /\ pending.done # "no" /\ UNCHANGED <<owed, sent, num>>
    BY DEF Takes, TakesNothing, TakesInvalid, TakesResponse, Svc!Take, Svc!Leave,
       Svc!Nothing, P!Nothing, modemVars
<1>2. /\ at'[w] = "out"
      /\ \A v \in Workers : v # w => at'[v] = at[v]
    BY <1>1 DEF P!ServiceTypeOK
<1>3. /\ SamePlans /\ \A v \in Workers : job'[v].accepted = job[v].accepted
      /\ \A v \in Workers : v # w => job'[v] = job[v]
  <2>1. ASSUME NEW resp, NEW got, Stored(w, resp, got) PROVE <1>3
    <3>1. job' = [job EXCEPT ![w].resp = resp, ![w].got = got]
        BY <2>1 DEF Stored
    <3> QED BY <3>1 DEF SamePlans, Shapes, JobFields
  <2>2. CASE job' = job
      BY <2>2 DEF SamePlans
  <2> QED BY <2>1, <2>2 DEF Takes, TakesNothing, TakesInvalid, TakesResponse
<1>4. PlanInv'
    BY <1>2, <1>3, PlansKept DEF TruthInv
<1>5. \A v \in Workers : v # w => ret'[v] = ret[v]
    BY DEF Takes, TakesNothing, TakesInvalid, TakesResponse, Svc!Take, Svc!Leave,
       P!ServiceTypeOK
<1>6. ASSUME Clean' PROVE OneWaits' /\ \A v \in Workers : Truth(v)'
  <2>1. OneWaits /\ \A v \in Workers : Truth(v)
      BY <1>6 DEF TruthInv
  <2>2. pending # P!Nothing /\ owed = {}
      BY <1>1, <2>1 DEF OneWaits, P!Nothing
  <2>3. ASSUME NEW v \in Workers, v # w PROVE at[v] # "waiting"
      BY <1>1, <2>1, <2>3 DEF OneWaits
  <2>4. OneWaits'
      BY <1>1, <1>2, <2>2, <2>3 DEF OneWaits
  <2>5. ASSUME NEW v \in Workers, v # w PROVE Truth(v)'
      BY <1>2, <1>3, <1>5, <2>1, <2>3, <2>5, TruthOfOthers
  <2>6. Open(job[w]) => (Failed(w)' <=> pending.done # "ok")
    <3> SUFFICES ASSUME Open(job[w]) PROVE Failed(w)' <=> pending.done # "ok"
        OBVIOUS
    <3>1. job[w].keeps /\ job[w].asked.kind = "NO_RESULT"
      <4>1. \A parts : Setting(parts).kind = "NO_RESULT"
          BY DEF Setting, Order, Command
      <4> QED BY <4>1 DEF TruthInv, PlanInv, Planned
    <3>2. Svc!Take(w, Svc!With(pending))
        BY <3>1 DEF Takes, TakesNothing, TakesInvalid, TakesResponse, Invalid
    <3>3. ret'[w] = Svc!With(pending)
        BY <3>2 DEF Svc!Take, Svc!Leave, P!ServiceTypeOK
    <3> QED BY <3>3 DEF Failed, Svc!With
  <2>7. /\ Open(job'[w]) = Open(job[w]) /\ AskedFor(job'[w]) = AskedFor(job[w])
        /\ job'[w].res = job[w].res /\ job'[w].accepted = job[w].accepted
      BY <1>3 DEF SamePlans, Open, AskedFor
  <2>8. Truth(w)'
      BY <1>1, <1>2, <2>1, <2>6, <2>7 DEF Truth, Taken
  <2> QED BY <2>4, <2>5, <2>8
<1> QED BY <1>4, <1>6 DEF TruthInv

LEMMA TruthChannel ==
    ASSUME P!ServiceTypeOK, Shapes, ~Clean => ~Clean', TruthInv, NEW w \in Workers, Channel(w)
    PROVE  TruthInv'
<1>1. CASE Refused(w) \/ TimesOut(w)
  <2>1. ~Clean'
    <3>1. CASE Svc!Refuse(w) \/ Svc!Expire(w)
        BY <3>1 DEF Svc!Refuse, Svc!Expire, Clean
    <3>2. CASE Svc!Fail(w)
        BY <3>2 DEF Svc!Fail, Svc!Leave, Clean
    <3> QED BY <1>1, <3>1, <3>2 DEF Refused, TimesOut
  <2>2. job' = job /\ at' = [at EXCEPT ![w] = "out"]
      BY <1>1 DEF Refused, TimesOut, Svc!Refuse, Svc!Fail, Svc!Expire, Svc!Leave
  <2>3. PlanInv'
      BY <2>2, PlansKept DEF TruthInv, SamePlans, P!ServiceTypeOK
  <2> QED BY <2>1, <2>3 DEF TruthInv
<1>2. CASE WakesToNothing(w)
  <2>1. UNCHANGED <<job, at, ret, num, pending, owed, sent>>
      BY <1>2 DEF WakesToNothing, Svc!Crash, modemVars
  <2> QED BY <2>1 DEF TruthInv, PlanInv, OneWaits, Truth, Taken, Failed
<1> QED BY <1>1, <1>2, TruthSends, TruthTakes DEF Channel

(* The modem's final line is for the worker that waits, and for its command. *)
LEMMA TruthAnswers ==
    ASSUME P!ServiceTypeOK, Shapes, ~Clean => ~Clean', TruthInv, Answers
    PROVE  TruthInv'
<1> DEFINE by == sent[Oldest].by
           parts == sent[Oldest].cmd.parts
<1>1. PICK done \in {"ok", "error"} :
        /\ Svc!Final(Oldest, done)
        /\ \/ done = "ok" /\ job' = [job EXCEPT ![by].accepted = @ \cup parts]
           \/ done = "error" /\ job' = job
    BY DEF Answers
<1> HIDE DEF by, parts
<1>2. /\ UNCHANGED <<at, num, ret, sent>> /\ owed' = owed \ {Oldest}
      /\ pending' = IF pending = P!Nothing THEN P!Nothing
                    ELSE [pending EXCEPT !.done = done, !.of = Oldest]
    BY <1>1 DEF Answers, Svc!Final, Svc!Nothing, P!Nothing
<1>3. Oldest \in owed
    BY OldestIsOwed DEF Answers
<1>4. SamePlans
    BY <1>1 DEF SamePlans, Shapes, JobFields
<1>5. PlanInv'
    BY <1>2, <1>4, PlansKept DEF TruthInv
<1>6. ASSUME Clean' PROVE OneWaits' /\ \A v \in Workers : Truth(v)'
  <2>1. OneWaits /\ \A v \in Workers : Truth(v)
      BY <1>6 DEF TruthInv
  <2>2. /\ pending # P!Nothing /\ pending.done = "no" /\ Oldest = pending.num
        /\ owed' = {}
      BY <1>2, <1>3, <2>1 DEF OneWaits
  <2>3. pending'.done = done /\ pending'.num = pending.num
      BY <1>2, <2>2 DEF P!ServiceTypeOK
  <2>4. PICK w \in Workers : at[w] = "waiting"
      BY <2>1, <2>2 DEF OneWaits
  <2>5. /\ by = w /\ parts = job[w].asked.parts
        /\ \A v \in Workers : v # w => at[v] # "waiting"
      BY <2>1, <2>2, <2>4 DEF OneWaits, by, parts
  <2>6. pending' # P!Nothing
      BY <2>3, <1>1 DEF P!Nothing
  <2>7. OneWaits'
      BY <1>1, <1>2, <1>4, <2>1, <2>2, <2>3, <2>4, <2>6 DEF OneWaits, SamePlans
  <2>8. /\ \A v \in Workers : v # w => job'[v] = job[v]
        /\ job'[w].accepted = IF done = "ok" THEN job[w].accepted \cup parts
                                             ELSE job[w].accepted
      BY <1>1, <2>5 DEF Shapes, JobFields
  <2>9. ASSUME NEW v \in Workers, v # w PROVE Truth(v)'
      BY <1>2, <2>1, <2>5, <2>8, <2>9, TruthOfOthers
  <2>10. Truth(w)'
    <3>1. /\ Open(job'[w]) = Open(job[w]) /\ AskedFor(job'[w]) = AskedFor(job[w])
          /\ job'[w].res = job[w].res
        BY <1>4 DEF SamePlans, Open, AskedFor
    <3>2. CASE Open(job[w])
      <4>0. job[w].asked = Setting(AskedFor(job[w]))
          BY <2>4, <3>2 DEF TruthInv, PlanInv, Planned
      <4>1. parts = AskedFor(job[w])
          BY <2>5, <4>0, CommandNames
      <4>2. Taken(w)' <=> done = "ok"
          BY <1>2, <2>3, <2>4 DEF Taken
      <4>3. \A p \in AskedFor(job[w]) : p \in Parts => p \notin job[w].accepted
          BY <2>1, <2>2, <2>4, <3>2 DEF Truth, Taken
      <4> QED BY <2>1, <2>8, <3>1, <3>2, <4>1, <4>2, <4>3 DEF Truth
    <3>3. CASE ~Open(job[w])
      <4>1. parts = {}
          BY <2>4, <2>5, <3>3 DEF TruthInv, PlanInv
      <4> QED BY <2>1, <2>8, <3>1, <3>3, <4>1 DEF Truth
    <3> QED BY <3>2, <3>3
  <2> QED BY <2>7, <2>9, <2>10
<1> QED BY <1>5, <1>6 DEF TruthInv

LEMMA TruthModem ==
    ASSUME P!ServiceTypeOK, Shapes, ~Clean => ~Clean', TruthInv, Modem PROVE TruthInv'
<1>1. CASE Ignores \/ Strays \/ HangsUp
  <2>1. ~Clean'
    <3>1. CASE slips' = slips + 1
        BY <3>1 DEF Clean, Shapes
    <3>2. CASE Svc!HangUp
        BY <3>2 DEF Svc!HangUp, Clean
    <3> QED BY <1>1, <3>1, <3>2 DEF Ignores, Strays, HangsUp
  <2>2. job' = job /\ at' = at
      BY <1>1 DEF Ignores, Strays, HangsUp, Svc!Lost, Svc!Final, Svc!HangUp
  <2> QED BY <2>1, <2>2, PlansKept DEF TruthInv, SamePlans
<1>2. CASE Exits
  <2>1. UNCHANGED <<job, at, ret, num, pending, owed, sent>>
      BY <1>2 DEF Exits, Svc!Exit, modemVars
  <2> QED BY <2>1 DEF TruthInv, PlanInv, OneWaits, Truth, Taken, Failed
<1>3. CASE LineComes
  <2>1. PICK kept \in BOOLEAN : Svc!Line(Oldest, kept, FALSE)
      BY <1>3 DEF LineComes
  <2>2. /\ UNCHANGED <<job, at, ret, num, owed, sent>>
        /\ pending' = pending \/ (pending # P!Nothing
                                   /\ pending' = [pending EXCEPT !.from = @ \cup {Oldest}])
      BY <1>3, <2>1 DEF LineComes, Svc!Line, Svc!Nothing, P!Nothing
  <2>3. /\ pending'.done = pending.done /\ pending'.num = pending.num
        /\ pending' = P!Nothing <=> pending = P!Nothing
      BY <2>2, BoundsAssumption DEF P!ServiceTypeOK, P!Nothing
  <2> QED BY <2>2, <2>3 DEF TruthInv, PlanInv, OneWaits, Truth, Taken, Failed
<1> QED BY <1>1, <1>2, <1>3, TruthAnswers DEF Modem

LEMMA TruthInit == Init => TruthInv
<1> SUFFICES ASSUME Init PROVE TruthInv
    OBVIOUS
<1> DEFINE k == NewJob(Idle)
<1>1. /\ DOMAIN k.res = Parts /\ k.op = Idle /\ k.accepted = {}
      /\ \A p \in Parts : k.res[p] = "not done"
    BY DEF NewJob, Parts
<1> HIDE DEF k
<1>2. Idle.name = "idle"
    BY DEF Idle
<1>3. k.op.name = "idle"
    BY <1>1, <1>2
<1>4. ~Open(k) /\ Unset(k) = {}
    BY <1>3 DEF Open, Unset
<1>5. Planned(k) /\ ~Open(k)
    BY <1>1, <1>4 DEF Planned
<1>6. /\ pending = P!Nothing /\ owed = {}
      /\ \A w \in Workers : at[w] = "out" /\ job[w] = k
    BY DEF Init, Svc!ServiceInit, Svc!Nothing, P!Nothing, k
<1> QED BY <1>1, <1>5, <1>6 DEF TruthInv, PlanInv, OneWaits, Truth

LEMMA TruthStep == P!ServiceTypeOK /\ Shapes /\ TruthInv /\ [Next]_vars => TruthInv'
<1> SUFFICES ASSUME P!ServiceTypeOK, Shapes, TruthInv, [Next]_vars PROVE TruthInv'
    OBVIOUS
<1>1. ~Clean => ~Clean'
    BY CleanIsLost
<1>2. CASE UNCHANGED vars
    BY <1>2 DEF vars, serviceVars, modemVars, TruthInv, PlanInv, OneWaits, Truth, Taken,
       Failed, Clean
<1> QED BY <1>1, <1>2, TruthRequest, TruthChannel, TruthSimple, TruthPreference, TruthBands,
        TruthNetwork, TruthModem DEF Next

(* Until a call is refused or times out, an answer is lost or unasked, or    *)
(* the line dies, an operation says SUCCESS of exactly the settings that the *)
(* modem took from it, however many workers run what operations.             *)
THEOREM RepliesAreTrue == Spec => []TruthfulReply
<1>1. TruthInv => TruthfulReply
  <2> SUFFICES ASSUME TruthInv, Clean, NEW w \in Workers, job[w].op = Idle, NEW p \in Parts
               PROVE  job[w].res[p] = "SUCCESS" <=> p \in job[w].accepted
      BY DEF TruthfulReply
  <2>1. ~Open(job[w])
      BY DEF Open, Idle
  <2> QED BY <2>1 DEF TruthInv, Truth
<1> QED BY <1>1, TruthInit, TruthStep, ShapesHold, OperationsUseTheService, PTL DEF Spec
----------------------------------------------------------------------------
(* The lines an operation reads.  A line that begins with head comes in      *)
(* answer to the command called name.                                        *)
Registrations == {"CGREG?", "CEREG?", "C5GREG?"}

RegistrationLines == {"+CGREG:", "+CEREG:", "+C5GREG:"}

RegistrationAsks ==
    {Single("CGREG?", "+CGREG:"), Single("CEREG?", "+CEREG:"), Single("C5GREG?", "+C5GREG:")}

Answering(head, name) ==
    /\ head = "+COPS:" => name = "COPS?"
    /\ head \in RegistrationLines => name \in Registrations
    /\ head = "+QNWPREFCFG: lte" => name = "lte_band"
    /\ head = "+QNWPREFCFG: nr" => name = "nr_band"

(* What a command may be answered with shows what it asked.                  *)
Speaks(cmd) ==
    \A head \in cmd.says : /\ cmd.name # ""
                           /\ Answering(head, cmd.name)
                           /\ head = "+COPS:" => cmd = AskOperator

(* The line t is one that the command cmd asks for.                          *)
Fits(cmd, t) ==
    cmd.kind = "SINGLELINE" => /\ Answering(cmd.prefix, t.of)
                               /\ cmd.prefix = "+COPS:" => t.act = modem.act

(* Where an operation reads lines, it knows what it asked last.              *)
PlacedAt(name, pc, asked, keeps) ==
    /\ name = "sysinfo" /\ pc = "operator" => keeps /\ asked = AskOperator
    /\ name = "sysinfo" /\ pc = "status" => keeps /\ asked \in RegistrationAsks
    /\ name = "getlock" /\ pc = "lte" => keeps /\ asked = AskBand.lte
    /\ name = "getlock" /\ pc = "nr" => keeps /\ asked = AskBand.nr

Placed(j) == PlacedAt(j.op.name, j.pc, j.asked, j.keeps)

KindKnown ==
    /\ "act" \in DOMAIN modem /\ DOMAIN said = Numbers
    /\ \A w \in Workers : Speaks(job[w].asked)
    /\ \A w \in Workers : Placed(job[w])
    /\ \A n \in Numbers : Speaks(sent[n].cmd)

(* The lines that are pending are what the pending command asks for.         *)
Kept ==
    pending # P!Nothing =>
        \A n \in pending.from :
            n # 0 /\ said[n] # Silence /\ Fits(sent[pending.num].cmd, said[n])

(* While no call is refused, a worker that waits does so for what is pending,*)
(* and one whose call succeeded has the line it asked for.                   *)
Own(w) ==
    at[w] = "waiting" => /\ pending # P!Nothing
                         /\ sent[pending.num].by = w
                         /\ sent[pending.num].cmd = job[w].asked

Has(w) ==
    at[w] = "out" /\ job[w].keeps /\ job[w].asked.kind = "SINGLELINE" /\ ~Failed(w) =>
        job[w].got # {} /\ \A t \in job[w].got : Fits(job[w].asked, t)

Told(j) ==
    /\ modem.act \in {"utran", "eutran", "nr", "none"} => j.status # "COPS?"
    /\ j.bands.lte \in {"N/A", "lte_band"}
    /\ j.bands.nr \in {"N/A", "nr_band"}

KindInv ==
    /\ KindKnown /\ Kept
    /\ "refused" \notin upset => \A w \in Workers : Own(w) /\ Has(w) /\ Told(job[w])

LEMMA KindUnchanged ==
    ASSUME KindInv, UNCHANGED <<job, at, ret, pending, upset, sent, said, modem>>
    PROVE  KindInv'
<1>1. (\A cmd : Speaks(cmd)' = Speaks(cmd)) /\ \A cmd, t : Fits(cmd, t)' = Fits(cmd, t)
    BY DEF Speaks, Fits
<1>2. KindKnown'
    BY DEF KindInv, KindKnown, Placed, Speaks
<1>3. Kept'
    BY DEF KindInv, Kept, Fits
<1>4. ASSUME "refused" \notin upset', NEW v \in Workers
      PROVE  Own(v)' /\ Has(v)' /\ Told(job[v])'
  <2>1. Own(v) /\ Has(v) /\ Told(job[v])
      BY <1>4 DEF KindInv
  <2> QED BY <2>1 DEF Own, Has, Told, Failed, Fits
<1> QED BY <1>2, <1>3, <1>4 DEF KindInv

LEMMA KindByStep ==
    ASSUME P!ServiceTypeOK, Shapes, KindInv, NEW w \in Workers, NEW k,
           job' = [job EXCEPT ![w] = k], UNCHANGED <<sent, said, modem, pending, upset>>,
           at'[w] \in {"out", "asking"},
           \A v \in Workers : v # w => at'[v] = at[v] /\ ret'[v] = ret[v],
           Speaks(k.asked), Placed(k), "refused" \notin upset => Told(k),
           at'[w] = "out" => \/ ~k.keeps
                             \/ /\ ret'[w] = ret[w] /\ at[w] = "out"
                                /\ k.asked = job[w].asked /\ k.keeps = job[w].keeps
                                /\ k.got = job[w].got
    PROVE  KindInv'
<1>1. job'[w] = k /\ \A v \in Workers : v # w => job'[v] = job[v]
    BY DEF Shapes
<1>2. KindKnown'
  <2>1. \A v \in Workers : Speaks(job[v].asked)'
      BY <1>1, ZenonT(30) DEF KindInv, KindKnown, Speaks
  <2>2. \A v \in Workers : Placed(job[v])'
      BY <1>1 DEF KindInv, KindKnown, Placed
  <2> QED BY <2>1, <2>2 DEF KindInv, KindKnown, Speaks
<1>3. Kept'
    BY DEF KindInv, Kept, Fits
<1>4. ASSUME "refused" \notin upset', NEW v \in Workers
      PROVE  Own(v)' /\ Has(v)' /\ Told(job[v])'
  <2>1. Own(v) /\ Has(v) /\ Told(job[v])
      BY <1>4 DEF KindInv
  <2>2. CASE v # w
      BY <1>1, <2>1, <2>2 DEF Own, Has, Told, Failed, Fits
  <2>3. CASE v = w
    <3>1. Own(w)' /\ Told(job[w])'
        BY <1>1, <1>4 DEF Own, Told
    <3>2. CASE ret'[w] = ret[w] /\ at[w] = "out"
               /\ k.asked = job[w].asked /\ k.keeps = job[w].keeps /\ k.got = job[w].got
      <4>1. Failed(w)' = Failed(w)
          BY <3>2 DEF Failed
      <4>2. \A cmd, t : Fits(cmd, t)' = Fits(cmd, t)
          BY DEF Fits
      <4>3. job'[w].asked = job[w].asked /\ job'[w].keeps = job[w].keeps
            /\ job'[w].got = job[w].got
          BY <1>1, <3>2
      <4> QED BY <2>1, <2>3, <3>1, <3>2, <4>1, <4>2, <4>3 DEF Has, Fits
    <3>3. CASE at'[w] # "out" \/ ~k.keeps
        BY <1>1, <2>3, <3>1, <3>3 DEF Has
    <3> QED BY <3>2, <3>3
  <2> QED BY <2>2, <2>3
<1> QED BY <1>2, <1>3, <1>4 DEF KindInv

LEMMA KindByCall ==
    ASSUME P!ServiceTypeOK, Shapes, KindInv, NEW w \in Workers, NEW j, NEW cmd,
           NEW keep \in BOOLEAN, NEW next, Call(w, j, cmd, keep, next),
           DOMAIN j = JobFields, Speaks(cmd), PlacedAt(j.op.name, next, cmd, keep),
           "refused" \notin upset => Told(j)
    PROVE  KindInv'
<1> DEFINE k == [j EXCEPT !.pc = next, !.asked = cmd, !.keeps = keep]
<1>1. /\ job' = [job EXCEPT ![w] = k] /\ DOMAIN at = Workers /\ DOMAIN ret = Workers
      /\ at' = [at EXCEPT ![w] = "asking"] /\ ret' = [ret EXCEPT ![w] = Svc!Without("0")]
      /\ UNCHANGED <<sent, said, modem, pending, upset>>
    BY DEF Call, Svc!Ask, modemVars, P!ServiceTypeOK
<1>2. /\ k.op = j.op /\ k.pc = next /\ k.asked = cmd /\ k.keeps = keep
      /\ k.status = j.status /\ k.bands = j.bands
    BY DEF JobFields
<1> HIDE DEF k
<1>3. /\ at'[w] = "asking"
      /\ \A v \in Workers : v # w => at'[v] = at[v] /\ ret'[v] = ret[v]
    BY <1>1
<1>4. Speaks(k.asked) /\ Placed(k) /\ ("refused" \notin upset => Told(k))
    BY <1>2 DEF Placed, Told
<1> QED BY <1>1, <1>3, <1>4, KindByStep

LEMMA KindByReturn ==
    ASSUME P!ServiceTypeOK, Shapes, KindInv, NEW w \in Workers, NEW j, Return(w, j),
           at[w] = "out", DOMAIN j = JobFields, "refused" \notin upset => Told(j)
    PROVE  KindInv'
<1> DEFINE k == [j EXCEPT !.op = Idle, !.pc = "start", !.asked = NoCommand,
                          !.keeps = FALSE, !.resp = "null", !.got = {}, !.i = 1]
<1>1. /\ job' = [job EXCEPT ![w] = k] /\ at' = at /\ ret' = ret
      /\ UNCHANGED <<sent, said, modem, pending, upset>>
    BY DEF Return, Local, serviceVars, modemVars
<1>2. /\ k.pc = "start" /\ k.asked = NoCommand /\ ~k.keeps
      /\ k.status = j.status /\ k.bands = j.bands
    BY DEF JobFields
<1> HIDE DEF k
<1>3. Speaks(NoCommand)
    BY DEF Speaks, NoCommand, Command
<1>4. Placed(k)
    BY <1>2 DEF Placed, PlacedAt
<1>5. "refused" \notin upset => Told(k)
    BY <1>2 DEF Told
<1> QED BY <1>1, <1>2, <1>3, <1>4, <1>5, KindByStep

(* What an operation was told is the same in both.                           *)
SameTold(k, j) ==
    /\ DOMAIN k = JobFields /\ k.op = j.op /\ k.status = j.status /\ k.bands = j.bands

LEMMA TellsNothing ==
    ASSUME NEW j, DOMAIN j = JobFields, NEW p, NEW x
    PROVE  /\ SameTold([j EXCEPT !.res[p] = x], j) /\ SameTold([j EXCEPT !.isp[p] = x], j)
           /\ SameTold(Free(j), j) /\ SameTold(SafeFree(j), j) /\ SameTold(j, j)
BY DEF SameTold, Free, SafeFree, JobFields

LEMMA SameToldTwice ==
    ASSUME NEW i, NEW j, NEW k, SameTold(k, j), SameTold(j, i) PROVE SameTold(k, i)
BY DEF SameTold

LEMMA ToldTheSame ==
    ASSUME NEW j, NEW k, SameTold(k, j), Told(j) PROVE Told(k)
BY DEF SameTold, Told

(* Steps of operations that read neither a status nor bands.                 *)
LEMMA KindByOther ==
    ASSUME P!ServiceTypeOK, Shapes, KindInv, NEW w \in Workers, at[w] = "out",
           job[w].op.name \notin {"sysinfo", "getlock"}, NEW j, SameTold(j, job[w]),
           \/ Return(w, j)
           \/ Stays(w, j) /\ j.asked = job[w].asked /\ j.keeps = job[w].keeps
                          /\ j.got = job[w].got
           \/ \E cmd, next : \E keep \in BOOLEAN : Speaks(cmd) /\ Call(w, j, cmd, keep, next)
    PROVE  KindInv'
<1>1. DOMAIN j = JobFields /\ j.op.name \notin {"sysinfo", "getlock"}
    BY DEF SameTold
<1>2. "refused" \notin upset => Told(j)
  <2>1. "refused" \notin upset => Told(job[w])
      BY DEF KindInv
  <2> QED BY <2>1, ToldTheSame
<1>3. CASE Return(w, j)
    BY <1>1, <1>2, <1>3, KindByReturn
<1>4. CASE Stays(w, j) /\ j.asked = job[w].asked /\ j.keeps = job[w].keeps
                       /\ j.got = job[w].got
  <2>1. /\ job' = [job EXCEPT ![w] = j] /\ at' = at /\ ret' = ret
        /\ UNCHANGED <<sent, said, modem, pending, upset>>
      BY <1>4 DEF Stays, Local, serviceVars, modemVars
  <2>2. Placed(j) /\ Speaks(j.asked)
      BY <1>1, <1>4 DEF Placed, PlacedAt, KindInv, KindKnown
  <2> QED BY <1>2, <1>4, <2>1, <2>2, KindByStep
<1>5. ASSUME NEW cmd, NEW next, NEW keep \in BOOLEAN, Speaks(cmd), Call(w, j, cmd, keep, next)
      PROVE  KindInv'
  <2>1. PlacedAt(j.op.name, next, cmd, keep)
      BY <1>1 DEF PlacedAt
  <2> QED BY <1>1, <1>2, <1>5, <2>1, KindByCall
<1> QED BY <1>3, <1>4, <1>5

(* A command for which no line comes, and one whose lines are its own.       *)
LEMMA OrdersAreMute ==
    /\ Speaks(NoCommand) /\ Speaks(RadioOff) /\ Speaks(RadioOn)
    /\ Speaks(Plain("CGDCONT")) /\ Speaks(Plain("QNETDEVCTL"))
    /\ \A f : Speaks(Format(f))
    /\ \A parts : Speaks(Setting(parts))
BY DEF Speaks, NoCommand, RadioOff, RadioOn, Radio, Plain, Format, Setting, Order, Command

Special == RegistrationLines \cup {"+COPS:", "+QNWPREFCFG: lte", "+QNWPREFCFG: nr"}

LEMMA OtherLines ==
    ASSUME NEW name, name # "", NEW prefix, prefix \notin Special
    PROVE  Speaks(Single(name, prefix)) /\ Speaks(Multi(name, prefix)) /\ Speaks(Numeric(name))
<1>1. /\ Single(name, prefix).name = name /\ Multi(name, prefix).name = name
      /\ Numeric(name).name = name
    BY CommandNames
<1>2. /\ Single(name, prefix).says \subseteq {"text", prefix}
      /\ Multi(name, prefix).says \subseteq {"text", prefix}
      /\ Numeric(name).says = {"digits"}
    BY DEF Single, Multi, Numeric, Command
<1>3. \A head \in {"text", "digits", prefix} : head # "+COPS:" /\ Answering(head, name)
    BY DEF Answering, Special, RegistrationLines
<1> QED BY <1>1, <1>2, <1>3 DEF Speaks

LEMMA SpecialQuestions ==
    /\ Speaks(AskOperator) /\ Speaks(AskBand.lte) /\ Speaks(AskBand.nr)
    /\ \A cmd \in RegistrationAsks : Speaks(cmd)
<1>1. Speaks(AskOperator)
    BY DEF Speaks, AskOperator, Single, Command, Answering, RegistrationLines
<1>2. Speaks(AskBand.lte) /\ Speaks(AskBand.nr)
    BY DEF Speaks, AskBand, Single, Command, Answering, RegistrationLines
<1>3. /\ Speaks(Single("CGREG?", "+CGREG:")) /\ Speaks(Single("CEREG?", "+CEREG:"))
      /\ Speaks(Single("C5GREG?", "+C5GREG:"))
    BY DEF Speaks, Single, Command, Answering, RegistrationLines, Registrations
<1> QED BY <1>1, <1>2, <1>3 DEF RegistrationAsks

LEMMA RegistrationQuestions ==
    /\ \A cmd \in RegistrationAsks : cmd.kind = "SINGLELINE"
    /\ \A cmd \in RegistrationAsks : cmd.prefix \in RegistrationLines
    /\ NoCommand \notin RegistrationAsks
<1> DEFINE Fine(cmd) == cmd.kind = "SINGLELINE" /\ cmd.prefix \in RegistrationLines
<1>1. /\ Fine(Single("CGREG?", "+CGREG:")) /\ Fine(Single("CEREG?", "+CEREG:"))
      /\ Fine(Single("C5GREG?", "+C5GREG:"))
    BY DEF RegistrationLines, Single, Command
<1>2. NoCommand.kind # "SINGLELINE"
    BY DEF NoCommand, Command
<1>3. \A cmd \in RegistrationAsks : Fine(cmd)
  <2> HIDE DEF Fine
  <2> QED BY <1>1 DEF RegistrationAsks
<1> QED BY <1>2, <1>3

LEMMA QuestionsSpeak ==
    \A name \in DOMAIN Questions : /\ Speaks(Questions[name].first)
                                   /\ Speaks(Questions[name].second)
<1> DEFINE Fine(q) == Speaks(q.first) /\ Speaks(q.second)
<1>1. \A cmd, frees : Speaks(cmd) => Fine(Question(cmd, frees))
    BY OrdersAreMute DEF Question
<1>2. \A cmd, frees, c :
         Speaks(cmd) /\ Speaks(c) => Fine([Question(cmd, frees) EXCEPT !.second = c])
    BY DEF Question
<1> HIDE DEF Fine
<1>3. "" \notin Special /\ {"+CPIN:", "+QUIMSLOT:", "+CNUM:", "+QENG:", "+QCFG:", "+CGPADDR:",
                            "+QNWPREFCFG: mode", "+GSN:", "+TEMP:", "+QTEMP:"} \cap Special = {}
    BY DEF Special, RegistrationLines
<1>4. /\ Speaks(Single("GMI", "")) /\ Speaks(Single("GMM", ""))
      /\ Speaks(Single("GMR", "")) /\ Speaks(Single("ICCID", ""))
      /\ Speaks(Single("CCID", "")) /\ Speaks(Multi("raw", ""))
    BY DEF Speaks, Single, Multi, Command, Answering, RegistrationLines
<1>5. Fine(GMI) /\ Fine(GMM) /\ Fine(GMR) /\ Fine(AtRaw)
    BY <1>1, <1>4, Zenon DEF GMI, GMM, GMR, AtRaw
<1>6. Fine(SIMICCID)
    BY <1>2, <1>4, Zenon DEF SIMICCID
<1>7. /\ Speaks(Single("CPIN?", "+CPIN:")) /\ Speaks(Single("QUIMSLOT?", "+QUIMSLOT:"))
      /\ Speaks(Single("CNUM", "+CNUM:")) /\ Speaks(Multi("qeng", "+QENG:"))
      /\ Speaks(Single("QCFG", "+QCFG:")) /\ Speaks(Multi("CGPADDR", "+CGPADDR:"))
      /\ Speaks(Single("mode_pref", "+QNWPREFCFG: mode"))
      /\ Speaks(Single("GSN", "+GSN:")) /\ Speaks(Single("TEMP", "+TEMP:"))
      /\ Speaks(Multi("QTEMP", "+QTEMP:"))
    BY <1>3, OtherLines
<1>8. Speaks(Numeric("CIMI")) /\ Speaks(Numeric("GSN"))
    BY DEF Speaks, Numeric, Command, Answering, RegistrationLines
<1>9. Fine(SIMStatus) /\ Fine(SIMSlot) /\ Fine(SIMIMSI) /\ Fine(SIMNUM) /\ Fine(NetSignal)
    BY <1>1, <1>7, <1>8, Zenon DEF SIMStatus, SIMSlot, SIMIMSI, SIMNUM, NetSignal
<1>10. Fine(NetCellInfo) /\ Fine(EtherNetMode) /\ Fine(NetWorkSearchPref) /\ Fine(IpAddress)
    BY <1>1, <1>7, Zenon DEF NetCellInfo, EtherNetMode, NetWorkSearchPref, IpAddress
<1>11. Fine(GSN) /\ Fine(Temperature)
    BY <1>2, <1>7, <1>8, Zenon DEF GSN, Temperature
<1>12. \A name \in DOMAIN Questions : Fine(Questions[name])
    BY <1>5, <1>6, <1>9, <1>10, <1>11 DEF Questions
<1> QED BY <1>12 DEF Fine

(* Questions, and the SIM slot: nothing is told of the status or of bands.   *)
LEMMA KindQuestions ==
    ASSUME P!ServiceTypeOK, Shapes, KindInv, NEW w \in Workers,
           Ask(w) \/ AskAgain(w) \/ Asked(w) \/ IccidCrashes(w) \/ SetSlot(w) \/ SetSlotDone(w)
    PROVE  KindInv'
<1> USE DEF At, AtQuestion
<1>1. /\ DOMAIN job[w] = JobFields /\ at[w] = "out"
      /\ job[w].op.name \in DOMAIN Questions \cup {"iccid", "slot"}
    BY DEF Shapes, Ask, AskAgain, Asked, IccidCrashes, SetSlot, SetSlotDone
<1>2. job[w].op.name \notin {"sysinfo", "getlock"}
    BY <1>1 DEF Questions
<1>3. SameTold(job[w], job[w]) /\ SameTold(SafeFree(job[w]), job[w])
    BY <1>1, TellsNothing
<1>4. CASE Ask(w) \/ AskAgain(w)
  <2>1. Speaks(QuestionOf(w).first) /\ Speaks(QuestionOf(w).second)
      BY <1>4, QuestionsSpeak DEF QuestionOf, Ask, AskAgain
  <2>2. CASE Ask(w)
      BY <1>1, <1>2, <1>3, <2>1, <2>2, KindByOther DEF Ask
  <2>3. CASE AskAgain(w)
      BY <1>1, <1>2, <1>3, <2>1, <2>3, KindByOther DEF AskAgain
  <2> QED BY <1>4, <2>2, <2>3
<1>5. CASE Asked(w)
  <2>1. Return(w, SafeFree(job[w])) \/ Return(w, job[w])
      BY <1>5 DEF Asked
  <2> QED BY <1>1, <1>2, <1>3, <2>1, KindByOther
<1>6. CASE IccidCrashes(w)
  <2>1. UNCHANGED <<job, at, ret, pending, upset, sent, said, modem>>
      BY <1>6 DEF IccidCrashes, serviceVars, modemVars
  <2> QED BY <2>1, KindUnchanged
<1>7. CASE SetSlot(w)
  <2>1. Speaks(Setting({"slot"})) /\ Call(w, job[w], Setting({"slot"}), TRUE, "done")
      BY <1>7, OrdersAreMute DEF SetSlot
  <2> QED BY <1>1, <1>2, <1>3, <2>1, KindByOther
<1>8. CASE SetSlotDone(w)
  <2> DEFINE j == [job[w] EXCEPT !.res["slot"] = Outcome(w)]
  <2>1. SameTold(j, job[w])
      BY <1>1, TellsNothing
  <2>2. Return(w, SafeFree(j))
      BY <1>8 DEF SetSlotDone
  <2> HIDE DEF j
  <2>3. SameTold(SafeFree(j), job[w])
    <3>1. SameTold(SafeFree(j), j)
        BY <2>1, TellsNothing DEF SameTold
    <3> QED BY <2>1, <3>1, SameToldTwice
  <2> QED BY <1>1, <1>2, <2>2, <2>3, KindByOther
<1> QED BY <1>4, <1>5, <1>6, <1>7, <1>8

(* The registration: the line is an answer to what was asked last.           *)
LEMMA KindSysInfo ==
    ASSUME P!ServiceTypeOK, Shapes, KindInv, NEW w \in Workers,
           SysInfo(w) \/ SysInfoAsk(w) \/ SysInfoDone(w)
    PROVE  KindInv'
<1> USE DEF At
<1>1. DOMAIN job[w] = JobFields /\ at[w] = "out" /\ job[w].op.name = "sysinfo"
    BY DEF Shapes, SysInfo, SysInfoAsk, SysInfoDone, SysInfoAnswered
<1>2. "refused" \notin upset => Told(job[w]) /\ Has(w)
    BY DEF KindInv
<1>3. \A act : Registration(act) \in RegistrationAsks \cup {NoCommand}
    BY DEF Registration, RegistrationAsks
<1>4. NoCommand \notin RegistrationAsks
    BY RegistrationQuestions
<1>5. CASE SysInfo(w)
  <2>1. PlacedAt("sysinfo", "operator", AskOperator, TRUE)
      BY DEF PlacedAt
  <2> QED BY <1>1, <1>2, <1>5, <2>1, SpecialQuestions, KindByCall DEF SysInfo
<1>6. CASE SysInfoAsk(w)
  <2> DEFINE cmd == AfterOperator(w)
  <2>1. cmd \in RegistrationAsks /\ Call(w, job[w], cmd, TRUE, "status")
      BY <1>3, <1>6 DEF SysInfoAsk, AfterOperator
  <2> HIDE DEF cmd
  <2>2. PlacedAt("sysinfo", "status", cmd, TRUE)
      BY <2>1 DEF PlacedAt
  <2> QED BY <1>1, <1>2, <2>1, <2>2, SpecialQuestions, KindByCall
<1>7. ASSUME NEW j, SameTold(j, job[w]), Return(w, j) PROVE KindInv'
  <2>1. DOMAIN j = JobFields /\ ("refused" \notin upset => Told(j))
      BY <1>2, <1>7, ToldTheSame DEF SameTold
  <2> QED BY <1>1, <1>7, <2>1, KindByReturn
<1>8. CASE ~Failed(w) /\ ActOf(job[w]) # "none" /\ SysInfoAnswered(w)
           /\ Return(w, SafeFree(StatusIn(job[w])))
  <2> DEFINE j == StatusIn(job[w])
             t == CHOOSE t \in job[w].got : TRUE
  <2>1. DOMAIN j = JobFields /\ j.status = t.of /\ j.bands = job[w].bands
      BY <1>1 DEF StatusIn, JobFields
  <2>2. ActOf(job[w]) = t.act
      BY DEF ActOf
  <2>3. PlacedAt("sysinfo", job[w].pc, job[w].asked, job[w].keeps)
      BY <1>1 DEF KindInv, KindKnown, Placed
  <2> HIDE DEF j
  <2>4. ASSUME "refused" \notin upset PROVE Told(j)
    <3>1. ASSUME job[w].keeps, job[w].asked.kind = "SINGLELINE"
          PROVE  t \in job[w].got /\ Fits(job[w].asked, t)
        BY <1>1, <1>2, <1>8, <2>4, <3>1 DEF Has
    <3> HIDE DEF t
    <3>2. CASE job[w].pc = "operator"
      <4>1. job[w].asked = AskOperator /\ job[w].keeps
          BY <2>3, <3>2 DEF PlacedAt
      <4>2. AskOperator.kind = "SINGLELINE" /\ AskOperator.prefix = "+COPS:"
          BY DEF AskOperator, Single, Command
      <4>3. t.act = modem.act
          BY <3>1, <4>1, <4>2 DEF Fits
      <4>4. Registration(modem.act) = NoCommand
          BY <1>8, <2>2, <3>2, <4>3 DEF SysInfoAnswered, AfterOperator
      <4>5. \A a \in {"utran", "eutran", "nr"} : Registration(a) \in RegistrationAsks
          BY DEF Registration, RegistrationAsks
      <4>6. modem.act \notin {"utran", "eutran", "nr", "none"}
          BY <1>4, <1>8, <2>2, <4>3, <4>4, <4>5
      <4> QED BY <1>2, <2>1, <2>4, <4>6 DEF Told
    <3>3. CASE job[w].pc = "status"
      <4>1. job[w].asked \in RegistrationAsks /\ job[w].keeps
          BY <2>3, <3>3 DEF PlacedAt
      <4>3. t.of \in Registrations
          BY <3>1, <4>1, RegistrationQuestions DEF Fits, Answering
      <4>4. t.of # "COPS?"
          BY <4>3 DEF Registrations
      <4> QED BY <1>2, <2>1, <2>4, <4>4 DEF Told
    <3> QED BY <1>8, <3>2, <3>3 DEF SysInfoAnswered
  <2>5. SameTold(SafeFree(j), j)
      BY <2>1, TellsNothing
  <2>6. DOMAIN SafeFree(j) = JobFields /\ ("refused" \notin upset => Told(SafeFree(j)))
      BY <2>4, <2>5, ToldTheSame DEF SameTold
  <2>7. Return(w, SafeFree(j))
      BY <1>8 DEF j
  <2> QED BY <1>1, <2>6, <2>7, KindByReturn
<1>9. SameTold(SafeFree(job[w]), job[w])
    BY <1>1, TellsNothing
<1> QED BY <1>5, <1>6, <1>7, <1>8, <1>9 DEF SysInfoDone

LEMMA KindBandsRead ==
    ASSUME P!ServiceTypeOK, Shapes, KindInv, NEW w \in Workers,
           GetLockBand(w) \/ GetLockBandNr(w) \/ GetLockBandDone(w)
    PROVE  KindInv'
<1> USE DEF At
<1>1. DOMAIN job[w] = JobFields /\ at[w] = "out" /\ job[w].op.name = "getlock"
    BY DEF Shapes, GetLockBand, GetLockBandNr, GetLockBandDone
<1>2. "refused" \notin upset => Told(job[w]) /\ Has(w)
    BY DEF KindInv
<1>3. /\ AskBand.lte.kind = "SINGLELINE" /\ AskBand.lte.prefix = "+QNWPREFCFG: lte"
      /\ AskBand.nr.kind = "SINGLELINE" /\ AskBand.nr.prefix = "+QNWPREFCFG: nr"
    BY DEF AskBand, Single, Command
<1>4. PlacedAt("getlock", job[w].pc, job[w].asked, job[w].keeps)
    BY <1>1 DEF KindInv, KindKnown, Placed
<1> DEFINE t == CHOOSE t \in job[w].got : TRUE
<1>5. ASSUME NEW p \in {"lte", "nr"}, job[w].pc = p
      PROVE  /\ DOMAIN BandIn(w, p) = JobFields /\ BandIn(w, p).op = job[w].op
             /\ "refused" \notin upset => Told(BandIn(w, p))
  <2>1. CASE Failed(w)
      BY <1>1, <1>2, <2>1 DEF BandIn
  <2>2. CASE ~Failed(w)
    <3> DEFINE k == [job[w] EXCEPT !.bands[p] = t.of]
    <3>1. BandIn(w, p) = k
        BY <2>2 DEF BandIn
    <3>2. /\ DOMAIN k = JobFields /\ k.op = job[w].op /\ k.status = job[w].status
          /\ k.bands = [job[w].bands EXCEPT ![p] = t.of]
        BY <1>1 DEF JobFields
    <3> HIDE DEF k
    <3>3. ASSUME "refused" \notin upset PROVE Told(k)
      <4>1. job[w].keeps /\ job[w].asked.kind = "SINGLELINE"
            /\ (p = "lte" => job[w].asked.prefix = "+QNWPREFCFG: lte")
            /\ (p = "nr" => job[w].asked.prefix = "+QNWPREFCFG: nr")
          BY <1>3, <1>4, <1>5 DEF PlacedAt
      <4>2. t \in job[w].got /\ Fits(job[w].asked, t)
          BY <1>1, <1>2, <2>2, <3>3, <4>1 DEF Has
      <4> HIDE DEF t
      <4>3. /\ p = "lte" => t.of = "lte_band"
            /\ p = "nr" => t.of = "nr_band"
          BY <4>1, <4>2 DEF Fits, Answering
      <4>4. /\ k.bands.lte \in {job[w].bands.lte} \cup (IF p = "lte" THEN {t.of} ELSE {})
            /\ k.bands.nr \in {job[w].bands.nr} \cup (IF p = "nr" THEN {t.of} ELSE {})
          BY <3>2
      <4>5. Told(job[w])
          BY <1>2, <3>3
      <4> QED BY <3>2, <4>3, <4>4, <4>5 DEF Told
    <3> QED BY <3>1, <3>2, <3>3
  <2> QED BY <2>1, <2>2
<1>6. CASE GetLockBand(w)
  <2>1. PlacedAt("getlock", "lte", AskBand.lte, TRUE)
      BY DEF PlacedAt
  <2> QED BY <1>1, <1>2, <1>6, <2>1, SpecialQuestions, KindByCall DEF GetLockBand
<1>7. ASSUME NEW p \in {"lte", "nr"}, job[w].pc = p
      PROVE  /\ DOMAIN SafeFree(BandIn(w, p)) = JobFields
             /\ SafeFree(BandIn(w, p)).op = job[w].op
             /\ "refused" \notin upset => Told(SafeFree(BandIn(w, p)))
  <2>1. SameTold(SafeFree(BandIn(w, p)), BandIn(w, p))
      BY <1>5, <1>7, TellsNothing
  <2>2. "refused" \notin upset => Told(SafeFree(BandIn(w, p)))
      BY <1>5, <1>7, <2>1, ToldTheSame
  <2> QED BY <1>5, <1>7, <2>1, <2>2 DEF SameTold
<1>8. CASE GetLockBandNr(w)
  <2>1. PlacedAt("getlock", "nr", AskBand.nr, TRUE)
      BY DEF PlacedAt
  <2>2. job[w].pc = "lte" /\ Call(w, SafeFree(BandIn(w, "lte")), AskBand.nr, TRUE, "nr")
      BY <1>8 DEF GetLockBandNr
  <2> QED BY <1>1, <1>7, <2>1, <2>2, SpecialQuestions, KindByCall
<1>9. CASE GetLockBandDone(w)
  <2>1. job[w].pc = "nr" /\ Return(w, SafeFree(BandIn(w, "nr")))
      BY <1>9 DEF GetLockBandDone
  <2> QED BY <1>1, <1>7, <2>1, KindByReturn
<1> QED BY <1>6, <1>8, <1>9

LEMMA KindSimple ==
    ASSUME P!ServiceTypeOK, Shapes, KindInv, NEW w \in Workers, Simple(w) PROVE KindInv'
BY KindQuestions, KindSysInfo, KindBandsRead DEF Simple

LEMMA KindPreference ==
    ASSUME P!ServiceTypeOK, Shapes, KindInv, NEW w \in Workers, Preference(w) PROVE KindInv'
<1> USE DEF At
<1>1. /\ DOMAIN job[w] = JobFields /\ at[w] = "out" /\ job[w].op.name = "pref"
    BY DEF Shapes, Preference, SearchPref, SearchPrefSet, SearchPrefOn, SearchPrefDone
<1>2. job[w].op.name \notin {"sysinfo", "getlock"}
    BY <1>1
<1>3. SameTold(job[w], job[w]) /\ SameTold(SafeFree(job[w]), job[w])
    BY <1>1, TellsNothing
<1>4. CASE SearchPref(w)
  <2>1. Speaks(RadioOff) /\ Call(w, job[w], RadioOff, FALSE, "set")
      BY <1>4, OrdersAreMute DEF SearchPref
  <2> QED BY <1>1, <1>2, <1>3, <2>1, KindByOther
<1>5. CASE SearchPrefSet(w)
  <2>1. Speaks(Setting({"pref"})) /\ Call(w, job[w], Setting({"pref"}), TRUE, "on")
      BY <1>5, OrdersAreMute DEF SearchPrefSet
  <2> QED BY <1>1, <1>2, <1>3, <2>1, KindByOther
<1>6. CASE SearchPrefOn(w)
  <2> DEFINE j == [job[w] EXCEPT !.res["pref"] = Outcome(w)]
  <2>1. SameTold(j, job[w])
      BY <1>1, TellsNothing
  <2>2. Speaks(RadioOn) /\ Call(w, j, RadioOn, FALSE, "done")
      BY <1>6, OrdersAreMute DEF SearchPrefOn
  <2> HIDE DEF j
  <2> QED BY <1>1, <1>2, <2>1, <2>2, KindByOther
<1>7. CASE SearchPrefDone(w)
    BY <1>1, <1>2, <1>3, <1>7, KindByOther DEF SearchPrefDone
<1> QED BY <1>4, <1>5, <1>6, <1>7 DEF Preference

LEMMA KindBands ==
    ASSUME P!ServiceTypeOK, Shapes, KindInv, NEW w \in Workers, Bands(w) PROVE KindInv'
<1> USE DEF At
<1>1. /\ DOMAIN job[w] = JobFields /\ at[w] = "out" /\ job[w].op.name = "lock"
    BY DEF Shapes, Bands, LockBand, LockReset, LockRestore, LockAll, LockPart, LockPartDone,
       LockRadioOn, LockDone
<1>2. job[w].op.name \notin {"sysinfo", "getlock"}
    BY <1>1
<1>3. SameTold(job[w], job[w]) /\ SameTold(Free(job[w]), job[w])
    BY <1>1, TellsNothing
<1>4. ASSUME NEW j, SameTold(j, job[w]), NEW cmd, NEW next, NEW keep \in BOOLEAN, Speaks(cmd),
             Call(w, j, cmd, keep, next)
      PROVE  KindInv'
    BY <1>1, <1>2, <1>4, KindByOther
<1>5. CASE LockBand(w)
  <2> DEFINE next == IF Named(job[w].op, "all") = {} THEN BandStep(job[w].op, {}) ELSE "reset"
  <2>1. Call(w, job[w], RadioOff, FALSE, next)
      BY <1>5 DEF LockBand
  <2> HIDE DEF next
  <2> QED BY <1>3, <1>4, <2>1, OrdersAreMute
<1>6. CASE LockReset(w) \/ LockRestore(w)
  <2> DEFINE cmd == Setting(Named(job[w].op, "all"))
  <2>1. Speaks(cmd)
      BY OrdersAreMute
  <2>2. \E next : Call(w, job[w], cmd, TRUE, next)
      BY <1>6 DEF LockReset, LockRestore
  <2> HIDE DEF cmd
  <2> QED BY <1>3, <1>4, <2>1, <2>2
<1>7. CASE LockAll(w)
  <2> DEFINE r == [p \in Parts |-> IF p \in Named(job[w].op, "all")
                                   THEN Outcome(w) ELSE job[w].res[p]]
             k == [job[w] EXCEPT !.res = r, !.pc = BandStep(job[w].op, {})]
  <2>1. Stays(w, k)
      BY <1>7 DEF LockAll
  <2> HIDE DEF r
  <2>2. /\ SameTold(k, job[w]) /\ k.asked = job[w].asked /\ k.keeps = job[w].keeps
        /\ k.got = job[w].got
      BY <1>1 DEF SameTold, JobFields
  <2> HIDE DEF k
  <2> QED BY <1>1, <1>2, <2>1, <2>2, KindByOther
<1>8. ASSUME NEW p \in {"lte", "nr"}, LockPart(w, p) PROVE KindInv'
  <2> DEFINE cmd == Setting({p})
             next == AfterPart[p]
  <2>1. Speaks(cmd)
      BY OrdersAreMute
  <2>2. Call(w, Free(job[w]), cmd, TRUE, next)
      BY <1>8 DEF LockPart
  <2> HIDE DEF cmd, next
  <2> QED BY <1>3, <1>4, <2>1, <2>2
<1>9. ASSUME NEW p \in {"lte", "nr"}, LockPartDone(w, p) PROVE KindInv'
  <2> DEFINE next == BandStep(job[w].op, {"lte", p})
             k == [job[w] EXCEPT !.res[p] = Outcome(w), !.pc = next]
  <2>1. Stays(w, k)
      BY <1>9 DEF LockPartDone
  <2> HIDE DEF next
  <2>2. /\ SameTold(k, job[w]) /\ k.asked = job[w].asked /\ k.keeps = job[w].keeps
        /\ k.got = job[w].got
      BY <1>1 DEF SameTold, JobFields
  <2> HIDE DEF k
  <2> QED BY <1>1, <1>2, <2>1, <2>2, KindByOther
<1>10. CASE LockRadioOn(w)
    BY <1>3, <1>4, <1>10, OrdersAreMute DEF LockRadioOn
<1>11. CASE LockDone(w)
    BY <1>1, <1>2, <1>3, <1>11, KindByOther DEF LockDone
<1> QED BY <1>5, <1>6, <1>7, <1>8, <1>9, <1>10, <1>11 DEF Bands

LEMMA KindNetwork ==
    ASSUME P!ServiceTypeOK, Shapes, KindInv, NEW w \in Workers, Network(w) PROVE KindInv'
<1> USE DEF At
<1>1. /\ DOMAIN job[w] = JobFields /\ at[w] = "out" /\ job[w].op.name \in {"isp", "connect"}
    BY DEF Shapes, Network, NetISP, NetISPAsk, NetISPNote, Connect, ConnectAsk, ConnectDefine,
       ConnectUp, ConnectDone
<1>2. job[w].op.name \notin {"sysinfo", "getlock"}
    BY <1>1
<1>3. SameTold(job[w], job[w]) /\ SameTold(Free(job[w]), job[w])
    BY <1>1, TellsNothing
<1>4. ASSUME NEW j, SameTold(j, job[w]), NEW cmd, NEW next, NEW keep \in BOOLEAN, Speaks(cmd),
             Call(w, j, cmd, keep, next)
      PROVE  KindInv'
    BY <1>1, <1>2, <1>4, KindByOther
<1>5. CASE NetISP(w) \/ NetISPAsk(w) \/ Connect(w) \/ ConnectAsk(w)
  <2>1. \E cmd, next : \E keep \in BOOLEAN : Speaks(cmd) /\ Call(w, job[w], cmd, keep, next)
    <3>1. CASE NetISP(w)
      <4> DEFINE f == Formats[job[w].i]
      <4>1. Call(w, job[w], Format(f), FALSE, "ask")
          BY <3>1 DEF NetISP
      <4> HIDE DEF f
      <4> QED BY <4>1, OrdersAreMute
    <3>2. CASE NetISPAsk(w)
        BY <3>2, SpecialQuestions DEF NetISPAsk
    <3>3. CASE Connect(w)
        BY <3>3, OrdersAreMute DEF Connect
    <3>4. CASE ConnectAsk(w)
        BY <3>4, SpecialQuestions DEF ConnectAsk
    <3> QED BY <1>5, <3>1, <3>2, <3>3, <3>4
  <2> QED BY <1>3, <1>4, <2>1
<1>6. CASE NetISPNote(w)
  <2> DEFINE j == [job[w] EXCEPT !.isp[Formats[job[w].i]] = Operator(w)]
             k == [j EXCEPT !.i = @ + 1, !.pc = "start"]
  <2>1. SameTold(j, job[w])
      BY <1>1, TellsNothing
  <2>2. j.asked = job[w].asked /\ j.keeps = job[w].keeps /\ j.got = job[w].got
      BY <1>1 DEF JobFields
  <2>3. Stays(w, k) \/ Return(w, SafeFree(j))
      BY <1>6 DEF NetISPNote
  <2> HIDE DEF j
  <2>4. SameTold(SafeFree(j), job[w])
    <3>1. SameTold(SafeFree(j), j)
        BY <2>1, TellsNothing DEF SameTold
    <3> QED BY <2>1, <3>1, SameToldTwice
  <2>5. /\ SameTold(k, job[w]) /\ k.asked = job[w].asked /\ k.keeps = job[w].keeps
        /\ k.got = job[w].got
      BY <2>1, <2>2 DEF SameTold, JobFields
  <2> HIDE DEF k
  <2> QED BY <1>1, <1>2, <2>3, <2>4, <2>5, KindByOther
<1>7. CASE ConnectDefine(w)
  <2> DEFINE j == IF job[w].op.apn THEN job[w]
                  ELSE [job[w] EXCEPT !.isp["code"] = Operator(w)]
  <2>1. SameTold(j, job[w])
      BY <1>1, TellsNothing
  <2>2. Call(w, Free(j), Plain("CGDCONT"), TRUE, "up")
      BY <1>7 DEF ConnectDefine
  <2> HIDE DEF j
  <2>3. SameTold(Free(j), job[w])
    <3>1. SameTold(Free(j), j)
        BY <2>1, TellsNothing DEF SameTold
    <3> QED BY <2>1, <3>1, SameToldTwice
  <2> QED BY <1>4, <2>2, <2>3, OrdersAreMute
<1>8. CASE ConnectUp(w)
    BY <1>3, <1>4, <1>8, OrdersAreMute DEF ConnectUp
<1>9. CASE ConnectDone(w)
    BY <1>1, <1>2, <1>3, <1>9, KindByOther DEF ConnectDone
<1> QED BY <1>5, <1>6, <1>7, <1>8, <1>9 DEF Network

LEMMA KindRequest ==
    ASSUME P!ServiceTypeOK, Shapes, KindInv, NEW w \in Workers, Request(w) PROVE KindInv'
<1>1. PICK o \in Requests : job' = [job EXCEPT ![w] = NewJob(o)]
    BY DEF Request
<1>2. UNCHANGED <<at, ret, pending, upset, sent, said, modem>> /\ at[w] = "out"
    BY DEF Request, serviceVars, modemVars
<1> DEFINE k == NewJob(o)
<1>3. k.pc = "start" /\ k.asked = NoCommand /\ ~k.keeps /\ Told(k)
    BY DEF NewJob, Told
<1> HIDE DEF k
<1>4. Placed(k) /\ Speaks(k.asked)
    BY <1>3, OrdersAreMute DEF Placed, PlacedAt
<1> QED BY <1>1, <1>2, <1>3, <1>4, KindByStep DEF k

LEMMA KindSends ==
    ASSUME P!ServiceTypeOK, Shapes, KindInv, NEW w \in Workers, Sends(w) PROVE KindInv'
<1>1. PICK n \in Numbers :
        /\ Svc!Send(w, n)
        /\ sent' = [k \in Numbers |->
                      IF k = n THEN [by |-> w, cmd |-> job[w].asked]
                      ELSE IF k \in owed THEN sent[k] ELSE Unsent]
        /\ said' = [k \in Numbers |-> IF k \in owed THEN said[k] ELSE Silence]
    BY DEF Sends
<1>2. /\ at[w] = "asking" /\ job' = job /\ ret' = ret /\ upset' = upset /\ modem' = modem
      /\ at' = [at EXCEPT ![w] = "waiting"] /\ pending = P!Nothing
      /\ pending' = [P!Nothing EXCEPT !.num = n]
    BY <1>1 DEF Sends, Svc!Send, Svc!Sent, Svc!Nothing, P!Nothing
<1>3. pending'.from = {} /\ pending'.num = n /\ pending' # P!Nothing
    BY <1>2, BoundsAssumption DEF P!Nothing
<1>4. sent'[n].by = w /\ sent'[n].cmd = job[w].asked
    BY <1>1
<1>5. Speaks(Unsent.cmd)
    BY OrdersAreMute DEF Unsent
<1>6. KindKnown'
  <2>1. \A k \in Numbers : Speaks(sent'[k].cmd)
    <3> SUFFICES ASSUME NEW k \in Numbers PROVE Speaks(sent'[k].cmd)
        OBVIOUS
    <3>1. sent'[k].cmd \in {job[w].asked, sent[k].cmd, Unsent.cmd}
        BY <1>1
    <3> QED BY <1>5, <3>1 DEF KindInv, KindKnown
  <2>2. \A k \in Numbers : Speaks(sent[k].cmd)'
      BY <2>1 DEF Speaks
  <2> QED BY <1>1, <1>2, <2>2 DEF KindInv, KindKnown, Speaks, Placed
<1>7. Kept'
    BY <1>3 DEF Kept
<1>8. ASSUME "refused" \notin upset', NEW v \in Workers
      PROVE  Own(v)' /\ Has(v)' /\ Told(job[v])'
  <2>1. Own(v) /\ Has(v) /\ Told(job[v])
      BY <1>2, <1>8 DEF KindInv
  <2>2. Own(v)'
      BY <1>2, <1>3, <1>4, <2>1 DEF Own
  <2>3. Has(v)' /\ Told(job[v])'
      BY <1>2, <2>1 DEF Has, Told, Failed, Fits
  <2> QED BY <2>2, <2>3
<1> QED BY <1>6, <1>7, <1>8 DEF KindInv

(* Worker w leaves its call; nothing is pending any more.                    *)
LEMMA KindByLeaving ==
    ASSUME P!ServiceTypeOK, KindInv, NEW w \in Workers, NEW r,
           at' = [at EXCEPT ![w] = "out"], ret' = [ret EXCEPT ![w] = r],
           pending' = P!Nothing, UNCHANGED <<sent, said, modem>>, upset \subseteq upset',
           at[w] = "waiting" \/ pending = P!Nothing \/ "refused" \in upset',
           \A v \in Workers : /\ job'[v].op = job[v].op /\ job'[v].pc = job[v].pc
                              /\ job'[v].asked = job[v].asked /\ job'[v].keeps = job[v].keeps
                              /\ job'[v].status = job[v].status
                              /\ job'[v].bands = job[v].bands
                              /\ v # w => job'[v].got = job[v].got,
           "refused" \notin upset' => Has(w)'
    PROVE  KindInv'
<1>1. /\ \A v \in Workers : at'[v] = IF v = w THEN "out" ELSE at[v]
      /\ \A v \in Workers : v # w => ret'[v] = ret[v]
    BY DEF P!ServiceTypeOK
<1>2. KindKnown'
    BY DEF KindInv, KindKnown, Speaks, Placed
<1>3. Kept'
    BY DEF Kept
<1>4. ASSUME "refused" \notin upset', NEW v \in Workers
      PROVE  Own(v)' /\ Has(v)' /\ Told(job[v])'
  <2>1. Own(v) /\ Has(v) /\ Told(job[v]) /\ Own(w)
      BY <1>4 DEF KindInv
  <2>2. Own(v)'
      BY <1>1, <1>4, <2>1 DEF Own
  <2>3. Told(job[v])'
      BY <2>1 DEF Told
  <2>4. v # w => Has(v)'
      BY <1>1, <2>1 DEF Has, Failed, Fits
  <2> QED BY <1>4, <2>2, <2>3, <2>4
<1> QED BY <1>2, <1>3, <1>4 DEF KindInv

LEMMA KindTakes ==
    ASSUME P!ServiceTypeOK, Shapes, KindInv, NEW w \in Workers, Takes(w) PROVE KindInv'
<1>1. /\ at[w] = "waiting" /\ at' = [at EXCEPT ![w] = "out"] /\ upset' = upset
      /\ pending' = P!Nothing /\ UNCHANGED <<sent, said, modem>>
    BY DEF Takes, TakesNothing, TakesInvalid, TakesResponse, Svc!Take, Svc!Leave, modemVars,
       Svc!Nothing, P!Nothing
<1>2. PICK r : ret' = [ret EXCEPT ![w] = r]
    BY DEF Takes, TakesNothing, TakesInvalid, TakesResponse, Svc!Take, Svc!Leave
<1>3. at'[w] = "out" /\ ret'[w] = r
    BY <1>1, <1>2 DEF P!ServiceTypeOK
<1> DEFINE Same(v) == /\ job'[v].op = job[v].op /\ job'[v].pc = job[v].pc
                      /\ job'[v].asked = job[v].asked /\ job'[v].keeps = job[v].keeps
                      /\ job'[v].status = job[v].status /\ job'[v].bands = job[v].bands
                      /\ (v # w => job'[v].got = job[v].got)
<1>4. ASSUME NEW resp, NEW got, Stored(w, resp, got)
      PROVE  (\A v \in Workers : Same(v)) /\ job'[w].got = got
  <2>1. job' = [job EXCEPT ![w].resp = resp, ![w].got = got]
      BY <1>4 DEF Stored
  <2>2. \A v \in Workers : v # w => job'[v] = job[v]
      BY <2>1 DEF Shapes
  <2>3. job'[w] = [job[w] EXCEPT !.resp = resp, !.got = got]
      BY <2>1 DEF Shapes, JobFields
  <2>4. Same(w) /\ job'[w].got = got
      BY <2>3 DEF Shapes, JobFields
  <2> QED BY <2>2, <2>4
<1>5. CASE TakesNothing(w)
  <2>1. job' = job /\ ~job[w].keeps
      BY <1>5 DEF TakesNothing
  <2>2. Has(w)'
      BY <2>1 DEF Has
  <2> QED BY <1>1, <1>2, <2>1, <2>2, KindByLeaving
<1>6. CASE TakesInvalid(w, "null")
  <2>1. ret'[w].err = "INVALID_RESPONSE"
      BY <1>6 DEF TakesInvalid, Svc!Take, Svc!Leave, Svc!Without, P!ServiceTypeOK
  <2>2. Has(w)'
      BY <2>1 DEF Has, Failed
  <2>3. \A v \in Workers : Same(v)
      BY <1>4, <1>6 DEF TakesInvalid
  <2> QED BY <1>1, <1>2, <2>2, <2>3, KindByLeaving
<1>7. CASE TakesResponse(w, "live")
  <2>1. /\ ret'[w].answer = pending.done /\ ~Invalid(w)
        /\ Stored(w, "live", {said[n] : n \in pending.from})
      BY <1>7 DEF TakesResponse, Svc!Take, Svc!Leave, Svc!With, P!ServiceTypeOK
  <2>2. (\A v \in Workers : Same(v)) /\ job'[w].got = {said[n] : n \in pending.from}
      BY <1>4, <2>1
  <2>3. ASSUME "refused" \notin upset' PROVE Has(w)'
    <3>1. Own(w) /\ Kept
        BY <1>1, <2>3 DEF KindInv
    <3>2. \A n \in pending.from : Fits(job[w].asked, said[n])
        BY <1>1, <3>1 DEF Own, Kept
    <3>3. \A t \in job'[w].got : Fits(job[w].asked, t)'
        BY <1>1, <2>2, <3>2 DEF Fits
    <3>4. job[w].asked.kind = "SINGLELINE" /\ pending.done = "ok" => job'[w].got # {}
        BY <2>1, <2>2 DEF Invalid
    <3>5. job'[w].asked = job[w].asked
        BY <2>2
    <3> QED BY <2>1, <3>3, <3>4, <3>5 DEF Has, Failed, Fits
  <2> QED BY <1>1, <1>2, <2>2, <2>3, KindByLeaving
<1> QED BY <1>5, <1>6, <1>7 DEF Takes

LEMMA KindChannel ==
    ASSUME P!ServiceTypeOK, Shapes, KindInv, NEW w \in Workers, Channel(w) PROVE KindInv'
<1>1. CASE Refused(w) \/ TimesOut(w)
  <2>1. PICK e \in {"COMMAND_PENDING", "CHANNEL_CLOSED", "GENERIC", "TIMEOUT"} :
          /\ Svc!Leave(w, Svc!Without(e))
          /\ upset \subseteq upset'
          /\ at[w] = "waiting" \/ pending = Svc!Nothing \/ "refused" \in upset'
      BY <1>1 DEF Refused, TimesOut, Svc!Refuse, Svc!Fail, Svc!Expire
  <2> DEFINE r == Svc!Without(e)
  <2>2. /\ at' = [at EXCEPT ![w] = "out"] /\ ret' = [ret EXCEPT ![w] = r]
        /\ pending' = P!Nothing /\ job' = job /\ UNCHANGED <<sent, said, modem>>
        /\ at[w] = "waiting" \/ pending = P!Nothing \/ "refused" \in upset'
      BY <1>1, <2>1 DEF Refused, TimesOut, Svc!Leave, Svc!Nothing, P!Nothing, modemVars
  <2>3. r.err # "0"
      BY DEF Svc!Without
  <2> HIDE DEF r
  <2>4. ret'[w] = r
      BY <2>2 DEF P!ServiceTypeOK
  <2>5. Has(w)'
      BY <2>3, <2>4 DEF Has, Failed
  <2> QED BY <2>1, <2>2, <2>5, KindByLeaving
<1>2. CASE WakesToNothing(w)
  <2>1. UNCHANGED <<job, at, ret, pending, upset, sent, said, modem>>
      BY <1>2 DEF WakesToNothing, Svc!Crash, modemVars
  <2> QED BY <2>1, KindUnchanged
<1> QED BY <1>1, <1>2, KindSends, KindTakes DEF Channel

(* What the modem carries out leaves the network alone.                      *)
LEMMA CarryingOut ==
    ASSUME NEW cmd, CarryOut(cmd), "act" \in DOMAIN modem
    PROVE  "act" \in DOMAIN modem' /\ modem'.act = modem.act
BY DEF CarryOut

LEMMA KindLine ==
    ASSUME P!ServiceTypeOK, Shapes, KindInv, LineComes PROVE KindInv'
<1> DEFINE cmd == sent[Oldest].cmd
           line == [of |-> cmd.name,
                    format |-> IF cmd = AskOperator THEN modem.format ELSE "",
                    act |-> IF cmd = AskOperator THEN modem.act ELSE ""]
<1>1. Oldest \in owed
    BY OldestIsOwed DEF LineComes
<1>2. Oldest \in Numbers /\ owed \subseteq Numbers
    BY <1>1 DEF P!ServiceTypeOK
<1>3. PICK head \in cmd.says :
        Svc!Line(Oldest, pending.num # 0 /\ Accepts(sent[pending.num].cmd, head), FALSE)
    BY DEF LineComes
<1>4. /\ UNCHANGED <<job, at, ret, upset, sent, modem>> /\ said[Oldest] = Silence
      /\ said' = [said EXCEPT ![Oldest] = line]
    BY <1>3 DEF LineComes, Svc!Line
<1>5. /\ Speaks(cmd) /\ DOMAIN said = Numbers
    BY <1>2 DEF KindInv, KindKnown
<1>6. /\ line.of = cmd.name /\ line # Silence
      /\ head = "+COPS:" => line.act = modem.act
    BY <1>5 DEF Speaks, Silence
<1> HIDE DEF line
<1>7. said'[Oldest] = line /\ \A n \in Numbers : n # Oldest => said'[n] = said[n]
    BY <1>2, <1>4, <1>5
<1>8. \/ pending' = pending
      \/ /\ pending # P!Nothing /\ Accepts(sent[pending.num].cmd, head)
         /\ pending' = [pending EXCEPT !.from = @ \cup {Oldest}]
    BY <1>3 DEF Svc!Line, Svc!Nothing, P!Nothing
<1>9. /\ pending'.num = pending.num /\ (pending' = P!Nothing <=> pending = P!Nothing)
      /\ pending' = P!Nothing \/ pending'.from \subseteq pending.from \cup {Oldest}
      /\ pending'.from \subseteq Numbers \cup {0}
  <2>1. pending \in [num : Numbers, done : {"no", "ok", "error"}, of : Numbers \cup {0},
                     from : SUBSET (Numbers \cup {0})] \cup {P!Nothing}
      BY DEF P!ServiceTypeOK
  <2>2. P!Nothing.num = 0 /\ P!Nothing.from = {} /\ 0 \notin Numbers
      BY BoundsAssumption DEF P!Nothing
  <2>3. CASE pending' = pending
      BY <2>1, <2>2, <2>3
  <2>4. CASE pending # P!Nothing /\ pending' = [pending EXCEPT !.from = @ \cup {Oldest}]
    <3>1. pending'.num \in Numbers /\ pending'.num = pending.num
          /\ pending'.from = pending.from \cup {Oldest}
        BY <2>1, <2>4
    <3> QED BY <1>2, <2>1, <2>2, <2>4, <3>1
  <2> QED BY <1>8, <2>3, <2>4
<1>10. KindKnown'
    BY <1>4, <1>5 DEF KindInv, KindKnown, Speaks, Placed
<1>11. Kept'
  <2> SUFFICES ASSUME pending # P!Nothing, NEW n \in pending'.from
               PROVE  n # 0 /\ said'[n] # Silence /\ Fits(sent[pending.num].cmd, said'[n])
      BY <1>4, <1>9 DEF Kept, Fits
  <2>1. CASE n \in pending.from
    <3>1. n # 0 /\ said[n] # Silence /\ Fits(sent[pending.num].cmd, said[n])
        BY <2>1 DEF KindInv, Kept
    <3>2. n \in Numbers /\ n # Oldest
        BY <1>4, <1>9, <3>1
    <3> QED BY <1>7, <3>1, <3>2
  <2>2. CASE n \notin pending.from
    <3>1. n = Oldest /\ Accepts(sent[pending.num].cmd, head)
        BY <1>8, <1>9, <2>2
    <3>2. n # 0
        BY <1>2, <3>1, BoundsAssumption
    <3> DEFINE p == sent[pending.num].cmd
    <3>3. p.kind = "SINGLELINE" => p.prefix = "" \/ p.prefix = head
        BY <3>1 DEF Accepts
    <3> HIDE DEF p
    <3>4. Answering(head, line.of)
        BY <1>5, <1>6 DEF Speaks
    <3>5. Fits(p, line)
        BY <1>6, <3>3, <3>4 DEF Fits, Answering, RegistrationLines
    <3> QED BY <1>6, <1>7, <3>1, <3>2, <3>5 DEF p
  <2> QED BY <2>1, <2>2
<1>12. ASSUME "refused" \notin upset', NEW v \in Workers
       PROVE  Own(v)' /\ Has(v)' /\ Told(job[v])'
  <2>1. Own(v) /\ Has(v) /\ Told(job[v])
      BY <1>4, <1>12 DEF KindInv
  <2> QED BY <1>4, <1>9, <2>1 DEF Own, Has, Told, Failed, Fits
<1> QED BY <1>10, <1>11, <1>12 DEF KindInv

LEMMA KindModem ==
    ASSUME P!ServiceTypeOK, Shapes, KindInv, Modem PROVE KindInv'
<1>1. CASE LineComes
    BY <1>1, KindLine
<1>2. CASE HangsUp \/ Exits
  <2>1. UNCHANGED <<job, at, ret, pending, upset, sent, said, modem>>
      BY <1>2 DEF HangsUp, Exits, Svc!HangUp, Svc!Exit, modemVars
  <2> QED BY <2>1, KindUnchanged
<1>3. CASE Answers \/ Ignores \/ Strays
  <2>1. UNCHANGED <<at, ret, upset, sent, said>>
      BY <1>3 DEF Answers, Ignores, Strays, Svc!Final, Svc!Lost, modemVars
  <2>2. /\ pending'.num = pending.num /\ pending'.from = pending.from
        /\ pending' = P!Nothing <=> pending = P!Nothing
    <3>1. \/ pending' = pending
          \/ \E done, n : pending # P!Nothing
                            /\ pending' = [pending EXCEPT !.done = done, !.of = n]
        BY <1>3 DEF Answers, Ignores, Strays, Svc!Final, Svc!Lost, Svc!Nothing, P!Nothing
    <3>2. pending # P!Nothing => pending.num # 0
        BY BoundsAssumption DEF P!ServiceTypeOK
    <3>3. ASSUME NEW done, NEW n, pending # P!Nothing,
                 pending' = [pending EXCEPT !.done = done, !.of = n]
          PROVE  pending'.num = pending.num /\ pending'.from = pending.from
        BY <3>3 DEF P!ServiceTypeOK
    <3>4. P!Nothing.num = 0
        BY DEF P!Nothing
    <3> QED BY <3>1, <3>2, <3>3, <3>4
  <2>3. "act" \in DOMAIN modem' /\ modem'.act = modem.act
    <3>1. modem' = modem \/ \E cmd : CarryOut(cmd)
        BY <1>3 DEF Answers, Ignores, Strays, modemVars
    <3> QED BY <3>1, CarryingOut DEF KindInv, KindKnown
  <2>4. \A v \in Workers : /\ job'[v].op = job[v].op /\ job'[v].pc = job[v].pc
                           /\ job'[v].asked = job[v].asked /\ job'[v].keeps = job[v].keeps
                           /\ job'[v].status = job[v].status /\ job'[v].got = job[v].got
                           /\ job'[v].bands = job[v].bands
    <3>1. job' = job \/ \E by, x : job' = [job EXCEPT ![by].accepted = x]
        BY <1>3 DEF Answers, Ignores, Strays
    <3> QED BY <3>1 DEF Shapes, JobFields
  <2>5. \A cmd, t : Fits(cmd, t)' = Fits(cmd, t)
      BY <2>3 DEF Fits
  <2>6. KindKnown'
      BY <2>1, <2>3, <2>4 DEF KindInv, KindKnown, Speaks, Placed
  <2>7. Kept'
      BY <2>1, <2>2, <2>3 DEF KindInv, Kept, Fits
  <2>8. ASSUME "refused" \notin upset', NEW v \in Workers
        PROVE  Own(v)' /\ Has(v)' /\ Told(job[v])'
    <3>1. Own(v) /\ Has(v) /\ Told(job[v])
        BY <2>1, <2>8 DEF KindInv
    <3>2. Own(v)' /\ Told(job[v])'
        BY <2>1, <2>2, <2>3, <2>4, <3>1 DEF Own, Told
    <3>3. Has(v)'
        BY <2>1, <2>3, <2>4, <3>1 DEF Has, Failed, Fits
    <3> QED BY <3>2, <3>3
  <2> QED BY <2>6, <2>7, <2>8 DEF KindInv
<1> QED BY <1>1, <1>2, <1>3 DEF Modem

LEMMA KindInit == Init => KindInv
<1> SUFFICES ASSUME Init PROVE KindInv
    OBVIOUS
<1> DEFINE k == NewJob(Idle)
<1>1. k.pc = "start" /\ k.asked = NoCommand /\ ~k.keeps /\ Told(k)
    BY DEF NewJob, Told
<1>2. Unsent.cmd = NoCommand
    BY DEF Unsent
<1>3. /\ pending = P!Nothing /\ "act" \in DOMAIN modem /\ DOMAIN said = Numbers
      /\ \A w \in Workers : at[w] = "out" /\ job[w] = k
      /\ \A n \in Numbers : sent[n] = Unsent
    BY DEF Init, Svc!ServiceInit, Svc!Nothing, P!Nothing
<1> HIDE DEF k
<1>4. Placed(k) /\ Speaks(k.asked)
    BY <1>1, OrdersAreMute DEF Placed, PlacedAt
<1>5. Speaks(Unsent.cmd)
    BY <1>2, OrdersAreMute
<1> QED BY <1>1, <1>3, <1>4, <1>5 DEF KindInv, KindKnown, Kept, Own, Has

LEMMA KindStep == P!ServiceTypeOK /\ Shapes /\ KindInv /\ [Next]_vars => KindInv'
<1> SUFFICES ASSUME P!ServiceTypeOK, Shapes, KindInv, [Next]_vars PROVE KindInv'
    OBVIOUS
<1>1. CASE UNCHANGED vars
    BY <1>1, KindUnchanged DEF vars, serviceVars, modemVars
<1> QED BY <1>1, KindRequest, KindChannel, KindSimple, KindPreference, KindBands, KindNetwork,
        KindModem DEF Next

(* As long as no call is refused, however many workers run what operations   *)
(* and however late the answers come: the status is read from a registration *)
(* answer and the bands of either technology from the answer about it.       *)
THEOREM KindsAreOwn == Spec => []ReadFromOwnKind
<1>1. KindInv => ReadFromOwnKind
    BY DEF KindInv, Told, ReadFromOwnKind
<1> QED BY <1>1, KindInit, KindStep, ShapesHold, OperationsUseTheService, PTL DEF Spec

----------------------------------------------------------------------------
(* The operator's names, with one worker.  A worker that sets a format, and  *)
(* then asks, is in one of these places.                                     *)
Choosing(j) == j.op.name \in {"isp", "connect"} /\ j.pc = "ask"

Noting(j) == \/ j.op.name = "isp" /\ j.pc = "note"
             \/ j.op.name = "connect" /\ j.pc = "define"

Wanted(j) == IF j.op.name = "isp" THEN Formats[j.i] ELSE "code"

Chosen(j) ==
    /\ Choosing(j) => j.asked = Format(Wanted(j))
    /\ Noting(j) => j.asked = AskOperator /\ j.keeps

(* The modem will have the format f when it has done what it is owed for.    *)
FormatsIn(o, s) == {k \in o : s[k].cmd.name = "COPS=3"}

Comes(o, s, m, f) ==
    /\ FormatsIn(o, s) = {} => m.format = f
    /\ \A k \in FormatsIn(o, s) : (\A n \in FormatsIn(o, s) : n <= k) => s[k].cmd.arg = f

(* What is pending is for the worker's own command, which is the last sent.  *)
Alone(w) ==
    IF at[w] = "waiting"
    THEN /\ pending # P!Nothing /\ pending.num = num[w] /\ num[w] \in Numbers
         /\ sent[num[w]].cmd = job[w].asked /\ \A k \in owed : k <= num[w]
    ELSE pending = P!Nothing

(* The answers that are late: one at most, and none before something went    *)
(* wrong.  Where the operator is asked for, it is to a command without lines.*)
Late(w) == IF at[w] = "waiting" THEN owed \ {num[w]} ELSE owed

Mute(w) ==
    \/ Noting(job[w]) /\ at[w] # "out"
    \/ Choosing(job[w]) /\ at[w] = "out"

Lag(w) ==
    /\ \A a, b \in Late(w) : a = b
    /\ timeouts + slips = 0 => Late(w) = {}
    /\ pending.done # "no" => Late(w) = {} /\ (timeouts + slips = 0 => owed = {})
    /\ Mute(w) => \A k \in Late(w) : sent[k].cmd.says = {}

(* The lines in answer to the question are in the format that was set.       *)
InFormat(w) ==
    /\ Noting(job[w]) \/ (Choosing(job[w]) /\ at[w] # "asking") =>
          Comes(owed, sent, modem, Wanted(job[w]))
    /\ Noting(job[w]) /\ at[w] = "waiting" =>
          \A n \in pending.from : n \in Numbers /\ said[n].format = Wanted(job[w])
    /\ Noting(job[w]) /\ at[w] = "out" /\ ~Failed(w) =>
          job[w].got # {} /\ \A t \in job[w].got : t.format = Wanted(job[w])

IspTrue(j) ==
    /\ DOMAIN j.isp = {"long", "short", "code"}
    /\ \A f \in DOMAIN j.isp : j.isp[f] \in {f, "INVALID"}

Trusty == timeouts + slips <= 1 /\ ~hist.formatLost

FormatInv(w) ==
    /\ timeouts \in Nat /\ DOMAIN said = Numbers /\ "format" \in DOMAIN modem
    /\ Alone(w) /\ Chosen(job[w])
    /\ Trusty => Lag(w) /\ InFormat(w) /\ IspTrue(job[w])

LEMMA FormatCommands ==
    /\ \A f : Format(f).name = "COPS=3" /\ Format(f).arg = f /\ Format(f).says = {}
    /\ AskOperator.name = "COPS?" /\ AskOperator.kind = "SINGLELINE"
BY DEF Format, Order, AskOperator, Single, Command

LEMMA NothingIsPlain ==
    P!Nothing.num = 0 /\ P!Nothing.done = "no" /\ P!Nothing.from = {} /\ 0 \notin Numbers
BY BoundsAssumption DEF P!Nothing

(* A step of the worker's own, or a call: k are its locals after it.         *)
LEMMA FormatByOwn ==
    ASSUME P!ServiceTypeOK, Shapes, NEW w \in Workers, FormatInv(w), at[w] = "out", NEW k,
           job'[w] = k, at'[w] \in {"out", "asking"},
           UNCHANGED <<owed, pending, sent, said, modem, timeouts, slips>>,
           hist'.formatLost = hist.formatLost, Chosen(k),
           Noting(k) => at'[w] = "asking" /\ Choosing(job[w]) /\ Wanted(k) = Wanted(job[w]),
           Choosing(k) => at'[w] = "asking",
           Trusty => IspTrue(k)
    PROVE  FormatInv(w)'
<1>1. Alone(w)' /\ Chosen(job'[w])
    BY DEF FormatInv, Alone
<1>2. ASSUME Trusty' PROVE Lag(w)' /\ InFormat(w)' /\ IspTrue(job'[w])
  <2>1. Lag(w) /\ InFormat(w)
      BY <1>2 DEF Trusty, FormatInv
  <2>2. Late(w)' = Late(w) /\ Late(w) = owed
      BY DEF Late
  <2>3. Mute(w)' => Mute(w)
      BY DEF Mute
  <2>4. Lag(w)'
      BY <2>1, <2>2, <2>3 DEF Lag
  <2>5. InFormat(w)'
      BY <2>1 DEF InFormat
  <2>6. IspTrue(k)
      BY <1>2 DEF Trusty
  <2> QED BY <2>4, <2>5, <2>6
<1> QED BY <1>1, <1>2 DEF FormatInv

LEMMA FormatByCall ==
    ASSUME P!ServiceTypeOK, Shapes, NEW w \in Workers, FormatInv(w), at[w] = "out",
           NEW j, DOMAIN j = JobFields, NEW cmd, NEW keep, NEW next,
           Call(w, j, cmd, keep, next),
           \/ j.op.name \notin {"isp", "connect"}
           \/ next \notin {"ask", "note", "define"}
           \/ next = "ask" /\ cmd = Format(Wanted(j))
           \/ /\ \/ j.op.name = "isp" /\ next = "note"
                 \/ j.op.name = "connect" /\ next = "define"
              /\ cmd = AskOperator /\ keep
              /\ Choosing(job[w]) /\ Wanted(job[w]) = Wanted(j),
           Trusty => IspTrue(j)
    PROVE  FormatInv(w)'
<1> DEFINE k == [j EXCEPT !.pc = next, !.asked = cmd, !.keeps = keep]
<1>1. /\ job'[w] = k /\ at' = [at EXCEPT ![w] = "asking"]
      /\ UNCHANGED <<owed, pending, sent, said, modem, timeouts, slips, hist>>
    BY DEF Call, Svc!Ask, modemVars, Shapes
<1>2. at'[w] = "asking"
    BY <1>1 DEF P!ServiceTypeOK
<1>3. /\ k.op = j.op /\ k.i = j.i /\ k.isp = j.isp
      /\ k.pc = next /\ k.asked = cmd /\ k.keeps = keep
    BY DEF JobFields
<1> HIDE DEF k
<1>4. Wanted(k) = Wanted(j)
    BY <1>3 DEF Wanted
<1>5. Chosen(k)
    BY <1>3, <1>4 DEF Chosen, Choosing, Noting
<1>6. Noting(k) => Choosing(job[w]) /\ Wanted(k) = Wanted(job[w])
    BY <1>3, <1>4 DEF Noting
<1>7. Trusty => IspTrue(k)
    BY <1>3 DEF IspTrue
<1> QED BY <1>1, <1>2, <1>5, <1>6, <1>7, FormatByOwn

LEMMA FormatByReturn ==
    ASSUME P!ServiceTypeOK, Shapes, NEW w \in Workers, FormatInv(w), at[w] = "out",
           NEW j, DOMAIN j = JobFields, Return(w, j), Trusty => IspTrue(j)
    PROVE  FormatInv(w)'
<1> DEFINE k == [j EXCEPT !.op = Idle, !.pc = "start", !.asked = NoCommand,
                          !.keeps = FALSE, !.resp = "null", !.got = {}, !.i = 1]
<1>1. /\ job'[w] = k /\ at' = at
      /\ UNCHANGED <<owed, pending, sent, said, modem, timeouts, slips>>
    BY DEF Return, Local, serviceVars, modemVars, Shapes
<1>2. hist'.formatLost = hist.formatLost
    BY DEF Return, Shapes, HistFields
<1>3. k.pc = "start" /\ k.isp = j.isp
    BY DEF JobFields
<1> HIDE DEF k
<1>4. Chosen(k) /\ ~Noting(k) /\ ~Choosing(k) /\ (Trusty => IspTrue(k))
    BY <1>3 DEF Chosen, Choosing, Noting, IspTrue
<1> QED BY <1>1, <1>2, <1>4, FormatByOwn

(* What an operation knows of the operator is the same in both.              *)
SameIsp(k, j) == DOMAIN k = JobFields /\ k.op = j.op /\ k.isp = j.isp /\ k.i = j.i

LEMMA IspIsLeft ==
    ASSUME NEW j, DOMAIN j = JobFields, NEW p, NEW x
    PROVE  /\ SameIsp([j EXCEPT !.res[p] = x], j) /\ SameIsp([j EXCEPT !.bands[p] = x], j)
           /\ SameIsp([j EXCEPT !.status = x], j)
           /\ SameIsp(Free(j), j) /\ SameIsp(SafeFree(j), j) /\ SameIsp(j, j)
BY DEF SameIsp, Free, SafeFree, JobFields

LEMMA SameIspTwice ==
    ASSUME NEW i, NEW j, NEW k, SameIsp(k, j), SameIsp(j, i) PROVE SameIsp(k, i)
BY DEF SameIsp

(* Steps of operations that do not ask for the operator's name.              *)
LEMMA FormatByOther ==
    ASSUME P!ServiceTypeOK, Shapes, NEW w \in Workers, FormatInv(w), at[w] = "out",
           job[w].op.name \notin {"isp", "connect"}, NEW j, SameIsp(j, job[w]),
           \/ Return(w, j)
           \/ Stays(w, j)
           \/ \E cmd, keep, next : Call(w, j, cmd, keep, next)
    PROVE  FormatInv(w)'
<1>1. DOMAIN j = JobFields /\ j.op.name \notin {"isp", "connect"}
    BY DEF SameIsp
<1>2. Trusty => IspTrue(j)
    BY DEF FormatInv, SameIsp, IspTrue
<1>3. CASE Return(w, j)
    BY <1>1, <1>2, <1>3, FormatByReturn
<1>4. CASE Stays(w, j)
  <2>1. /\ job'[w] = j /\ at' = at /\ hist' = hist
        /\ UNCHANGED <<owed, pending, sent, said, modem, timeouts, slips>>
      BY <1>4 DEF Stays, Local, serviceVars, modemVars, Shapes
  <2>2. Chosen(j) /\ ~Noting(j) /\ ~Choosing(j)
      BY <1>1 DEF Chosen, Noting, Choosing
  <2> QED BY <1>2, <2>1, <2>2, FormatByOwn
<1>5. CASE \E cmd, keep, next : Call(w, j, cmd, keep, next)
    BY <1>1, <1>2, <1>5, FormatByCall
<1> QED BY <1>3, <1>4, <1>5

LEMMA FormatSimple ==
    ASSUME P!ServiceTypeOK, Shapes, NEW w \in Workers, FormatInv(w), Simple(w)
    PROVE  FormatInv(w)'
<1> USE DEF At, AtQuestion
<1>1. /\ DOMAIN job[w] = JobFields /\ at[w] = "out"
      /\ job[w].op.name \in DOMAIN Questions \cup {"iccid", "slot", "sysinfo", "getlock"}
    BY DEF Shapes, Simple, Ask, AskAgain, Asked, IccidCrashes, SetSlot, SetSlotDone, SysInfo,
       SysInfoAsk, SysInfoDone, SysInfoAnswered, GetLockBand, GetLockBandNr, GetLockBandDone
<1>2. job[w].op.name \notin {"isp", "connect"}
    BY <1>1 DEF Questions
<1>3. ASSUME NEW j, SameIsp(j, job[w]),
             \/ Return(w, j) \/ Return(w, SafeFree(j))
             \/ \E cmd, keep, next : \/ Call(w, j, cmd, keep, next)
                                     \/ Call(w, SafeFree(j), cmd, keep, next)
      PROVE  FormatInv(w)'
  <2>1. SameIsp(SafeFree(j), job[w])
    <3>1. SameIsp(SafeFree(j), j)
        BY <1>3, IspIsLeft DEF SameIsp
    <3> QED BY <1>3, <3>1, SameIspTwice
  <2> QED BY <1>1, <1>2, <1>3, <2>1, FormatByOther
<1>4. SameIsp(job[w], job[w])
    BY <1>1, IspIsLeft
<1>5. CASE Ask(w) \/ AskAgain(w) \/ SysInfo(w) \/ SysInfoAsk(w) \/ GetLockBand(w) \/ SetSlot(w)
  <2>1. \E cmd, keep, next : \/ Call(w, job[w], cmd, keep, next)
                             \/ Call(w, SafeFree(job[w]), cmd, keep, next)
      BY <1>5 DEF Ask, AskAgain, SysInfo, SysInfoAsk, GetLockBand, SetSlot
  <2> QED BY <1>3, <1>4, <2>1
<1>6. CASE Asked(w)
    BY <1>3, <1>4, <1>6 DEF Asked
<1>7. CASE IccidCrashes(w)
  <2>1. /\ job'[w] = job[w] /\ at' = at
        /\ UNCHANGED <<owed, pending, sent, said, modem, timeouts, slips>>
      BY <1>7 DEF IccidCrashes, serviceVars, modemVars
  <2>2. hist'.formatLost = hist.formatLost
      BY <1>7 DEF IccidCrashes, Shapes, HistFields
  <2>3. Chosen(job[w]) /\ ~Noting(job[w]) /\ ~Choosing(job[w]) /\ (Trusty => IspTrue(job[w]))
      BY <1>2 DEF FormatInv, Noting, Choosing
  <2> QED BY <1>1, <2>1, <2>2, <2>3, FormatByOwn
<1>8. CASE SysInfoDone(w)
  <2>1. SameIsp(StatusIn(job[w]), job[w])
      BY <1>1, IspIsLeft DEF StatusIn
  <2> QED BY <1>3, <1>4, <1>8, <2>1 DEF SysInfoDone
<1>9. CASE GetLockBandNr(w) \/ GetLockBandDone(w)
  <2>1. PICK p \in {"lte", "nr"} : \/ Return(w, SafeFree(BandIn(w, p)))
                                   \/ \E cmd, keep, next :
                                         Call(w, SafeFree(BandIn(w, p)), cmd, keep, next)
      BY <1>9 DEF GetLockBandNr, GetLockBandDone
  <2>2. SameIsp(BandIn(w, p), job[w])
      BY <1>1, IspIsLeft DEF BandIn
  <2> QED BY <1>3, <2>1, <2>2
<1>10. CASE SetSlotDone(w)
  <2>1. SameIsp([job[w] EXCEPT !.res["slot"] = Outcome(w)], job[w])
      BY <1>1, IspIsLeft
  <2> QED BY <1>3, <1>10, <2>1 DEF SetSlotDone
<1> QED BY <1>5, <1>6, <1>7, <1>8, <1>9, <1>10 DEF Simple

LEMMA FormatPreference ==
    ASSUME P!ServiceTypeOK, Shapes, NEW w \in Workers, FormatInv(w), Preference(w)
    PROVE  FormatInv(w)'
<1> USE DEF At
<1>1. /\ DOMAIN job[w] = JobFields /\ at[w] = "out" /\ job[w].op.name = "pref"
    BY DEF Shapes, Preference, SearchPref, SearchPrefSet, SearchPrefOn, SearchPrefDone
<1>2. job[w].op.name \notin {"isp", "connect"}
    BY <1>1
<1> DEFINE j == [job[w] EXCEPT !.res["pref"] = Outcome(w)]
<1>3. /\ SameIsp(job[w], job[w]) /\ SameIsp(SafeFree(job[w]), job[w])
      /\ SameIsp(j, job[w])
    BY <1>1, IspIsLeft
<1>4. \/ Return(w, SafeFree(job[w]))
      \/ \E cmd, keep, next : Call(w, job[w], cmd, keep, next) \/ Call(w, j, cmd, keep, next)
    BY DEF Preference, SearchPref, SearchPrefSet, SearchPrefOn, SearchPrefDone
<1> HIDE DEF j
<1> QED BY <1>1, <1>2, <1>3, <1>4, FormatByOther

LEMMA FormatBands ==
    ASSUME P!ServiceTypeOK, Shapes, NEW w \in Workers, FormatInv(w), Bands(w)
    PROVE  FormatInv(w)'
<1> USE DEF At
<1>1. /\ DOMAIN job[w] = JobFields /\ at[w] = "out" /\ job[w].op.name = "lock"
    BY DEF Shapes, Bands, LockBand, LockReset, LockRestore, LockAll, LockPart, LockPartDone,
       LockRadioOn, LockDone
<1>2. job[w].op.name \notin {"isp", "connect"}
    BY <1>1
<1>3. SameIsp(job[w], job[w]) /\ SameIsp(Free(job[w]), job[w])
    BY <1>1, IspIsLeft
<1>4. CASE LockBand(w) \/ LockReset(w) \/ LockRestore(w) \/ LockRadioOn(w)
           \/ \E p \in {"lte", "nr"} : LockPart(w, p)
  <2>1. \E cmd, keep, next : \/ Call(w, job[w], cmd, keep, next)
                             \/ Call(w, Free(job[w]), cmd, keep, next)
      BY <1>4 DEF LockBand, LockReset, LockRestore, LockRadioOn, LockPart
  <2> QED BY <1>1, <1>2, <1>3, <2>1, FormatByOther
<1>5. CASE LockAll(w)
  <2> DEFINE r == [p \in Parts |-> IF p \in Named(job[w].op, "all")
                                   THEN Outcome(w) ELSE job[w].res[p]]
             k == [job[w] EXCEPT !.res = r, !.pc = BandStep(job[w].op, {})]
  <2>1. Stays(w, k)
      BY <1>5 DEF LockAll
  <2> HIDE DEF r
  <2>2. SameIsp(k, job[w])
      BY <1>1 DEF SameIsp, JobFields
  <2> HIDE DEF k
  <2> QED BY <1>1, <1>2, <2>1, <2>2, FormatByOther
<1>6. ASSUME NEW p \in {"lte", "nr"}, LockPartDone(w, p) PROVE FormatInv(w)'
  <2> DEFINE next == BandStep(job[w].op, {"lte", p})
             k == [job[w] EXCEPT !.res[p] = Outcome(w), !.pc = next]
  <2>1. Stays(w, k)
      BY <1>6 DEF LockPartDone
  <2> HIDE DEF next
  <2>2. SameIsp(k, job[w])
      BY <1>1 DEF SameIsp, JobFields
  <2> HIDE DEF k
  <2> QED BY <1>1, <1>2, <2>1, <2>2, FormatByOther
<1>7. CASE LockDone(w)
    BY <1>1, <1>2, <1>3, <1>7, FormatByOther DEF LockDone
<1> QED BY <1>4, <1>5, <1>6, <1>7 DEF Bands

(* What an answer shows as the operator is in the format asked for.          *)
LEMMA OperatorInFormat ==
    ASSUME NEW w \in Workers, FormatInv(w), at[w] = "out", Noting(job[w]), Trusty
    PROVE  Operator(w) \in {Wanted(job[w]), "INVALID"}
<1>1. InFormat(w)
    BY DEF FormatInv
<1> DEFINE t == CHOOSE x \in job[w].got : TRUE
<1>2. ~Failed(w) => t \in job[w].got /\ t.format = Wanted(job[w])
    BY <1>1 DEF InFormat
<1> HIDE DEF t
<1> QED BY <1>2 DEF Operator, t

LEMMA NotedIsTrue ==
    ASSUME NEW j, DOMAIN j = JobFields, IspTrue(j), NEW f, NEW x \in {f, "INVALID"}
    PROVE  IspTrue([j EXCEPT !.isp[f] = x])
<1>1. [j EXCEPT !.isp[f] = x].isp = [j.isp EXCEPT ![f] = x]
    BY DEF JobFields
<1> QED BY <1>1 DEF IspTrue

LEMMA FormatNetwork ==
    ASSUME P!ServiceTypeOK, Shapes, NEW w \in Workers, FormatInv(w), Network(w)
    PROVE  FormatInv(w)'
<1> USE DEF At
<1>1. DOMAIN job[w] = JobFields /\ at[w] = "out" /\ job[w].op.name \in {"isp", "connect"}
    BY DEF Shapes, Network, NetISP, NetISPAsk, NetISPNote, Connect, ConnectAsk, ConnectDefine,
       ConnectUp, ConnectDone
<1>2. Trusty => IspTrue(job[w])
    BY DEF FormatInv
<1>3. CASE NetISP(w)
    BY <1>1, <1>2, <1>3, FormatByCall DEF NetISP, Wanted
<1>4. CASE Connect(w)
    BY <1>1, <1>2, <1>4, FormatByCall DEF Connect, Wanted
<1>5. CASE NetISPAsk(w)
    BY <1>1, <1>2, <1>5, FormatByCall DEF NetISPAsk, Choosing
<1>6. CASE ConnectAsk(w)
    BY <1>1, <1>2, <1>6, FormatByCall DEF ConnectAsk, Choosing
<1>7. CASE NetISPNote(w)
  <2> DEFINE f == Formats[job[w].i]
             x == Operator(w)
             j == [job[w] EXCEPT !.isp[f] = x]
             k == [j EXCEPT !.i = @ + 1, !.pc = "start"]
  <2>1. Stays(w, k) \/ Return(w, SafeFree(j))
      BY <1>7 DEF NetISPNote
  <2>2. Trusty => IspTrue(j)
    <3>1. Noting(job[w]) /\ Wanted(job[w]) = f
        BY <1>7 DEF NetISPNote, Noting, Wanted
    <3>2. Trusty => x \in {f, "INVALID"}
        BY <1>1, <3>1, OperatorInFormat
    <3> HIDE DEF f, x
    <3> QED BY <1>1, <1>2, <3>2, NotedIsTrue
  <2> HIDE DEF f, x
  <2>3. DOMAIN j = JobFields
      BY <1>1
  <2> HIDE DEF j
  <2>4. DOMAIN k = JobFields /\ k.pc = "start" /\ k.isp = j.isp
      BY <2>3 DEF JobFields
  <2>5. CASE Stays(w, k)
    <3> HIDE DEF k
    <3>1. /\ job'[w] = k /\ at' = at /\ hist' = hist
          /\ UNCHANGED <<owed, pending, sent, said, modem, timeouts, slips>>
        BY <2>5 DEF Stays, Local, serviceVars, modemVars, Shapes
    <3>2. Chosen(k) /\ ~Noting(k) /\ ~Choosing(k) /\ (Trusty => IspTrue(k))
        BY <2>2, <2>4 DEF Chosen, Noting, Choosing, IspTrue
    <3> QED BY <1>1, <3>1, <3>2, FormatByOwn
  <2>6. CASE Return(w, SafeFree(j))
    <3>1. SameIsp(SafeFree(j), j)
        BY <2>3, IspIsLeft
    <3>2. DOMAIN SafeFree(j) = JobFields /\ (Trusty => IspTrue(SafeFree(j)))
        BY <2>2, <3>1 DEF SameIsp, IspTrue
    <3> QED BY <1>1, <2>6, <3>2, FormatByReturn
  <2> QED BY <2>1, <2>5, <2>6
<1>8. CASE ConnectDefine(w)
  <2> DEFINE x == Operator(w)
             j == IF job[w].op.apn THEN job[w] ELSE [job[w] EXCEPT !.isp["code"] = x]
  <2>1. Call(w, Free(j), Plain("CGDCONT"), TRUE, "up")
      BY <1>8 DEF ConnectDefine
  <2>2. Trusty => IspTrue(j)
    <3>1. CASE job[w].op.apn
        BY <1>2, <3>1
    <3>2. CASE ~job[w].op.apn
      <4>1. Noting(job[w]) /\ Wanted(job[w]) = "code"
          BY <1>8, <3>2 DEF ConnectDefine, Noting, Wanted
      <4>2. Trusty => x \in {"code", "INVALID"}
          BY <1>1, <4>1, OperatorInFormat
      <4> HIDE DEF x
      <4> QED BY <1>1, <1>2, <3>2, <4>2, NotedIsTrue
    <3> QED BY <3>1, <3>2
  <2>3. DOMAIN j = JobFields
      BY <1>1
  <2> HIDE DEF j
  <2>4. SameIsp(Free(j), j)
      BY <2>3, IspIsLeft
  <2>5. DOMAIN Free(j) = JobFields /\ (Trusty => IspTrue(Free(j)))
      BY <2>2, <2>4 DEF SameIsp, IspTrue
  <2> QED BY <1>1, <2>1, <2>5, FormatByCall
<1>9. CASE ConnectUp(w)
  <2>1. SameIsp(Free(job[w]), job[w])
      BY <1>1, IspIsLeft
  <2>2. DOMAIN Free(job[w]) = JobFields /\ (Trusty => IspTrue(Free(job[w])))
      BY <1>2, <2>1 DEF SameIsp, IspTrue
  <2> QED BY <1>1, <1>9, <2>2, FormatByCall DEF ConnectUp
<1>10. CASE ConnectDone(w)
    BY <1>1, <1>2, <1>10, FormatByReturn DEF ConnectDone
<1> QED BY <1>3, <1>4, <1>5, <1>6, <1>7, <1>8, <1>9, <1>10 DEF Network

LEMMA FormatRequest ==
    ASSUME P!ServiceTypeOK, Shapes, NEW w \in Workers, FormatInv(w), Request(w)
    PROVE  FormatInv(w)'
<1>1. PICK o \in Requests : job' = [job EXCEPT ![w] = NewJob(o)]
    BY DEF Request
<1>2. /\ at[w] = "out" /\ at' = at /\ hist' = hist /\ job'[w] = NewJob(o)
      /\ UNCHANGED <<owed, pending, sent, said, modem, timeouts, slips>>
    BY <1>1 DEF Request, serviceVars, modemVars, Shapes
<1> DEFINE k == NewJob(o)
<1>3. k.pc = "start" /\ IspTrue(k)
    BY DEF NewJob, IspTrue
<1> HIDE DEF k
<1>4. Chosen(k) /\ ~Noting(k) /\ ~Choosing(k)
    BY <1>3 DEF Chosen, Noting, Choosing
<1> QED BY <1>1, <1>2, <1>3, <1>4, FormatByOwn DEF k

(* Worker w sends its command, which is the last of those owed.              *)
LEMMA FormatSends ==
    ASSUME P!ServiceTypeOK, Shapes, NEW w \in Workers, FormatInv(w), Sends(w)
    PROVE  FormatInv(w)'
<1>1. PICK n \in Numbers :
        /\ Svc!Send(w, n)
        /\ sent' = [k \in Numbers |->
                      IF k = n THEN [by |-> w, cmd |-> job[w].asked]
                      ELSE IF k \in owed THEN sent[k] ELSE Unsent]
        /\ said' = [k \in Numbers |-> IF k \in owed THEN said[k] ELSE Silence]
    BY DEF Sends
<1>2. /\ at[w] = "asking" /\ UNCHANGED <<job, modem, timeouts, slips>>
      /\ \A k \in owed : k < n
      /\ at' = [at EXCEPT ![w] = "waiting"] /\ num' = [num EXCEPT ![w] = n]
      /\ pending' = [P!Nothing EXCEPT !.num = n] /\ owed' = owed \cup {n}
    BY <1>1 DEF Sends, Svc!Send, Svc!Sent, Svc!Nothing, P!Nothing
<1>3. at'[w] = "waiting" /\ num'[w] = n /\ owed \subseteq Numbers /\ n \in Nat
    BY <1>2, BoundsAssumption DEF P!ServiceTypeOK
<1>4. pending'.num = n /\ pending'.done = "no" /\ pending'.from = {} /\ pending' # P!Nothing
    BY <1>2, BoundsAssumption DEF P!Nothing
<1>5. sent'[n].cmd = job[w].asked /\ \A k \in owed : sent'[k] = sent[k]
  <2>1. n \notin owed
      BY <1>2, <1>3
  <2> QED BY <1>1, <1>3, <2>1
<1>6. \A k \in owed' : k <= n
    BY <1>2, <1>3, BoundsAssumption
<1>7. Alone(w)'
    BY <1>2, <1>3, <1>4, <1>5, <1>6 DEF Alone
<1>8. Chosen(job[w])' /\ timeouts' \in Nat /\ DOMAIN said' = Numbers /\ "format" \in DOMAIN modem'
    BY <1>1, <1>2 DEF FormatInv, Chosen, Choosing, Noting, Wanted
<1>9. ASSUME Trusty' PROVE Lag(w)' /\ InFormat(w)' /\ IspTrue(job[w])'
  <2>1. Trusty
      BY <1>2, <1>9 DEF Trusty, Sends, Shapes, HistFields
  <2>2. Lag(w) /\ InFormat(w) /\ IspTrue(job[w]) /\ Chosen(job[w])
      BY <2>1 DEF FormatInv
  <2>3. Late(w) = owed /\ Late(w)' = owed
    <3>1. owed' \ {n} = owed
        BY <1>2, <1>3
    <3> QED BY <1>2, <1>3, <3>1 DEF Late
  <2>4. Mute(w)' => Mute(w)
      BY <1>2, <1>3 DEF Mute, Noting, Choosing
  <2>5. Lag(w)'
      BY <1>2, <1>4, <1>5, <2>2, <2>3, <2>4 DEF Lag
  <2>6. ASSUME Noting(job[w]) PROVE Comes(owed', sent', modem', Wanted(job[w]))
    <3>1. Comes(owed, sent, modem, Wanted(job[w])) /\ job[w].asked.name # "COPS=3"
        BY <2>2, <2>6, FormatCommands DEF InFormat, Chosen
    <3>2. FormatsIn(owed', sent') = FormatsIn(owed, sent)
        BY <1>2, <1>5, <3>1 DEF FormatsIn
    <3>3. \A k \in FormatsIn(owed, sent) : sent'[k] = sent[k]
        BY <1>5 DEF FormatsIn
    <3> QED BY <1>2, <3>1, <3>2, <3>3 DEF Comes
  <2>7. ASSUME Choosing(job[w]) PROVE Comes(owed', sent', modem', Wanted(job[w]))
    <3>1. sent'[n].cmd.name = "COPS=3" /\ sent'[n].cmd.arg = Wanted(job[w])
        BY <1>5, <2>2, <2>7, FormatCommands DEF Chosen
    <3>2. n \in FormatsIn(owed', sent')
        BY <1>2, <3>1 DEF FormatsIn
    <3>3. \A k \in FormatsIn(owed', sent') : n <= k => k = n
      <4>1. \A k \in owed' : n <= k => k = n
          BY <1>2, <1>3, BoundsAssumption
      <4> QED BY <4>1 DEF FormatsIn
    <3> QED BY <3>1, <3>2, <3>3 DEF Comes
  <2>8. InFormat(w)'
      BY <1>2, <1>3, <1>4, <2>6, <2>7 DEF InFormat
  <2>9. IspTrue(job[w])'
      BY <1>2, <2>2 DEF IspTrue
  <2> QED BY <2>5, <2>8, <2>9
<1> QED BY <1>7, <1>8, <1>9 DEF FormatInv

(* What w's call is for stays the same while it leaves.                      *)
SameCall(k, j) == /\ k.op = j.op /\ k.pc = j.pc /\ k.asked = j.asked /\ k.keeps = j.keeps
                  /\ k.isp = j.isp /\ k.i = j.i

LEMMA CallIsKept ==
    ASSUME NEW j, NEW k, SameCall(k, j)
    PROVE  /\ Choosing(k) <=> Choosing(j)
           /\ Noting(k) <=> Noting(j)
           /\ Wanted(k) = Wanted(j)
           /\ Chosen(k) <=> Chosen(j)
           /\ IspTrue(k) <=> IspTrue(j)
<1>1. /\ Choosing(k) <=> Choosing(j)
      /\ Noting(k) <=> Noting(j)
    BY DEF SameCall, Choosing, Noting
<1>2. Wanted(k) = Wanted(j)
    BY DEF SameCall, Wanted
<1>3. Chosen(k) <=> Chosen(j)
    BY <1>1, <1>2 DEF SameCall, Chosen
<1>4. IspTrue(k) <=> IspTrue(j)
    BY DEF SameCall, IspTrue
<1> QED BY <1>1, <1>2, <1>3, <1>4

(* The call of w is over; nothing is pending any more.                       *)
LEMMA FormatByLeaving ==
    ASSUME P!ServiceTypeOK, Shapes, NEW w \in Workers, FormatInv(w), at[w] # "out",
           at' = [at EXCEPT ![w] = "out"], pending' = P!Nothing,
           UNCHANGED <<owed, sent, said, modem>>, SameCall(job'[w], job[w]),
           timeouts' \in Nat, Trusty' => Trusty,
           Trusty' => \/ at[w] = "waiting" /\ Late(w) = {}
                      \/ at[w] = "asking" /\ ~Choosing(job[w]),
           Trusty' /\ timeouts' + slips' = 0 => owed = {},
           Trusty' /\ Noting(job[w]) =>
               \/ Failed(w)'
               \/ job'[w].got # {} /\ \A t \in job'[w].got : t.format = Wanted(job[w])
    PROVE  FormatInv(w)'
<1>1. at'[w] = "out"
    BY DEF P!ServiceTypeOK
<1>2. Alone(w)'
    BY <1>1 DEF Alone
<1>3. Chosen(job'[w])
    BY CallIsKept DEF FormatInv
<1>4. ASSUME Trusty' PROVE Lag(w)' /\ InFormat(w)' /\ IspTrue(job'[w])
  <2>1. Lag(w) /\ InFormat(w) /\ IspTrue(job[w]) /\ Chosen(job[w]) /\ Alone(w)
      BY <1>4 DEF FormatInv
  <2>2. Late(w)' = owed /\ pending'.done = "no"
      BY <1>1, NothingIsPlain DEF Late
  <2>3. Mute(w)' => Choosing(job[w])
      BY <1>1, CallIsKept DEF Mute
  <2>4. CASE at[w] = "waiting" /\ Late(w) = {}
    <3>1. \A k \in owed : k = num[w]
        BY <2>4 DEF Late
    <3>2. Choosing(job[w]) => sent[num[w]].cmd.says = {}
        BY <2>1, <2>4, FormatCommands DEF Alone, Chosen
    <3>3. Lag(w)'
        BY <1>4, <2>2, <2>3, <3>1, <3>2 DEF Lag
    <3>4. InFormat(w)'
        BY <1>1, <1>4, <2>1, <2>4, CallIsKept DEF InFormat
    <3> QED BY <2>1, <3>3, <3>4, CallIsKept
  <2>5. CASE at[w] = "asking" /\ ~Choosing(job[w])
    <3>1. Late(w) = owed
        BY <2>5 DEF Late
    <3>2. Lag(w)'
        BY <1>4, <2>1, <2>2, <2>3, <2>5, <3>1 DEF Lag
    <3>3. InFormat(w)'
        BY <1>1, <1>4, <2>1, <2>5, CallIsKept DEF InFormat
    <3> QED BY <2>1, <3>2, <3>3, CallIsKept
  <2> QED BY <1>4, <2>4, <2>5
<1> QED BY <1>2, <1>3, <1>4 DEF FormatInv

LEMMA FormatTakes ==
    ASSUME P!ServiceTypeOK, Shapes, NEW w \in Workers, FormatInv(w), Takes(w)
    PROVE  FormatInv(w)'
<1>1. /\ at[w] = "waiting" /\ at' = [at EXCEPT ![w] = "out"] /\ pending.done # "no"
      /\ pending' = P!Nothing /\ UNCHANGED <<owed, sent, said, modem, timeouts, slips>>
    BY DEF Takes, TakesNothing, TakesInvalid, TakesResponse, Svc!Take, Svc!Leave, modemVars,
       Svc!Nothing, P!Nothing
<1>2. hist'.formatLost = hist.formatLost
    BY DEF Takes, TakesNothing, TakesInvalid, TakesResponse, Stored, Shapes, HistFields
<1>3. ASSUME NEW resp, NEW got, Stored(w, resp, got)
      PROVE  SameCall(job'[w], job[w]) /\ job'[w].got = got
  <2>1. job'[w] = [job[w] EXCEPT !.resp = resp, !.got = got]
      BY <1>3 DEF Stored, Shapes, JobFields
  <2> QED BY <2>1 DEF Shapes, JobFields, SameCall
<1>4. Trusty' => Trusty /\ Lag(w) /\ InFormat(w) /\ Chosen(job[w])
    BY <1>1, <1>2 DEF Trusty, FormatInv
<1>5. Trusty' => Late(w) = {} /\ (timeouts' + slips' = 0 => owed = {})
    BY <1>1, <1>4 DEF Lag
<1>6. timeouts' \in Nat
    BY <1>1 DEF FormatInv
<1>7. SUFFICES /\ SameCall(job'[w], job[w])
               /\ Trusty' /\ Noting(job[w]) =>
                    \/ Failed(w)'
                    \/ /\ job'[w].got # {}
                       /\ \A t \in job'[w].got : t.format = Wanted(job[w])
    BY <1>1, <1>4, <1>5, <1>6, FormatByLeaving
<1>8. CASE TakesNothing(w)
  <2>1. job' = job /\ ~job[w].keeps
      BY <1>8 DEF TakesNothing
  <2> QED BY <1>4, <2>1 DEF SameCall, Chosen
<1>9. CASE TakesInvalid(w, "null")
  <2>1. ret'[w].err = "INVALID_RESPONSE" /\ Stored(w, "null", {})
      BY <1>9 DEF TakesInvalid, Svc!Take, Svc!Leave, Svc!Without, P!ServiceTypeOK
  <2> QED BY <1>3, <2>1 DEF Failed
<1>10. CASE TakesResponse(w, "live")
  <2> DEFINE got == {said[n] : n \in pending.from}
  <2>1. /\ ret'[w].answer = pending.done /\ ~Invalid(w)
        /\ Stored(w, "live", got)
      BY <1>10 DEF TakesResponse, Svc!Take, Svc!Leave, Svc!With, P!ServiceTypeOK
  <2>2. SameCall(job'[w], job[w]) /\ job'[w].got = got
      BY <1>3, <2>1
  <2>3. ASSUME Trusty', Noting(job[w]), ~Failed(w)'
        PROVE  got # {} /\ \A t \in got : t.format = Wanted(job[w])
    <3>1. pending.done = "ok"
        BY <2>1, <2>3 DEF Failed
    <3>2. job[w].asked.kind = "SINGLELINE"
        BY <1>4, <2>3, FormatCommands DEF Chosen
    <3>3. pending.from # {}
        BY <2>1, <3>1, <3>2 DEF Invalid
    <3>4. \A n \in pending.from : said[n].format = Wanted(job[w])
        BY <1>1, <1>4, <2>3 DEF InFormat
    <3> QED BY <3>3, <3>4
  <2> QED BY <2>2, <2>3
<1> QED BY <1>8, <1>9, <1>10 DEF Takes

(* A step that changes nothing that the formats depend on.                   *)
LEMMA FormatUnchanged ==
    ASSUME NEW w \in Workers, FormatInv(w),
           UNCHANGED <<job, at, num, ret, owed, pending, sent, said, modem, timeouts, slips>>,
           hist'.formatLost = hist.formatLost
    PROVE  FormatInv(w)'
BY DEF FormatInv, Alone, Chosen, Trusty, Lag, Late, Mute, InFormat, IspTrue, Comes, FormatsIn,
       Choosing, Noting, Wanted, Failed

LEMMA FormatChannel ==
    ASSUME P!ServiceTypeOK, Shapes, NEW w \in Workers, FormatInv(w), Channel(w)
    PROVE  FormatInv(w)'
<1> USE DEF Missed
<1>1. CASE Refused(w)
  <2>1. at[w] = "asking" /\ pending = P!Nothing
      BY <1>1 DEF Refused, Svc!Refuse, Svc!Fail, FormatInv, Alone
  <2>2. PICK e : Svc!Leave(w, Svc!Without(e)) /\ e # "0"
      BY <1>1 DEF Refused, Svc!Refuse, Svc!Fail
  <2>3. /\ at' = [at EXCEPT ![w] = "out"] /\ ret' = [ret EXCEPT ![w] = Svc!Without(e)]
        /\ pending' = P!Nothing /\ UNCHANGED <<job, owed, sent, said, modem, timeouts, slips>>
      BY <1>1, <2>2 DEF Refused, Svc!Leave, Svc!Nothing, P!Nothing, modemVars
  <2>4. Failed(w)'
      BY <2>2, <2>3 DEF P!ServiceTypeOK, Svc!Without, Failed
  <2>5. hist'.formatLost = (hist.formatLost \/ job[w].asked.name = "COPS=3")
      BY <1>1 DEF Refused, Shapes, HistFields
  <2>6. ASSUME Trusty' PROVE Trusty /\ ~Choosing(job[w])
      BY <2>3, <2>5, <2>6, FormatCommands DEF Trusty, FormatInv, Chosen
  <2>7. Trusty' /\ timeouts' + slips' = 0 => owed = {}
      BY <2>1, <2>3, <2>6 DEF FormatInv, Lag, Late
  <2>8. SameCall(job'[w], job[w]) /\ timeouts' \in Nat
      BY <2>3 DEF SameCall, FormatInv
  <2> QED BY <2>1, <2>3, <2>4, <2>6, <2>7, <2>8, FormatByLeaving
<1>2. CASE TimesOut(w)
  <2>1. /\ at[w] = "waiting" /\ at' = [at EXCEPT ![w] = "out"]
        /\ ret' = [ret EXCEPT ![w] = Svc!Without("TIMEOUT")] /\ pending' = P!Nothing
        /\ UNCHANGED <<job, owed, sent, said, modem, slips, hist>> /\ timeouts' = timeouts + 1
      BY <1>2 DEF TimesOut, Svc!Expire, Svc!Leave, Svc!Nothing, P!Nothing, modemVars
  <2>2. Failed(w)'
      BY <2>1 DEF P!ServiceTypeOK, Svc!Without, Failed
  <2>3. timeouts \in Nat /\ slips \in Nat
      BY DEF FormatInv, Shapes
  <2>4. timeouts' \in Nat /\ timeouts' + slips' # 0
      BY <2>1, <2>3
  <2>5. timeouts' + slips' <= 1 => timeouts + slips = 0 /\ timeouts + slips <= 1
      BY <2>1, <2>3
  <2>6. Trusty' => Trusty /\ timeouts + slips = 0
      BY <2>1, <2>5 DEF Trusty
  <2>7. Trusty' => Late(w) = {}
      BY <2>6 DEF FormatInv, Lag
  <2>8. SameCall(job'[w], job[w])
      BY <2>1 DEF SameCall
  <2> QED BY <2>1, <2>2, <2>4, <2>6, <2>7, <2>8, FormatByLeaving
<1>3. CASE WakesToNothing(w)
    BY <1>3, FormatUnchanged DEF WakesToNothing, Svc!Crash, modemVars, Shapes, HistFields
<1> QED BY <1>1, <1>2, <1>3, FormatSends, FormatTakes DEF Channel

(* What the modem has done is owed no more.                                  *)
LEMMA ComesStill ==
    ASSUME P!ServiceTypeOK, owed # {}, NEW f, Comes(owed, sent, modem, f),
           "format" \in DOMAIN modem,
           \/ CarryOut(sent[Oldest].cmd)
           \/ modem' = modem /\ sent[Oldest].cmd.name # "COPS=3"
    PROVE  Comes(owed \ {Oldest}, sent, modem', f)
<1> DEFINE F == FormatsIn(owed, sent)
           G == FormatsIn(owed \ {Oldest}, sent)
<1>1. Oldest \in owed /\ (\A k \in owed : Oldest <= k) /\ owed \subseteq Nat
    BY OldestIsOwed, BoundsAssumption DEF P!ServiceTypeOK
<1>2. G = F \ {Oldest} /\ F \subseteq owed
    BY DEF FormatsIn
<1>3. Oldest \in F <=> sent[Oldest].cmd.name = "COPS=3"
    BY <1>1 DEF FormatsIn
<1>4. /\ F = {} => modem.format = f
      /\ \A k \in F : (\A n \in F : n <= k) => sent[k].cmd.arg = f
    BY DEF Comes
<1>5. CASE Oldest \in F
  <2>1. modem'.format = sent[Oldest].cmd.arg
      BY <1>3, <1>5 DEF CarryOut
  <2> HIDE DEF F, G
  <2>2. ASSUME G = {} PROVE modem'.format = f
    <3>1. \A n \in F : n <= Oldest
        BY <1>1, <1>2, <2>2
    <3> QED BY <1>4, <1>5, <2>1, <3>1
  <2>3. ASSUME NEW k \in G, \A n \in G : n <= k PROVE sent[k].cmd.arg = f
    <3>1. k \in F /\ \A n \in F : n <= k
        BY <1>1, <1>2, <2>3
    <3> QED BY <1>4, <3>1
  <2> QED BY <2>2, <2>3 DEF Comes, G
<1>6. CASE Oldest \notin F
  <2>1. modem'.format = modem.format
      BY <1>3, <1>6 DEF CarryOut
  <2>2. G = F
      BY <1>2, <1>6
  <2> HIDE DEF F, G
  <2>3. /\ G = {} => modem'.format = f
        /\ \A k \in G : (\A n \in G : n <= k) => sent[k].cmd.arg = f
      BY <1>4, <2>1, <2>2
  <2> QED BY <2>3 DEF Comes, G
<1> QED BY <1>5, <1>6

(* The oldest command is a late one, if there is any.                        *)
LEMMA LateIsOldest ==
    ASSUME P!ServiceTypeOK, NEW w \in Workers, FormatInv(w), Lag(w), owed # {}
    PROVE  Late(w) \ {Oldest} = {}
<1>1. Oldest \in owed /\ (\A k \in owed : Oldest <= k) /\ owed \subseteq Nat
    BY OldestIsOwed, BoundsAssumption DEF P!ServiceTypeOK
<1>2. \A a, b \in Late(w) : a = b
    BY DEF Lag
<1>3. CASE at[w] # "waiting"
    BY <1>1, <1>2, <1>3 DEF Late
<1>4. CASE at[w] = "waiting"
  <2>1. num[w] \in Nat /\ \A k \in owed : k <= num[w]
      BY <1>4, BoundsAssumption DEF FormatInv, Alone
  <2> SUFFICES ASSUME NEW k \in Late(w), k # Oldest PROVE FALSE
      OBVIOUS
  <2>2. k \in owed /\ k # num[w]
      BY <1>4 DEF Late
  <2>3. Oldest \notin Late(w)
      BY <1>2
  <2>4. Oldest = num[w]
      BY <1>1, <1>4, <2>3 DEF Late
  <2> QED BY <1>1, <2>1, <2>2, <2>4
<1> QED BY <1>3, <1>4

(* A step of the modem's that ends an answer, or drops it.                   *)
LEMMA FormatByModem ==
    ASSUME P!ServiceTypeOK, Shapes, NEW w \in Workers, FormatInv(w),
           UNCHANGED <<at, num, ret, sent, said, timeouts>>, owed' \subseteq owed,
           SameCall(job'[w], job[w]), job'[w].got = job[w].got,
           \/ pending' = pending
           \/ \E done, n : /\ pending # P!Nothing
                           /\ pending' = [pending EXCEPT !.done = done, !.of = n],
           "format" \in DOMAIN modem',
           Trusty' => /\ Trusty
                      /\ timeouts' + slips' = 0 => Late(w)' = {}
                      /\ pending'.done # "no" =>
                            Late(w)' = {} /\ (timeouts' + slips' = 0 => owed' = {})
                      /\ \A f : Comes(owed, sent, modem, f) => Comes(owed', sent, modem', f)
    PROVE  FormatInv(w)'
<1>1. /\ pending'.num = pending.num /\ pending'.from = pending.from
      /\ pending' = P!Nothing <=> pending = P!Nothing
  <2>1. pending # P!Nothing => pending.num # 0
      BY BoundsAssumption DEF P!ServiceTypeOK
  <2>2. ASSUME NEW done, NEW n, pending # P!Nothing,
               pending' = [pending EXCEPT !.done = done, !.of = n]
        PROVE  pending'.num = pending.num /\ pending'.from = pending.from
      BY <2>2 DEF P!ServiceTypeOK
  <2>3. P!Nothing.num = 0
      BY DEF P!Nothing
  <2> QED BY <2>1, <2>2, <2>3
<1>2. /\ job'[w].asked = job[w].asked
      /\ Choosing(job'[w]) <=> Choosing(job[w])
      /\ Noting(job'[w]) <=> Noting(job[w])
      /\ Wanted(job'[w]) = Wanted(job[w])
      /\ Chosen(job'[w])
      /\ IspTrue(job'[w]) <=> IspTrue(job[w])
    BY CallIsKept DEF SameCall, FormatInv
<1>3. Alone(w)'
    BY <1>1, <1>2 DEF FormatInv, Alone
<1>4. ASSUME Trusty' PROVE Lag(w)' /\ InFormat(w)' /\ IspTrue(job'[w])
  <2>1. Lag(w) /\ InFormat(w) /\ IspTrue(job[w])
      BY <1>4 DEF FormatInv
  <2>2. Late(w)' \subseteq Late(w)
      BY DEF Late
  <2>3. Mute(w)' => Mute(w)
      BY <1>2 DEF Mute
  <2>4. Lag(w)'
      BY <1>4, <2>1, <2>2, <2>3 DEF Lag
  <2>5. Failed(w)' <=> Failed(w)
      BY DEF Failed
  <2>6. InFormat(w)'
      BY <1>1, <1>2, <1>4, <2>1, <2>5 DEF InFormat
  <2> QED BY <1>2, <2>1, <2>4, <2>6
<1> QED BY <1>2, <1>3, <1>4 DEF FormatInv

LEMMA FormatEnds ==
    ASSUME P!ServiceTypeOK, Shapes, NEW w \in Workers, FormatInv(w),
           Answers \/ Ignores \/ Strays
    PROVE  FormatInv(w)'
<1> DEFINE cmd == sent[Oldest].cmd
<1>1. UNCHANGED <<at, num, ret, sent, said, timeouts>>
    BY DEF Answers, Ignores, Strays, Svc!Final, Svc!Lost, modemVars
<1>2. SameCall(job'[w], job[w]) /\ job'[w].got = job[w].got
  <2>1. job' = job \/ \E by, x : job' = [job EXCEPT ![by].accepted = x]
      BY DEF Answers, Ignores, Strays
  <2> QED BY <2>1 DEF Shapes, JobFields, SameCall
<1>3. \/ pending' = pending
      \/ \E done, n : pending # P!Nothing
                        /\ pending' = [pending EXCEPT !.done = done, !.of = n]
    BY DEF Answers, Ignores, Strays, Svc!Final, Svc!Lost, Svc!Nothing, P!Nothing
<1>4. owed \subseteq Nat /\ 0 \notin owed /\ timeouts \in Nat /\ slips \in Nat
    BY BoundsAssumption DEF P!ServiceTypeOK, FormatInv, Shapes
<1>5. /\ hist.formatLost => hist'.formatLost
      /\ "format" \in DOMAIN modem'
  <2>1. hist' = hist \/ \E c, last : hist' = Missed(hist, c, last)
      BY DEF Answers, Ignores, Strays
  <2>2. modem' = modem \/ CarryOut(cmd)
      BY DEF Answers, Ignores, Strays, modemVars
  <2> HIDE DEF cmd
  <2> QED BY <2>1, <2>2 DEF Missed, Shapes, HistFields, FormatInv, CarryOut
<1>6. slips' = slips \/ slips' = slips + 1
    BY DEF Answers, Ignores, Strays
<1>7. timeouts + slips' <= 1 => timeouts + slips <= 1
    BY <1>4, <1>6
<1>8. Trusty' => Trusty
    BY <1>1, <1>5, <1>7 DEF Trusty
<1>9. ASSUME Answers \/ Ignores, Trusty', NEW f, Comes(owed, sent, modem, f)
      PROVE  Comes(owed \ {Oldest}, sent, modem', f)
  <2>1. \/ CarryOut(cmd)
        \/ modem' = modem /\ \E last : hist' = Missed(hist, cmd, last)
      BY <1>9 DEF Answers, Ignores
  <2>2. (\E last : hist' = Missed(hist, cmd, last)) => cmd.name # "COPS=3"
      BY <1>9 DEF Missed, Shapes, HistFields, Trusty
  <2>3. owed # {} /\ "format" \in DOMAIN modem
      BY <1>9 DEF Answers, Ignores, FormatInv
  <2> QED BY <1>9, <2>1, <2>2, <2>3, ComesStill
<1>10. CASE Answers
  <2>1. owed' = owed \ {Oldest} /\ owed # {} /\ UNCHANGED <<timeouts, slips>>
        /\ (pending = P!Nothing => pending' = P!Nothing)
      BY <1>10 DEF Answers, Svc!Final, Svc!Nothing, P!Nothing
  <2>2. ASSUME Trusty'
        PROVE  /\ timeouts' + slips' = 0 => Late(w)' = {}
               /\ pending'.done # "no" =>
                    Late(w)' = {} /\ (timeouts' + slips' = 0 => owed' = {})
    <3>1. Lag(w)
        BY <1>8, <2>2 DEF FormatInv
    <3>2. Late(w)' = Late(w) \ {Oldest}
        BY <1>1, <2>1 DEF Late
    <3>3. Late(w)' = {}
        BY <2>1, <3>1, <3>2, LateIsOldest
    <3>4. ASSUME pending'.done # "no", timeouts' + slips' = 0 PROVE owed' = {}
      <4>1. at[w] = "waiting"
          BY <2>1, <3>4, NothingIsPlain DEF FormatInv, Alone
      <4>2. Late(w) = {}
          BY <2>1, <3>1, <3>4 DEF Lag
      <4>3. Oldest \in owed
          BY <2>1, OldestIsOwed
      <4> QED BY <2>1, <4>1, <4>2, <4>3 DEF Late
    <3> QED BY <3>3, <3>4
  <2> QED BY <1>1, <1>2, <1>3, <1>5, <1>8, <1>9, <1>10, <2>1, <2>2, FormatByModem
<1>11. CASE Ignores \/ Strays
  <2>1. slips' = slips + 1 /\ owed' \subseteq owed
      BY <1>11 DEF Ignores, Strays, Svc!Lost, Svc!Final
  <2>2. timeouts' + slips' # 0
      BY <1>1, <1>4, <2>1
  <2>3. timeouts' + slips' <= 1 => timeouts + slips = 0
      BY <1>1, <1>4, <2>1
  <2>4. Trusty' => Late(w)' = {}
    <3>1. Trusty' => Late(w) = {}
        BY <1>8, <2>3 DEF Trusty, FormatInv, Lag
    <3>2. Late(w)' \subseteq Late(w)
        BY <1>1, <2>1 DEF Late
    <3> QED BY <3>1, <3>2
  <2>5. ASSUME Trusty', NEW f, Comes(owed, sent, modem, f)
        PROVE  Comes(owed', sent, modem', f)
    <3>1. CASE Ignores
      <4>1. owed' = owed \ {Oldest}
          BY <3>1 DEF Ignores, Svc!Lost
      <4> QED BY <1>9, <2>5, <3>1, <4>1
    <3>2. CASE Strays
      <4>1. owed' = owed /\ modem' = modem
          BY <1>4, <3>2 DEF Strays, Svc!Final, modemVars
      <4> QED BY <2>5, <4>1
    <3> QED BY <1>11, <3>1, <3>2
  <2> QED BY <1>1, <1>2, <1>3, <1>5, <1>8, <2>1, <2>2, <2>4, <2>5, FormatByModem
<1> QED BY <1>10, <1>11

(* A line is in the format that the modem has when it answers.               *)
LEMMA FormatLine ==
    ASSUME P!ServiceTypeOK, Shapes, NEW w \in Workers, FormatInv(w), LineComes
    PROVE  FormatInv(w)'
<1> DEFINE cmd == sent[Oldest].cmd
           line == [of |-> cmd.name,
                    format |-> IF cmd = AskOperator THEN modem.format ELSE "",
                    act |-> IF cmd = AskOperator THEN modem.act ELSE ""]
<1>1. Oldest \in owed /\ (\A k \in owed : Oldest <= k) /\ owed \subseteq Numbers /\ Numbers \subseteq Nat
    BY OldestIsOwed, BoundsAssumption DEF LineComes, P!ServiceTypeOK
<1>2. PICK head \in cmd.says :
        Svc!Line(Oldest, pending.num # 0 /\ Accepts(sent[pending.num].cmd, head), FALSE)
    BY DEF LineComes
<1>3. /\ UNCHANGED <<job, at, num, ret, owed, sent, modem, timeouts, slips, hist>>
      /\ said' = [said EXCEPT ![Oldest] = line]
    BY <1>2 DEF LineComes, Svc!Line
<1>4. /\ said'[Oldest].format = IF cmd = AskOperator THEN modem.format ELSE ""
      /\ DOMAIN said' = Numbers
      /\ \A n \in Numbers : n # Oldest => said'[n] = said[n]
    BY <1>1, <1>3 DEF FormatInv
<1> HIDE DEF line
<1>5. \/ pending' = pending
      \/ pending # P!Nothing /\ pending' = [pending EXCEPT !.from = @ \cup {Oldest}]
    BY <1>2 DEF Svc!Line, Svc!Nothing, P!Nothing
<1>6. /\ pending'.num = pending.num /\ pending'.done = pending.done
      /\ pending' = P!Nothing <=> pending = P!Nothing
      /\ pending'.from \subseteq pending.from \cup {Oldest}
  <2>1. pending # P!Nothing => pending.num # 0
      BY BoundsAssumption DEF P!ServiceTypeOK
  <2>2. ASSUME pending # P!Nothing, pending' = [pending EXCEPT !.from = @ \cup {Oldest}]
        PROVE  /\ pending'.num = pending.num /\ pending'.done = pending.done
               /\ pending'.from = pending.from \cup {Oldest}
      BY <2>2 DEF P!ServiceTypeOK
  <2> QED BY <1>5, <2>1, <2>2, NothingIsPlain
<1>7. Alone(w)' /\ Chosen(job'[w])
    BY <1>3, <1>6 DEF FormatInv, Alone
<1>8. ASSUME Trusty' PROVE Lag(w)' /\ InFormat(w)' /\ IspTrue(job'[w])
  <2>1. Lag(w) /\ InFormat(w) /\ IspTrue(job[w]) /\ Alone(w) /\ Chosen(job[w])
      BY <1>3, <1>8 DEF FormatInv, Trusty
  <2>2. Late(w)' = Late(w) /\ (Mute(w)' <=> Mute(w))
      BY <1>3 DEF Late, Mute
  <2>3. Lag(w)'
      BY <1>3, <1>6, <2>1, <2>2 DEF Lag
  <2>4. ASSUME Noting(job[w]), at[w] = "waiting", NEW n \in pending'.from
        PROVE  n \in Numbers /\ said'[n].format = Wanted(job[w])
    <3>1. CASE n # Oldest
        BY <1>4, <1>6, <2>1, <2>4, <3>1 DEF InFormat
    <3>2. CASE n = Oldest
      <4>1. Oldest \notin Late(w)
          BY <1>2, <2>1, <2>4 DEF Lag, Mute
      <4>2. Oldest = num[w]
          BY <1>1, <2>4, <4>1 DEF Late
      <4>3. cmd = AskOperator /\ \A k \in owed : k <= Oldest
          BY <2>1, <2>4, <4>2 DEF Alone, Chosen
      <4>4. \A k \in owed : k = Oldest
          BY <1>1, <4>3
      <4>5. FormatsIn(owed, sent) = {}
          BY <4>3, <4>4, FormatCommands DEF FormatsIn
      <4>6. modem.format = Wanted(job[w])
          BY <2>1, <2>4, <4>5 DEF InFormat, Comes
      <4> QED BY <1>1, <1>4, <3>2, <4>3, <4>6
    <3> QED BY <3>1, <3>2
  <2>5. Failed(w)' <=> Failed(w)
      BY <1>3 DEF Failed
  <2>6. InFormat(w)'
      BY <1>3, <2>1, <2>4, <2>5 DEF InFormat
  <2> QED BY <1>3, <2>1, <2>3, <2>6 DEF IspTrue
<1> QED BY <1>3, <1>4, <1>7, <1>8 DEF FormatInv

LEMMA FormatModem ==
    ASSUME P!ServiceTypeOK, Shapes, NEW w \in Workers, FormatInv(w), Modem
    PROVE  FormatInv(w)'
<1>1. CASE HangsUp \/ Exits
    BY <1>1, FormatUnchanged DEF HangsUp, Exits, Svc!HangUp, Svc!Exit, modemVars
<1> QED BY <1>1, FormatLine, FormatEnds DEF Modem

LEMMA FormatInit == ASSUME NEW w \in Workers, Init PROVE FormatInv(w)
<1> DEFINE k == NewJob(Idle)
<1>1. k.pc = "start" /\ IspTrue(k)
    BY DEF NewJob, IspTrue
<1>2. /\ pending = P!Nothing /\ "format" \in DOMAIN modem /\ DOMAIN said = Numbers
      /\ at[w] = "out" /\ job[w] = k /\ owed = {} /\ timeouts = 0
    BY DEF Init, Svc!ServiceInit, Svc!Nothing, P!Nothing
<1> HIDE DEF k
<1>3. ~Choosing(k) /\ ~Noting(k) /\ Chosen(k)
    BY <1>1 DEF Choosing, Noting, Chosen
<1>4. Alone(w) /\ Lag(w) /\ InFormat(w)
    BY <1>2, <1>3, NothingIsPlain DEF Alone, Lag, Late, Mute, InFormat
<1> QED BY <1>1, <1>2, <1>3, <1>4 DEF FormatInv

LEMMA FormatStep ==
    ASSUME NEW w, Workers = {w}
    PROVE  P!ServiceTypeOK /\ Shapes /\ FormatInv(w) /\ [Next]_vars => FormatInv(w)'
<1> SUFFICES ASSUME P!ServiceTypeOK, Shapes, FormatInv(w), [Next]_vars PROVE FormatInv(w)'
    OBVIOUS
<1>1. w \in Workers
    OBVIOUS
<1>2. CASE UNCHANGED vars
    BY <1>1, <1>2, FormatUnchanged DEF vars, serviceVars, modemVars
<1>3. CASE Modem
    BY <1>1, <1>3, FormatModem
<1>4. CASE Request(w) \/ Channel(w) \/ Simple(w) \/ Preference(w) \/ Bands(w) \/ Network(w)
    BY <1>1, <1>4, FormatRequest, FormatChannel, FormatSimple, FormatPreference, FormatBands,
       FormatNetwork
<1> QED BY <1>2, <1>3, <1>4 DEF Next

(* One operation at a time: whatever the operations before, the operator's   *)
(* names are in the formats they are reported as, if the modem accepted the  *)
(* formats, and at most one answer was late, missing or unasked.             *)
THEOREM NamesInOwnFormat ==
    ASSUME NEW w, Workers = {w} PROVE Spec => []IspInOwnFormat
<1>1. FormatInv(w) => IspInOwnFormat
    BY DEF FormatInv, Trusty, IspTrue, IspInOwnFormat
<1>2. Init => FormatInv(w)
    BY FormatInit
<1> QED BY <1>1, <1>2, FormatStep, ShapesHold, OperationsUseTheService, PTL DEF Spec
=============================================================================
