--------------------------- MODULE SessionsProofs ---------------------------
(***************************************************************************)
(* Theorems about Sessions, for any numbers of sessions, actions and tabs. *)
(***************************************************************************)
EXTENDS Sessions, TLAPS, FiniteSetTheorems

(* LastOf keeps at most n elements, at the end of the sequence. *)
LEMMA LastOfType ==
  ASSUME NEW S, NEW q \in Seq(S), NEW n \in Nat
  PROVE  LastOf(q, n) \in Seq(S) /\ Len(LastOf(q, n)) = (IF Len(q) > n THEN n ELSE Len(q))
BY DEF LastOf

(* A session has its tab from the lease on, an action its session from Get on,
   and nothing leaves the map while Reap has the lock. *)
Owned ==
  /\ \A s \in Opens :
       stage[s] \in {"insert", "live", "removed", "expired"} \cup Closing => tab[s] \in Tabs
  /\ \A a \in Acts : pc[a] # "new" => sess[a] \in Opens
  /\ reaper \in {"loop", "decide"} => \A s \in todo : stage[s] = "live"
  /\ reaper = "decide" => subject \in Opens \ todo /\ stage[subject] = "live"
  /\ reaper = "closing" => subject \in Opens
Typed == TypeOK /\ Owned

(* Before the first call. *)
LEMMA InitTyped == Init => Typed
BY SessionsAssumption DEF Init, Typed, TypeOK, Owned, Stages, PCs, Dispatched, Closing, Kinds, IdleCap

(* The steps of Open, SetHold, Close and of the person at the browser keep the types. *)
LEMMA OpeningTyped ==
  ASSUME Typed, NEW s \in Opens,
         Admit(s) \/ OpenStep(s) \/ SetHold(s) \/ Close(s) \/ CloseStep(s) \/ Drive(s)
  PROVE  Typed'
<1> USE SessionsAssumption DEF Typed, TypeOK, Owned, Stages, Closing, Enter, ManagerUnlocked,
        poolVars, reapVars, actVars, pastVars, sessionVars
<1>1. CASE Admit(s) BY <1>1 DEF Admit
<1>2. CASE LeaseTab(s) BY <1>2 DEF LeaseTab
<1>3. CASE LeaseFails(s) BY <1>3 DEF LeaseFails
<1>4. CASE Insert(s) BY <1>4 DEF Insert
<1>5. CASE SetHold(s) BY <1>5 DEF SetHold
<1>6. CASE Close(s) BY <1>6 DEF Close
<1>7. CASE SetClosing(s)
  <2>1. idle' \in [Opens -> 0 .. IdleCap] BY <1>7 DEF SetClosing, IdleCap
  <2> QED BY <1>7, <2>1 DEF SetClosing
<1>8. CASE ParkTab(s) BY <1>8 DEF ParkTab
<1>9. CASE PoolParks(s) BY <1>9 DEF PoolParks
<1>10. CASE PoolTakes(s) BY <1>10 DEF PoolTakes
<1>11. CASE Drive(s) BY <1>11 DEF Drive
<1> QED BY <1>1, <1>2, <1>3, <1>4, <1>5, <1>6, <1>7, <1>8, <1>9, <1>10, <1>11 DEF OpenStep, CloseStep

(* The steps of the reaper keep the types. *)
LEMMA ReapingTyped ==
  ASSUME Typed, ReapStep
  PROVE  Typed'
<1> USE SessionsAssumption DEF Typed, TypeOK, Owned, Stages, Closing, Enter, Expired,
        poolVars, reapVars, actVars, pastVars, sessionVars
<1>1. CASE Reap BY <1>1 DEF Reap, Live
<1>2. CASE ReapCloses BY <1>2 DEF ReapCloses
<1>3. ASSUME NEW s \in Opens, ReadHold(s) PROVE Typed'
  BY <1>3 DEF ReadHold
<1>4. ASSUME NEW s \in Opens, ReadLastUsed(s) PROVE Typed'
  BY <1>4 DEF ReadLastUsed
<1>5. ASSUME NEW s \in Opens, ReapExpired(s) PROVE Typed'
  <2>1. idle' \in [Opens -> 0 .. IdleCap] BY <1>5 DEF ReapExpired, IdleCap
  <2> QED BY <1>5, <2>1 DEF ReapExpired
<1> QED BY <1>1, <1>2, <1>3, <1>4, <1>5 DEF ReapStep

(* An action that is recorded keeps the types: the log is trimmed to its bound. *)
LEMMA RecordTyped ==
  ASSUME Typed, NEW a \in Acts, Record(a)
  PROVE  Typed'
<1> USE SessionsAssumption
<1>1. sess[a] \in Opens BY DEF Record, Typed, Owned
<1>2. Append(log[sess[a]], a) \in Seq(Acts) BY <1>1 DEF Typed, TypeOK
<1>3. /\ LastOf(Append(log[sess[a]], a), MaxLog) \in Seq(Acts)
      /\ Len(LastOf(Append(log[sess[a]], a), MaxLog)) <= MaxLog
  <2> DEFINE q == Append(log[sess[a]], a)
  <2>1. q \in Seq(Acts) /\ Len(q) \in Nat /\ MaxLog \in Nat BY <1>2
  <2>2. LastOf(q, MaxLog) \in Seq(Acts)
        /\ Len(LastOf(q, MaxLog)) = (IF Len(q) > MaxLog THEN MaxLog ELSE Len(q))
    BY <2>1, LastOfType
  <2> HIDE DEF q
  <2>3. Len(LastOf(q, MaxLog)) <= MaxLog BY <2>1, <2>2
  <2> QED BY <2>2, <2>3 DEF q
<1>4. \A s \in Opens : log'[s] \in Seq(Acts) /\ Len(log'[s]) <= MaxLog
  <2>1. log' = [s \in DOMAIN log |->
                  IF s = sess[a] THEN LastOf(Append(log[sess[a]], a), MaxLog) ELSE log[s]]
    BY DEF Record
  <2> QED BY <2>1, <1>3 DEF Typed, TypeOK
<1>5. pc' \in [Acts -> PCs] /\ asserted' \in [Opens -> 0 .. AssertTTL]
      /\ ended' \in [Acts -> 0 .. AssertTTL] /\ log' \in [Opens -> Seq(Acts)]
  <2>1. /\ pc \in [Acts -> PCs] /\ asserted \in [Opens -> 0 .. AssertTTL]
        /\ ended \in [Acts -> 0 .. AssertTTL] /\ log \in [Opens -> Seq(Acts)]
    BY DEF Typed, TypeOK
  <2> QED BY <1>1, <1>3, <2>1 DEF Record, Goto, PCs
<1>8. returned' \in [Opens -> Seq(Acts)]
  <2>1. Append(returned[sess[a]], a) \in Seq(Acts) BY <1>1 DEF Typed, TypeOK
  <2> QED BY <1>1, <2>1 DEF Record, Typed, TypeOK
<1>6. TypeOK' BY <1>4, <1>5, <1>8 DEF Record, Typed, TypeOK, poolVars, reapVars
<1>7. Owned' BY DEF Record, Typed, TypeOK, Owned, Goto, Closing, poolVars, reapVars
<1> QED BY <1>6, <1>7 DEF Typed

(* The steps of Run keep the types. *)
LEMMA RunningTyped ==
  ASSUME Typed, NEW a \in Acts, RunStep(a) \/ \E s \in Opens : Find(a, s)
  PROVE  Typed'
<1> USE SessionsAssumption DEF Typed, TypeOK, Owned, PCs, Dispatched, Closing, Goto, Succeed,
        poolVars, reapVars, actVars, pastVars, sessionVars
<1>1. CASE Refuse(a) BY <1>1 DEF Refuse
<1>2. CASE Begin(a)
  <2>1. idle' \in [Opens -> 0 .. IdleCap] BY <1>2 DEF Begin, IdleCap
  <2> QED BY <1>2, <2>1 DEF Begin
<1>3. CASE Navigate(a)
  <2>1. page' \in [Tabs -> {"blank", "site"}] BY <1>3 DEF Navigate
  <2> QED BY <1>3, <2>1 DEF Navigate
<1>4. CASE PassGate(a) BY <1>4 DEF PassGate
<1>5. CASE SendKeys(a) BY <1>5 DEF SendKeys
<1>6. CASE KeysSent(a) BY <1>6 DEF KeysSent
<1>7. CASE AssertHolds(a) BY <1>7 DEF AssertHolds
<1>8. CASE StartCapture(a) BY <1>8 DEF StartCapture
<1>9. CASE Captured(a) BY <1>9 DEF Captured
<1>10. CASE Fail(a) BY <1>10 DEF Fail
<1>11. CASE Record(a) BY <1>11, RecordTyped
<1>12. ASSUME NEW s \in Opens, Find(a, s) PROVE Typed'
  BY <1>12 DEF Find
<1> QED BY <1>1, <1>2, <1>3, <1>4, <1>5, <1>6, <1>7, <1>8, <1>9, <1>10, <1>11, <1>12 DEF RunStep

(* The clock keeps the types. *)
LEMMA TickTyped ==
  ASSUME Typed, Tick
  PROVE  Typed'
<1>1. ASSUME NEW cap \in Nat, NEW age \in 0 .. cap PROVE Older(age, cap) \in 0 .. cap
  BY DEF Older
<1>2. TypeOK BY DEF Typed
<1>3. idle' \in [Opens -> 0 .. IdleCap]
  <2>1. IdleCap \in Nat BY SessionsAssumption DEF IdleCap
  <2>2. \A s \in Opens : idle[s] \in 0 .. IdleCap BY <1>2 DEF TypeOK
  <2>3. \A s \in Opens : Older(idle[s], IdleCap) \in 0 .. IdleCap BY <1>1, <2>1, <2>2
  <2> QED BY <2>2, <2>3 DEF Tick
<1>4. asserted' \in [Opens -> 0 .. AssertTTL]
  <2>1. \A s \in Opens : asserted[s] \in 0 .. AssertTTL BY <1>2 DEF TypeOK
  <2> QED BY <1>1, <2>1, SessionsAssumption DEF Tick
<1>5. ended' \in [Acts -> 0 .. AssertTTL]
  <2>1. \A a \in Acts : ended[a] \in 0 .. AssertTTL BY <1>2 DEF TypeOK
  <2> QED BY <1>1, <2>1, SessionsAssumption DEF Tick
<1>6. UNCHANGED <<stage, tab, hold, log, free, page, reaper, todo, subject, kind, pc, sess, ok, returned>>
  BY DEF Tick, poolVars, reapVars
<1>7. TypeOK' BY <1>2, <1>3, <1>4, <1>5, <1>6 DEF TypeOK, IdleCap
<1>8. Owned' BY <1>6 DEF Typed, Owned, Closing
<1> QED BY <1>7, <1>8 DEF Typed

(* Every step keeps the types. *)
LEMMA NextTyped == Typed /\ [Next]_vars => Typed'
<1> SUFFICES ASSUME Typed, [Next]_vars PROVE Typed'
  OBVIOUS
<1>1. CASE UNCHANGED vars BY <1>1 DEF vars, Typed, TypeOK, Owned
<1> QED BY <1>1, OpeningTyped, ReapingTyped, RunningTyped, TickTyped DEF Next

(* Typed is an invariant. *)
LEMMA AlwaysTyped == Spec => []Typed
BY InitTyped, NextTyped, PTL DEF Spec

(* Every state is well typed; no evidence log outgrows MaxLog. *)
THEOREM SessionsTyped == Spec => []TypeOK
BY AlwaysTyped, PTL DEF Typed

-----------------------------------------------------------------------------
(* The tabs that sessions drive are leased, each by one of them. *)
TabsLeased == /\ \A s \in Driving : tab[s] \in Tabs \ free
              /\ \A s, q \in Driving : tab[s] = tab[q] => s = q

(* Every step keeps the tabs of leased sessions apart. *)
LEMMA NextLeased == Typed /\ TabsLeased /\ [Next]_vars => TabsLeased'
<1> SUFFICES ASSUME Typed, TabsLeased, [Next]_vars PROVE TabsLeased'
  OBVIOUS
<1> USE DEF TabsLeased, Driving
<1>1. ASSUME NEW s \in Opens, NEW st, st \notin {"lease", "new"}, stage[s] \in {"insert", "live",
             "removed", "expired", "closing", "parked"},
             Enter(s, st), UNCHANGED <<tab, free>>
      PROVE  TabsLeased'
  <2>1. stage \in [Opens -> Stages] BY DEF Typed, TypeOK
  <2> QED BY <1>1, <2>1 DEF Enter
<1>2. CASE UNCHANGED <<stage, tab, free>>
  BY <1>2
<1>3. ASSUME NEW s \in Opens, Admit(s) \/ LeaseFails(s) PROVE TabsLeased'
  <2>1. PICK st \in {"lease", "failed"} : stage' = [stage EXCEPT ![s] = st]
    BY <1>3 DEF Admit, LeaseFails, Enter
  <2>2. UNCHANGED <<tab, free>>
    BY <1>3 DEF Admit, LeaseFails, poolVars
  <2> QED BY <2>1, <2>2 DEF Typed, TypeOK
<1>4. ASSUME NEW s \in Opens, LeaseTab(s) PROVE TabsLeased'
  <2>1. PICK t \in free : free' = free \ {t} /\ tab' = [tab EXCEPT ![s] = t]
    BY <1>4 DEF LeaseTab
  <2>2. stage[s] = "lease" /\ stage' = [stage EXCEPT ![s] = "insert"]
    BY <1>4 DEF LeaseTab, Enter
  <2> QED BY <2>1, <2>2 DEF Typed, TypeOK
<1>5. ASSUME NEW s \in Opens, PoolTakes(s) PROVE TabsLeased'
  <2>1. /\ stage[s] = "blank" /\ stage' = [stage EXCEPT ![s] = "closed"]
        /\ free' = free \cup {tab[s]} /\ tab' = tab
    BY <1>5 DEF PoolTakes, Enter
  <2> QED BY <2>1 DEF Typed, TypeOK
<1>6. ASSUME NEW s \in Opens,
             Insert(s) \/ Close(s) \/ SetClosing(s) \/ ParkTab(s) \/ PoolParks(s)
      PROVE  TabsLeased'
  <2>1. /\ UNCHANGED <<tab, free>>
        /\ stage[s] \in {"insert", "live", "removed", "closing", "parked"}
    BY <1>6 DEF Insert, Close, SetClosing, ParkTab, PoolParks, poolVars
  <2>2. \E st \in {"live", "removed", "closing", "parked", "blank"} : Enter(s, st)
    BY <1>6 DEF Insert, Close, SetClosing, ParkTab, PoolParks
  <2> QED BY <1>1, <2>1, <2>2
<1>7. ASSUME NEW s \in Opens, SetHold(s) \/ Drive(s) PROVE TabsLeased'
  BY <1>2, <1>7 DEF SetHold, Drive, sessionVars, poolVars
<1>8. CASE ReapStep
  <2>1. ASSUME NEW s \in Opens, ReadLastUsed(s) PROVE TabsLeased'
    <3>1. stage[s] = "live" /\ UNCHANGED <<tab, free>>
      BY <2>1 DEF ReadLastUsed, Typed, Owned, poolVars
    <3>2. Enter(s, "expired") \/ stage' = stage
      BY <2>1 DEF ReadLastUsed, Enter, Typed, TypeOK
    <3> QED BY <1>1, <1>2, <3>1, <3>2
  <2>2. ASSUME NEW s \in Opens, ReapExpired(s) PROVE TabsLeased'
    BY <1>1, <2>2 DEF ReapExpired, Expired, poolVars
  <2>3. ASSUME NEW s \in Opens, ReadHold(s) PROVE TabsLeased'
    BY <1>2, <2>3 DEF ReadHold, sessionVars, poolVars
  <2>4. CASE Reap \/ ReapCloses
    BY <1>2, <2>4 DEF Reap, ReapCloses, sessionVars, poolVars
  <2> QED BY <1>8, <2>1, <2>2, <2>3, <2>4 DEF ReapStep
<1>9. ASSUME NEW a \in Acts, RunStep(a) \/ \E s \in Opens : Find(a, s) PROVE TabsLeased'
  BY <1>2, <1>9 DEF RunStep, Refuse, Begin, Navigate, PassGate, SendKeys, KeysSent, AssertHolds,
     StartCapture, Captured, Fail, Record, Find, sessionVars, poolVars
<1>10. CASE Tick \/ UNCHANGED vars
  BY <1>2, <1>10 DEF Tick, vars, poolVars
<1> QED BY <1>3, <1>4, <1>5, <1>6, <1>7, <1>8, <1>9, <1>10 DEF Next, OpenStep, CloseStep

(* However many calls of Open pass the limit together, no tab is driven by two
   sessions, and there are no more sessions than tabs. *)
THEOREM OneSessionPerTabHolds == Spec => []OneSessionPerTab
<1>1. Init => TabsLeased
  BY DEF Init, TabsLeased, Driving
<1>2. Typed /\ TabsLeased => OneSessionPerTab
  <2> SUFFICES ASSUME Typed, TabsLeased PROVE OneSessionPerTab
    OBVIOUS
  <2> DEFINE f == [s \in Live |-> tab[s]]
  <2>1. Live \subseteq Driving
    BY DEF Live, Driving
  <2>2. f \in Injection(Live, Tabs)
    BY <2>1 DEF TabsLeased, Injection, IsInjective
  <2>3. Cardinality(Live) <= Cardinality(Tabs)
    BY <2>2, SessionsAssumption, FS_Injection
  <2> QED BY <2>3 DEF TabsLeased, OneSessionPerTab
<1> QED BY <1>1, <1>2, AlwaysTyped, NextLeased, PTL DEF Spec

-----------------------------------------------------------------------------
(* The tab a session drives, in the terms of TabLeases. *)
Driven == [s \in Opens |-> IF s \in Driving THEN tab[s] ELSE None]
Pooled == [p \in {None} |-> free]

(* TabLeases counts as this module does. *)
LEMMA LendingCounts ==
  ASSUME NEW S
  PROVE  /\ Lending!Cardinality(S) = Cardinality(S)
         /\ Lending!IsFiniteSet(S) <=> IsFiniteSet(S)
<1>1. Lending!Cardinality(S) = Cardinality(S)
  BY DEF Lending!Cardinality, Cardinality
<1>2. Lending!IsFiniteSet(S) <=> IsFiniteSet(S)
  BY DEF Lending!IsFiniteSet, IsFiniteSet
<1> QED
  BY <1>1, <1>2

(* A lease takes a tab of the pool, the end of close gives it back, and no other
   step changes who has which tab. *)
LEMMA LendingStep == Typed /\ [Next]_vars => [Lending!Next]_<<Pooled, Driven>>
<1> SUFFICES ASSUME Typed, [Next]_vars, ~UNCHANGED <<Pooled, Driven>>
             PROVE  Lending!Next
  OBVIOUS
<1>0. /\ stage \in [Opens -> Stages] /\ tab \in [Opens -> Tabs \cup {None}]
      /\ \A s \in Driving : tab[s] \in Tabs
  BY DEF Typed, TypeOK, Owned, Driving, Closing
<1>1. ASSUME NEW s \in Opens, NEW st, s \in Driving <=> s \in Driving',
             Enter(s, st), UNCHANGED <<tab, free>>
      PROVE  FALSE
  <2>1. Driving' = Driving
    BY <1>0, <1>1 DEF Enter, Driving
  <2> QED
    BY <1>1, <2>1 DEF Pooled, Driven
<1>2. CASE UNCHANGED <<stage, tab, free>>
  BY <1>2 DEF Pooled, Driven, Driving
<1>3. ASSUME NEW s \in Opens, Admit(s) \/ LeaseFails(s) PROVE FALSE
  <2>1. /\ UNCHANGED <<tab, free>> /\ stage[s] \in {"new", "lease"}
        /\ \E st \in {"lease", "failed"} : Enter(s, st)
    BY <1>3 DEF Admit, LeaseFails, poolVars
  <2> QED
    BY <1>0, <1>1, <2>1 DEF Enter, Driving
<1>4. ASSUME NEW s \in Opens, LeaseTab(s) PROVE Lending!Next
  <2>1. PICK t \in free : free' = free \ {t} /\ tab' = [tab EXCEPT ![s] = t]
    BY <1>4 DEF LeaseTab
  <2>2. stage[s] = "lease" /\ stage' = [stage EXCEPT ![s] = "insert"]
    BY <1>4 DEF LeaseTab, Enter
  <2>3. Driving' = Driving \cup {s} /\ s \notin Driving
    BY <1>0, <2>2 DEF Driving
  <2>4. Driven' = [Driven EXCEPT ![s] = t] /\ Driven[s] = None
    BY <1>0, <2>1, <2>3 DEF Driven
  <2>5. Pooled' = [Pooled EXCEPT ![None] = @ \ {t}] /\ Pooled[None] = free
    BY <2>1 DEF Pooled
  <2>6. Lending!Take(s, None)
    BY <2>1, <2>4, <2>5 DEF Lending!Take, Lending!HasNone, Lending!Hold, Driven, Pooled
  <2> QED
    BY <2>6 DEF Lending!Next
<1>5. ASSUME NEW s \in Opens, PoolTakes(s) PROVE Lending!Next
  <2>1. /\ stage[s] = "blank" /\ stage' = [stage EXCEPT ![s] = "closed"]
        /\ free' = free \cup {tab[s]} /\ tab' = tab
    BY <1>5 DEF PoolTakes, Enter
  <2>2. Driving' = Driving \ {s} /\ s \in Driving
    BY <1>0, <2>1 DEF Driving
  <2>3. Driven' = [Driven EXCEPT ![s] = None] /\ Driven[s] = tab[s] /\ tab[s] \in Tabs
    BY <1>0, <2>1, <2>2 DEF Driven
  <2>4. Pooled' = [Pooled EXCEPT ![None] = @ \cup {tab[s]}]
    BY <2>1 DEF Pooled
  <2>5. [p \in {None} |-> Tabs][None] = Tabs
    OBVIOUS
  <2>6. Lending!Park(s, None)
    BY <2>3, <2>4, <2>5 DEF Lending!Park, Lending!Hold, Driven, Pooled
  <2> QED
    BY <2>6 DEF Lending!Next
<1>6. ASSUME NEW s \in Opens,
             Insert(s) \/ Close(s) \/ SetClosing(s) \/ ParkTab(s) \/ PoolParks(s)
      PROVE  FALSE
  <2>1. /\ UNCHANGED <<tab, free>>
        /\ stage[s] \in {"insert", "live", "removed", "closing", "parked"}
    BY <1>6 DEF Insert, Close, SetClosing, ParkTab, PoolParks, poolVars
  <2>2. \E st \in {"live", "removed", "closing", "parked", "blank"} : Enter(s, st)
    BY <1>6 DEF Insert, Close, SetClosing, ParkTab, PoolParks
  <2>3. s \in Driving /\ s \in Driving'
    BY <1>0, <2>1, <2>2 DEF Driving, Enter
  <2> QED
    BY <1>1, <2>1, <2>2, <2>3
<1>7. ASSUME NEW s \in Opens, SetHold(s) \/ Drive(s) PROVE FALSE
  BY <1>2, <1>7 DEF SetHold, Drive, sessionVars, poolVars, Pooled, Driven, Driving
<1>8. ASSUME ReapStep PROVE FALSE
  <2>1. ASSUME NEW s \in Opens, ReadLastUsed(s) \/ ReapExpired(s) PROVE FALSE
    <3>1. stage[s] \in {"live", "expired"} /\ UNCHANGED <<tab, free>>
      BY <2>1 DEF ReadLastUsed, ReapExpired, Expired, Typed, Owned, poolVars
    <3>2. \E st \in {"live", "expired", "closing"} : Enter(s, st)
      BY <2>1, <3>1 DEF ReadLastUsed, ReapExpired
    <3>3. s \in Driving /\ s \in Driving'
      BY <1>0, <3>1, <3>2 DEF Driving, Enter
    <3> QED
      BY <1>1, <3>1, <3>2, <3>3
  <2>2. ASSUME NEW s \in Opens, ReadHold(s) PROVE UNCHANGED <<stage, tab, free>>
    BY <2>2 DEF ReadHold, sessionVars, poolVars
  <2>3. ASSUME Reap \/ ReapCloses PROVE UNCHANGED <<stage, tab, free>>
    BY <2>3 DEF Reap, ReapCloses, sessionVars, poolVars
  <2>4. ~UNCHANGED <<stage, tab, free>>
    BY DEF Pooled, Driven, Driving
  <2> QED
    BY <1>8, <2>1, <2>2, <2>3, <2>4 DEF ReapStep
<1>9. ASSUME NEW a \in Acts, RunStep(a) \/ \E s \in Opens : Find(a, s)
      PROVE  UNCHANGED <<stage, tab, free>>
  BY <1>9 DEF RunStep, Refuse, Begin, Navigate, PassGate, SendKeys, KeysSent, AssertHolds,
     StartCapture, Captured, Fail, Record, Find, sessionVars, poolVars
<1>10. CASE Tick \/ UNCHANGED vars
  BY <1>2, <1>10 DEF Tick, vars, poolVars
<1> QED
  BY <1>2, <1>3, <1>4, <1>5, <1>6, <1>7, <1>8, <1>9, <1>10 DEF Next, OpenStep, CloseStep

(* What sessions do with the pool is what TabLeases promises of one: they take
   idle tabs, each for itself, and give each back once. *)
THEOREM SessionsLease == Spec => LendingSpec
<1>1. Init => Lending!Init
  <2> SUFFICES ASSUME Init PROVE Lending!Init
    OBVIOUS
  <2>1. /\ Lending!IsFiniteSet(Tabs) /\ Lending!Cardinality(Tabs) = Cardinality(Tabs)
        /\ Cardinality(Tabs) \in Nat
    BY LendingCounts, SessionsAssumption, FS_CardinalityType
  <2>2. Driven = [s \in Opens |-> None] /\ free = Tabs
    BY DEF Init, Driven, Driving
  <2>3. \A p \in {None} : Pooled[p] = Tabs /\ [q \in {None} |-> Tabs][p] = Tabs
    BY <2>2 DEF Pooled
  <2> QED
    BY <2>1, <2>2, <2>3 DEF Lending!Init, Driven, Pooled
<1>2. Typed /\ [Next]_vars => [Lending!Next]_<<[p \in {None} |-> free],
                              [s \in Opens |-> IF s \in Driving THEN tab[s] ELSE None]>>
  BY LendingStep DEF Pooled, Driven
<1> QED
  BY <1>1, <1>2, AlwaysTyped, PTL DEF Spec, LendingSpec, Lending!Spec

-----------------------------------------------------------------------------
(* A fresh assertedAt has an exact assertion behind it that is as fresh. *)
Backed ==
  \A s \in Opens : asserted[s] < AssertTTL =>
    \E b \in Acts : /\ sess[b] = s /\ kind[b] = "exact" /\ ok[b] /\ pc[b] = "done"
                    /\ ended[b] <= asserted[s]

(* Nothing is asserted before the first call. *)
LEMMA InitBacked == Init => Backed
BY SessionsAssumption DEF Init, Backed

(* What is done stays as it is, but for the time that passes. *)
LEMMA NextBacked == Typed /\ Backed /\ [Next]_vars => Backed'
<1> SUFFICES ASSUME Typed, Backed, [Next]_vars PROVE Backed'
  OBVIOUS
<1> USE SessionsAssumption DEF Backed
<1>1. CASE UNCHANGED <<asserted, kind, pc, sess, ok, ended>> BY <1>1
<1>2. CASE Tick
  <2> SUFFICES ASSUME NEW s \in Opens, asserted'[s] < AssertTTL
               PROVE  \E b \in Acts : /\ sess'[b] = s /\ kind'[b] = "exact" /\ ok'[b]
                                      /\ pc'[b] = "done" /\ ended'[b] <= asserted'[s]
    OBVIOUS
  <2>1. asserted[s] \in 0 .. AssertTTL /\ asserted'[s] = Older(asserted[s], AssertTTL)
    BY <1>2 DEF Tick, Typed, TypeOK
  <2>2. asserted[s] < AssertTTL /\ asserted'[s] = asserted[s] + 1
    BY <2>1 DEF Older
  <2>3. PICK b \in Acts : /\ sess[b] = s /\ kind[b] = "exact" /\ ok[b] /\ pc[b] = "done"
                          /\ ended[b] <= asserted[s]
    BY <2>2
  <2>4. ended[b] \in 0 .. AssertTTL /\ ended'[b] = Older(ended[b], AssertTTL)
    BY <1>2 DEF Tick, Typed, TypeOK
  <2>5. ended'[b] <= asserted'[s] BY <2>1, <2>2, <2>3, <2>4 DEF Older
  <2> QED BY <1>2, <2>3, <2>5 DEF Tick
<1>3. ASSUME NEW a \in Acts, Record(a) PROVE Backed'
  <2> SUFFICES ASSUME NEW s \in Opens, asserted'[s] < AssertTTL
               PROVE  \E b \in Acts : /\ sess'[b] = s /\ kind'[b] = "exact" /\ ok'[b]
                                      /\ pc'[b] = "done" /\ ended'[b] <= asserted'[s]
    OBVIOUS
  <2>0. pc[a] = "record" /\ pc'[a] = "done" /\ kind' = kind /\ sess' = sess /\ ok' = ok
        /\ (ok[a] /\ kind[a] = "exact" => ended'[a] = 0)
        /\ \A b \in Acts \ {a} : ended'[b] = ended[b] /\ pc'[b] = pc[b]
    BY <1>3 DEF Record, Goto, Typed, TypeOK
  <2>1. CASE asserted'[s] = asserted[s]
    <3>1. PICK b \in Acts : /\ sess[b] = s /\ kind[b] = "exact" /\ ok[b] /\ pc[b] = "done"
                            /\ ended[b] <= asserted[s]
      BY <2>1
    <3>2. pc'[b] = "done" /\ ended'[b] <= asserted'[s]
      BY <3>1, <2>0, <2>1
    <3> QED BY <3>1, <3>2, <2>0
  <2>2. CASE asserted'[s] # asserted[s]
    <3>1. s = sess[a] /\ ok[a] /\ kind[a] = "exact" /\ asserted'[s] = 0
      BY <2>2, <1>3 DEF Record, Typed, TypeOK
    <3> QED BY <3>1, <2>0
  <2> QED BY <2>1, <2>2
<1>4. ASSUME NEW a \in Acts, RunStep(a), ~Record(a) PROVE Backed'
  <2>1. pc[a] # "done" /\ asserted' = asserted /\ ended' = ended /\ kind' = kind /\ sess' = sess
    BY <1>4 DEF RunStep, Refuse, Begin, Navigate, PassGate, SendKeys, KeysSent, AssertHolds,
       StartCapture, Captured, Fail, Dispatched, Succeed, sessionVars, pastVars
  <2>2. \A b \in Acts : pc[b] = "done" => pc'[b] = "done" /\ ok'[b] = ok[b]
    BY <2>1, <1>4 DEF RunStep, Refuse, Begin, Navigate, PassGate, SendKeys, KeysSent, AssertHolds,
       StartCapture, Captured, Fail, Succeed, Goto, Typed, TypeOK
  <2> QED BY <2>1, <2>2
<1>5. ASSUME NEW a \in Acts, NEW s \in Opens, Find(a, s) PROVE Backed'
  BY <1>5 DEF Find, Goto, sessionVars, pastVars, Typed, TypeOK
<1>6. ASSUME NEW s \in Opens, Admit(s) \/ OpenStep(s) \/ SetHold(s) \/ Close(s) \/ CloseStep(s)
                                 \/ Drive(s)
      PROVE  Backed'
  <2>1. UNCHANGED <<asserted, kind, pc, sess, ok, ended>>
    BY <1>6 DEF Admit, OpenStep, LeaseTab, LeaseFails, Insert, SetHold, Close, CloseStep,
       SetClosing, ParkTab, PoolParks, PoolTakes, Drive, sessionVars, actVars, pastVars
  <2> QED BY <2>1
<1>7. CASE ReapStep
  <2>1. UNCHANGED <<asserted, kind, pc, sess, ok, ended>>
    BY <1>7 DEF ReapStep, Reap, ReapCloses, ReadHold, ReadLastUsed, ReapExpired,
       actVars, sessionVars, pastVars
  <2> QED BY <2>1
<1>8. CASE UNCHANGED vars BY <1>8 DEF vars
<1> QED BY <1>2, <1>3, <1>4, <1>5, <1>6, <1>7, <1>8 DEF Next

(* An action that begins to type found a fresh exact assertion of its session. *)
LEMMA StepGated ==
  ASSUME Typed, Backed, [Next]_vars, NEW a \in Acts, pc[a] # "type", pc'[a] = "type"
  PROVE  FreshExact(sess[a])
<1>1. PassGate(a)
  <2>1. CASE UNCHANGED vars BY <2>1 DEF vars
  <2>2. CASE Tick BY <2>2 DEF Tick
  <2>3. CASE ReapStep
    BY <2>3 DEF ReapStep, Reap, ReapCloses, ReadHold, ReadLastUsed, ReapExpired,
       actVars, sessionVars, pastVars
  <2>4. ASSUME NEW s \in Opens, Admit(s) \/ OpenStep(s) \/ SetHold(s) \/ Close(s) \/ CloseStep(s)
                                   \/ Drive(s)
        PROVE  FALSE
    BY <2>4 DEF Admit, OpenStep, LeaseTab, LeaseFails, Insert, SetHold, Close, CloseStep,
       SetClosing, ParkTab, PoolParks, PoolTakes, Drive, sessionVars, actVars, pastVars
  <2>5. ASSUME NEW b \in Acts, RunStep(b), ~PassGate(a) PROVE FALSE
    BY <2>5 DEF RunStep, Refuse, Begin, Navigate, PassGate, SendKeys, KeysSent, AssertHolds,
       StartCapture, Captured, Fail, Record, Succeed, Goto, Typed, TypeOK
  <2>6. ASSUME NEW b \in Acts, NEW s \in Opens, Find(b, s) PROVE FALSE
    BY <2>6 DEF Find, Goto, Typed, TypeOK
  <2> QED BY <2>1, <2>2, <2>3, <2>4, <2>5, <2>6 DEF Next
<1>2. sess[a] \in Opens /\ asserted[sess[a]] < AssertTTL
  BY <1>1 DEF PassGate, CanTypeCredentials, Typed, Owned
<1>3. PICK b \in Acts : /\ sess[b] = sess[a] /\ kind[b] = "exact" /\ ok[b] /\ pc[b] = "done"
                        /\ ended[b] <= asserted[sess[a]]
  BY <1>2 DEF Backed
<1>4. ended[b] < AssertTTL
  BY <1>2, <1>3, SessionsAssumption DEF Typed, TypeOK
<1> QED BY <1>3, <1>4 DEF FreshExact

(* The gate for credentials opens only after a fresh exact assertion on the
   same session, whatever runs at the same time. *)
THEOREM TypingIsGatedHolds == Spec => TypingIsGated
<1>1. Typed /\ Backed /\ [Next]_vars
        => [\A a \in Acts : pc[a] # "type" /\ pc'[a] = "type" => FreshExact(sess[a])]_vars
  BY StepGated
<1> QED BY <1>1, AlwaysTyped, InitBacked, NextBacked, PTL DEF Spec, TypingIsGated
-----------------------------------------------------------------------------
(* The elements LastOf keeps, by index. *)
Cut(q, n) == IF Len(q) > n THEN Len(q) - n ELSE 0

(* The i-th of the last n elements, in the terms of the whole list. *)
LEMMA LastOfElements ==
  ASSUME NEW S, NEW q \in Seq(S), NEW n \in Nat
  PROVE  /\ Cut(q, n) \in Nat
         /\ \A i \in DOMAIN LastOf(q, n) :
              i + Cut(q, n) \in DOMAIN q /\ i \in Int /\ LastOf(q, n)[i] = q[i + Cut(q, n)]
BY DEF LastOf, Cut

(* An empty log is complete before the first action. *)
LEMMA InitEvidence == Init => EvidenceIsComplete
<1> SUFFICES ASSUME Init PROVE EvidenceIsComplete
  OBVIOUS
<1>1. \A s \in Opens : Recorded(s) = {} /\ log[s] = <<>> /\ returned[s] = <<>>
  BY DEF Init, Recorded
<1>2. \A s \in Opens : /\ Len(log[s]) = 0 /\ DOMAIN log[s] = {}
                       /\ Len(returned[s]) = 0 /\ DOMAIN returned[s] = {}
  BY <1>1
<1>3. 0 <= MaxLog BY SessionsAssumption
<1> QED BY <1>1, <1>2, <1>3 DEF EvidenceIsComplete

(* A session's log is the end of the list of the calls that came back from it. *)
NewestOf(set, all, kept) ==
  /\ {all[i] : i \in DOMAIN all} = set
  /\ \A i, j \in DOMAIN all : all[i] = all[j] => i = j
  /\ Len(kept) = IF Len(all) <= MaxLog THEN Len(all) ELSE MaxLog
  /\ \A i \in DOMAIN kept : kept[i] = all[Len(all) - Len(kept) + i]

(* It is so again when the list has grown by one and the log was trimmed. *)
LEMMA GrownList ==
  ASSUME NEW S, NEW all \in Seq(S), NEW kept \in Seq(S), NEW a \in S, NEW set,
         NewestOf(set, all, kept), a \notin set
  PROVE  NewestOf(set \cup {a}, Append(all, a), LastOf(Append(kept, a), MaxLog))
<1>0. /\ \A i \in DOMAIN all : all[i] # a
      /\ {all[i] : i \in DOMAIN all} = set
      /\ \A i, j \in DOMAIN all : all[i] = all[j] => i = j
      /\ Len(kept) = IF Len(all) <= MaxLog THEN Len(all) ELSE MaxLog
      /\ \A i \in DOMAIN kept : kept[i] = all[Len(all) - Len(kept) + i]
  BY DEF NewestOf
<1> DEFINE grown == Append(all, a)
           q     == Append(kept, a)
           last  == LastOf(q, MaxLog)
<1>1. MaxLog \in Nat /\ Len(all) \in Nat /\ Len(kept) \in Nat BY SessionsAssumption
<1>2. /\ grown \in Seq(S) /\ Len(grown) = Len(all) + 1 /\ DOMAIN grown = 1 .. Len(all) + 1
      /\ grown[Len(all) + 1] = a /\ \A i \in 1 .. Len(all) : grown[i] = all[i]
      /\ DOMAIN all = 1 .. Len(all)
  OBVIOUS
<1>3. /\ q \in Seq(S) /\ Len(q) = Len(kept) + 1 /\ DOMAIN q = 1 .. Len(kept) + 1
      /\ q[Len(kept) + 1] = a /\ \A i \in 1 .. Len(kept) : q[i] = kept[i]
      /\ DOMAIN kept = 1 .. Len(kept)
  OBVIOUS
<1> HIDE DEF grown, q
<1>10. /\ Len(all) \in Int /\ Len(kept) \in Int /\ Len(kept) <= Len(all)
       /\ Len(grown) = Len(all) + 1 /\ Len(q) = Len(kept) + 1
  BY <1>0, <1>1, <1>2, <1>3
<1>4. /\ last \in Seq(S) /\ Len(last) = (IF Len(q) > MaxLog THEN MaxLog ELSE Len(q))
      /\ Cut(q, MaxLog) \in Nat
      /\ \A i \in DOMAIN last :
           i + Cut(q, MaxLog) \in DOMAIN q /\ i \in Int /\ last[i] = q[i + Cut(q, MaxLog)]
  <2>1. last \in Seq(S) /\ Len(last) = (IF Len(q) > MaxLog THEN MaxLog ELSE Len(q))
    BY <1>1, <1>3, LastOfType
  <2>2. /\ Cut(q, MaxLog) \in Nat
        /\ \A i \in DOMAIN last :
             i + Cut(q, MaxLog) \in DOMAIN q /\ i \in Int /\ last[i] = q[i + Cut(q, MaxLog)]
    BY <1>1, <1>3, LastOfElements
  <2> QED BY <2>1, <2>2
<1> HIDE DEF last
<1>5. {grown[i] : i \in DOMAIN grown} = set \cup {a}
  <2>1. \A i \in DOMAIN grown : grown[i] \in {all[k] : k \in DOMAIN all} \cup {a}
    <3> TAKE i \in DOMAIN grown
    <3>1. i \in 1 .. Len(all) \/ i = Len(all) + 1 BY <1>1, <1>2
    <3> QED BY <1>2, <3>1
  <2>2. \A i \in DOMAIN all : i \in DOMAIN grown /\ all[i] = grown[i] BY <1>1, <1>2
  <2>3. Len(all) + 1 \in DOMAIN grown BY <1>1, <1>2
  <2> QED BY <1>0, <1>2, <2>1, <2>2, <2>3
<1>6. \A i, j \in DOMAIN grown : grown[i] = grown[j] => i = j
  BY <1>0, <1>1, <1>2
<1>7. Len(last) = IF Len(grown) <= MaxLog THEN Len(grown) ELSE MaxLog
  BY <1>0, <1>1, <1>2, <1>3, <1>4
<1>8. \A i \in 1 .. Len(q) : q[i] = grown[Len(grown) - Len(q) + i]
  <2> TAKE i \in 1 .. Len(q)
  <2>1. CASE i = Len(kept) + 1
    <3>1. Len(grown) - Len(q) + i = Len(all) + 1 BY ONLY <1>10, <2>1
    <3> QED BY <1>2, <1>3, <2>1, <3>1
  <2>2. CASE i \in 1 .. Len(kept)
    <3>1. /\ Len(grown) - Len(q) + i = Len(all) - Len(kept) + i
          /\ Len(all) - Len(kept) + i \in 1 .. Len(all)
      BY ONLY <1>10, <2>2
    <3> QED BY <1>0, <1>2, <1>3, <2>2, <3>1
  <2> QED BY <1>1, <1>3, <2>1, <2>2
<1>9. ASSUME NEW i \in DOMAIN last PROVE last[i] = grown[Len(grown) - Len(last) + i]
  <2>1. i + Cut(q, MaxLog) \in 1 .. Len(q) /\ last[i] = q[i + Cut(q, MaxLog)] /\ i \in Int
    BY <1>3, <1>4, <1>9
  <2>2. Len(last) = Len(q) - Cut(q, MaxLog) BY <1>1, <1>3, <1>4 DEF Cut
  <2>3. Len(grown) - Len(q) + (i + Cut(q, MaxLog)) = Len(grown) - Len(last) + i
    <3>1. /\ Cut(q, MaxLog) \in Int /\ i \in Int
          /\ Len(grown) \in Int /\ Len(q) \in Int
      BY <1>4, <1>10, <2>1
    <3> QED BY ONLY <2>2, <3>1
  <2> QED BY <1>8, <2>1, <2>3
<1> QED BY <1>5, <1>6, <1>7, <1>9 DEF grown, q, last, NewestOf

(* A record is added for its own session, and everything else stays. *)
LEMMA RecordEvidence ==
  ASSUME Typed, EvidenceIsComplete, NEW a \in Acts, Record(a)
  PROVE  EvidenceIsComplete'
<1>0. PICK s0 \in Opens : s0 = sess[a]
  BY DEF Record, Typed, Owned
<1>1. s0 = sess[a] /\ pc[a] = "record" /\ sess' = sess
  BY <1>0 DEF Record
<1>2. /\ pc' = [pc EXCEPT ![a] = "done"]
      /\ log' = [log EXCEPT ![s0] = LastOf(Append(log[s0], a), MaxLog)]
      /\ returned' = [returned EXCEPT ![s0] = Append(returned[s0], a)]
  BY <1>1 DEF Record, Goto
<1>3. /\ pc \in [Acts -> PCs] /\ log \in [Opens -> Seq(Acts)]
      /\ returned \in [Opens -> Seq(Acts)]
  BY DEF Typed, TypeOK
<1>4. ASSUME NEW s \in Opens, s # s0
      PROVE  Recorded(s)' = Recorded(s) /\ log'[s] = log[s] /\ returned'[s] = returned[s]
  BY <1>1, <1>2, <1>3, <1>4 DEF Recorded
<1>5. Recorded(s0)' = Recorded(s0) \cup {a} /\ a \notin Recorded(s0)
  BY <1>1, <1>2, <1>3 DEF Recorded
<1>6. \A s \in Opens : NewestOf(Recorded(s), returned[s], log[s])
  BY DEF EvidenceIsComplete, NewestOf
<1>7. returned[s0] \in Seq(Acts) /\ log[s0] \in Seq(Acts)
  BY <1>3
<1>8. NewestOf(Recorded(s0)', Append(returned[s0], a), LastOf(Append(log[s0], a), MaxLog))
  BY <1>5, <1>6, <1>7, GrownList
<1>9. ASSUME NEW s \in Opens PROVE NewestOf(Recorded(s)', returned'[s], log'[s])
  <2>1. CASE s = s0
    <3>1. /\ returned'[s] = Append(returned[s0], a)
          /\ log'[s] = LastOf(Append(log[s0], a), MaxLog) /\ Recorded(s)' = Recorded(s0)'
      BY <2>1, <1>2, <1>3
    <3> QED BY <3>1, <1>8
  <2>2. CASE s # s0
    <3>1. Recorded(s)' = Recorded(s) /\ log'[s] = log[s] /\ returned'[s] = returned[s]
      BY <2>2, <1>4
    <3> QED BY <3>1, <1>6
  <2> QED BY <2>1, <2>2
<1> QED BY <1>9 DEF EvidenceIsComplete, NewestOf

(* Every step keeps the log complete. *)
LEMMA NextEvidence == Typed /\ EvidenceIsComplete /\ [Next]_vars => EvidenceIsComplete'
<1> SUFFICES ASSUME Typed, EvidenceIsComplete, [Next]_vars PROVE EvidenceIsComplete'
  OBVIOUS
<1>1. ASSUME UNCHANGED <<log, returned>>, \A s \in Opens : Recorded(s)' = Recorded(s)
      PROVE  EvidenceIsComplete'
  BY <1>1 DEF EvidenceIsComplete
<1>2. ASSUME UNCHANGED <<log, returned, pc, sess>> PROVE EvidenceIsComplete'
  BY <1>2, <1>1 DEF Recorded
<1>3. ASSUME NEW a \in Acts, Record(a) PROVE EvidenceIsComplete'
  BY <1>3, RecordEvidence
<1>4. ASSUME NEW a \in Acts, RunStep(a), ~Record(a) PROVE EvidenceIsComplete'
  <2>1. /\ UNCHANGED <<log, returned, sess>> /\ pc[a] # "done"
        /\ \E next \in PCs \ {"done"} : pc' = [pc EXCEPT ![a] = next]
    BY <1>4 DEF RunStep, Refuse, Begin, Navigate, PassGate, SendKeys, KeysSent, AssertHolds,
       StartCapture, Captured, Fail, Succeed, Goto, sessionVars, pastVars, PCs, Dispatched
  <2>2. \A s \in Opens : Recorded(s)' = Recorded(s)
    BY <2>1 DEF Recorded, Typed, TypeOK
  <2> QED BY <2>1, <2>2, <1>1
<1>5. ASSUME NEW a \in Acts, NEW s \in Opens, Find(a, s) PROVE EvidenceIsComplete'
  <2>1. /\ UNCHANGED <<log, returned>> /\ pc[a] = "new" /\ pc' = [pc EXCEPT ![a] = "found"]
        /\ sess' = [sess EXCEPT ![a] = s]
    BY <1>5 DEF Find, Goto, sessionVars, pastVars
  <2>2. \A x \in Opens : Recorded(x)' = Recorded(x)
    BY <2>1 DEF Recorded, Typed, TypeOK
  <2> QED BY <2>1, <2>2, <1>1
<1>6. ASSUME NEW s \in Opens, Admit(s) \/ OpenStep(s) \/ SetHold(s) \/ Close(s) \/ CloseStep(s)
                                 \/ Drive(s)
      PROVE  UNCHANGED <<log, returned, pc, sess>>
  BY <1>6 DEF Admit, OpenStep, LeaseTab, LeaseFails, Insert, SetHold, Close, CloseStep,
     SetClosing, ParkTab, PoolParks, PoolTakes, Drive, sessionVars, actVars, pastVars
<1>7. CASE ReapStep
  <2>1. UNCHANGED <<log, returned, pc, sess>>
    BY <1>7 DEF ReapStep, Reap, ReapCloses, ReadHold, ReadLastUsed, ReapExpired, actVars,
       sessionVars, pastVars
  <2> QED BY <2>1, <1>2
<1>8. CASE Tick BY <1>8, <1>2 DEF Tick
<1>9. CASE UNCHANGED vars BY <1>9, <1>2 DEF vars
<1> QED BY <1>2, <1>3, <1>4, <1>5, <1>6, <1>7, <1>8, <1>9 DEF Next

(* Every action that reached its session has come back from it once, and the log
   is the newest MaxLog of these actions, in the order in which they came back. *)
THEOREM EvidenceIsCompleteHolds == Spec => []EvidenceIsComplete
BY AlwaysTyped, InitEvidence, NextEvidence, PTL DEF Spec
=============================================================================
