--------------------------- MODULE ManagerProofs ---------------------------
(***************************************************************************)
(* Proofs about Manager for any callers, pool size, number of capture      *)
(* slots, retries and restarts of Chrome.                                  *)
(***************************************************************************)
EXTENDS Manager, FiniteSetTheorems, TLAPS

(* Phases with a tab, with a capture slot, with poolMu. *)
Holding == Driving
Locked == {"probe", "attach"}

(* Types, in four parts, and which callers reach which phases. *)
EnvShape ==
  /\ chrome \in 1 .. MaxChrome
  /\ pool \in Generations /\ stopped \subseteq Generations /\ closed \in BOOLEAN
  /\ prober \in Users \cup {None} /\ seen \in [Users -> Generations]

PoolShape ==
  /\ idle \in [Generations -> SUBSET Tabs]
  /\ created \in [Generations -> Int] /\ nextID \in [Generations -> Nat]
  /\ dead \subseteq Tabs /\ override \subseteq Tabs
  /\ \A g \in Generations : \A t \in idle[g] : t[1] = g

CallShape ==
  /\ pc \in [Users -> PCs] /\ ctx \in [Users -> {"live", "done"}]
  /\ got \in [Users -> Generations]
  /\ tab \in [Users -> Tabs \cup {None}]
  /\ healthy \in [Users -> BOOLEAN]
  /\ tries \in [Users -> Nat]
  /\ assists \subseteq Nat \X Users
  /\ slots \in Int

PhaseShape ==
  \A u \in Users :
    /\ pc[u] \in Holding => tab[u] \in Tabs /\ tab[u][1] = got[u]
    /\ tab[u] # None => pc[u] \in Holding
    /\ pc[u] \in {"slot", "metrics", "capture", "reset", "free"} => u \in Shots

Shape == EnvShape /\ PoolShape /\ CallShape /\ PhaseShape

(* The attempts made before a navigation never exceed the retries. *)
TriesInv ==
  \A u \in Users :
    /\ tries[u] <= Retries + 1
    /\ pc[u] \notin {"settle", "assist", "capture", "reset", "release"} => tries[u] <= Retries

(* What follows from the discovery request being made under poolMu. *)
LockInv ==
  /\ pool <= chrome
  /\ \A u \in Users : pc[u] \in Locked => prober = u /\ ~closed
  /\ \A u \in Users : pc[u] = "attach" => pool <= seen[u] /\ seen[u] <= chrome

(* Every generation that is used by somebody is stopped or the attached one. *)
HomeInv ==
  /\ closed => pool \in stopped
  /\ \A u \in Users : pc[u] \in Holding \cup {"acquire"} => got[u] \in stopped \cup {pool}
  /\ \A g \in Generations : idle[g] # {} => g \in stopped \cup {pool}

(* A tab has one user or is idle, and the next id of its pool is new. *)
ShareInv ==
  /\ \A u, v \in Users :
       pc[u] \in Holding /\ pc[v] \in Holding /\ tab[u] = tab[v] => u = v
  /\ \A u \in Users : pc[u] \in Holding => tab[u] \notin idle[got[u]]
  /\ \A u \in Users : pc[u] \in Holding => tab[u][2] <= nextID[got[u]]
  /\ \A g \in Generations : \A t \in idle[g] : t[2] <= nextID[g]
  /\ \A t \in override : t[2] <= nextID[t[1]]

(* Who holds a tab with metrics still has to reset or to retire it. *)
Measured == {"navigate", "settle", "assist", "retry", "capture", "reset"}
ResetInv ==
  /\ \A g \in Generations : idle[g] \cap override = {}
  /\ \A u \in Users :
       pc[u] \in Holding /\ tab[u] \in override =>
         /\ u \in Shots
         /\ pc[u] \in Measured \/ (pc[u] = "release" /\ ~healthy[u])

(* An assist is keyed by the tab of who waits. *)
AssistInv == \A a \in assists : pc[a[2]] = "assist" /\ a[1] = tab[a[2]][2]

Captors == {u \in Shots : pc[u] \notin {"idle", "slot", "done"}}
SlotInv == slots = Cardinality(Captors) /\ slots <= Slots

-----------------------------------------------------------------------------
(* What the assumption says of the callers and the bounds. *)
LEMMA Kinds ==
  /\ Shots \subseteq Users /\ Leases \subseteq Users /\ None \notin Users /\ None \notin Tabs
  /\ Shots \cap Leases = {}
  /\ MaxChrome \in Nat \ {0} /\ Retries \in Nat /\ Slots \in Nat \ {0}
  /\ 1 .. MaxChrome \subseteq Generations /\ 0 \in Generations
  /\ Generations \subseteq Nat
BY ManagerAssumption DEF Users, Generations, Tabs

(* A tab is the pair of its generation and its page id. *)
LEMMA TabFacts ==
  /\ \A t \in Tabs : t[1] \in Generations /\ t[2] \in Nat /\ t = <<t[1], t[2]>>
  /\ \A g \in Generations, n \in Nat :
       <<g, n>> \in Tabs /\ <<g, n>>[1] = g /\ <<g, n>>[2] = n
BY DEF Tabs

(* Counters per generation. *)
LEMMA Bump ==
  ASSUME NEW S, NEW x \in S, NEW f \in [S -> Int], NEW n \in [S -> Nat]
  PROVE  /\ [f EXCEPT ![x] = @ + 1] \in [S -> Int]
         /\ [f EXCEPT ![x] = @ - 1] \in [S -> Int]
         /\ [n EXCEPT ![x] = @ + 1] \in [S -> Nat]
OBVIOUS

(* Which steps leave the attachment, the pools and the tabs alone. *)
CallSteps(u) ==
  \/ Call(u) \/ TakeSlot(u) \/ LeaveSlot(u) \/ FindClosed(u) \/ AcquireFails(u)
  \/ NewPage(u) \/ Leased(u) \/ EndLease(u) \/ Retry(u) \/ GiveUpRetry(u)
  \/ Navigate(u) \/ NavigateFails(u) \/ Capture(u)
  \/ Settle(u) \/ AskHuman(u) \/ AssistEnds(u) \/ ResetFails(u) \/ FreeSlot(u)
  \/ ContextEnds(u)
LockSteps(u) == LockPool(u) \/ Discover(u) \/ DiscoverFails(u) \/ Attach(u)
TabSteps(u) ==
  \/ TakeIdle(u) \/ DropIdle(u) \/ ReserveTab(u)
  \/ SetMetrics(u) \/ SetMetricsFails(u) \/ Reset(u) \/ Park(u) \/ Retire(u) \/ NewPageFails(u)

(* Steps of a call outside of the lock and of the tabs leave pools and tabs alone. *)
LEMMA CallFrame ==
  ASSUME NEW u \in Users, CallSteps(u)
  PROVE  UNCHANGED <<chrome, attachVars, poolVars, tabVars>>
<1>1. CASE Call(u) \/ TakeSlot(u) \/ LeaveSlot(u) \/ FindClosed(u) \/ AcquireFails(u)
  BY <1>1 DEF Call, TakeSlot, LeaveSlot, FindClosed, AcquireFails
<1>2. CASE NewPage(u) \/ Leased(u) \/ EndLease(u) \/ Retry(u) \/ GiveUpRetry(u) \/ FreeSlot(u) \/ ContextEnds(u)
  BY <1>2 DEF NewPage, Leased, EndLease, Retry, GiveUpRetry, FreeSlot, ContextEnds
<1>3. CASE Navigate(u) \/ NavigateFails(u) \/ Capture(u) \/ ResetFails(u) \/ AskHuman(u)
  BY <1>3 DEF Navigate, NavigateFails, Capture, ResetFails, AskHuman
<1>4. CASE Settle(u) \/ AssistEnds(u)
  BY <1>4 DEF Settle, AssistEnds, Outcome
<1> QED
  BY <1>1, <1>2, <1>3, <1>4 DEF CallSteps

(* Steps under poolMu leave generations, tabs, assists and slots alone. *)
LEMMA LockFrame ==
  ASSUME NEW u \in Users, LockSteps(u)
  PROVE  UNCHANGED <<chrome, closed, poolVars, tabVars, assists, slots>>
BY DEF LockSteps, LockPool, Discover, DiscoverFails, Attach

(* Steps on a tab leave the pointer to the pool, assists and slots alone. *)
LEMMA TabFrame ==
  ASSUME NEW u \in Users, TabSteps(u)
  PROVE  UNCHANGED <<chrome, attachVars, assists, slots>>
<1>1. CASE TakeIdle(u) \/ DropIdle(u) \/ ReserveTab(u) \/ SetMetrics(u)
  BY <1>1 DEF TakeIdle, DropIdle, ReserveTab, SetMetrics
<1>2. CASE SetMetricsFails(u) \/ Reset(u) \/ Park(u) \/ Retire(u) \/ NewPageFails(u)
  BY <1>2 DEF SetMetricsFails, Reset, Park, Retire, NewPageFails
<1> QED
  BY <1>1, <1>2 DEF TabSteps

(* Who takes a step: a call, Chrome on a tab, or the environment. *)
LEMMA Steps ==
  ASSUME [Next]_vars
  PROVE  \/ \E u \in Users : CallSteps(u) \/ LockSteps(u) \/ TabSteps(u)
         \/ \E t \in Held \cup UNION {idle[g] : g \in Generations} : TabDies(t)
         \/ Close \/ Restart \/ UNCHANGED vars
BY DEF Next, Step, Proceed, CallSteps, LockSteps, TabSteps

-----------------------------------------------------------------------------
(* Every step keeps the types. *)
LEMMA EnvStep == EnvShape /\ [Next]_vars => EnvShape'
<1> SUFFICES ASSUME EnvShape, [Next]_vars PROVE EnvShape'
  OBVIOUS
<1> USE Kinds DEF EnvShape, attachVars
<1>1. ASSUME NEW u \in Users, LockSteps(u) PROVE EnvShape'
  <2>1. CASE LockPool(u) \/ Discover(u) \/ DiscoverFails(u)
    BY <2>1 DEF LockPool, Discover, DiscoverFails
  <2>2. CASE Attach(u)
    BY <2>2 DEF Attach
  <2> QED
    BY <1>1, <2>1, <2>2 DEF LockSteps
<1>2. CASE Close
  BY <1>2 DEF Close
<1>3. CASE Restart
  BY <1>3 DEF Restart
<1>4. CASE UNCHANGED <<chrome, attachVars>>
  BY <1>4
<1> QED
  BY <1>1, <1>2, <1>3, <1>4, Steps, CallFrame, TabFrame DEF vars, TabDies

(* The types of the pools are kept. *)
LEMMA PoolStep == PoolShape /\ CallShape /\ PhaseShape /\ [Next]_vars => PoolShape'
<1> SUFFICES ASSUME PoolShape, CallShape, PhaseShape, [Next]_vars PROVE PoolShape'
  OBVIOUS
<1> USE Kinds DEF PoolShape, poolVars, tabVars, Forget
<1>1. ASSUME NEW u \in Users, TabSteps(u) PROVE PoolShape'
  <2>0. got[u] \in Generations
        /\ (pc[u] \in Holding => tab[u] \in Tabs /\ tab[u][1] = got[u])
    BY DEF CallShape, PhaseShape
  <2>1. CASE TakeIdle(u) \/ DropIdle(u)
    BY <2>0, <2>1 DEF TakeIdle, DropIdle
  <2>2. CASE ReserveTab(u)
    <3>1. /\ created' = [created EXCEPT ![got[u]] = @ + 1]
          /\ nextID' = [nextID EXCEPT ![got[u]] = @ + 1]
          /\ UNCHANGED <<idle, dead, override>>
      BY <2>2 DEF ReserveTab
    <3>2. created' \in [Generations -> Int] /\ nextID' \in [Generations -> Nat]
      BY <2>0, <3>1, Bump
    <3> QED
      BY <3>1, <3>2
  <2>3. CASE SetMetrics(u) \/ SetMetricsFails(u) \/ Reset(u)
    BY <2>0, <2>3 DEF SetMetrics, SetMetricsFails, Reset, Holding, Driving
  <2>4. CASE Park(u)
    <3>0. pc[u] \in Holding
      BY <2>4 DEF Park, Holding, Driving
    <3>1. tab[u] \in Tabs /\ tab[u][1] = got[u] /\ got[u] \in Generations
      BY <2>0, <3>0
    <3>2. UNCHANGED <<created, nextID, dead, override>>
      BY <2>4 DEF Park
    <3>3. idle' = [idle EXCEPT ![got[u]] = @ \cup {tab[u]}]
      BY <2>4 DEF Park
    <3>4. idle' \in [Generations -> SUBSET Tabs]
      BY <3>1, <3>3
    <3>5. \A g \in Generations : idle'[g] = IF g = got[u] THEN idle[g] \cup {tab[u]} ELSE idle[g]
      BY <3>3
    <3> QED
      BY <3>1, <3>2, <3>4, <3>5
  <2>5. CASE Retire(u) \/ NewPageFails(u)
    <3>1. /\ created' = [created EXCEPT ![got[u]] = @ - 1]
          /\ dead' \subseteq dead /\ override' \subseteq override
          /\ UNCHANGED <<idle, nextID>>
      BY <2>5 DEF Retire, NewPageFails
    <3>2. created' \in [Generations -> Int]
      BY <2>0, <3>1, Bump
    <3> QED
      BY <3>1, <3>2
  <2> QED
    BY <1>1, <2>1, <2>2, <2>3, <2>4, <2>5 DEF TabSteps
<1>2. ASSUME NEW t \in Held \cup UNION {idle[g] : g \in Generations}, TabDies(t)
      PROVE PoolShape'
  <2>1. t \in Tabs
    BY DEF Held, CallShape
  <2> QED
    BY <1>2, <2>1 DEF TabDies
<1>3. CASE UNCHANGED <<poolVars, tabVars>>
  BY <1>3
<1> QED
  BY <1>1, <1>2, <1>3, Steps, CallFrame, LockFrame DEF vars, Close, Restart

(* The types of the calls are kept. *)
LEMMA CallStep == EnvShape /\ PoolShape /\ CallShape /\ PhaseShape /\ [Next]_vars => CallShape'
<1> SUFFICES ASSUME EnvShape, PoolShape, CallShape, PhaseShape, [Next]_vars PROVE CallShape'
  OBVIOUS
<1> USE Kinds DEF CallShape, PCs, Attaching, Driving, Goto, Drop, Unwind, Return, Judge, userVars
<1>1. ASSUME NEW u \in Users, CallSteps(u) PROVE CallShape'
  <2>1. CASE Call(u) \/ TakeSlot(u)
    BY <2>1 DEF Call, TakeSlot
  <2>6. CASE LeaveSlot(u)
    BY <2>6 DEF LeaveSlot
  <2>9. CASE FindClosed(u)
    BY <2>9 DEF FindClosed
  <2>7. CASE AcquireFails(u)
    BY <2>7 DEF AcquireFails
  <2>2. CASE NewPage(u) \/ Leased(u) \/ EndLease(u) \/ Retry(u) \/ GiveUpRetry(u) \/ FreeSlot(u) \/ ContextEnds(u)
    BY <2>2 DEF NewPage, Leased, EndLease, Retry, GiveUpRetry, FreeSlot, ContextEnds
  <2>3. CASE Navigate(u)
    BY <2>3 DEF Navigate
  <2>8. CASE NavigateFails(u)
    BY <2>8 DEF NavigateFails
  <2>10. CASE Capture(u)
    BY <2>10 DEF Capture
  <2>11. CASE ResetFails(u)
    BY <2>11 DEF ResetFails
  <2>4. CASE AskHuman(u)
    <3>1. tab[u] \in Tabs
      BY <2>4 DEF AskHuman, PhaseShape, Holding
    <3>2. tab[u][2] \in Nat
      BY <3>1, TabFacts
    <3>3. assists' \subseteq Nat \X Users
      BY <2>4, <3>2 DEF AskHuman
    <3>4. pc' \in [Users -> PCs]
      BY <2>4 DEF AskHuman
    <3>5. UNCHANGED <<ctx, got, tab, healthy, tries, slots>>
      BY <2>4 DEF AskHuman
    <3> QED
      BY <3>3, <3>4, <3>5
  <2>5. CASE Settle(u) \/ AssistEnds(u)
    <3>1. /\ assists' \subseteq assists
          /\ UNCHANGED <<slots, ctx, got, tab, tries>>
      BY <2>5 DEF Settle, AssistEnds, Outcome
    <3>2. CASE Content(u)
      BY <3>1, <3>2 DEF Content
    <3>3. CASE Broken(u)
      BY <3>1, <3>3 DEF Broken
    <3>4. CASE Unresolved(u)
      BY <3>1, <3>4 DEF Unresolved
    <3> QED
      BY <2>5, <3>2, <3>3, <3>4 DEF Settle, AssistEnds, Outcome
  <2> QED
    BY <1>1, <2>1, <2>2, <2>3, <2>4, <2>5, <2>6, <2>7, <2>8, <2>9, <2>10,
       <2>11 DEF CallSteps
<1>2. ASSUME NEW u \in Users, LockSteps(u) PROVE CallShape'
  <2>1. CASE LockPool(u) \/ Discover(u)
    BY <2>1 DEF LockPool, Discover
  <2>2. CASE DiscoverFails(u)
    BY <2>2 DEF DiscoverFails
  <2>3. CASE Attach(u)
    BY <2>3 DEF Attach, EnvShape
  <2> QED
    BY <1>2, <2>1, <2>2, <2>3 DEF LockSteps
<1>3. ASSUME NEW u \in Users, TabSteps(u) PROVE CallShape'
  <2>1. CASE TakeIdle(u)
    <3>1. PICK t \in idle[got[u]] : tab' = [tab EXCEPT ![u] = t]
      BY <2>1 DEF TakeIdle
    <3>2. t \in Tabs
      BY DEF PoolShape
    <3> QED
      BY <2>1, <3>1, <3>2 DEF TakeIdle
  <2>2. CASE DropIdle(u)
    BY <2>2 DEF DropIdle
  <2>3. CASE ReserveTab(u)
    BY <2>3, TabFacts DEF ReserveTab, PoolShape
  <2>4. CASE SetMetrics(u)
    BY <2>4 DEF SetMetrics
  <2>7. CASE SetMetricsFails(u)
    BY <2>7 DEF SetMetricsFails
  <2>8. CASE Reset(u)
    BY <2>8 DEF Reset
  <2>5. CASE Park(u)
    BY <2>5 DEF Park
  <2>6. CASE Retire(u)
    BY <2>6 DEF Retire
  <2>9. CASE NewPageFails(u)
    BY <2>9 DEF NewPageFails
  <2> QED
    BY <1>3, <2>1, <2>2, <2>3, <2>4, <2>5, <2>6, <2>7, <2>8, <2>9 DEF TabSteps
<1>4. CASE UNCHANGED <<pc, ctx, userVars, assists, slots>>
  BY <1>4
<1> QED
  BY <1>1, <1>2, <1>3, <1>4, Steps DEF vars, Close, Restart, TabDies

(* What a call has at hand fits the position it is at. *)
LEMMA PhaseStep == PoolShape /\ CallShape /\ PhaseShape /\ [Next]_vars => PhaseShape'
<1> SUFFICES ASSUME PoolShape, CallShape, PhaseShape, [Next]_vars PROVE PhaseShape'
  OBVIOUS
<1> USE Kinds DEF PhaseShape, CallShape, Driving, Holding, Goto, Drop, Unwind, Return, Judge, userVars
<1>1. ASSUME NEW u \in Users, CallSteps(u) PROVE PhaseShape'
  <2>1. CASE Call(u) \/ TakeSlot(u) \/ LeaveSlot(u) \/ FindClosed(u) \/ AcquireFails(u)
    BY <2>1 DEF Call, TakeSlot, LeaveSlot, FindClosed, AcquireFails
  <2>2. CASE NewPage(u) \/ Leased(u) \/ EndLease(u) \/ Retry(u) \/ GiveUpRetry(u) \/ FreeSlot(u) \/ ContextEnds(u)
    BY <2>2 DEF NewPage, Leased, EndLease, Retry, GiveUpRetry, FreeSlot, ContextEnds
  <2>3. CASE Navigate(u) \/ NavigateFails(u) \/ Capture(u) \/ ResetFails(u) \/ AskHuman(u)
    BY <2>3 DEF Navigate, NavigateFails, Capture, ResetFails, AskHuman
  <2>5. CASE Settle(u) \/ AssistEnds(u)
    BY <2>5 DEF Settle, AssistEnds, Outcome, Content, Broken, Unresolved
  <2> QED
    BY <1>1, <2>1, <2>2, <2>3, <2>5 DEF CallSteps
<1>2. ASSUME NEW u \in Users, LockSteps(u) PROVE PhaseShape'
  BY <1>2 DEF LockSteps, LockPool, Discover, DiscoverFails, Attach
<1>3. ASSUME NEW u \in Users, TabSteps(u) PROVE PhaseShape'
  <2>1. CASE TakeIdle(u)
    <3>1. PICK t \in idle[got[u]] : tab' = [tab EXCEPT ![u] = t]
      BY <2>1 DEF TakeIdle
    <3>0. got[u] \in Generations
      OBVIOUS
    <3>2. t \in Tabs /\ t[1] = got[u]
      BY <3>0 DEF PoolShape
    <3>3. got' = got /\ pc' = [pc EXCEPT ![u] = "leased"] /\ pc[u] = "acquire"
      BY <2>1 DEF TakeIdle, Open
    <3>4. \A v \in Users : v # u => pc'[v] = pc[v] /\ tab'[v] = tab[v]
      BY <3>1, <3>3
    <3>5. pc'[u] = "leased" /\ tab'[u] = t
      BY <3>1, <3>3
    <3> QED
      BY <3>2, <3>3, <3>4, <3>5
  <2>2. CASE DropIdle(u)
    BY <2>2 DEF DropIdle
  <2>3. CASE ReserveTab(u)
    BY <2>3, TabFacts DEF ReserveTab, Open, PoolShape
  <2>4. CASE SetMetrics(u)
    BY <2>4 DEF SetMetrics
  <2>6. CASE SetMetricsFails(u)
    BY <2>6 DEF SetMetricsFails
  <2>7. CASE Reset(u)
    BY <2>7 DEF Reset
  <2>5. CASE Park(u) \/ Retire(u) \/ NewPageFails(u)
    BY <2>5 DEF Park, Retire, NewPageFails
  <2> QED
    BY <1>3, <2>1, <2>2, <2>3, <2>4, <2>5, <2>6, <2>7 DEF TabSteps
<1>4. CASE UNCHANGED <<pc, userVars>>
  BY <1>4
<1> QED
  BY <1>1, <1>2, <1>3, <1>4, Steps DEF vars, Close, Restart, TabDies

-----------------------------------------------------------------------------
(* An attempt is counted when it navigates, and only a retry leads back. *)
LEMMA TriesStep == CallShape /\ TriesInv /\ [Next]_vars => TriesInv'
<1> SUFFICES ASSUME CallShape, TriesInv, [Next]_vars PROVE TriesInv'
  OBVIOUS
<1> USE Kinds DEF TriesInv, CallShape, Goto, Drop, Unwind, Return, userVars
<1>1. ASSUME NEW u \in Users, CallSteps(u) PROVE TriesInv'
  <2>1. CASE Call(u) \/ TakeSlot(u) \/ LeaveSlot(u) \/ FindClosed(u) \/ AcquireFails(u)
    BY <2>1 DEF Call, TakeSlot, LeaveSlot, FindClosed, AcquireFails
  <2>2. CASE NewPage(u) \/ Leased(u) \/ EndLease(u) \/ Retry(u) \/ GiveUpRetry(u) \/ FreeSlot(u) \/ ContextEnds(u)
    BY <2>2 DEF NewPage, Leased, EndLease, Retry, GiveUpRetry, FreeSlot, ContextEnds
  <2>3. CASE Navigate(u)
    <3>1. tries[u] \in Nat /\ tries[u] <= Retries
      BY <2>3 DEF Navigate
    <3>2. tries'[u] = tries[u] + 1 /\ \A v \in Users \ {u} : tries'[v] = tries[v] /\ pc'[v] = pc[v]
      BY <2>3 DEF Navigate
    <3>3. pc'[u] = "settle"
      BY <2>3 DEF Navigate
    <3> QED
      BY <3>1, <3>2, <3>3
  <2>4. CASE NavigateFails(u) \/ Capture(u) \/ ResetFails(u) \/ AskHuman(u)
    BY <2>4 DEF NavigateFails, Capture, ResetFails, AskHuman
  <2>5. CASE Settle(u) \/ AssistEnds(u)
    BY <2>5 DEF Settle, AssistEnds, Outcome, Content, Broken, Unresolved
  <2> QED
    BY <1>1, <2>1, <2>2, <2>3, <2>4, <2>5 DEF CallSteps
<1>2. ASSUME NEW u \in Users, LockSteps(u) PROVE TriesInv'
  BY <1>2 DEF LockSteps, LockPool, Discover, DiscoverFails, Attach
<1>3. ASSUME NEW u \in Users, TabSteps(u) PROVE TriesInv'
  <2>1. CASE TakeIdle(u) \/ DropIdle(u) \/ ReserveTab(u)
    <3>1. tries' = tries /\ \A v \in Users : pc'[v] = pc[v] \/ pc[v] = "acquire"
      BY <2>1 DEF TakeIdle, DropIdle, ReserveTab, Open
    <3> QED
      BY <3>1
  <2>2. CASE SetMetrics(u) \/ SetMetricsFails(u) \/ Reset(u)
    BY <2>2 DEF SetMetrics, SetMetricsFails, Reset
  <2>3. CASE Park(u) \/ Retire(u) \/ NewPageFails(u)
    BY <2>3 DEF Park, Retire, NewPageFails
  <2> QED
    BY <1>3, <2>1, <2>2, <2>3 DEF TabSteps
<1>4. CASE UNCHANGED <<pc, userVars>>
  BY <1>4
<1> QED
  BY <1>1, <1>2, <1>3, <1>4, Steps DEF vars, Close, Restart, TabDies

(* Nobody but who holds poolMu is between the question and the answer. *)
LEMMA LockStep == EnvShape /\ CallShape /\ LockInv /\ [Next]_vars => LockInv'
<1> SUFFICES ASSUME EnvShape, CallShape, LockInv, [Next]_vars PROVE LockInv'
  OBVIOUS
<1> USE Kinds DEF LockInv, Locked, EnvShape, CallShape, Goto, Drop, Unwind, Return, attachVars
<1>0. chrome \in Nat /\ pool \in Nat /\ \A u \in Users : seen[u] \in Nat
  OBVIOUS
<1>1. ASSUME NEW u \in Users, CallSteps(u) PROVE LockInv'
  <2>0. UNCHANGED <<chrome, attachVars>>
    BY <1>1, CallFrame
  <2>1. \A v \in Users : pc'[v] \in Locked => pc'[v] = pc[v]
    <3>1. CASE Call(u) \/ TakeSlot(u) \/ LeaveSlot(u) \/ FindClosed(u) \/ AcquireFails(u)
      BY <3>1 DEF Call, TakeSlot, LeaveSlot, FindClosed, AcquireFails
    <3>2. CASE NewPage(u) \/ Leased(u) \/ EndLease(u) \/ Retry(u) \/ GiveUpRetry(u) \/ FreeSlot(u) \/ ContextEnds(u)
      BY <3>2 DEF NewPage, Leased, EndLease, Retry, GiveUpRetry, FreeSlot, ContextEnds
    <3>3. CASE Navigate(u) \/ NavigateFails(u) \/ Capture(u) \/ ResetFails(u) \/ AskHuman(u)
      BY <3>3 DEF Navigate, NavigateFails, Capture, ResetFails, AskHuman
    <3>4. CASE Settle(u) \/ AssistEnds(u)
      BY <3>4 DEF Settle, AssistEnds, Outcome, Content, Broken, Unresolved
    <3> QED
      BY <1>1, <3>1, <3>2, <3>3, <3>4 DEF CallSteps
  <2> QED
    BY <2>0, <2>1
<1>2. ASSUME NEW u \in Users, LockSteps(u) PROVE LockInv'
  <2>1. CASE LockPool(u)
    BY <2>1 DEF LockPool
  <2>2. CASE Discover(u)
    BY <1>0, <2>2 DEF Discover
  <2>3. CASE DiscoverFails(u)
    BY <2>3 DEF DiscoverFails
  <2>4. CASE Attach(u)
    BY <1>0, <2>4 DEF Attach
  <2> QED
    BY <1>2, <2>1, <2>2, <2>3, <2>4 DEF LockSteps
<1>3. ASSUME NEW u \in Users, TabSteps(u) PROVE LockInv'
  <2>0. UNCHANGED <<chrome, attachVars>>
    BY <1>3, TabFrame
  <2>1. \A v \in Users : pc'[v] \in Locked => pc'[v] = pc[v]
    <3>1. CASE TakeIdle(u) \/ DropIdle(u) \/ ReserveTab(u) \/ SetMetrics(u)
      BY <3>1 DEF TakeIdle, DropIdle, ReserveTab, SetMetrics
    <3>2. CASE SetMetricsFails(u) \/ Reset(u) \/ Park(u) \/ Retire(u) \/ NewPageFails(u)
      BY <3>2 DEF SetMetricsFails, Reset, Park, Retire, NewPageFails
    <3> QED
      BY <1>3, <3>1, <3>2 DEF TabSteps
  <2> QED
    BY <2>0, <2>1
<1>4. CASE Close
  BY <1>4 DEF Close
<1>5. CASE Restart
  BY <1>0, <1>5 DEF Restart
<1>6. CASE UNCHANGED <<chrome, attachVars, pc>>
  BY <1>6
<1> QED
  BY <1>1, <1>2, <1>3, <1>4, <1>5, <1>6, Steps DEF vars, TabDies

(* A generation that is replaced is stopped first. *)
LEMMA HomeStep ==
  EnvShape /\ PoolShape /\ CallShape /\ PhaseShape /\ LockInv /\ HomeInv /\ [Next]_vars => HomeInv'
<1> SUFFICES ASSUME EnvShape, PoolShape, CallShape, PhaseShape, LockInv, HomeInv, [Next]_vars
             PROVE  HomeInv'
  OBVIOUS
<1> USE Kinds DEF HomeInv, CallShape, Holding, Driving, Goto, Drop, Unwind, Return, attachVars, poolVars,
        userVars
<1>1. ASSUME NEW u \in Users, CallSteps(u) PROVE HomeInv'
  <2>0. UNCHANGED <<attachVars, poolVars>>
    BY <1>1, CallFrame
  <2>1. \A v \in Users : pc'[v] \in Holding \cup {"acquire"} =>
          pc[v] \in Holding \cup {"acquire"} /\ got'[v] = got[v]
    <3>1. CASE Call(u) \/ TakeSlot(u) \/ LeaveSlot(u) \/ FindClosed(u) \/ AcquireFails(u)
      BY <3>1 DEF Call, TakeSlot, LeaveSlot, FindClosed, AcquireFails
    <3>2. CASE NewPage(u) \/ Leased(u) \/ EndLease(u) \/ Retry(u) \/ GiveUpRetry(u) \/ FreeSlot(u) \/ ContextEnds(u)
      BY <3>2 DEF NewPage, Leased, EndLease, Retry, GiveUpRetry, FreeSlot, ContextEnds
    <3>3. CASE Navigate(u) \/ NavigateFails(u) \/ Capture(u) \/ ResetFails(u) \/ AskHuman(u)
      BY <3>3 DEF Navigate, NavigateFails, Capture, ResetFails, AskHuman
    <3>4. CASE Settle(u) \/ AssistEnds(u)
      BY <3>4 DEF Settle, AssistEnds, Outcome, Content, Broken, Unresolved
    <3> QED
      BY <1>1, <3>1, <3>2, <3>3, <3>4 DEF CallSteps
  <2> QED
    BY <2>0, <2>1
<1>2. ASSUME NEW u \in Users, LockSteps(u) PROVE HomeInv'
  <2>0. UNCHANGED <<closed, idle>>
    BY <1>2, LockFrame
  <2>1. CASE LockPool(u) \/ Discover(u) \/ DiscoverFails(u)
    BY <2>0, <2>1 DEF LockPool, Discover, DiscoverFails
  <2>2. CASE Attach(u)
    <3>1. ~closed
      BY <2>2 DEF Attach, LockInv, Locked
    <3>2. stopped \cup {pool} \subseteq stopped' \cup {pool'} /\ pool' = seen[u]
      BY <2>2 DEF Attach
    <3> QED
      BY <2>0, <2>2, <3>1, <3>2 DEF Attach
  <2> QED
    BY <1>2, <2>1, <2>2 DEF LockSteps
<1>3. ASSUME NEW u \in Users, TabSteps(u) PROVE HomeInv'
  <2>0. UNCHANGED attachVars
    BY <1>3, TabFrame
  <2>1. \A v \in Users : pc'[v] \in Holding \cup {"acquire"} =>
          pc[v] \in Holding \cup {"acquire"} /\ got'[v] = got[v]
    <3>1. CASE TakeIdle(u) \/ DropIdle(u) \/ ReserveTab(u) \/ SetMetrics(u)
      BY <3>1 DEF TakeIdle, DropIdle, ReserveTab, SetMetrics, Open
    <3>2. CASE SetMetricsFails(u) \/ Reset(u) \/ Park(u) \/ Retire(u) \/ NewPageFails(u)
      BY <3>2 DEF SetMetricsFails, Reset, Park, Retire, NewPageFails
    <3> QED
      BY <1>3, <3>1, <3>2 DEF TabSteps
  <2>2. \A g \in Generations : idle'[g] # {} => idle[g] # {} \/ g \in stopped \cup {pool}
    <3>1. CASE TakeIdle(u) \/ DropIdle(u) \/ ReserveTab(u) \/ SetMetrics(u)
      BY <3>1 DEF TakeIdle, DropIdle, ReserveTab, SetMetrics, PoolShape
    <3>2. CASE SetMetricsFails(u) \/ Reset(u) \/ Park(u) \/ Retire(u) \/ NewPageFails(u)
      BY <3>2 DEF SetMetricsFails, Reset, Park, Retire, NewPageFails, PoolShape
    <3> QED
      BY <1>3, <3>1, <3>2 DEF TabSteps
  <2> QED
    BY <2>0, <2>1, <2>2
<1>4. CASE Close
  BY <1>4 DEF Close
<1>5. CASE UNCHANGED <<attachVars, poolVars, pc, got>>
  BY <1>5
<1> QED
  BY <1>1, <1>2, <1>3, <1>4, <1>5, Steps DEF vars, TabDies, Restart

(* Phases and tabs of the calls that a step does not lease or give back. *)
LEMMA CallKeeps ==
  ASSUME CallShape, NEW u \in Users, CallSteps(u)
  PROVE  \A v \in Users : pc'[v] \in Holding =>
           pc[v] \in Holding /\ tab'[v] = tab[v] /\ got'[v] = got[v]
<1> USE DEF CallShape, Holding, Driving, Goto, Drop, Unwind, Return, userVars
<1>1. CASE Call(u) \/ TakeSlot(u) \/ LeaveSlot(u) \/ FindClosed(u) \/ AcquireFails(u)
  BY <1>1 DEF Call, TakeSlot, LeaveSlot, FindClosed, AcquireFails
<1>2. CASE NewPage(u) \/ Leased(u) \/ EndLease(u) \/ Retry(u) \/ GiveUpRetry(u) \/ FreeSlot(u) \/ ContextEnds(u)
  BY <1>2 DEF NewPage, Leased, EndLease, Retry, GiveUpRetry, FreeSlot, ContextEnds
<1>3. CASE Navigate(u) \/ NavigateFails(u) \/ Capture(u) \/ ResetFails(u) \/ AskHuman(u)
  BY <1>3 DEF Navigate, NavigateFails, Capture, ResetFails, AskHuman
<1>4. CASE Settle(u) \/ AssistEnds(u)
  BY <1>4 DEF Settle, AssistEnds, Outcome, Content, Broken, Unresolved
<1> QED
  BY <1>1, <1>2, <1>3, <1>4 DEF CallSteps

(* A step under poolMu changes nothing of the calls that hold tabs. *)
LEMMA LockKeeps ==
  ASSUME CallShape, NEW u \in Users, LockSteps(u)
  PROVE  \A v \in Users : pc'[v] \in Holding =>
           pc[v] = pc'[v] /\ tab'[v] = tab[v] /\ got'[v] = got[v] /\ healthy'[v] = healthy[v]
BY DEF CallShape, Holding, Driving, Goto, Drop, Return, userVars, LockSteps, LockPool, Discover,
       DiscoverFails, Attach

(* Tabs are leased by one call at a time, and new ones have new ids. *)
LEMMA ShareStep ==
  PoolShape /\ CallShape /\ PhaseShape /\ ShareInv /\ [Next]_vars => ShareInv'
<1> SUFFICES ASSUME PoolShape, CallShape, PhaseShape, ShareInv, [Next]_vars PROVE ShareInv'
  OBVIOUS
<1> USE Kinds
<1>1. ASSUME UNCHANGED <<idle, nextID>>, override' \subseteq override,
             \A v \in Users : pc'[v] \in Holding =>
               pc[v] \in Holding /\ tab'[v] = tab[v] /\ got'[v] = got[v]
      PROVE ShareInv'
  BY <1>1 DEF ShareInv
<1>2. ASSUME NEW u \in Users, CallSteps(u) PROVE ShareInv'
  BY <1>1, <1>2, CallKeeps, CallFrame DEF poolVars, tabVars
<1>3. ASSUME NEW u \in Users, LockSteps(u) PROVE ShareInv'
  BY <1>1, <1>3, LockKeeps, LockFrame DEF poolVars, tabVars
<1>4. ASSUME NEW u \in Users, TakeIdle(u) PROVE ShareInv'
  <2>1. PICK t \in idle[got[u]] :
          tab' = [tab EXCEPT ![u] = t] /\ idle' = [idle EXCEPT ![got[u]] = @ \ {t}]
    BY <1>4 DEF TakeIdle
  <2>2. /\ pc' = [pc EXCEPT ![u] = "leased"]
        /\ UNCHANGED <<nextID, override, got>> /\ pc[u] = "acquire"
    BY <1>4 DEF TakeIdle, Goto, Open, tabVars
  <2>3. t[1] = got[u] /\ \A g \in Generations : t \in idle[g] => g = got[u]
    BY DEF PoolShape, CallShape
  <2>4. \A v \in Users \ {u} :
          /\ tab'[v] = tab[v] /\ pc'[v] = pc[v]
          /\ pc[v] \in Holding => tab[v] # t /\ tab[v] \notin idle'[got[v]]
    BY <2>1, <2>2, <2>3 DEF ShareInv, CallShape, PoolShape, PhaseShape
  <2>5. tab'[u] = t /\ t \notin idle'[got[u]] /\ t[2] <= nextID[got[u]]
    BY <2>1 DEF ShareInv, CallShape, PoolShape
  <2>6. \A g \in Generations : idle'[g] \subseteq idle[g]
    BY <2>1 DEF PoolShape, CallShape
  <2> QED
    BY <2>2, <2>4, <2>5, <2>6 DEF ShareInv
<1>5. ASSUME NEW u \in Users, DropIdle(u) PROVE ShareInv'
  <2>1. /\ UNCHANGED <<pc, tab, got, nextID>> /\ override' \subseteq override
        /\ \A g \in Generations : idle'[g] \subseteq idle[g]
    BY <1>5 DEF DropIdle, Forget, PoolShape, CallShape, userVars
  <2> QED
    BY <2>1 DEF ShareInv, CallShape
<1>6. ASSUME NEW u \in Users, ReserveTab(u) PROVE ShareInv'
  <2> DEFINE n == nextID[got[u]] + 1
  <2>1. /\ pc' = [pc EXCEPT ![u] = "create"] /\ tab' = [tab EXCEPT ![u] = <<got[u], n>>]
        /\ nextID' = [nextID EXCEPT ![got[u]] = n] /\ UNCHANGED <<idle, override, got>>
        /\ pc[u] = "acquire"
    BY <1>6 DEF ReserveTab, Goto, Open, tabVars
  <2>0. got[u] \in Generations
    BY DEF CallShape
  <2>a. nextID[got[u]] \in Nat
    BY <2>0 DEF PoolShape
  <2>2. got[u] \in Generations /\ nextID[got[u]] \in Nat /\ n \in Nat /\ nextID[got[u]] < n
    BY <2>0, <2>a
  <2> HIDE DEF n
  <2>3. <<got[u], n>>[1] = got[u] /\ <<got[u], n>>[2] = n
    BY <2>2, TabFacts
  <2>4. \A g \in Generations : nextID[g] <= nextID'[g] /\ nextID[g] \in Nat /\ nextID'[g] \in Nat
    BY <2>1, <2>2 DEF PoolShape
  <2>5. \A v \in Users \ {u} :
          /\ tab'[v] = tab[v] /\ pc'[v] = pc[v] /\ got'[v] = got[v]
          /\ pc[v] \in Holding =>
               /\ tab[v][1] = got[v] /\ tab[v][2] \in Nat
               /\ tab[v][2] <= nextID[got[v]]
    BY <2>1, TabFacts DEF ShareInv, CallShape, PhaseShape
  <2>6. \A v \in Users \ {u} : pc[v] \in Holding => tab[v] # <<got[u], n>>
    BY <2>2, <2>3, <2>5
  <2>7. tab'[u] = <<got[u], n>> /\ nextID'[got[u]] = n
    <3>1. nextID \in [Generations -> Nat] /\ tab \in [Users -> Tabs \cup {None}]
      BY DEF CallShape, PoolShape
    <3> QED
      BY <2>1, <2>2, <3>1
  <2>8. <<got[u], n>> \notin idle[got[u]]
    <3> SUFFICES ASSUME <<got[u], n>> \in idle[got[u]] PROVE FALSE
      OBVIOUS
    <3>1. <<got[u], n>>[2] <= nextID[got[u]]
      BY <2>2 DEF ShareInv
    <3> QED
      BY <2>2, <2>3, <3>1
  <2>9. \A v \in Users \ {u} : pc[v] \in Holding => tab[v][2] <= nextID'[got[v]]
    <3> SUFFICES ASSUME NEW v \in Users \ {u}, pc[v] \in Holding
                 PROVE  tab[v][2] <= nextID'[got[v]]
      OBVIOUS
    <3>1. got[v] \in Generations
      BY DEF CallShape
    <3>2. tab[v][2] \in Nat /\ tab[v][2] <= nextID[got[v]]
      BY <2>5
    <3>3. nextID[got[v]] <= nextID'[got[v]] /\ nextID[got[v]] \in Nat /\ nextID'[got[v]] \in Nat
      BY <2>4, <3>1
    <3> QED
      BY <3>2, <3>3
  <2>10. \A g \in Generations : \A t \in idle[g] : t[2] <= nextID'[g]
    BY <2>4, TabFacts DEF ShareInv, PoolShape
  <2>11. \A t \in override : t[2] <= nextID'[t[1]]
    BY <2>4, TabFacts DEF ShareInv, PoolShape
  <2>12. \A v, w \in Users :
           pc'[v] \in Holding /\ pc'[w] \in Holding /\ tab'[v] = tab'[w] => v = w
    BY <2>5, <2>6, <2>7 DEF ShareInv
  <2>13. \A v \in Users : pc'[v] \in Holding => tab'[v] \notin idle'[got'[v]]
    BY <2>1, <2>5, <2>7, <2>8 DEF ShareInv
  <2>14. \A v \in Users : pc'[v] \in Holding => tab'[v][2] <= nextID'[got'[v]]
    BY <2>1, <2>2, <2>3, <2>5, <2>7, <2>9
  <2> QED
    BY <2>1, <2>10, <2>11, <2>12, <2>13, <2>14 DEF ShareInv
<1>7. ASSUME NEW u \in Users, SetMetrics(u) \/ SetMetricsFails(u) \/ Reset(u) PROVE ShareInv'
  <2>1. /\ UNCHANGED <<idle, nextID, tab, got>> /\ override' \subseteq override \cup {tab[u]}
        /\ pc[u] \in Holding
        /\ \A v \in Users : pc'[v] \in Holding => pc[v] \in Holding
    BY <1>7 DEF SetMetrics, SetMetricsFails, Reset, Goto, poolVars, userVars, Holding, Driving,
                CallShape
  <2>2. tab[u][2] <= nextID[tab[u][1]]
    BY <2>1 DEF ShareInv, PhaseShape
  <2> QED
    BY <2>1, <2>2 DEF ShareInv
<1>8. ASSUME NEW u \in Users, Park(u) \/ Retire(u) \/ NewPageFails(u) PROVE ShareInv'
  <2>1. /\ pc[u] \in {"release", "create"} /\ pc'[u] \notin Holding /\ UNCHANGED nextID
        /\ override' \subseteq override
        /\ \A v \in Users \ {u} : tab'[v] = tab[v] /\ pc'[v] = pc[v] /\ got'[v] = got[v]
    BY <1>8 DEF Park, Retire, NewPageFails, Forget, Goto, Drop, Return, tabVars, CallShape, Holding, Driving
  <2>2. idle' = idle \/ idle' = [idle EXCEPT ![got[u]] = @ \cup {tab[u]}]
    BY <1>8 DEF Park, Retire, NewPageFails
  <2>3. tab[u] \in Tabs /\ tab[u][2] <= nextID[got[u]] /\ got[u] \in Generations
    BY <2>1 DEF ShareInv, PhaseShape, CallShape, Holding, Driving
  <2>4. \A g \in Generations : idle'[g] \subseteq idle[g] \cup {tab[u]}
                                /\ (g # got[u] => idle'[g] = idle[g])
    BY <2>2, <2>3 DEF PoolShape
  <2>5. \A v \in Users \ {u} : pc[v] \in Holding => tab[v] # tab[u]
    BY <2>1 DEF ShareInv, Holding, Driving
  <2>6. \A v \in Users : pc'[v] \in Holding => tab'[v] \notin idle'[got'[v]]
    <3> SUFFICES ASSUME NEW v \in Users, pc'[v] \in Holding PROVE tab'[v] \notin idle'[got'[v]]
      OBVIOUS
    <3>1. v # u /\ tab'[v] = tab[v] /\ pc[v] \in Holding /\ got'[v] = got[v]
      BY <2>1
    <3>2. got[v] \in Generations /\ tab[v] \notin idle[got[v]] /\ tab[v] # tab[u]
      BY <2>5, <3>1 DEF ShareInv, CallShape
    <3> QED
      BY <2>4, <3>1, <3>2
  <2>7. \A g \in Generations : \A t \in idle'[g] : t[2] <= nextID[g]
    BY <2>3, <2>4 DEF ShareInv
  <2> QED
    BY <2>1, <2>6, <2>7 DEF ShareInv
<1>9. CASE UNCHANGED <<poolVars, override, pc, tab, got>>
  BY <1>1, <1>9 DEF poolVars
<1> QED
  BY <1>2, <1>3, <1>4, <1>5, <1>6, <1>7, <1>8, <1>9, Steps
     DEF TabSteps, vars, TabDies, Restart, Close, tabVars, userVars

(* A step that drives no screenshot and sets no metrics keeps ResetInv. *)
LEMMA ResetFrame ==
  ASSUME ResetInv, override' \subseteq override,
         \A g \in Generations : idle'[g] \subseteq idle[g],
         \A v \in Users : pc'[v] \in Holding /\ tab'[v] \in override =>
           /\ pc[v] \in Holding /\ tab[v] = tab'[v]
           /\ \/ pc'[v] \in Measured
              \/ pc'[v] = "release" /\ ~healthy'[v]
  PROVE  ResetInv'
BY DEF ResetInv

(* The metrics of a screenshot stay with it until they are reset, or until its
   tab is retired. *)
LEMMA ResetStep ==
  PoolShape /\ CallShape /\ PhaseShape /\ ShareInv /\ ResetInv /\ [Next]_vars => ResetInv'
<1> SUFFICES ASSUME PoolShape, CallShape, PhaseShape, ShareInv, ResetInv, [Next]_vars
             PROVE  ResetInv'
  OBVIOUS
<1> USE Kinds
<1>1. ASSUME NEW u \in Users, CallSteps(u) PROVE ResetInv'
  <2>0. UNCHANGED <<idle, override>>
    BY <1>1, CallFrame DEF poolVars, tabVars
  <2>1. \A v \in Users : pc'[v] \in Holding => pc[v] \in Holding /\ tab'[v] = tab[v]
    BY <1>1, CallKeeps
  <2>2. \A v \in Users :
          pc[v] \in Holding /\ tab[v] \in override =>
            v \in Shots /\ (pc[v] \in Measured \/ (pc[v] = "release" /\ ~healthy[v]))
    BY DEF ResetInv
  <2>3. \A v \in Users :
          pc'[v] \in Holding /\ v \in Shots
          /\ (pc[v] \in Measured \/ (pc[v] = "release" /\ ~healthy[v])) =>
            pc'[v] \in Measured \/ (pc'[v] = "release" /\ ~healthy'[v])
    <3> USE DEF CallShape, Holding, Driving, Measured, Goto, Drop, Unwind, Return, userVars
    <3>1. CASE Call(u) \/ TakeSlot(u) \/ LeaveSlot(u) \/ FindClosed(u) \/ AcquireFails(u)
      BY <3>1 DEF Call, TakeSlot, LeaveSlot, FindClosed, AcquireFails
    <3>2. CASE NewPage(u) \/ Leased(u) \/ EndLease(u) \/ Retry(u) \/ GiveUpRetry(u) \/ FreeSlot(u) \/ ContextEnds(u)
      BY <3>2 DEF NewPage, Leased, EndLease, Retry, GiveUpRetry, FreeSlot, ContextEnds
    <3>3. CASE Navigate(u) \/ AskHuman(u) \/ ResetFails(u)
      BY <3>3 DEF Navigate, AskHuman, ResetFails
    <3>4. CASE NavigateFails(u) \/ Capture(u)
      BY <3>4 DEF NavigateFails, Capture, Judge
    <3>5. CASE Settle(u) \/ AssistEnds(u)
      BY <3>5 DEF Settle, AssistEnds, Outcome, Content, Broken, Unresolved, Judge
    <3> QED
      BY <1>1, <3>1, <3>2, <3>3, <3>4, <3>5 DEF CallSteps
  <2> QED
    BY <2>0, <2>1, <2>2, <2>3, ResetFrame
<1>2. ASSUME NEW u \in Users, LockSteps(u) PROVE ResetInv'
  BY <1>2, LockKeeps, LockFrame DEF ResetInv, poolVars, tabVars
<1>3. ASSUME NEW u \in Users, TakeIdle(u) PROVE ResetInv'
  <2>1. PICK t \in idle[got[u]] :
          tab' = [tab EXCEPT ![u] = t] /\ idle' = [idle EXCEPT ![got[u]] = @ \ {t}]
    BY <1>3 DEF TakeIdle
  <2>2. t \notin override
    BY DEF ResetInv, CallShape
  <2>3. /\ UNCHANGED <<override, healthy>>
        /\ \A v \in Users \ {u} : tab'[v] = tab[v] /\ pc'[v] = pc[v]
        /\ tab'[u] = t
        /\ \A g \in Generations : idle'[g] \subseteq idle[g]
    BY <1>3, <2>1 DEF TakeIdle, Goto, tabVars, CallShape, PoolShape
  <2> QED
    BY <2>2, <2>3 DEF ResetInv
<1>4. ASSUME NEW u \in Users, DropIdle(u) PROVE ResetInv'
  <2>1. /\ UNCHANGED <<pc, tab, healthy>> /\ override' \subseteq override
        /\ \A g \in Generations : idle'[g] \subseteq idle[g]
    BY <1>4 DEF DropIdle, Forget, PoolShape, CallShape, userVars
  <2> QED
    BY <2>1 DEF ResetInv
<1>5. ASSUME NEW u \in Users, ReserveTab(u) PROVE ResetInv'
  <2> DEFINE t == <<got[u], nextID[got[u]] + 1>>
  <2>0. got[u] \in Generations
    BY DEF CallShape
  <2>a. nextID[got[u]] \in Nat
    BY <2>0 DEF PoolShape
  <2>1. t[1] = got[u] /\ t[2] = nextID[got[u]] + 1
    BY <2>0, <2>a, TabFacts
  <2>2. t \notin override
    <3> SUFFICES ASSUME t \in override PROVE FALSE
      OBVIOUS
    <3>1. t[2] <= nextID[t[1]]
      BY DEF ShareInv
    <3> QED
      BY <2>a, <2>1, <3>1
  <2>3. /\ UNCHANGED <<idle, override, healthy>> /\ tab'[u] = t
        /\ \A v \in Users \ {u} : tab'[v] = tab[v] /\ pc'[v] = pc[v]
    BY <1>5 DEF ReserveTab, Goto, tabVars, CallShape
  <2> QED
    BY <2>2, <2>3 DEF ResetInv
<1>6. ASSUME NEW u \in Users, SetMetrics(u) \/ SetMetricsFails(u) PROVE ResetInv'
  <2>1. /\ UNCHANGED <<idle, tab>> /\ override' \subseteq override \cup {tab[u]}
        /\ pc[u] = "metrics" /\ pc'[u] \in {"navigate", "reset"}
        /\ \A v \in Users \ {u} : pc'[v] = pc[v] /\ healthy'[v] = healthy[v]
    BY <1>6 DEF SetMetrics, SetMetricsFails, Goto, Judge, poolVars, userVars, CallShape
  <2>2. u \in Shots /\ pc[u] \in Holding
    BY <2>1 DEF PhaseShape, Holding, Driving
  <2>3. \A v \in Users \ {u} : pc[v] \in Holding => tab[v] # tab[u]
    BY <2>2 DEF ShareInv
  <2>4. \A g \in Generations : tab[u] \notin idle[g]
    BY <2>2 DEF ShareInv, PhaseShape, PoolShape
  <2>5. \A g \in Generations : idle'[g] \cap override' = {}
    BY <2>1, <2>4 DEF ResetInv
  <2>6. \A v \in Users \ {u} :
          pc'[v] \in Holding /\ tab'[v] \in override' =>
            v \in Shots /\ (pc'[v] \in Measured \/ (pc'[v] = "release" /\ ~healthy'[v]))
    BY <2>1, <2>3 DEF ResetInv
  <2>7. pc'[u] \in Measured
    BY <2>1 DEF Measured
  <2> QED
    BY <2>2, <2>5, <2>6, <2>7 DEF ResetInv
<1>7. ASSUME NEW u \in Users, Reset(u) PROVE ResetInv'
  <2>1. /\ UNCHANGED <<idle, tab, healthy>> /\ override' = override \ {tab[u]}
        /\ \A v \in Users \ {u} : pc'[v] = pc[v]
    BY <1>7 DEF Reset, Goto, poolVars, userVars, CallShape
  <2> QED
    BY <2>1 DEF ResetInv
<1>8. ASSUME NEW u \in Users, Park(u) PROVE ResetInv'
  <2>1. /\ pc[u] = "release" /\ healthy[u] /\ pc'[u] \notin Holding /\ UNCHANGED override
        /\ \A v \in Users \ {u} : tab'[v] = tab[v] /\ pc'[v] = pc[v] /\ healthy'[v] = healthy[v]
        /\ \A g \in Generations : idle'[g] \subseteq idle[g] \cup {tab[u]}
    BY <1>8 DEF Park, Goto, Drop, Return, tabVars, CallShape, PoolShape, Holding, Driving
  <2>2. tab[u] \notin override
    BY <2>1 DEF ResetInv, Holding, Driving, Measured
  <2> QED
    BY <2>1, <2>2 DEF ResetInv
<1>9. ASSUME NEW u \in Users, Retire(u) \/ NewPageFails(u) PROVE ResetInv'
  <2>1. /\ pc'[u] \notin Holding /\ UNCHANGED idle /\ override' \subseteq override
        /\ \A v \in Users \ {u} : tab'[v] = tab[v] /\ pc'[v] = pc[v] /\ healthy'[v] = healthy[v]
    BY <1>9 DEF Retire, NewPageFails, Forget, Goto, Drop, Return, CallShape, Holding, Driving
  <2> QED
    BY <2>1 DEF ResetInv
<1>10. CASE UNCHANGED <<poolVars, override, pc, userVars>>
  BY <1>10 DEF ResetInv, poolVars, userVars
<1> QED
  BY <1>1, <1>2, <1>3, <1>4, <1>5, <1>6, <1>7, <1>8, <1>9, <1>10, Steps
     DEF TabSteps, vars, TabDies, Restart, Close, tabVars

-----------------------------------------------------------------------------
(* Who leaves the wait for a human removes the assist under its page id. *)
LEMMA AssistStep == CallShape /\ AssistInv /\ [Next]_vars => AssistInv'
<1> SUFFICES ASSUME CallShape, AssistInv, [Next]_vars PROVE AssistInv'
  OBVIOUS
<1>0. \A a \in assists : a[2] \in Users
  BY DEF CallShape
<1>1. ASSUME assists' \subseteq assists,
             \A a \in assists' : pc'[a[2]] = pc[a[2]] /\ tab'[a[2]] = tab[a[2]]
      PROVE AssistInv'
  BY <1>1 DEF AssistInv
<1>2. ASSUME NEW u \in Users, pc[u] # "assist", UNCHANGED assists,
             \A v \in Users \ {u} : pc'[v] = pc[v] /\ tab'[v] = tab[v]
      PROVE AssistInv'
  <2>1. \A a \in assists : a[2] # u
    BY <1>2 DEF AssistInv
  <2> QED
    BY <1>0, <1>1, <1>2, <2>1
<1>3. ASSUME NEW u \in Users, CallSteps(u) PROVE AssistInv'
  <2> USE DEF CallShape, Goto, Drop, userVars
  <2>1. CASE Call(u) \/ TakeSlot(u) \/ LeaveSlot(u) \/ FindClosed(u) \/ AcquireFails(u)
    <3>1. /\ pc[u] # "assist" /\ UNCHANGED assists
          /\ \A v \in Users \ {u} : pc'[v] = pc[v] /\ tab'[v] = tab[v]
      BY <2>1 DEF Call, TakeSlot, LeaveSlot, FindClosed, AcquireFails
    <3> QED
      BY <1>2, <3>1
  <2>2. CASE NewPage(u) \/ Leased(u) \/ EndLease(u) \/ Retry(u) \/ GiveUpRetry(u) \/ FreeSlot(u)
    <3>1. /\ pc[u] # "assist" /\ UNCHANGED assists
          /\ \A v \in Users \ {u} : pc'[v] = pc[v] /\ tab'[v] = tab[v]
      BY <2>2 DEF NewPage, Leased, EndLease, Retry, GiveUpRetry, FreeSlot
    <3> QED
      BY <1>2, <3>1
  <2>3. CASE Navigate(u) \/ NavigateFails(u) \/ Capture(u) \/ ResetFails(u)
    <3>1. /\ pc[u] # "assist" /\ UNCHANGED assists
          /\ \A v \in Users \ {u} : pc'[v] = pc[v] /\ tab'[v] = tab[v]
      BY <2>3 DEF Navigate, NavigateFails, Capture, ResetFails
    <3> QED
      BY <1>2, <3>1
  <2>4. CASE Settle(u)
    <3>1. /\ pc[u] # "assist" /\ UNCHANGED assists
          /\ \A v \in Users \ {u} : pc'[v] = pc[v] /\ tab'[v] = tab[v]
      BY <2>4 DEF Settle, Outcome, Content, Broken, Unresolved
    <3> QED
      BY <1>2, <3>1
  <2>5. CASE AskHuman(u)
    <3>1. /\ pc[u] # "assist" /\ pc'[u] = "assist" /\ UNCHANGED tab
          /\ assists' \subseteq assists \cup {<<tab[u][2], u>>}
          /\ \A v \in Users \ {u} : pc'[v] = pc[v]
      BY <2>5 DEF AskHuman
    <3> QED
      BY <1>0, <3>1 DEF AssistInv
  <2>6. CASE AssistEnds(u)
    <3>1. /\ assists' = {a \in assists : a[1] # tab[u][2]} /\ UNCHANGED tab
          /\ \A v \in Users \ {u} : pc'[v] = pc[v]
      BY <2>6 DEF AssistEnds, Outcome, Content, Broken, Unresolved
    <3>2. \A a \in assists' : a \in assists /\ a[2] # u
      BY <3>1 DEF AssistInv
    <3> QED
      BY <1>0, <1>1, <3>1, <3>2
  <2>7. CASE ContextEnds(u)
    BY <1>1, <2>7 DEF ContextEnds
  <2> QED
    BY <1>3, <2>1, <2>2, <2>3, <2>4, <2>5, <2>6, <2>7 DEF CallSteps
<1>4. ASSUME NEW u \in Users, LockSteps(u) PROVE AssistInv'
  <2>1. /\ pc[u] # "assist" /\ UNCHANGED assists
        /\ \A v \in Users \ {u} : pc'[v] = pc[v] /\ tab'[v] = tab[v]
    BY <1>4 DEF LockSteps, LockPool, Discover, DiscoverFails, Attach, CallShape, Goto, Drop, userVars
  <2> QED
    BY <1>2, <2>1
<1>5. ASSUME NEW u \in Users, TabSteps(u) PROVE AssistInv'
  <2>0. UNCHANGED assists
    BY <1>5, TabFrame
  <2>1. /\ pc[u] # "assist"
        /\ \A v \in Users \ {u} : pc'[v] = pc[v] /\ tab'[v] = tab[v]
    <3> USE DEF CallShape, Goto, Drop, userVars
    <3>1. CASE TakeIdle(u) \/ DropIdle(u) \/ ReserveTab(u) \/ SetMetrics(u)
      BY <3>1 DEF TakeIdle, DropIdle, ReserveTab, SetMetrics, Open
    <3>2. CASE SetMetricsFails(u) \/ Reset(u) \/ Park(u) \/ Retire(u) \/ NewPageFails(u)
      BY <3>2 DEF SetMetricsFails, Reset, Park, Retire, NewPageFails
    <3> QED
      BY <1>5, <3>1, <3>2 DEF TabSteps
  <2> QED
    BY <1>2, <2>0, <2>1
<1>6. CASE UNCHANGED <<assists, pc, tab>>
  BY <1>1, <1>6
<1> QED
  BY <1>3, <1>4, <1>5, <1>6, Steps DEF vars, userVars, TabDies, Restart, Close

(* Only TakeSlot and FreeSlot change who has a capture slot. *)
LEMMA SlotStep == CallShape /\ PhaseShape /\ SlotInv /\ [Next]_vars => SlotInv'
<1> SUFFICES ASSUME CallShape, PhaseShape, SlotInv, [Next]_vars PROVE SlotInv'
  OBVIOUS
<1> USE Kinds
<1>0. IsFiniteSet(Captors) /\ Cardinality(Captors) \in Nat
  BY ManagerAssumption, FS_Subset, FS_CardinalityType DEF Captors, Users
<1>1. ASSUME NEW u \in Users, TakeSlot(u) PROVE SlotInv'
  <2>1. u \in Shots /\ u \notin Captors /\ Captors' = Captors \cup {u}
    BY <1>1 DEF TakeSlot, Captors, PhaseShape, CallShape, Goto
  <2>2. slots' = slots + 1 /\ slots < Slots
    BY <1>1 DEF TakeSlot
  <2>3. Cardinality(Captors') = Cardinality(Captors) + 1
    BY <1>0, <2>1, FS_AddElement
  <2> QED
    BY <1>0, <2>2, <2>3 DEF SlotInv
<1>2. ASSUME NEW u \in Users, FreeSlot(u) PROVE SlotInv'
  <2>1. u \in Captors /\ Captors' = Captors \ {u}
    BY <1>2 DEF FreeSlot, Captors, PhaseShape, CallShape, Goto
  <2>2. slots' = slots - 1
    BY <1>2 DEF FreeSlot
  <2>3. Cardinality(Captors') = Cardinality(Captors) - 1
    BY <1>0, <2>1, FS_RemoveElement
  <2> QED
    BY <1>0, <2>2, <2>3 DEF SlotInv
<1>3. ASSUME NEW u \in Users, UNCHANGED slots, \A v \in Users \ {u} : pc'[v] = pc[v],
             u \in Shots => (pc'[u] \in {"idle", "slot", "done"} <=> pc[u] \in {"idle", "slot", "done"})
      PROVE SlotInv'
  <2>1. Captors' = Captors
    BY <1>3 DEF Captors
  <2> QED
    BY <1>3, <2>1 DEF SlotInv
<1>4. ASSUME NEW u \in Users, CallSteps(u), ~TakeSlot(u), ~FreeSlot(u) PROVE SlotInv'
  <2>1. /\ UNCHANGED slots /\ \A v \in Users \ {u} : pc'[v] = pc[v]
        /\ u \in Shots => (pc'[u] \in {"idle", "slot", "done"} <=> pc[u] \in {"idle", "slot", "done"})
    <3> USE DEF CallShape, Goto, Drop, Unwind, Return
    <3>1. CASE Call(u) \/ LeaveSlot(u) \/ FindClosed(u) \/ AcquireFails(u)
      BY <3>1 DEF Call, LeaveSlot, FindClosed, AcquireFails
    <3>2. CASE NewPage(u) \/ Leased(u) \/ EndLease(u) \/ Retry(u) \/ GiveUpRetry(u) \/ ContextEnds(u)
      BY <3>2 DEF NewPage, Leased, EndLease, Retry, GiveUpRetry, ContextEnds
    <3>3. CASE Navigate(u) \/ NavigateFails(u) \/ Capture(u) \/ ResetFails(u) \/ AskHuman(u)
      BY <3>3 DEF Navigate, NavigateFails, Capture, ResetFails, AskHuman
    <3>4. CASE Settle(u) \/ AssistEnds(u)
      BY <3>4 DEF Settle, AssistEnds, Outcome, Content, Broken, Unresolved
    <3> QED
      BY <1>4, <3>1, <3>2, <3>3, <3>4 DEF CallSteps
  <2> QED
    BY <1>3, <2>1
<1>5. ASSUME NEW u \in Users, LockSteps(u) PROVE SlotInv'
  <2>1. /\ UNCHANGED slots /\ \A v \in Users \ {u} : pc'[v] = pc[v]
        /\ u \in Shots => (pc'[u] \in {"idle", "slot", "done"} <=> pc[u] \in {"idle", "slot", "done"})
    BY <1>5 DEF LockSteps, LockPool, Discover, DiscoverFails, Attach, CallShape, Goto, Return
  <2> QED
    BY <1>3, <2>1
<1>6. ASSUME NEW u \in Users, TabSteps(u) PROVE SlotInv'
  <2>0. UNCHANGED slots
    BY <1>6, TabFrame
  <2>1. /\ \A v \in Users \ {u} : pc'[v] = pc[v]
        /\ u \in Shots => (pc'[u] \in {"idle", "slot", "done"} <=> pc[u] \in {"idle", "slot", "done"})
    <3> USE DEF CallShape, Goto, Drop, Return
    <3>1. CASE TakeIdle(u) \/ DropIdle(u) \/ ReserveTab(u) \/ SetMetrics(u)
      BY <3>1 DEF TakeIdle, DropIdle, ReserveTab, SetMetrics, Open
    <3>2. CASE SetMetricsFails(u) \/ Reset(u) \/ Park(u) \/ Retire(u) \/ NewPageFails(u)
      BY <3>2 DEF SetMetricsFails, Reset, Park, Retire, NewPageFails
    <3> QED
      BY <1>6, <3>1, <3>2 DEF TabSteps
  <2> QED
    BY <1>3, <2>0, <2>1
<1>7. CASE UNCHANGED <<slots, pc>>
  BY <1>7 DEF SlotInv, Captors
<1> QED
  BY <1>1, <1>2, <1>4, <1>5, <1>6, <1>7, Steps DEF vars, TabDies, Restart, Close

(* The tabs of a generation are counted as idle or as held. *)
Holders(g) == {u \in Users : tab[u] # None /\ tab[u][1] = g}

(* created counts the idle and the leased tabs of each generation. *)
AccountInv ==
  \A g \in Generations :
    /\ IsFiniteSet(idle[g])
    /\ created[g] = Cardinality(idle[g]) + Cardinality(Holders(g))
    /\ created[g] <= Size

(* A step that changes the tab of one caller. *)
LEMMA HoldersChange ==
  ASSUME NEW g \in Generations, NEW u \in Users,
         \A v \in Users \ {u} : tab'[v] = tab[v]
  PROVE  /\ Cardinality(Holders(g)) \in Nat /\ Cardinality(Holders(g)') \in Nat
         /\ u \notin Holders(g) /\ u \in Holders(g)' =>
              Cardinality(Holders(g)') = Cardinality(Holders(g)) + 1
         /\ u \in Holders(g) /\ u \notin Holders(g)' =>
              Cardinality(Holders(g)') = Cardinality(Holders(g)) - 1
         /\ (u \in Holders(g) <=> u \in Holders(g)') =>
              Cardinality(Holders(g)') = Cardinality(Holders(g))
<1>1. /\ Holders(g) \subseteq Users /\ Holders(g)' \subseteq Users
      /\ IsFiniteSet(Holders(g)) /\ IsFiniteSet(Holders(g)')
  BY ManagerAssumption, FS_Subset DEF Holders
<1>2. Cardinality(Holders(g)) \in Nat /\ Cardinality(Holders(g)') \in Nat
  BY <1>1, FS_CardinalityType
<1>3. CASE u \notin Holders(g) /\ u \in Holders(g)'
  <2>1. Holders(g)' = Holders(g) \cup {u}
    BY <1>3 DEF Holders
  <2> QED
    BY <1>1, <1>2, <1>3, <2>1, FS_AddElement
<1>4. CASE u \in Holders(g) /\ u \notin Holders(g)'
  <2>1. Holders(g)' = Holders(g) \ {u}
    BY <1>4 DEF Holders
  <2> QED
    BY <1>1, <1>2, <1>4, <2>1, FS_RemoveElement
<1>5. CASE u \in Holders(g) <=> u \in Holders(g)'
  <2>1. Holders(g)' = Holders(g)
    BY <1>5 DEF Holders
  <2> QED
    BY <1>2, <1>5, <2>1
<1> QED
  BY <1>2, <1>3, <1>4, <1>5

(* A set counts one less without an element of it and one more with another. *)
LEMMA OneTab ==
  ASSUME NEW S, IsFiniteSet(S), NEW t
  PROVE  /\ Cardinality(S) \in Nat
         /\ t \in S => IsFiniteSet(S \ {t}) /\ Cardinality(S \ {t}) = Cardinality(S) - 1
         /\ t \notin S => IsFiniteSet(S \cup {t}) /\ Cardinality(S \cup {t}) = Cardinality(S) + 1
BY FS_CardinalityType, FS_AddElement, FS_RemoveElement

(* Every step keeps the account of every generation. *)
LEMMA AccountStep ==
  PoolShape /\ CallShape /\ PhaseShape /\ ShareInv /\ AccountInv /\ [Next]_vars => AccountInv'
<1> SUFFICES ASSUME PoolShape, CallShape, PhaseShape, ShareInv, AccountInv, [Next]_vars
             PROVE  AccountInv'
  OBVIOUS
<1> USE Kinds
<1>0. \A g \in Generations :
        /\ created[g] \in Int /\ IsFiniteSet(idle[g]) /\ Cardinality(idle[g]) \in Nat
        /\ created[g] = Cardinality(idle[g]) + Cardinality(Holders(g)) /\ created[g] <= Size
  BY FS_CardinalityType DEF AccountInv, PoolShape
<1>s. Size \in Nat
  BY ManagerAssumption
<1>1. ASSUME UNCHANGED <<idle, created>>, \A v \in Users : tab'[v] = tab[v] PROVE AccountInv'
  <2>1. \A g \in Generations : Holders(g)' = Holders(g)
    BY <1>1 DEF Holders
  <2> QED
    BY <1>1, <2>1 DEF AccountInv
<1>2. ASSUME NEW u \in Users, CallSteps(u) PROVE AccountInv'
  <2>1. \A v \in Users : tab'[v] = tab[v]
    <3> USE DEF CallShape, PhaseShape, Holding, Driving, Drop, userVars
    <3>1. CASE Call(u) \/ TakeSlot(u) \/ LeaveSlot(u) \/ FindClosed(u) \/ AcquireFails(u)
      BY <3>1 DEF Call, TakeSlot, LeaveSlot, FindClosed, AcquireFails
    <3>2. CASE NewPage(u) \/ Leased(u) \/ EndLease(u) \/ Retry(u) \/ GiveUpRetry(u) \/ FreeSlot(u) \/ ContextEnds(u)
      BY <3>2 DEF NewPage, Leased, EndLease, Retry, GiveUpRetry, FreeSlot, ContextEnds
    <3>3. CASE Navigate(u) \/ NavigateFails(u) \/ Capture(u) \/ ResetFails(u) \/ AskHuman(u)
      BY <3>3 DEF Navigate, NavigateFails, Capture, ResetFails, AskHuman
    <3>4. CASE Settle(u) \/ AssistEnds(u)
      BY <3>4 DEF Settle, AssistEnds, Outcome
    <3> QED
      BY <1>2, <3>1, <3>2, <3>3, <3>4 DEF CallSteps
  <2> QED
    BY <1>1, <1>2, <2>1, CallFrame DEF poolVars
<1>3. ASSUME NEW u \in Users, LockSteps(u) PROVE AccountInv'
  <2>1. \A v \in Users : tab'[v] = tab[v]
    BY <1>3 DEF LockSteps, LockPool, Discover, DiscoverFails, Attach, CallShape, PhaseShape, Holding,
                Driving, Drop, userVars
  <2> QED
    BY <1>1, <1>3, <2>1, LockFrame DEF poolVars
<1>4. ASSUME NEW u \in Users, TakeIdle(u) PROVE AccountInv'
  <2>1. PICK t \in idle[got[u]] :
          tab' = [tab EXCEPT ![u] = t] /\ idle' = [idle EXCEPT ![got[u]] = @ \ {t}]
    BY <1>4 DEF TakeIdle
  <2>2. got[u] \in Generations /\ t \in Tabs /\ t[1] = got[u]
    BY DEF PoolShape, CallShape
  <2>3. /\ created' = created /\ tab[u] = None /\ tab'[u] = t
        /\ \A v \in Users \ {u} : tab'[v] = tab[v]
    BY <1>4, <2>1 DEF TakeIdle, Open, CallShape, PhaseShape, Holding, Driving
  <2>4. \A g \in Generations : idle'[g] = IF g = got[u] THEN idle[g] \ {t} ELSE idle[g]
    BY <2>1, <2>2 DEF PoolShape
  <2>5. \A g \in Generations : u \notin Holders(g) /\ (u \in Holders(g)' <=> g = got[u])
    BY <2>2, <2>3 DEF Holders
  <2>6. ASSUME NEW g \in Generations
        PROVE  /\ IsFiniteSet(idle'[g]) /\ created'[g] <= Size
               /\ created'[g] = Cardinality(idle'[g]) + Cardinality(Holders(g)')
    <3>1. CASE g = got[u]
      <4>1. /\ IsFiniteSet(idle'[g]) /\ Cardinality(idle'[g]) = Cardinality(idle[g]) - 1
        <5>1. idle'[g] = idle[g] \ {t} /\ t \in idle[g] /\ IsFiniteSet(idle[g])
          BY <1>0, <2>4, <3>1
        <5> QED
          BY <5>1, OneTab
      <4>2. Cardinality(Holders(g)') = Cardinality(Holders(g)) + 1 /\ Cardinality(Holders(g)) \in Nat
        BY <2>3, <2>5, <3>1, HoldersChange
      <4>3. created'[g] = created[g]
        BY <2>3
      <4> QED
        BY <1>0, <4>1, <4>2, <4>3
    <3>2. CASE g # got[u]
      BY <1>0, <2>3, <2>4, <2>5, <3>2, HoldersChange
    <3> QED
      BY <3>1, <3>2
  <2> QED
    BY <2>6 DEF AccountInv
<1>5. ASSUME NEW u \in Users, DropIdle(u) PROVE AccountInv'
  <2>1. PICK t \in idle[got[u]] : idle' = [idle EXCEPT ![got[u]] = @ \ {t}]
    BY <1>5 DEF DropIdle
  <2>2. created' = [created EXCEPT ![got[u]] = @ - 1] /\ tab' = tab /\ got[u] \in Generations
    BY <1>5 DEF DropIdle, userVars, CallShape
  <2>3. ASSUME NEW g \in Generations
        PROVE  /\ IsFiniteSet(idle'[g]) /\ created'[g] <= Size
               /\ created'[g] = Cardinality(idle'[g]) + Cardinality(Holders(g)')
    <3>0. Cardinality(Holders(g)') = Cardinality(Holders(g)) /\ Cardinality(Holders(g)) \in Nat
      BY <2>2, HoldersChange DEF Holders
    <3>1. CASE g = got[u]
      <4>1. idle'[g] = idle[g] \ {t} /\ created'[g] = created[g] - 1
        BY <2>1, <2>2, <3>1 DEF PoolShape
      <4>2. IsFiniteSet(idle'[g]) /\ Cardinality(idle'[g]) = Cardinality(idle[g]) - 1
        <5>1. t \in idle[g] /\ IsFiniteSet(idle[g])
          BY <1>0, <3>1
        <5> QED
          BY <4>1, <5>1, OneTab
      <4> QED
        BY <1>0, <1>s, <3>0, <4>1, <4>2
    <3>2. CASE g # got[u]
      <4>1. idle'[g] = idle[g] /\ created'[g] = created[g]
        BY <2>1, <2>2, <3>2 DEF PoolShape
      <4> QED
        BY <1>0, <3>0, <4>1
    <3> QED
      BY <3>1, <3>2
  <2> QED
    BY <2>3 DEF AccountInv
<1>6. ASSUME NEW u \in Users, ReserveTab(u) PROVE AccountInv'
  <2>1. /\ created' = [created EXCEPT ![got[u]] = @ + 1] /\ UNCHANGED idle
        /\ created[got[u]] < Size /\ tab' = [tab EXCEPT ![u] = <<got[u], nextID[got[u]] + 1>>]
    BY <1>6 DEF ReserveTab
  <2>0. got[u] \in Generations
    BY DEF CallShape
  <2>a. nextID[got[u]] \in Nat
    BY <2>0 DEF PoolShape
  <2>2. /\ tab[u] = None /\ tab'[u] # None /\ tab'[u][1] = got[u]
        /\ \A v \in Users \ {u} : tab'[v] = tab[v]
    <3>1. nextID[got[u]] + 1 \in Nat
      BY <2>a
    <3>2. <<got[u], nextID[got[u]] + 1>> \in Tabs /\ <<got[u], nextID[got[u]] + 1>>[1] = got[u]
      BY <2>0, <3>1, TabFacts
    <3>3. tab[u] = None
      BY <1>6 DEF ReserveTab, Open, PhaseShape, Holding, Driving
    <3> QED
      BY <2>1, <3>2, <3>3 DEF CallShape
  <2>3. ASSUME NEW g \in Generations
        PROVE  /\ IsFiniteSet(idle'[g]) /\ created'[g] <= Size
               /\ created'[g] = Cardinality(idle'[g]) + Cardinality(Holders(g)')
    <3>0. u \notin Holders(g) /\ (u \in Holders(g)' <=> g = got[u])
      BY <2>2 DEF Holders
    <3>1. CASE g = got[u]
      <4>1. created'[g] = created[g] + 1 /\ created[g] < Size
        BY <2>1, <3>1 DEF PoolShape
      <4>2. Cardinality(Holders(g)') = Cardinality(Holders(g)) + 1 /\ Cardinality(Holders(g)) \in Nat
        BY <2>2, <3>0, <3>1, HoldersChange
      <4> QED
        BY <1>0, <1>s, <2>1, <4>1, <4>2
    <3>2. CASE g # got[u]
      <4>1. created'[g] = created[g]
        BY <2>1, <3>2 DEF PoolShape
      <4> QED
        BY <1>0, <2>1, <2>2, <3>0, <3>2, <4>1, HoldersChange
    <3> QED
      BY <3>1, <3>2
  <2> QED
    BY <2>3 DEF AccountInv
<1>7. ASSUME NEW u \in Users, SetMetrics(u) \/ SetMetricsFails(u) \/ Reset(u) PROVE AccountInv'
  BY <1>1, <1>7 DEF SetMetrics, SetMetricsFails, Reset, poolVars, userVars
<1>8. ASSUME NEW u \in Users, Park(u) \/ Retire(u) \/ NewPageFails(u) PROVE AccountInv'
  <2>0. /\ pc[u] \in {"release", "create"} /\ tab'[u] = None /\ got[u] \in Generations
        /\ \A v \in Users \ {u} : tab'[v] = tab[v]
    BY <1>8 DEF Park, Retire, NewPageFails, Drop, CallShape
  <2>1. tab[u] \in Tabs /\ tab[u] # None /\ tab[u][1] = got[u] /\ tab[u] \notin idle[got[u]]
    BY <2>0 DEF PhaseShape, ShareInv, Holding, Driving
  <2>2. ASSUME NEW g \in Generations
        PROVE  /\ IsFiniteSet(idle'[g]) /\ created'[g] <= Size
               /\ created'[g] = Cardinality(idle'[g]) + Cardinality(Holders(g)')
    <3>0. u \notin Holders(g)' /\ (u \in Holders(g) <=> g = got[u])
      BY <2>0, <2>1 DEF Holders
    <3>1. CASE g = got[u] /\ Park(u)
      <4>1. idle'[g] = idle[g] \cup {tab[u]} /\ created'[g] = created[g]
        BY <3>1 DEF Park, PoolShape
      <4>2. IsFiniteSet(idle'[g]) /\ Cardinality(idle'[g]) = Cardinality(idle[g]) + 1
        <5>1. tab[u] \notin idle[g] /\ IsFiniteSet(idle[g])
          BY <1>0, <2>1, <3>1
        <5> QED
          BY <4>1, <5>1, OneTab
      <4>3. Cardinality(Holders(g)') = Cardinality(Holders(g)) - 1 /\ Cardinality(Holders(g)) \in Nat
        BY <2>0, <3>0, <3>1, HoldersChange
      <4> QED
        BY <1>0, <4>1, <4>2, <4>3
    <3>2. CASE g = got[u] /\ (Retire(u) \/ NewPageFails(u))
      <4>1. idle'[g] = idle[g] /\ created'[g] = created[g] - 1
        BY <3>2 DEF Retire, NewPageFails, PoolShape
      <4>3. Cardinality(Holders(g)') = Cardinality(Holders(g)) - 1 /\ Cardinality(Holders(g)) \in Nat
        BY <2>0, <3>0, <3>2, HoldersChange
      <4>4. /\ IsFiniteSet(idle[g]) /\ created[g] <= Size /\ created[g] \in Int
            /\ created[g] = Cardinality(idle[g]) + Cardinality(Holders(g))
        BY <1>0 DEF PoolShape
      <4>5. Cardinality(idle[g]) \in Nat
        BY <4>4, FS_CardinalityType
      <4>6. created'[g] <= Size
        BY <1>s, <4>1, <4>4
      <4>7. created'[g] = Cardinality(idle'[g]) + Cardinality(Holders(g)')
        BY <4>1, <4>3, <4>4, <4>5
      <4> QED
        BY <4>1, <4>4, <4>6, <4>7
    <3>3. CASE g # got[u]
      <4>1. idle'[g] = idle[g] /\ created'[g] = created[g]
        BY <1>8, <3>3 DEF Park, Retire, NewPageFails, PoolShape
      <4> QED
        BY <1>0, <2>0, <3>0, <3>3, <4>1, HoldersChange
    <3> QED
      BY <1>8, <3>1, <3>2, <3>3
  <2> QED
    BY <2>2 DEF AccountInv
<1>9. CASE UNCHANGED <<poolVars, tab>>
  BY <1>1, <1>9 DEF poolVars
<1> QED
  BY <1>2, <1>3, <1>4, <1>5, <1>6, <1>7, <1>8, <1>9, Steps
     DEF TabSteps, vars, TabDies, Restart, Close, userVars

-----------------------------------------------------------------------------
(* The inductive invariant. *)
IInv ==
  /\ Shape /\ TriesInv /\ LockInv /\ HomeInv /\ ShareInv /\ ResetInv /\ AssistInv /\ SlotInv
  /\ AccountInv

(* A manager that nobody called yet satisfies the invariant. *)
LEMMA InitIInv == Init => IInv
<1> SUFFICES ASSUME Init PROVE IInv
  OBVIOUS
<1> USE Kinds DEF Init
<1>0. 1 \in 1 .. MaxChrome
  OBVIOUS
<1>1. EnvShape
  BY <1>0 DEF EnvShape
<1>7. PoolShape
  BY DEF PoolShape
<1>2. CallShape
  BY DEF CallShape, PCs, Attaching, Driving
<1>3. PhaseShape /\ TriesInv
  BY DEF PhaseShape, TriesInv, Holding, Driving
<1>4. LockInv /\ HomeInv
  BY DEF LockInv, HomeInv, Locked, Holding, Driving
<1>5. ShareInv /\ ResetInv /\ AssistInv
  BY DEF ShareInv, ResetInv, AssistInv, Holding, Driving
<1>6. SlotInv
  <2>1. Captors = {}
    BY DEF Captors
  <2> QED
    BY <2>1, FS_EmptySet DEF SlotInv
<1>8. AccountInv
  <2>1. \A g \in Generations : Holders(g) = {} /\ idle[g] = {} /\ created[g] = 0
    BY DEF Holders
  <2>2. IsFiniteSet({}) /\ Cardinality({}) = 0 /\ Size \in Nat
    BY ManagerAssumption, FS_EmptySet
  <2>3. \A g \in Generations :
          /\ IsFiniteSet(idle[g]) /\ Cardinality(idle[g]) = 0
          /\ Cardinality(Holders(g)) = 0 /\ created[g] = 0
    BY ONLY <2>1, <2>2
  <2> QED
    BY ONLY <2>2, <2>3, ManagerAssumption DEF AccountInv
<1> QED
  BY <1>1, <1>2, <1>3, <1>4, <1>5, <1>6, <1>7, <1>8 DEF IInv, Shape

(* Every step keeps the invariant. *)
LEMMA StepIInv == IInv /\ [Next]_vars => IInv'
BY EnvStep, PoolStep, CallStep, PhaseStep, TriesStep, LockStep, HomeStep, ShareStep, ResetStep,
   AssistStep, SlotStep, AccountStep DEF IInv, Shape

(* IInv is an invariant. *)
LEMMA Invariance == Spec => []IInv
BY InitIInv, StepIInv, PTL DEF Spec

(* Type correctness; in particular nobody navigates more often than
   ChallengeRetries allows. *)
THEOREM ManagerTyped == Spec => []TypeOK
<1>1. IInv => TypeOK
  <2> SUFFICES ASSUME IInv PROVE TypeOK
    OBVIOUS
  <2>1. tries \in [Users -> 0 .. Retries + 1]
    BY Kinds DEF IInv, Shape, CallShape, TriesInv
  <2> QED
    BY <2>1 DEF TypeOK, IInv, Shape, EnvShape, PoolShape, CallShape
<1> QED
  BY <1>1, Invariance, PTL

(* A tab that can still be driven is one of the attached generation, and none
   is left after Close: currentPool stops what it replaces. *)
THEOREM OnlyAttachedTabsLiveHolds == Spec => []OnlyAttachedTabsLive
<1>1. IInv => OnlyAttachedTabsLive
  <2> SUFFICES ASSUME IInv,
                      NEW t \in Held \cup UNION {idle[g] : g \in Generations}, ~Dead(t)
               PROVE  t[1] = pool /\ ~closed
    BY DEF OnlyAttachedTabsLive
  <2>1. t[1] \in stopped \cup {pool}
    <3>1. CASE t \in Held
      <4>1. PICK u \in Users : tab[u] # None /\ t = tab[u]
        BY <3>1 DEF Held
      <4> QED
        BY <4>1 DEF IInv, Shape, PhaseShape, HomeInv
    <3>2. ASSUME NEW g \in Generations, t \in idle[g] PROVE t[1] \in stopped \cup {pool}
      BY <3>2 DEF IInv, Shape, PoolShape, HomeInv
    <3> QED
      BY <3>1, <3>2
  <2> QED
    BY <2>1 DEF Dead, IInv, HomeInv
<1> QED
  BY <1>1, Invariance, PTL

(* Every generation counts its own idle and leased tabs, within MaxTabs. *)
THEOREM GenerationsAccountHolds == Spec => []GenerationsAccount
<1>1. IInv => GenerationsAccount
  BY DEF IInv, AccountInv, Holders, Shape, PoolShape, GenerationsAccount
<1> QED
  BY <1>1, Invariance, PTL

(* No idle tab renders with the metrics of a screenshot, whichever of the
   commands that set and clear them failed. *)
THEOREM IdleTabsAreResetHolds == Spec => []IdleTabsAreReset
<1>1. IInv => IdleTabsAreReset
  BY DEF IInv, ResetInv, IdleTabsAreReset
<1> QED
  BY <1>1, Invariance, PTL

(* An assist is listed only while its fetch waits for the human. *)
THEOREM NoStaleAssistHolds == Spec => []NoStaleAssist
<1>1. IInv => NoStaleAssist
  BY DEF IInv, AssistInv, NoStaleAssist
<1> QED
  BY <1>1, Invariance, PTL

(* Capture slots are held by exactly the screenshots in between. *)
THEOREM SlotsMatchHolds == Spec => []SlotsMatch
<1>1. IInv => SlotsMatch
  BY DEF IInv, SlotInv, Captors, SlotsMatch
<1> QED
  BY <1>1, Invariance, PTL

(* The pool is never replaced by that of an older Chrome. *)
THEOREM GenerationsAdvanceHolds == Spec => GenerationsAdvance
<1>1. IInv /\ [Next]_vars => [pool' >= pool]_vars
  <2> SUFFICES ASSUME IInv, [Next]_vars PROVE pool' >= pool
    OBVIOUS
  <2>0. pool \in Nat
    BY Kinds DEF IInv, Shape, EnvShape
  <2>1. ASSUME NEW u \in Users, LockSteps(u) PROVE pool' >= pool
    <3>1. CASE Attach(u)
      BY <2>0, <3>1, Kinds DEF Attach, IInv, LockInv, Shape, EnvShape
    <3>2. CASE LockPool(u) \/ Discover(u) \/ DiscoverFails(u)
      BY <2>0, <3>2 DEF LockPool, Discover, DiscoverFails
    <3> QED
      BY <2>1, <3>1, <3>2 DEF LockSteps
  <2>2. CASE pool' = pool
    BY <2>0, <2>2
  <2> QED
    BY <2>1, <2>2, Steps, CallFrame, TabFrame DEF vars, attachVars, TabDies, Close, Restart
<1> QED
  BY <1>1, Invariance, PTL DEF Spec, GenerationsAdvance
-----------------------------------------------------------------------------
(* TabLeases counts as this module does. *)
LEMMA LendingCounts ==
  ASSUME NEW S
  PROVE  /\ Lending!Cardinality(S) = Cardinality(S)
         /\ Lending!IsFiniteSet(S) <=> IsFiniteSet(S)
<1>1. Lending!Cardinality(S) = Cardinality(S)
  BY DEF Lending!Cardinality, Cardinality
<1>2. Lending!IsFiniteSet(S) <=> IsFiniteSet(S)
  BY DEF Lending!IsFiniteSet, IsFiniteSet
<1> QED
  BY <1>1, <1>2

(* The tabs of a generation that exist: idle, or with somebody. *)
OfGeneration(g) == {tab[u] : u \in Users} \cap ({g} \X Nat)

(* A new tab has an id of its own, and its generation has room for it. *)
LEMMA RoomForTab ==
  ASSUME IInv, NEW u \in Users, ReserveTab(u)
  PROVE  /\ Cardinality(OfGeneration(got[u])) < Size
         /\ <<got[u], nextID[got[u]] + 1>> \in ({got[u]} \X Nat) \ OfGeneration(got[u])
<1> DEFINE g == got[u]
<1>1. /\ g \in Generations /\ idle[g] = {} /\ created[g] < Size /\ nextID[g] \in Nat
  BY DEF ReserveTab, IInv, Shape, CallShape, PoolShape
<1>2. /\ IsFiniteSet(Holders(g)) /\ Cardinality(Holders(g)) \in Nat
  <2>1. Holders(g) \in SUBSET Users
    BY DEF Holders
  <2> QED
    BY <2>1, ManagerAssumption, FS_Subset, FS_CardinalityType
<1>3. /\ IsFiniteSet(OfGeneration(g))
      /\ Cardinality(OfGeneration(g)) <= Cardinality(Holders(g))
  <2> DEFINE own == [v \in Holders(g) |-> tab[v]]
  <2>1. \A v \in Users : tab[v] \in {g} \X Nat <=> v \in Holders(g)
    BY Kinds, TabFacts, <1>1 DEF Holders, IInv, Shape, CallShape
  <2>2. own \in [Holders(g) -> OfGeneration(g)]
    BY <2>1 DEF OfGeneration, Holders
  <2>3. \A t \in OfGeneration(g) : \E v \in Holders(g) : own[v] = t
    BY <2>1 DEF OfGeneration
  <2>4. own \in Surjection(Holders(g), OfGeneration(g))
    BY <2>2, <2>3 DEF Surjection
  <2> QED
    BY <1>2, <2>4, FS_Surjection
<1>4. Cardinality(OfGeneration(g)) < Size
  <2>1. created[g] = Cardinality(idle[g]) + Cardinality(Holders(g))
    BY <1>1 DEF IInv, AccountInv
  <2>2. Cardinality(idle[g]) = 0 /\ Cardinality(OfGeneration(g)) \in Nat
    BY <1>1, <1>3, FS_EmptySet, FS_CardinalityType
  <2> QED
    BY <1>1, <1>2, <1>3, <2>1, <2>2, ManagerAssumption
<1>5. <<g, nextID[g] + 1>> \notin OfGeneration(g)
  <2> SUFFICES ASSUME NEW v \in Users, tab[v] = <<g, nextID[g] + 1>> PROVE FALSE
    BY DEF OfGeneration
  <2>1. /\ tab[v] \in Tabs /\ tab[v][1] = g /\ tab[v][2] = nextID[g] + 1
    BY <1>1, TabFacts
  <2>2. pc[v] \in Holding /\ got[v] = g
    BY <2>1, Kinds DEF IInv, Shape, PhaseShape
  <2>3. tab[v][2] <= nextID[got[v]]
    BY <2>2 DEF IInv, ShareInv
  <2> QED
    BY <1>1, <2>1, <2>2, <2>3
<1> QED
  BY <1>1, <1>4, <1>5

(* Who has no tab drops none, so only TabSteps change the pools or who has what. *)
LEMMA OthersKeepTabs ==
  ASSUME IInv, NEW u \in Users, CallSteps(u) \/ LockSteps(u)
  PROVE  UNCHANGED <<idle, tab>>
<1>1. idle' = idle
  BY CallFrame, LockFrame DEF poolVars
<1>2. /\ tab \in [Users -> Tabs \cup {None}]
      /\ tab[u] # None => pc[u] \in Holding
  BY DEF IInv, Shape, CallShape, PhaseShape
<1>3. CASE LeaveSlot(u) \/ FindClosed(u) \/ AcquireFails(u) \/ DiscoverFails(u)
  <2>1. tab[u] = None /\ tab' = [tab EXCEPT ![u] = None]
    BY <1>2, <1>3
       DEF LeaveSlot, FindClosed, AcquireFails, DiscoverFails, Drop, Holding, Driving
  <2> QED
    BY <1>1, <1>2, <2>1
<1>4. CASE Call(u) \/ TakeSlot(u) \/ NewPage(u) \/ Leased(u) \/ EndLease(u) \/ Retry(u) \/ GiveUpRetry(u)
  BY <1>1, <1>4 DEF Call, TakeSlot, NewPage, Leased, EndLease, Retry, GiveUpRetry, userVars
<1>5. CASE Navigate(u) \/ NavigateFails(u) \/ Capture(u) \/ AskHuman(u)
  BY <1>1, <1>5 DEF Navigate, NavigateFails, Capture, AskHuman, userVars
<1>6. CASE Settle(u) \/ AssistEnds(u) \/ ResetFails(u) \/ FreeSlot(u) \/ ContextEnds(u)
  BY <1>1, <1>6 DEF Settle, AssistEnds, ResetFails, FreeSlot, ContextEnds, Outcome, userVars
<1>7. CASE LockPool(u) \/ Discover(u) \/ Attach(u)
  BY <1>1, <1>7 DEF LockPool, Discover, Attach, userVars
<1> QED
  BY <1>3, <1>4, <1>5, <1>6, <1>7 DEF CallSteps, LockSteps

(* Every step of the manager lends, makes, takes back or retires one tab of one
   generation, or is none of the pools' business. *)
LEMMA LendingStep == IInv /\ [Next]_vars => [Lending!Next]_<<idle, tab>>
<1> SUFFICES ASSUME IInv, [Next]_vars, ~UNCHANGED <<idle, tab>>
             PROVE  Lending!Next
  OBVIOUS
<1>1. /\ idle \in [Generations -> SUBSET Tabs] /\ tab \in [Users -> Tabs \cup {None}]
      /\ got \in [Users -> Generations]
      /\ \A v \in Users : tab[v] # None => pc[v] \in Holding
      /\ \A v \in Users : pc[v] \in Holding => tab[v] \in Tabs /\ tab[v][1] = got[v]
  BY DEF IInv, Shape, PoolShape, CallShape, PhaseShape
<1>2. \A g \in Generations : [h \in Generations |-> {h} \X Nat][g] = {g} \X Nat
  OBVIOUS
<1>3. ASSUME NEW u \in Users, TakeIdle(u) PROVE Lending!Next
  <2>1. tab[u] = None /\ got[u] \in Generations
    BY <1>1, <1>3 DEF TakeIdle, Open, Holding, Driving
  <2>2. Lending!Take(u, got[u])
    BY <1>3, <2>1 DEF TakeIdle, Lending!Take, Lending!HasNone, Lending!Hold
  <2> QED
    BY <2>1, <2>2 DEF Lending!Next
<1>4. ASSUME NEW u \in Users, DropIdle(u) PROVE Lending!Next
  <2>1. Lending!Discard(got[u])
    BY <1>4 DEF DropIdle, userVars, Lending!Discard
  <2> QED
    BY <1>1, <2>1 DEF Lending!Next
<1>5. ASSUME NEW u \in Users, ReserveTab(u) PROVE Lending!Next
  <2> DEFINE g == got[u]
             t == <<g, nextID[g] + 1>>
  <2>1. /\ tab[u] = None /\ g \in Generations /\ idle[g] = {}
        /\ idle' = idle /\ tab' = [tab EXCEPT ![u] = t] /\ tab'[u] = t
    BY <1>1, <1>5 DEF ReserveTab, Open, Holding, Driving
  <2>2. Lending!Existing(g) = OfGeneration(g)
    BY <1>2, <2>1 DEF Lending!Existing, OfGeneration
  <2>3. /\ Lending!Cardinality(Lending!Existing(g)) < Size
        /\ tab'[u] \in [h \in Generations |-> {h} \X Nat][g] \ Lending!Existing(g)
    BY <1>2, <1>5, <2>1, <2>2, RoomForTab, LendingCounts
  <2>4. Lending!HasNone(u) /\ Lending!Hold(u, tab'[u])
    BY <2>1 DEF Lending!HasNone, Lending!Hold
  <2>5. Lending!Make(u, g)
    BY <2>1, <2>3, <2>4 DEF Lending!Make
  <2> QED
    BY <2>1, <2>5 DEF Lending!Next
<1>6. ASSUME NEW u \in Users, Park(u) PROVE Lending!Next
  <2>1. /\ got[u] \in Generations /\ tab[u] \in {got[u]} \X Nat
    BY <1>1, <1>6, TabFacts DEF Park, Holding, Driving
  <2>2. /\ idle' = [idle EXCEPT ![got[u]] = @ \cup {tab[u]}]
        /\ tab' = [tab EXCEPT ![u] = None]
    BY <1>6 DEF Park, Drop
  <2>3. Lending!Park(u, got[u])
    BY <1>2, <2>1, <2>2 DEF Lending!Park, Lending!Hold
  <2> QED
    BY <2>1, <2>3 DEF Lending!Next
<1>7. ASSUME NEW u \in Users, Retire(u) \/ NewPageFails(u) PROVE Lending!Next
  <2>1. /\ tab[u] # None /\ tab' = [tab EXCEPT ![u] = None] /\ idle' = idle
    BY <1>1, <1>7, Kinds DEF Retire, NewPageFails, Drop, Holding, Driving
  <2>2. Lending!Retire(u)
    BY <2>1 DEF Lending!Retire, Lending!HasNone, Lending!Hold
  <2> QED
    BY <2>2, Kinds DEF Lending!Next
<1>8. ASSUME NEW u \in Users, SetMetrics(u) \/ SetMetricsFails(u) \/ Reset(u)
      PROVE  UNCHANGED <<idle, tab>>
  BY <1>8 DEF SetMetrics, SetMetricsFails, Reset, poolVars, userVars
<1>9. (\E t \in Held \cup UNION {idle[g] : g \in Generations} : TabDies(t))
        \/ Close \/ Restart \/ UNCHANGED vars => UNCHANGED <<idle, tab>>
  BY DEF TabDies, Close, Restart, vars, poolVars, userVars
<1> QED
  BY <1>3, <1>4, <1>5, <1>6, <1>7, <1>8, <1>9, OthersKeepTabs, Steps DEF TabSteps

(* "Return to the owning generation, even if Chrome restarts during the lease":
   every generation of tabs is a pool that keeps the promise of TabLeases. *)
THEOREM GenerationsLend == Spec => LendingSpec
<1>1. Init => Lending!Init
  <2> SUFFICES ASSUME Init PROVE Lending!Init
    OBVIOUS
  <2>1. /\ Lending!IsFiniteSet({}) /\ Lending!Cardinality({}) = 0 /\ 0 <= Size
    BY FS_EmptySet, LendingCounts, ManagerAssumption
  <2>2. /\ \A g \in Generations : idle[g] = {}
        /\ tab = [l \in Users |-> None]
    BY DEF Init
  <2> QED
    BY <2>1, <2>2 DEF Lending!Init
<1> QED
  BY <1>1, Invariance, LendingStep, PTL DEF Spec, LendingSpec, Lending!Spec
=============================================================================
