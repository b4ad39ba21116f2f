--------------------------- MODULE TabPoolProofs ---------------------------
(***************************************************************************)
(* Proofs about TabPool for any number of users and any pool size.         *)
(***************************************************************************)
EXTENDS TabPool, FiniteSetTheorems, SequenceTheorems, TLAPS

(* The phases in which a user has a tab. *)
Holding == {"check", "drop", "discard", "mark", "leased"} \cup Releasing

(* Types, without the bound on created that needs counting. *)
ShapeInv ==
  /\ pc \in [Users -> PCs]
  /\ tab \in [Users -> Users \cup {None}]
  /\ ctx \in [Users -> {"live", "done"}]
  /\ free \in Seq(Users)
  /\ created \in Int /\ busy \in Int /\ retired \in Nat
  /\ pages \subseteq Users /\ open \subseteq Users
  /\ dead \subseteq Users /\ used \subseteq Users
  /\ alloc \in {"live", "done"}
  /\ \A u \in Users : tab[u] # None <=> pc[u] \in Holding

(* What Head, Tail and Append do to a sequence of tabs, by index. *)
LEMMA PopFacts ==
  ASSUME NEW S, NEW s \in Seq(S), s # <<>>
  PROVE  /\ Head(s) \in S /\ Tail(s) \in Seq(S)
         /\ Len(s) \in Nat \ {0} /\ Len(Tail(s)) = Len(s) - 1
         /\ Head(s) = s[1] /\ 1 \in DOMAIN s
         /\ \A i \in DOMAIN Tail(s) : i + 1 \in DOMAIN s /\ i \in Nat /\ i >= 1
                                      /\ Tail(s)[i] = s[i + 1]
OBVIOUS

(* A list with one more element at its end. *)
LEMMA PushFacts ==
  ASSUME NEW S, NEW s \in Seq(S), NEW x \in S
  PROVE  /\ Append(s, x) \in Seq(S)
         /\ Len(s) \in Nat /\ Len(Append(s, x)) = Len(s) + 1
         /\ \A i \in DOMAIN Append(s, x) :
              \/ i \in DOMAIN s /\ Append(s, x)[i] = s[i]
              \/ i = Len(s) + 1 /\ i \notin DOMAIN s /\ Append(s, x)[i] = x
OBVIOUS

(* Every step of the pool keeps the types. *)
LEMMA ShapeStep == ShapeInv /\ [Next]_vars => ShapeInv'
<1> SUFFICES ASSUME ShapeInv, [Next]_vars PROVE ShapeInv'
  OBVIOUS
<1> USE TabPoolAssumption DEF ShapeInv, PCs, Acquiring, Releasing, Holding, poolVars, Goto, Hold,
        Notify
<1>1. ASSUME NEW u \in Users, TakeFree(u) PROVE ShapeInv'
  BY <1>1, PopFacts DEF TakeFree
<1>2. ASSUME NEW u \in Users, Return(u) PROVE ShapeInv'
  BY <1>2, PushFacts DEF Return
<1>3. ASSUME NEW u \in Users, Acquire(u) \/ Enter(u) \/ Refuse(u) \/ ReserveTab(u) \/ AwaitChange(u)
      PROVE ShapeInv'
  BY <1>3 DEF Acquire, Enter, Refuse, ReserveTab, AwaitChange
<1>4. ASSUME NEW u \in Users, Awake(u) \/ StopWaiting(u) \/ CheckTab(u) \/ MarkBusy(u)
      PROVE ShapeInv'
  BY <1>4 DEF Awake, StopWaiting, CheckTab, MarkBusy
<1>5. ASSUME NEW u \in Users, NewPage(u) \/ NewPageFails(u) \/ Uncreate(u) PROVE ShapeInv'
  BY <1>5 DEF NewPage, NewPageFails, Uncreate
<1>6. ASSUME NEW u \in Users, Release(u) \/ ReleaseDead(u) \/ Park(u) \/ ParkFails(u)
      PROVE ShapeInv'
  BY <1>6 DEF Release, ReleaseDead, Park, ParkFails
<1>7. ASSUME NEW u \in Users, CancelTab(u) \/ Retire(u) PROVE ShapeInv'
  BY <1>7 DEF CancelTab, Retire
<1>8. ASSUME NEW u \in Users, Navigate(u) \/ ContextEnds(u) \/ TabDies(u) PROVE ShapeInv'
  BY <1>8 DEF Navigate, ContextEnds, TabDies
<1>9. CASE CloseAll \/ AllocEnds
  BY <1>9 DEF CloseAll, AllocEnds
<1>10. CASE UNCHANGED vars
  BY <1>10 DEF vars
<1> QED
  BY <1>1, <1>2, <1>3, <1>4, <1>5, <1>6, <1>7, <1>8, <1>9, <1>10 DEF Next, Step, Proceed
-----------------------------------------------------------------------------
AccountedUsers == {u \in Users : pc[u] \in Accounted}
Lessees        == {u \in Users : pc[u] = "leased"}

(* created and busy against the phases of the users. *)
CountInv ==
  /\ created = Len(free) + Cardinality(AccountedUsers)
  /\ created <= Size
  /\ busy = Cardinality(Lessees)

(* Cardinalities of sets of users are numbers and change by one. *)
LEMMA UsersCount ==
  ASSUME NEW S \in SUBSET Users, NEW u \in Users
  PROVE  /\ Cardinality(S) \in Nat
         /\ u \notin S => Cardinality(S \cup {u}) = Cardinality(S) + 1
         /\ u \in S => Cardinality(S \ {u}) = Cardinality(S) - 1
BY TabPoolAssumption, FS_Subset, FS_CardinalityType, FS_AddElement, FS_RemoveElement

(* Every step keeps the counters right. *)
LEMMA CountStep == ShapeInv /\ CountInv /\ [Next]_vars => CountInv'
<1> SUFFICES ASSUME ShapeInv, CountInv, [Next]_vars PROVE CountInv'
  OBVIOUS
<1>1. AccountedUsers \in SUBSET Users /\ Lessees \in SUBSET Users
  BY DEF AccountedUsers, Lessees
<1>2. /\ Cardinality(AccountedUsers) \in Nat /\ Cardinality(Lessees) \in Nat
      /\ Size \in Nat /\ created \in Int /\ busy \in Int /\ Len(free) \in Nat
  BY <1>1, TabPoolAssumption, FS_Subset, FS_CardinalityType DEF ShapeInv
<1> USE DEF ShapeInv, Accounted, Releasing, Goto, Hold
<1>3. ASSUME NEW u \in Users, TakeFree(u) PROVE CountInv'
  <2>1. AccountedUsers' = AccountedUsers \cup {u} /\ u \notin AccountedUsers
        /\ Lessees' = Lessees
    BY <1>3 DEF TakeFree, AccountedUsers, Lessees
  <2>2. UNCHANGED <<created, busy>> /\ Len(free') = Len(free) - 1
    BY <1>3, PopFacts DEF TakeFree
  <2>3. Cardinality(AccountedUsers') = Cardinality(AccountedUsers) + 1
    BY <1>1, <2>1, UsersCount
  <2> QED
    BY <1>2, <2>1, <2>2, <2>3 DEF CountInv
<1>4. ASSUME NEW u \in Users, ReserveTab(u) PROVE CountInv'
  <2>1. AccountedUsers' = AccountedUsers \cup {u} /\ u \notin AccountedUsers
        /\ Lessees' = Lessees
    BY <1>4 DEF ReserveTab, AccountedUsers, Lessees
  <2>2. UNCHANGED <<free, busy>> /\ created' = created + 1 /\ created < Size
    BY <1>4 DEF ReserveTab
  <2>3. Cardinality(AccountedUsers') = Cardinality(AccountedUsers) + 1
    BY <1>1, <2>1, UsersCount
  <2> QED
    BY <1>2, <2>1, <2>2, <2>3 DEF CountInv
<1>5. ASSUME NEW u \in Users, Uncreate(u) \/ Retire(u) PROVE CountInv'
  <2>1. AccountedUsers' = AccountedUsers \ {u} /\ u \in AccountedUsers
        /\ Lessees' = Lessees
    BY <1>5 DEF Uncreate, Retire, AccountedUsers, Lessees
  <2>2. UNCHANGED <<free, busy>> /\ created' = created - 1
    BY <1>5 DEF Uncreate, Retire
  <2>3. Cardinality(AccountedUsers') = Cardinality(AccountedUsers) - 1
    BY <1>1, <2>1, UsersCount
  <2> QED
    BY <1>2, <2>1, <2>2, <2>3 DEF CountInv
<1>6. ASSUME NEW u \in Users, Return(u) PROVE CountInv'
  <2>1. AccountedUsers' = AccountedUsers \ {u} /\ u \in AccountedUsers
        /\ Lessees' = Lessees /\ tab[u] \in Users
    BY <1>6, TabPoolAssumption DEF Return, AccountedUsers, Lessees, Holding
  <2>2. UNCHANGED <<created, busy>> /\ Len(free') = Len(free) + 1
    BY <1>6, <2>1, PushFacts DEF Return
  <2>3. Cardinality(AccountedUsers') = Cardinality(AccountedUsers) - 1
    BY <1>1, <2>1, UsersCount
  <2> QED
    BY <1>2, <2>1, <2>2, <2>3 DEF CountInv
<1>7. ASSUME NEW u \in Users, MarkBusy(u) PROVE CountInv'
  <2>1. AccountedUsers' = AccountedUsers /\ Lessees' = Lessees \cup {u} /\ u \notin Lessees
    BY <1>7 DEF MarkBusy, AccountedUsers, Lessees
  <2>2. UNCHANGED <<created, free>> /\ busy' = busy + 1
    BY <1>7 DEF MarkBusy
  <2>3. Cardinality(Lessees') = Cardinality(Lessees) + 1
    BY <1>1, <2>1, UsersCount
  <2> QED
    BY <1>2, <2>1, <2>2, <2>3 DEF CountInv
<1>8. ASSUME NEW u \in Users, Release(u) PROVE CountInv'
  <2>1. AccountedUsers' = AccountedUsers /\ Lessees' = Lessees \ {u} /\ u \in Lessees
    BY <1>8 DEF Release, AccountedUsers, Lessees
  <2>2. UNCHANGED <<created, free>> /\ busy' = busy - 1
    BY <1>8 DEF Release
  <2>3. Cardinality(Lessees') = Cardinality(Lessees) - 1
    BY <1>1, <2>1, UsersCount
  <2> QED
    BY <1>2, <2>1, <2>2, <2>3 DEF CountInv
<1>9. ASSUME UNCHANGED <<created, free, busy>>, AccountedUsers' = AccountedUsers,
             Lessees' = Lessees
      PROVE  CountInv'
  BY <1>9 DEF CountInv
<1>10. ASSUME NEW u \in Users, Acquire(u) \/ Enter(u) \/ Refuse(u) \/ AwaitChange(u) \/ Awake(u)
                               \/ StopWaiting(u) \/ CheckTab(u)
       PROVE  CountInv'
  <2>1. UNCHANGED <<created, free, busy>> /\ AccountedUsers' = AccountedUsers
        /\ Lessees' = Lessees
    BY <1>10 DEF Acquire, Enter, Refuse, AwaitChange, Awake, StopWaiting, CheckTab,
       AccountedUsers, Lessees, poolVars
  <2> QED
    BY <1>9, <2>1
<1>11. ASSUME NEW u \in Users, NewPage(u) \/ NewPageFails(u) \/ ReleaseDead(u) \/ Park(u)
                               \/ ParkFails(u) \/ CancelTab(u)
       PROVE  CountInv'
  <2>1. UNCHANGED <<created, free, busy>> /\ AccountedUsers' = AccountedUsers
        /\ Lessees' = Lessees
    BY <1>11 DEF NewPage, NewPageFails, ReleaseDead, Park, ParkFails, CancelTab,
       AccountedUsers, Lessees, poolVars
  <2> QED
    BY <1>9, <2>1
<1>12. CASE UNCHANGED <<pc, created, free, busy>>
  BY <1>9, <1>12 DEF AccountedUsers, Lessees
<1>13. (\E u \in Users : Navigate(u) \/ ContextEnds(u) \/ TabDies(u)) \/ CloseAll \/ AllocEnds
         \/ UNCHANGED vars => UNCHANGED <<pc, created, free, busy>>
  BY DEF Navigate, ContextEnds, TabDies, CloseAll, AllocEnds, vars, poolVars
<1> QED
  BY <1>3, <1>4, <1>5, <1>6, <1>7, <1>8, <1>10, <1>11, <1>12, <1>13 DEF Next, Step, Proceed

(* What the counters say, put together. *)
LEMMA CountConsequences ==
  ASSUME ShapeInv, CountInv
  PROVE  TypeOK /\ Accounting /\ ReturnNeverBlocks
<1>1. /\ AccountedUsers \in SUBSET Users /\ Lessees \in SUBSET AccountedUsers
      /\ IsFiniteSet(AccountedUsers) /\ IsFiniteSet(Lessees)
  BY TabPoolAssumption, FS_Subset DEF AccountedUsers, Lessees, Accounted
<1>2. /\ Cardinality(AccountedUsers) \in Nat /\ Cardinality(Lessees) \in Nat
      /\ Cardinality(Lessees) <= Cardinality(AccountedUsers)
      /\ Len(free) \in Nat /\ Size \in Nat
  BY <1>1, FS_Subset, FS_CardinalityType, TabPoolAssumption DEF ShapeInv
<1>3. TypeOK /\ Accounting
  BY <1>2 DEF ShapeInv, CountInv, TypeOK, Accounting, AccountedUsers, Lessees
<1>4. ASSUME NEW u \in Users, pc[u] = "return" PROVE Len(free) < Size
  <2>1. u \in AccountedUsers
    BY <1>4 DEF AccountedUsers, Accounted, Releasing
  <2>2. Cardinality(AccountedUsers) # 0
    BY <1>1, <2>1, FS_EmptySet
  <2> QED
    BY <1>2, <2>2 DEF CountInv, ShapeInv
<1> QED
  BY <1>3, <1>4 DEF ReturnNeverBlocks
-----------------------------------------------------------------------------
(* Every step tells the waiters when there is something to wake up for. *)
LEMMA WakeStep == ShapeInv /\ CountInv /\ NoLostWakeup /\ [Next]_vars => NoLostWakeup'
<1> SUFFICES ASSUME ShapeInv, CountInv, NoLostWakeup, [Next]_vars PROVE NoLostWakeup'
  OBVIOUS
<1> USE TabPoolAssumption DEF ShapeInv, NoLostWakeup, Goto, poolVars
<1>1. ASSUME NEW u \in Users, Uncreate(u) \/ Return(u) \/ Retire(u) PROVE NoLostWakeup'
  BY <1>1 DEF Uncreate, Return, Retire, Notify
<1>2. ASSUME NEW u \in Users, TakeFree(u) \/ ReserveTab(u) PROVE NoLostWakeup'
  <2>1. open = {} /\ open' = open
    BY <1>2 DEF TakeFree, ReserveTab
  <2> QED
    BY <2>1
<1>3. ASSUME NEW u \in Users, AwaitChange(u) PROVE NoLostWakeup'
  <2>1. free = <<>> /\ created = Size
    BY <1>3 DEF AwaitChange, CountInv
  <2> QED
    BY <1>3, <2>1 DEF AwaitChange
<1>4. ASSUME NEW u \in Users, Awake(u) \/ StopWaiting(u) PROVE NoLostWakeup'
  BY <1>4 DEF Awake, StopWaiting
<1>5. ASSUME UNCHANGED <<free, created, open>>, \A u \in open : pc'[u] = pc[u]
      PROVE  NoLostWakeup'
  BY <1>5
<1>6. ASSUME NEW u \in Users, Acquire(u) \/ Enter(u) \/ Refuse(u) \/ CheckTab(u) \/ MarkBusy(u)
                              \/ NewPage(u) \/ NewPageFails(u)
      PROVE  NoLostWakeup'
  BY <1>5, <1>6 DEF Acquire, Enter, Refuse, CheckTab, MarkBusy, NewPage, NewPageFails
<1>7. ASSUME NEW u \in Users, Release(u) \/ ReleaseDead(u) \/ Park(u) \/ ParkFails(u)
                              \/ CancelTab(u)
      PROVE  NoLostWakeup'
  BY <1>5, <1>7 DEF Release, ReleaseDead, Park, ParkFails, CancelTab
<1>8. (\E u \in Users : Navigate(u) \/ ContextEnds(u) \/ TabDies(u)) \/ CloseAll \/ AllocEnds
         \/ UNCHANGED vars => UNCHANGED <<pc, created, free, open>>
  BY DEF Navigate, ContextEnds, TabDies, CloseAll, AllocEnds, vars
<1> QED
  BY <1>1, <1>2, <1>3, <1>4, <1>5, <1>6, <1>7, <1>8 DEF Next, Step, Proceed

-----------------------------------------------------------------------------
(* A tab that exists was made by a user that is past making it. *)
Made == {"mark", "leased", "done"} \cup Releasing

(* NoSharedTab, and what a tab is named after has made it. *)
SharedInv ==
  /\ NoSharedTab
  /\ \A u \in Users : tab[u] # None => pc[tab[u]] \in Made
  /\ \A i \in DOMAIN free : pc[free[i]] \in Made

(* Every step keeps each tab with one user or idle, once. *)
LEMMA SharedStep == ShapeInv /\ SharedInv /\ [Next]_vars => SharedInv'
<1> SUFFICES ASSUME ShapeInv, SharedInv, [Next]_vars PROVE SharedInv'
  OBVIOUS
<1> USE TabPoolAssumption DEF ShapeInv, SharedInv, NoSharedTab, Made, Releasing, Holding, Goto, Hold, poolVars
<1>1. \A i \in DOMAIN free : free[i] \in Users
  OBVIOUS
<1>2. ASSUME NEW u \in Users, TakeFree(u) PROVE SharedInv'
  <2>1. /\ tab' = [tab EXCEPT ![u] = free[1]] /\ 1 \in DOMAIN free
        /\ pc' = [pc EXCEPT ![u] = "check"] /\ pc[u] = "lock"
    BY <1>2, PopFacts DEF TakeFree
  <2>2. \A i \in DOMAIN free' : /\ i + 1 \in DOMAIN free /\ free'[i] = free[i + 1]
                                /\ i \in Nat /\ i >= 1
    BY <1>2, PopFacts DEF TakeFree
  <2>3. \A i, j \in DOMAIN free' : free'[i] = free'[j] => i = j
    BY <2>2
  <2>4. \A i \in DOMAIN free' : free'[i] # free[1] /\ \A v \in Users : tab[v] # free'[i]
    BY <2>1, <2>2
  <2>5. \A v \in Users : tab[v] # free[1]
    BY <2>1
  <2> QED
    BY <1>1, <2>1, <2>2, <2>3, <2>4, <2>5
<1>3. ASSUME NEW u \in Users, Return(u) PROVE SharedInv'
  <2>1. /\ tab' = [tab EXCEPT ![u] = None] /\ tab[u] \in Users
        /\ pc' = [pc EXCEPT ![u] = "done"] /\ pc[u] = "return"
    BY <1>3 DEF Return
  <2>2. \A i \in DOMAIN free' : \/ i \in DOMAIN free /\ free'[i] = free[i]
                                \/ i = Len(free) + 1 /\ i \notin DOMAIN free /\ free'[i] = tab[u]
    BY <1>3, <2>1, PushFacts DEF Return
  <2> QED
    BY <1>1, <2>1, <2>2
<1>4. ASSUME NEW u \in Users, NewPage(u) PROVE SharedInv'
  BY <1>1, <1>4 DEF NewPage
<1>5. ASSUME NEW u \in Users, Retire(u) PROVE SharedInv'
  BY <1>1, <1>5 DEF Retire
<1>6. ASSUME UNCHANGED <<tab, free>>,
             \A v \in Users : pc[v] \in Made => pc'[v] \in Made
      PROVE  SharedInv'
  BY <1>1, <1>6
<1>7. ASSUME NEW u \in Users, Acquire(u) \/ Enter(u) \/ Refuse(u) \/ ReserveTab(u)
                              \/ AwaitChange(u) \/ Awake(u) \/ StopWaiting(u) \/ CheckTab(u)
      PROVE  SharedInv'
  BY <1>6, <1>7 DEF Acquire, Enter, Refuse, ReserveTab, AwaitChange, Awake, StopWaiting,
     CheckTab
<1>8. ASSUME NEW u \in Users, MarkBusy(u) \/ NewPageFails(u) \/ Uncreate(u) \/ Release(u)
                              \/ ReleaseDead(u) \/ Park(u) \/ ParkFails(u) \/ CancelTab(u)
      PROVE  SharedInv'
  BY <1>6, <1>8 DEF MarkBusy, NewPageFails, Uncreate, Release, ReleaseDead, Park,
     ParkFails, CancelTab
<1>9. (\E u \in Users : Navigate(u) \/ ContextEnds(u) \/ TabDies(u)) \/ CloseAll \/ AllocEnds
         \/ UNCHANGED vars => UNCHANGED <<pc, tab, free>>
  BY DEF Navigate, ContextEnds, TabDies, CloseAll, AllocEnds, vars
<1> QED
  BY <1>2, <1>3, <1>4, <1>5, <1>6, <1>7, <1>8, <1>9 DEF Next, Step, Proceed

-----------------------------------------------------------------------------
(* A tab is blank from the end of park on, until it is leased again. *)
BlankInv ==
  /\ FreeTabsAreBlank
  /\ \A u \in Users : pc[u] = "return" => tab[u] \notin used

(* Every step keeps it so: who navigates a tab is its only user. *)
LEMMA BlankStep == ShapeInv /\ SharedInv /\ BlankInv /\ [Next]_vars => BlankInv'
<1> SUFFICES ASSUME ShapeInv, SharedInv, BlankInv, [Next]_vars PROVE BlankInv'
  OBVIOUS
<1> USE DEF BlankInv, FreeTabsAreBlank, ShapeInv, Goto, Hold, poolVars
<1>1. ASSUME UNCHANGED free, used' \subseteq used, tab' = tab,
             \A v \in Users : pc'[v] = "return" => pc[v] = "return"
      PROVE  BlankInv'
  BY <1>1
<1>2. ASSUME NEW u \in Users, TakeFree(u) PROVE BlankInv'
  <2>1. \A i \in DOMAIN free' : i + 1 \in DOMAIN free /\ free'[i] = free[i + 1]
    BY <1>2, PopFacts DEF TakeFree
  <2>2. \A v \in Users : pc'[v] = "return" => pc[v] = "return" /\ tab'[v] = tab[v]
    BY <1>2 DEF TakeFree
  <2>3. used' = used
    BY <1>2 DEF TakeFree
  <2> QED
    BY <2>1, <2>2, <2>3
<1>3. ASSUME NEW u \in Users, Return(u) PROVE BlankInv'
  <2>1. /\ tab[u] \in Users /\ tab[u] \notin used /\ used' = used
        /\ \A v \in Users : pc'[v] = "return" => pc[v] = "return" /\ tab'[v] = tab[v]
    BY <1>3, TabPoolAssumption DEF Return, Holding, Releasing
  <2>2. \A i \in DOMAIN free' : \/ i \in DOMAIN free /\ free'[i] = free[i]
                                \/ free'[i] = tab[u]
    BY <1>3, <2>1, PushFacts DEF Return
  <2> QED
    BY <2>1, <2>2
<1>4. ASSUME NEW u \in Users, Navigate(u) PROVE BlankInv'
  <2>1. /\ pc[u] = "leased" /\ tab[u] # None /\ used' = used \cup {tab[u]}
        /\ UNCHANGED <<pc, tab, free>>
    BY <1>4 DEF Navigate, Holding
  <2>2. \A i \in DOMAIN free : free[i] # tab[u]
    BY DEF SharedInv, NoSharedTab
  <2>3. \A v \in Users : pc[v] = "return" => tab[v] # tab[u]
    BY <2>1 DEF SharedInv, NoSharedTab
  <2> QED
    BY <2>1, <2>2, <2>3
<1>5. ASSUME NEW u \in Users, Park(u) PROVE BlankInv'
  <2>1. /\ free' = free /\ tab' = tab /\ used' = used \ {tab[u]}
        /\ \A v \in Users : pc'[v] = "return" => pc[v] = "return" \/ v = u
    BY <1>5 DEF Park
  <2> QED
    BY <2>1
<1>6. ASSUME NEW u \in Users, NewPage(u) \/ Retire(u) PROVE BlankInv'
  <2>1. /\ free' = free /\ used' = used
        /\ \A v \in Users : pc'[v] = "return" => pc[v] = "return" /\ tab'[v] = tab[v]
    BY <1>6 DEF NewPage, Retire
  <2> QED
    BY <2>1
<1>7. ASSUME NEW u \in Users, Acquire(u) \/ Enter(u) \/ Refuse(u) \/ ReserveTab(u)
                              \/ AwaitChange(u) \/ Awake(u) \/ StopWaiting(u)
      PROVE  BlankInv'
  BY <1>1, <1>7 DEF Acquire, Enter, Refuse, ReserveTab, AwaitChange, Awake, StopWaiting
<1>8. ASSUME NEW u \in Users, CheckTab(u) \/ MarkBusy(u) \/ NewPageFails(u) \/ Uncreate(u)
                              \/ Release(u) \/ ReleaseDead(u) \/ ParkFails(u) \/ CancelTab(u)
      PROVE  BlankInv'
  BY <1>1, <1>8 DEF CheckTab, MarkBusy, NewPageFails, Uncreate, Release, ReleaseDead,
     ParkFails, CancelTab
<1>9. (\E u \in Users : ContextEnds(u) \/ TabDies(u)) \/ CloseAll \/ AllocEnds
         \/ UNCHANGED vars => UNCHANGED <<pc, tab, free, used>>
  BY DEF ContextEnds, TabDies, CloseAll, AllocEnds, vars
<1> QED
  BY <1>1, <1>2, <1>3, <1>4, <1>5, <1>6, <1>7, <1>8, <1>9 DEF Next, Step, Proceed

-----------------------------------------------------------------------------
(* The inductive invariant. *)
PoolInv == ShapeInv /\ CountInv /\ NoLostWakeup /\ SharedInv /\ BlankInv

(* The inductive invariant of the pool. *)
LEMMA PoolInductive == Spec => []PoolInv
<1>1. Init => PoolInv
  <2> SUFFICES ASSUME Init PROVE PoolInv
    OBVIOUS
  <2>1. AccountedUsers = {} /\ Lessees = {}
    BY DEF Init, AccountedUsers, Lessees, Accounted, Releasing
  <2>2. ShapeInv
    BY TabPoolAssumption DEF Init, ShapeInv, PCs, Holding, Releasing, Acquiring
  <2>3. CountInv
    BY <2>1, FS_EmptySet, TabPoolAssumption DEF Init, CountInv
  <2> QED
    BY <2>2, <2>3 DEF Init, PoolInv, NoLostWakeup, SharedInv, NoSharedTab, BlankInv, FreeTabsAreBlank
<1>2. PoolInv /\ [Next]_vars => PoolInv'
  BY ShapeStep, CountStep, WakeStep, SharedStep, BlankStep DEF PoolInv
<1> QED
  BY <1>1, <1>2, PTL DEF Spec

(* Every state of the pool is well typed; in particular it never has more
   than Size tabs. *)
THEOREM PoolTyped == Spec => []TypeOK
<1>1. PoolInv => TypeOK
  BY CountConsequences DEF PoolInv
<1> QED
  BY <1>1, PoolInductive, PTL

(* pool.created and pool.busy are right after every interleaving of creating,
   losing, parking and retiring tabs. *)
THEOREM AccountingHolds == Spec => []Accounting
<1>1. PoolInv => Accounting
  BY CountConsequences DEF PoolInv
<1> QED
  BY <1>1, PoolInductive, PTL

(* release never blocks on the free channel with the lock held. *)
THEOREM ReturnNeverBlocksHolds == Spec => []ReturnNeverBlocks
<1>1. PoolInv => ReturnNeverBlocks
  BY CountConsequences DEF PoolInv
<1> QED
  BY <1>1, PoolInductive, PTL

(* No waiter of acquire sleeps through capacity or a tab becoming free. *)
THEOREM NoLostWakeupHolds == Spec => []NoLostWakeup
BY PoolInductive, PTL DEF PoolInv

(* No tab is leased twice, or leased and idle. *)
THEOREM NoSharedTabHolds == Spec => []NoSharedTab
<1>1. PoolInv => NoSharedTab
  BY DEF PoolInv, SharedInv
<1> QED
  BY <1>1, PoolInductive, PTL

(* "no page state leaks between fetches": what is idle in the pool shows
   about:blank, however parks fail and tabs die; of the pool by itself, whose
   users navigate only what they lease. *)
THEOREM FreeTabsAreBlankHolds == Spec => []FreeTabsAreBlank
<1>1. PoolInv => FreeTabsAreBlank
  BY DEF PoolInv, BlankInv
<1> QED
  BY <1>1, PoolInductive, PTL
-----------------------------------------------------------------------------
(* What is idle, and who has a tab. *)
IdleTabs == {free[i] : i \in DOMAIN free}
Held == {tab[u] : u \in Users} \cap Users

(* TabLeases counts as this module does. *)
LEMMA LendingCounts ==
  ASSUME NEW S
  PROVE  /\ Lending!Cardinality(S) = Cardinality(S)
         /\ Lending!IsFiniteSet(S) <=> IsFiniteSet(S)
<1>1. Lending!Cardinality(S) = Cardinality(S) BY DEF Lending!Cardinality, Cardinality
<1>2. Lending!IsFiniteSet(S) <=> IsFiniteSet(S) BY DEF Lending!IsFiniteSet, IsFiniteSet
<1> QED BY <1>1, <1>2

(* A tab that is made is one that did not exist, and there is room for it. *)
LEMMA RoomForNewPage ==
  ASSUME PoolInv, NEW u \in Users, NewPage(u)
  PROVE  /\ u \notin IdleTabs \cup Held
         /\ Cardinality(IdleTabs \cup Held) < Size
<1> USE TabPoolAssumption
<1>1. pc[u] = "create" /\ u \notin IdleTabs \cup Held
  BY DEF PoolInv, ShapeInv, SharedInv, Made, Releasing, NewPage, IdleTabs, Held
<1> DEFINE Owners == {v \in Users : tab[v] # None}
<1>2. /\ Owners \in SUBSET Users /\ u \notin Owners /\ u \in AccountedUsers
      /\ Owners \cup {u} \in SUBSET AccountedUsers
      /\ AccountedUsers \in SUBSET Users
  BY <1>1 DEF PoolInv, ShapeInv, Holding, Accounted, Releasing, AccountedUsers
<1>3. /\ Cardinality(Owners) + 1 <= Cardinality(AccountedUsers)
      /\ Cardinality(Owners) \in Nat /\ Cardinality(AccountedUsers) \in Nat
      /\ IsFiniteSet(Owners)
  <2>1. IsFiniteSet(AccountedUsers) /\ IsFiniteSet(Owners)
    BY <1>2, FS_Subset
  <2>2. Cardinality(Owners \cup {u}) = Cardinality(Owners) + 1
    BY <1>2, UsersCount
  <2>3. Cardinality(Owners \cup {u}) <= Cardinality(AccountedUsers)
    BY <1>2, <2>1, FS_Subset
  <2> QED
    BY <2>1, <2>2, <2>3, FS_CardinalityType
<1>4. IsFiniteSet(Held) /\ Cardinality(Held) <= Cardinality(Owners)
  <2> DEFINE own == [v \in Owners |-> tab[v]]
  <2>1. own \in Surjection(Owners, Held)
    <3>1. own \in [Owners -> Held]
      BY DEF Held, PoolInv, ShapeInv
    <3>2. \A t \in Held : \E v \in Owners : own[v] = t
      BY DEF Held
    <3> QED
      BY <3>1, <3>2 DEF Surjection
  <2> QED
    BY <1>3, <2>1, FS_Surjection
<1>5. /\ IsFiniteSet(IdleTabs) /\ Cardinality(IdleTabs) <= Len(free) /\ Len(free) \in Nat
  <2>1. free \in Seq(Users) /\ Len(free) \in Nat /\ DOMAIN free = 1 .. Len(free)
    BY DEF PoolInv, ShapeInv
  <2>2. IsFiniteSet(1 .. Len(free)) /\ Cardinality(1 .. Len(free)) = Len(free)
    BY <2>1, FS_Interval
  <2>3. free \in Surjection(1 .. Len(free), IdleTabs)
    <3>1. free \in [1 .. Len(free) -> IdleTabs]
      BY <2>1 DEF IdleTabs
    <3>2. \A t \in IdleTabs : \E i \in 1 .. Len(free) : free[i] = t
      BY <2>1 DEF IdleTabs
    <3> QED
      BY <3>1, <3>2 DEF Surjection
  <2> QED
    BY <2>1, <2>2, <2>3, FS_Surjection
<1>6. Cardinality(IdleTabs \cup Held) <= Cardinality(IdleTabs) + Cardinality(Held)
  <2>1. IsFiniteSet(IdleTabs \cap Held)
    BY <1>5, FS_Intersection
  <2>2. /\ Cardinality(IdleTabs \cap Held) \in Nat /\ Cardinality(IdleTabs) \in Nat
        /\ Cardinality(Held) \in Nat
    BY <1>4, <1>5, <2>1, FS_CardinalityType
  <2>3. Cardinality(IdleTabs \cup Held)
          = Cardinality(IdleTabs) + Cardinality(Held) - Cardinality(IdleTabs \cap Held)
    BY <1>4, <1>5, FS_Union
  <2> QED
    BY <2>2, <2>3
<1>7. /\ IsFiniteSet(IdleTabs \cup Held) /\ Cardinality(IdleTabs \cup Held) \in Nat
      /\ Cardinality(IdleTabs) \in Nat /\ Cardinality(Held) \in Nat
  BY <1>4, <1>5, FS_Union, FS_CardinalityType
<1>8. Len(free) + Cardinality(AccountedUsers) <= Size /\ Size \in Nat
  BY DEF PoolInv, CountInv
<1> QED
  BY <1>1, <1>3, <1>4, <1>5, <1>6, <1>7, <1>8

(* Every step of the pool lends, takes back, makes or retires one tab, or is
   none of the callers' business. *)
LEMMA LendingStep ==
  PoolInv /\ [Next]_vars =>
    [Lending!Next]_<<[p \in {None} |-> {free[i] : i \in DOMAIN free}], tab>>
<1> SUFFICES ASSUME PoolInv, [Next]_vars, ~UNCHANGED <<free, tab>>
             PROVE  Lending!Next
  OBVIOUS
<1>0. /\ ShapeInv /\ NoSharedTab /\ free \in Seq(Users) /\ tab \in [Users -> Users \cup {None}]
      /\ DOMAIN free = 1 .. Len(free) /\ Len(free) \in Nat
  BY DEF PoolInv, ShapeInv, SharedInv
<1>1. ASSUME NEW u \in Users, TakeFree(u) PROVE Lending!Next
  <2>1. /\ tab[u] = None /\ tab' = [tab EXCEPT ![u] = free[1]] /\ free[1] \in IdleTabs
    BY <1>0, <1>1, PopFacts DEF TakeFree, Hold, IdleTabs, ShapeInv, Holding, Releasing
  <2>2. IdleTabs' = IdleTabs \ {free[1]}
    <3>1. /\ free # <<>> /\ free' = Tail(free) /\ 1 \in DOMAIN free
      BY <1>0, <1>1, PopFacts DEF TakeFree
    <3>2. /\ Len(free') = Len(free) - 1 /\ DOMAIN free' = 1 .. Len(free')
          /\ \A i \in DOMAIN free' : i + 1 \in DOMAIN free /\ free'[i] = free[i + 1]
      <4>1. /\ free' \in Seq(Users) /\ Len(free') = Len(free) - 1
            /\ \A i \in DOMAIN free' : i + 1 \in DOMAIN free /\ free'[i] = free[i + 1]
        BY <1>0, <3>1, PopFacts
      <4>2. DOMAIN free' = 1 .. Len(free')
        BY <4>1, LenProperties
      <4> QED
        BY <4>1, <4>2
    <3>3. \A i \in DOMAIN free : i # 1 => i - 1 \in DOMAIN free' /\ free'[i - 1] = free[i]
      BY <1>0, <3>2
    <3>4. \A i \in DOMAIN free : free[i] = free[1] => i = 1
      BY <3>1, <1>0 DEF NoSharedTab
    <3>5. \A i \in DOMAIN free' : free'[i] \in IdleTabs \ {free[1]}
      BY <1>0, <3>2, <3>4 DEF IdleTabs
    <3>6. \A t \in IdleTabs \ {free[1]} : t \in IdleTabs'
      BY <3>3 DEF IdleTabs
    <3> QED
      BY <3>5, <3>6 DEF IdleTabs
  <2>3. Lending!Take(u, None)
    BY <2>1, <2>2 DEF Lending!Take, Lending!HasNone, Lending!Hold, IdleTabs
  <2> QED
    BY <2>3 DEF Lending!Next
<1>2. ASSUME NEW u \in Users, NewPage(u) PROVE Lending!Next
  <2>1. /\ tab[u] = None /\ tab' = [tab EXCEPT ![u] = u] /\ tab'[u] = u /\ free' = free
    BY <1>0, <1>2 DEF NewPage, Hold, ShapeInv, Holding, Releasing
  <2>2. Lending!Existing(None) = IdleTabs \cup Held
    BY DEF Lending!Existing, IdleTabs, Held
  <2>3. Lending!Make(u, None)
    <3>1. /\ u \notin Lending!Existing(None)
          /\ Lending!Cardinality(Lending!Existing(None)) < Size
      BY <1>2, <2>2, RoomForNewPage, LendingCounts
    <3>2. tab'[u] \in [p \in {None} |-> Users][None] \ Lending!Existing(None)
      BY <2>1, <3>1
    <3>3. UNCHANGED [p \in {None} |-> {free[i] : i \in DOMAIN free}]
      BY <2>1
    <3>4. Lending!HasNone(u) /\ Lending!Hold(u, tab'[u])
      BY <2>1 DEF Lending!HasNone, Lending!Hold
    <3> QED
      BY <3>1, <3>2, <3>3, <3>4 DEF Lending!Make
  <2> QED
    BY <2>3 DEF Lending!Next
<1>3. ASSUME NEW u \in Users, Return(u) PROVE Lending!Next
  <2>1. /\ tab[u] \in Users /\ tab' = [tab EXCEPT ![u] = None] /\ free' = Append(free, tab[u])
    BY <1>0, <1>3 DEF Return, Hold, ShapeInv, Holding, Releasing
  <2>2. IdleTabs' = IdleTabs \cup {tab[u]}
    <3>2. /\ DOMAIN free' = 1 .. Len(free) + 1 /\ free'[Len(free) + 1] = tab[u]
          /\ \A i \in DOMAIN free : free'[i] = free[i]
      <4>1. /\ free' \in Seq(Users) /\ Len(free') = Len(free) + 1
            /\ free'[Len(free) + 1] = tab[u]
            /\ \A i \in 1 .. Len(free) : free'[i] = free[i]
        <5>1. /\ Append(free, tab[u]) \in Seq(Users)
              /\ Len(Append(free, tab[u])) = Len(free) + 1
              /\ Append(free, tab[u])[Len(free) + 1] = tab[u]
              /\ \A i \in 1 .. Len(free) : Append(free, tab[u])[i] = free[i]
          BY ONLY <1>0, <2>1, AppendProperties
        <5> QED
          BY <2>1, <5>1
      <4>2. DOMAIN free' = 1 .. Len(free')
        BY <4>1, LenProperties
      <4> QED
        BY <1>0, <4>1, <4>2
    <3>1. \A i \in DOMAIN free' : free'[i] \in IdleTabs \cup {tab[u]}
      <4>1. \A i \in DOMAIN free' : i \in DOMAIN free \/ i = Len(free) + 1
        BY <1>0, <3>2
      <4> QED
        BY <3>2, <4>1 DEF IdleTabs
    <3>3. \A t \in IdleTabs \cup {tab[u]} : t \in IdleTabs'
      <4>1. tab[u] \in IdleTabs'
        BY <1>0, <3>2 DEF IdleTabs
      <4>2. \A i \in DOMAIN free : free[i] \in IdleTabs'
        BY <1>0, <3>2 DEF IdleTabs
      <4> QED
        BY <4>1, <4>2 DEF IdleTabs
    <3> QED
      BY <3>1, <3>3 DEF IdleTabs
  <2>3. Lending!Park(u, None)
    BY <2>1, <2>2 DEF Lending!Park, Lending!Hold, IdleTabs
  <2> QED
    BY <2>3 DEF Lending!Next
<1>4. ASSUME NEW u \in Users, Retire(u) PROVE Lending!Next
  <2>1. /\ tab[u] # None /\ tab' = [tab EXCEPT ![u] = None] /\ free' = free
    BY <1>0, <1>4 DEF Retire, Hold, ShapeInv, Holding, Releasing
  <2>2. Lending!Retire(u)
    BY <2>1 DEF Lending!Retire, Lending!Hold, Lending!HasNone
  <2> QED
    BY <2>2 DEF Lending!Next
<1>5. ASSUME NEW u \in Users,
             Acquire(u) \/ Enter(u) \/ Refuse(u) \/ ReserveTab(u) \/ AwaitChange(u) \/ Awake(u)
               \/ StopWaiting(u) \/ CheckTab(u)
      PROVE  FALSE
  BY <1>5 DEF Acquire, Enter, Refuse, ReserveTab, AwaitChange, Awake, StopWaiting, CheckTab, poolVars
<1>6. ASSUME NEW u \in Users,
             MarkBusy(u) \/ NewPageFails(u) \/ Uncreate(u) \/ Release(u) \/ ReleaseDead(u)
               \/ Park(u) \/ ParkFails(u) \/ CancelTab(u)
      PROVE  FALSE
  BY <1>6 DEF MarkBusy, NewPageFails, Uncreate, Release, ReleaseDead, Park, ParkFails, CancelTab,
     poolVars
<1>7. (\E u \in Users : Navigate(u) \/ ContextEnds(u) \/ TabDies(u)) \/ CloseAll \/ AllocEnds
         \/ UNCHANGED vars => UNCHANGED <<free, tab>>
  BY DEF Navigate, ContextEnds, TabDies, CloseAll, AllocEnds, vars, poolVars
<1> QED
  BY <1>1, <1>2, <1>3, <1>4, <1>5, <1>6, <1>7 DEF Next, Step, Proceed

(* The pool implements TabLeases: "acquire returns a ready tab", idle or new,
   for the caller alone and within Size, however tabs and calls fail. *)
THEOREM TabPoolLends == Spec => LendingSpec
<1>1. Init => Lending!Init
  <2> SUFFICES ASSUME Init PROVE Lending!Init
    OBVIOUS
  <2>1. {free[i] : i \in DOMAIN free} = {}
    BY DEF Init
  <2>2. Lending!IsFiniteSet({}) /\ Lending!Cardinality({}) = 0
    BY FS_EmptySet, LendingCounts
  <2>3. \A p \in {None} : /\ [q \in {None} |-> {free[i] : i \in DOMAIN free}][p] = {}
                          /\ [q \in {None} |-> Users][p] = Users
    BY <2>1
  <2>4. tab = [l \in Users |-> None] /\ 0 <= Size
    BY TabPoolAssumption DEF Init
  <2> QED
    BY <2>2, <2>3, <2>4 DEF Lending!Init
<1> QED
  BY <1>1, PoolInductive, LendingStep, PTL DEF Spec, LendingSpec, Lending!Spec
=============================================================================
