-------------------------- MODULE SchedulerProofs --------------------------
(***************************************************************************)
(* Proofs about Scheduler for every set of calls, hosts and keys and every *)
(* cap, gap and jitter.                                                    *)
(***************************************************************************)
EXTENDS Scheduler, FiniteSetTheorems, TLAPS

(* A call that follows has a leader; a leader past hostState has one. *)
PointersOK ==
  \A r \in Reqs :
    /\ pc[r] = "follow" => leader[r] \in Reqs
    /\ pc[r] \in Leading \ {"lookup"} => hs[r] \in Reqs

TypeInv == TypeOK /\ PointersOK

(* The waits hostWait computes are within the cap on ages. *)
LEMMA HostWaitType ==
  ASSUME TypeOK, NEW o \in Reqs, NEW j \in 0 .. MaxJitter
  PROVE  /\ HostWait(o, j) \in 0 .. IdleCap
         /\ HostWait(o, j) + idle[o] >= Gap \/ Gap = 0
BY SchedulerAssumption DEF HostWait, TypeOK, IdleCap, MaxJitter

(* Every step of the scheduler keeps the types. *)
LEMMA TypeStep == TypeInv /\ [Next]_vars => TypeInv'
<1> SUFFICES ASSUME TypeInv, [Next]_vars PROVE TypeInv'
  OBVIOUS
<1> USE SchedulerAssumption DEF TypeInv, TypeOK, PointersOK, PCs, Leading, Contexts,
        Outcomes, Waiting, Counters, reqVars, hostVars, marks, Goto
<1>1. CASE Tick
  BY <1>1, SMTT(30) DEF Tick, Older, IdleCap, UnusedCap, MaxJitter
<1>2. ASSUME NEW r \in Reqs, Coalesce(r) PROVE TypeInv'
  BY <1>2 DEF Coalesce
<1>3. ASSUME NEW r \in Reqs, FollowerResult(r) PROVE TypeInv'
  BY <1>3 DEF FollowerResult
<1>4. ASSUME NEW r \in Reqs, FollowerGivesUp(r) PROVE TypeInv'
  BY <1>4 DEF FollowerGivesUp, CtxErr
<1>5. ASSUME NEW r \in Reqs, Lead(r) PROVE TypeInv'
  BY <1>5 DEF Lead
<1>6. ASSUME NEW r \in Reqs, HostState(r) PROVE TypeInv'
  BY <1>6 DEF HostState, Pruned, host, UnusedCap
<1>7. ASSUME NEW r \in Reqs, QueueForHost(r) PROVE TypeInv'
  BY <1>7 DEF QueueForHost, Mark
<1>8. ASSUME NEW r \in Reqs, TakeToken(r) PROVE TypeInv'
  BY <1>8 DEF TakeToken, Mark
<1>9. ASSUME NEW r \in Reqs, NoCooldown(r) PROVE TypeInv'
  BY <1>9 DEF NoCooldown
<1>10. ASSUME NEW r \in Reqs, StartCooldown(r) PROVE TypeInv'
  BY <1>10, HostWaitType DEF StartCooldown, Mark
<1>11. ASSUME NEW r \in Reqs, CooledDown(r) PROVE TypeInv'
  BY <1>11 DEF CooledDown, Mark
<1>12. ASSUME NEW r \in Reqs, QueueForSlot(r) PROVE TypeInv'
  BY <1>12 DEF QueueForSlot, Mark
<1>13. ASSUME NEW r \in Reqs, TakeSlot(r) PROVE TypeInv'
  BY <1>13 DEF TakeSlot, Mark
<1>14. ASSUME NEW r \in Reqs, WaitCanceled(r) PROVE TypeInv'
  BY <1>14 DEF WaitCanceled, Mark, CtxErr, IdleCap, MaxJitter
<1>15. ASSUME NEW r \in Reqs, CountTimeout(r) PROVE TypeInv'
  BY <1>15 DEF CountTimeout
<1>16. ASSUME NEW r \in Reqs, Run(r) PROVE TypeInv'
  BY <1>16 DEF Run, Mark
<1>17. ASSUME NEW r \in Reqs, FnReturns(r) PROVE TypeInv'
  BY <1>17 DEF FnReturns, Mark, host
<1>18. ASSUME NEW r \in Reqs, Record(r) PROVE TypeInv'
  BY <1>18 DEF Record, IdleCap, MaxJitter
<1>19. ASSUME NEW r \in Reqs, ReleaseSlot(r) PROVE TypeInv'
  BY <1>19 DEF ReleaseSlot
<1>20. ASSUME NEW r \in Reqs, ReleaseToken(r) PROVE TypeInv'
  BY <1>20 DEF ReleaseToken
<1>21. ASSUME NEW r \in Reqs, Delist(r) PROVE TypeInv'
  BY <1>21 DEF Delist
<1>22. ASSUME NEW r \in Reqs, CloseDone(r) PROVE TypeInv'
  BY <1>22 DEF CloseDone
<1>23. ASSUME NEW r \in Reqs, ContextEnds(r) PROVE TypeInv'
  BY <1>23 DEF ContextEnds
<1>24. CASE UNCHANGED vars
  BY <1>24 DEF vars
<1> QED
  BY <1>1, <1>2, <1>3, <1>4, <1>5, <1>6, <1>7, <1>8, <1>9, <1>10, <1>11, <1>12,
     <1>13, <1>14, <1>15, <1>16, <1>17, <1>18, <1>19, <1>20, <1>21, <1>22, <1>23,
     <1>24 DEF Next, Do

(* Every state of the scheduler is well typed, for all constants. *)
THEOREM SchedulerTyped == Spec => []TypeOK
<1>1. Init => TypeInv
  BY SchedulerAssumption DEF Init, TypeInv, TypeOK, PointersOK, PCs, Leading,
     Contexts, Outcomes, Counters, IdleCap, UnusedCap, MaxJitter
<1>2. TypeInv => TypeOK
  BY DEF TypeInv
<1> QED
  BY <1>1, <1>2, TypeStep, PTL DEF Spec
-----------------------------------------------------------------------------
(* The phases in which a call holds its host's token. *)
Gated == {"paced", "cooling", "slotless", "slot", "ready", "run", "ended"}

(* Who holds what: the defer stack against the phase and the channels. *)
TokenInv ==
  \A r \in Reqs :
    /\ pc[r] \in Gated => "token" \in deferred[r]
    /\ pc[r] \in {"ready", "run", "ended"} => "slot" \in deferred[r]
    /\ "slot" \in deferred[r] =>
         /\ "token" \in deferred[r]
         /\ pc[r] \in {"ready", "run", "ended", "unwind"}
    /\ "token" \in deferred[r] =>
         /\ pc[r] \in Gated \cup {"timeout", "unwind"}
         /\ hs[r] \in tokens
         /\ \A q \in Reqs : "token" \in deferred[q] /\ hs[q] = hs[r] => q = r

(* Every step keeps a hostState's token in at most one pair of hands. *)
LEMMA TokenStep == TypeInv /\ TokenInv /\ [Next]_vars => TokenInv'
<1> SUFFICES ASSUME TypeInv, TokenInv, [Next]_vars PROVE TokenInv'
  OBVIOUS
<1> USE DEF TypeInv, TypeOK, PointersOK, TokenInv, Gated, PCs, Leading, Waiting,
        reqVars, hostVars, marks, Goto
<1>1. CASE Tick
  BY <1>1 DEF Tick
<1>2. ASSUME NEW r \in Reqs, Coalesce(r) PROVE TokenInv'
  BY <1>2 DEF Coalesce
<1>3. ASSUME NEW r \in Reqs, FollowerResult(r) PROVE TokenInv'
  BY <1>3 DEF FollowerResult
<1>4. ASSUME NEW r \in Reqs, FollowerGivesUp(r) PROVE TokenInv'
  BY <1>4 DEF FollowerGivesUp
<1>5. ASSUME NEW r \in Reqs, Lead(r) PROVE TokenInv'
  BY <1>5 DEF Lead
<1>6. ASSUME NEW r \in Reqs, HostState(r) PROVE TokenInv'
  BY <1>6 DEF HostState
<1>7. ASSUME NEW r \in Reqs, QueueForHost(r) PROVE TokenInv'
  BY <1>7 DEF QueueForHost
<1>8. ASSUME NEW r \in Reqs, TakeToken(r) PROVE TokenInv'
  BY <1>8 DEF TakeToken
<1>9. ASSUME NEW r \in Reqs, NoCooldown(r) PROVE TokenInv'
  BY <1>9 DEF NoCooldown
<1>10. ASSUME NEW r \in Reqs, StartCooldown(r) PROVE TokenInv'
  BY <1>10 DEF StartCooldown
<1>11. ASSUME NEW r \in Reqs, CooledDown(r) PROVE TokenInv'
  BY <1>11 DEF CooledDown
<1>12. ASSUME NEW r \in Reqs, QueueForSlot(r) PROVE TokenInv'
  BY <1>12 DEF QueueForSlot
<1>13. ASSUME NEW r \in Reqs, TakeSlot(r) PROVE TokenInv'
  BY <1>13 DEF TakeSlot
<1>14. ASSUME NEW r \in Reqs, WaitCanceled(r) PROVE TokenInv'
  BY <1>14 DEF WaitCanceled
<1>15. ASSUME NEW r \in Reqs, CountTimeout(r) PROVE TokenInv'
  BY <1>15 DEF CountTimeout
<1>16. ASSUME NEW r \in Reqs, Run(r) PROVE TokenInv'
  BY <1>16 DEF Run
<1>17. ASSUME NEW r \in Reqs, FnReturns(r) PROVE TokenInv'
  BY <1>17 DEF FnReturns
<1>18. ASSUME NEW r \in Reqs, Record(r) PROVE TokenInv'
  BY <1>18 DEF Record
<1>19. ASSUME NEW r \in Reqs, ReleaseSlot(r) PROVE TokenInv'
  BY <1>19 DEF ReleaseSlot
<1>20. ASSUME NEW r \in Reqs, ReleaseToken(r) PROVE TokenInv'
  BY <1>20 DEF ReleaseToken
<1>21. ASSUME NEW r \in Reqs, Delist(r) PROVE TokenInv'
  BY <1>21 DEF Delist
<1>22. ASSUME NEW r \in Reqs, CloseDone(r) PROVE TokenInv'
  BY <1>22 DEF CloseDone
<1>23. ASSUME NEW r \in Reqs, ContextEnds(r) PROVE TokenInv'
  BY <1>23 DEF ContextEnds
<1>24. CASE UNCHANGED vars
  BY <1>24 DEF vars
<1> QED
  BY <1>1, <1>2, <1>3, <1>4, <1>5, <1>6, <1>7, <1>8, <1>9, <1>10, <1>11,
     <1>12, <1>13, <1>14, <1>15, <1>16, <1>17, <1>18, <1>19, <1>20, <1>21,
     <1>22, <1>23, <1>24 DEF Next, Do

-----------------------------------------------------------------------------
(* The number of elements in the slots channel is the number of holders. *)
SlotInv == slots = Cardinality(SlotHolders) /\ slots <= Slots

(* Every step keeps the slots channel in line with its holders. *)
LEMMA SlotStep == TypeInv /\ TokenInv /\ SlotInv /\ [Next]_vars => SlotInv'
<1> SUFFICES ASSUME TypeInv, TokenInv, SlotInv, [Next]_vars PROVE SlotInv'
  OBVIOUS
<1> USE DEF TypeInv, TypeOK
<1>1. IsFiniteSet(SlotHolders) /\ Slots \in Nat
  BY SchedulerAssumption, FS_Subset DEF SlotHolders, Slots
<1>2. Cardinality(SlotHolders) \in Nat
  BY <1>1, FS_CardinalityType
<1>3. ASSUME NEW r \in Reqs, TakeSlot(r) PROVE SlotInv'
  <2>1. SlotHolders' = SlotHolders \cup {r}
    BY <1>3 DEF TakeSlot, SlotHolders
  <2>2. r \notin SlotHolders
    BY <1>3 DEF TakeSlot, SlotHolders, TokenInv
  <2>3. Cardinality(SlotHolders \cup {r}) = Cardinality(SlotHolders) + 1
    BY <1>1, <2>2, FS_AddElement
  <2>4. slots' = slots + 1 /\ slots < Slots
    BY <1>3 DEF TakeSlot
  <2> QED
    BY <1>1, <1>2, <2>1, <2>3, <2>4 DEF SlotInv, Slots
<1>4. ASSUME NEW r \in Reqs, ReleaseSlot(r) PROVE SlotInv'
  <2>1. SlotHolders' = SlotHolders \ {r}
    BY <1>4 DEF ReleaseSlot, SlotHolders
  <2>2. r \in SlotHolders
    BY <1>4 DEF ReleaseSlot, SlotHolders
  <2>3. Cardinality(SlotHolders \ {r}) = Cardinality(SlotHolders) - 1
    BY <1>1, <2>2, FS_RemoveElement
  <2>4. slots' = slots - 1
    BY <1>4 DEF ReleaseSlot
  <2> QED
    BY <1>1, <1>2, <2>1, <2>3, <2>4 DEF SlotInv, Slots
<1>5. ASSUME slots' = slots, SlotHolders' = SlotHolders PROVE SlotInv'
  BY <1>5 DEF SlotInv, Slots
<1>6. ASSUME NEW r \in Reqs, TakeToken(r) PROVE SlotInv'
  <2>1. SlotHolders' = SlotHolders
    BY <1>6 DEF TakeToken, SlotHolders, TokenInv
  <2> QED
    BY <1>5, <1>6, <2>1 DEF TakeToken
<1>7. ASSUME NEW r \in Reqs, ReleaseToken(r) PROVE SlotInv'
  <2>1. SlotHolders' = SlotHolders
    BY <1>7 DEF ReleaseToken, SlotHolders
  <2> QED
    BY <1>5, <1>7, <2>1 DEF ReleaseToken
<1>8. ASSUME UNCHANGED <<slots, deferred>> PROVE SlotInv'
  BY <1>5, <1>8 DEF SlotHolders
<1>9. ASSUME NEW r \in Reqs, Do(r) \/ ContextEnds(r)
      PROVE  \/ TakeSlot(r) \/ ReleaseSlot(r) \/ TakeToken(r) \/ ReleaseToken(r)
             \/ UNCHANGED <<slots, deferred>>
  BY <1>9 DEF Do, Coalesce, FollowerResult, FollowerGivesUp, Lead, HostState,
     QueueForHost, NoCooldown, StartCooldown, CooledDown, QueueForSlot, WaitCanceled,
     CountTimeout, Run, FnReturns, Record, Delist, CloseDone, ContextEnds
<1> QED
  BY <1>3, <1>4, <1>6, <1>7, <1>8, <1>9 DEF Next, Tick, vars

-----------------------------------------------------------------------------
(* The host map never outgrows its bound, so pruneLocked never deletes. *)
HostsFit == Cardinality(Hosts) <= MaxHosts

(* With few enough hosts pruning changes nothing. *)
LEMMA NothingPruned ==
  ASSUME HostsFit, NEW m, NEW r
  PROVE  Pruned(m, r) = m
<1> DEFINE entries == {h \in Hosts : m[h] # None}
<1>1. IsFiniteSet(Hosts) /\ entries \in SUBSET Hosts /\ MaxHosts \in Nat
  BY SchedulerAssumption
<1>2. /\ Cardinality(entries) <= Cardinality(Hosts)
      /\ IsFiniteSet(entries)
  BY <1>1, FS_Subset
<1>3. Cardinality(entries) \in Nat /\ Cardinality(Hosts) \in Nat
  BY <1>1, <1>2, FS_CardinalityType
<1>4. Cardinality(entries) <= MaxHosts
  BY <1>1, <1>2, <1>3 DEF HostsFit
<1> QED
  BY <1>4 DEF Pruned

(* A leader's hostState is the one the map still holds for its host. *)
MapInv ==
  \A r \in Reqs : pc[r] \in Leading \ {"lookup"} => hs[r] = hosts[host(r)]

(* While nothing is pruned, no step separates a leader from the map. *)
LEMMA MapStep == HostsFit /\ TypeInv /\ MapInv /\ [Next]_vars => MapInv'
<1> SUFFICES ASSUME HostsFit, TypeInv, MapInv, [Next]_vars PROVE MapInv'
  OBVIOUS
<1> USE SchedulerAssumption DEF TypeInv, TypeOK, PointersOK, MapInv, Leading, Waiting,
        host, reqVars, hostVars, Goto
<1>1. ASSUME NEW r \in Reqs, HostState(r) PROVE MapInv'
  <2> DEFINE h == host(r)
  <2> HIDE DEF h
  <2>1. h \in Hosts /\ h = host(r)
    BY DEF h
  <2>2. /\ pc' = [pc EXCEPT ![r] = "enter"] /\ key' = key
        /\ hosts[h] = None => /\ hosts' = [hosts EXCEPT ![h] = r]
                             /\ hs' = [hs EXCEPT ![r] = r]
        /\ hosts[h] # None => /\ hosts' = hosts
                             /\ hs' = [hs EXCEPT ![r] = hosts[h]]
    BY <1>1, <2>1, NothingPruned DEF HostState
  <2>3. hs'[r] = hosts'[h]
    BY <2>1, <2>2
  <2>4. \A q \in Reqs : pc[q] \in Leading \ {"lookup"} => hosts'[host(q)] = hosts[host(q)]
    BY <2>1, <2>2
  <2>5. ASSUME NEW q \in Reqs, pc'[q] \in Leading \ {"lookup"}
        PROVE  hs'[q] = hosts'[host(q)]
    <3>1. CASE q = r
      BY <2>1, <2>3, <3>1
    <3>2. CASE q # r
      <4>1. pc'[q] = pc[q] /\ hs'[q] = hs[q]
        BY <2>2, <3>2
      <4> QED
        BY <2>4, <2>5, <4>1
    <3> QED
      BY <3>1, <3>2
  <2> QED
    BY <2>2, <2>5
<1>2. ASSUME NEW r \in Reqs, Do(r) \/ ContextEnds(r), ~HostState(r)
      PROVE  /\ UNCHANGED <<hs, hosts, key>>
             /\ \A q \in Reqs : pc'[q] \in Leading \ {"lookup"}
                                  => pc[q] \in Leading \ {"lookup"}
  BY <1>2 DEF Do, Coalesce, FollowerResult, FollowerGivesUp, Lead, TakeToken,
     QueueForHost, NoCooldown, StartCooldown, CooledDown, QueueForSlot, TakeSlot,
     WaitCanceled, CountTimeout, Run, FnReturns, Record, ReleaseSlot, ReleaseToken,
     Delist, CloseDone, ContextEnds
<1>3. ASSUME UNCHANGED <<hs, hosts, key>>,
             \A q \in Reqs : pc'[q] \in Leading \ {"lookup"}
                               => pc[q] \in Leading \ {"lookup"}
      PROVE  MapInv'
  BY <1>3
<1>4. CASE UNCHANGED <<pc, hs, hosts, key>>
  BY <1>4
<1>5. Tick \/ UNCHANGED vars => UNCHANGED <<pc, hs, hosts, key>>
  BY DEF Tick, vars
<1> QED
  BY <1>1, <1>2, <1>3, <1>4, <1>5 DEF Next

(* Calls for one host that both hold a token are the same call. *)
LEMMA OneHolderPerHost ==
  ASSUME TypeInv, TokenInv, MapInv, NEW r \in Reqs, NEW q \in Reqs,
         "token" \in deferred[r], "token" \in deferred[q], host(r) = host(q)
  PROVE  r = q
BY DEF TypeInv, TypeOK, TokenInv, MapInv, Gated, Leading

-----------------------------------------------------------------------------
(* A host's rest against what the scheduler remembers of it: lastAt is never
   older than the last navigation's end once that is recorded, a cooldown is
   long enough, and a call past its cooldown starts on a rested host. *)
RestInv ==
  /\ \A h \in Hosts :
       /\ hosts[h] = None => sinceEnd[h] = Gap
       /\ hosts[h] # None =>
            \/ sinceEnd[h] = Gap
            \/ sinceEnd[h] >= idle[hosts[h]]
            \/ \E q \in Reqs : pc[q] = "ended" /\ host(q) = h
  /\ \A r \in Reqs :
       /\ pc[r] = "cooling" => sinceEnd[host(r)] + sleep[r] >= Gap
       /\ pc[r] \in {"slotless", "slot", "ready"} => sinceEnd[host(r)] = Gap

(* The inductive invariant of pacing. *)
PacingInv == TypeInv /\ TokenInv /\ SlotInv /\ MapInv /\ RestInv

(* A call that has its token but has not run yet finds its host's last end
   recorded: nobody else can be between the two. *)
LEMMA RestKnown ==
  ASSUME PacingInv, NEW r \in Reqs, pc[r] = "paced"
  PROVE  sinceEnd[host(r)] = Gap \/ sinceEnd[host(r)] >= idle[hs[r]]
<1> USE SchedulerAssumption DEF PacingInv, TypeInv, TypeOK, PointersOK
<1>1. host(r) \in Hosts /\ hs[r] = hosts[host(r)] /\ hs[r] \in Reqs
  BY DEF host, MapInv, Leading
<1>2. ASSUME NEW q \in Reqs, pc[q] = "ended", host(q) = host(r) PROVE FALSE
  BY <1>2, OneHolderPerHost DEF TokenInv, Gated
<1> QED
  BY <1>1, <1>2 DEF RestInv
(* Ages that are full, and ages that grow. *)
LEMMA FullAge ==
  ASSUME NEW cap \in Nat, NEW age \in Nat, age <= cap
  PROVE  /\ age >= cap => age = cap
         /\ age = cap => Older(age, cap) = cap
         /\ age # cap => age < cap /\ Older(age, cap) = age + 1
BY DEF Older

(* No step lets a host be called rested that is not. *)
LEMMA RestStep == HostsFit /\ PacingInv /\ [Next]_vars => RestInv'
<1> SUFFICES ASSUME HostsFit, PacingInv, [Next]_vars PROVE RestInv'
  OBVIOUS
<1> USE SchedulerAssumption DEF PacingInv, TypeInv, TypeOK
<1>1. \A r \in Reqs : host(r) \in Hosts
  BY DEF host
<1>2. ASSUME UNCHANGED key PROVE \A r \in Reqs : host(r)' = host(r)
  BY <1>2 DEF host
<1>0. /\ Gap \in Nat
      /\ \A h \in Hosts : sinceEnd[h] \in Nat /\ sinceEnd[h] <= Gap
      /\ \A o \in Reqs : idle[o] \in Nat /\ sleep[o] \in Nat
  BY DEF IdleCap
<1>3. CASE Tick
  <2>1. UNCHANGED <<pc, key, hosts>> /\ \A r \in Reqs : host(r)' = host(r)
    BY <1>2, <1>3 DEF Tick, reqVars
  <2>2. ASSUME NEW h \in Hosts
        PROVE  \/ sinceEnd[h] = Gap /\ sinceEnd'[h] = Gap
               \/ sinceEnd[h] < Gap /\ sinceEnd'[h] = sinceEnd[h] + 1
    <3>1. sinceEnd'[h] = Older(sinceEnd[h], Gap)
      BY <1>3 DEF Tick
    <3> QED
      BY <1>0, <3>1, FullAge
  <2>3. ASSUME NEW o \in Reqs
        PROVE  /\ idle'[o] <= idle[o] + 1 /\ sleep'[o] >= sleep[o] - 1
               /\ idle'[o] \in Int /\ sleep'[o] \in Nat
    BY <1>3 DEF Tick, Older, IdleCap, MaxJitter
  <2>4. ASSUME NEW h \in Hosts, hosts'[h] # None
        PROVE  \/ sinceEnd'[h] = Gap
               \/ sinceEnd'[h] >= idle'[hosts'[h]]
               \/ \E q \in Reqs : pc'[q] = "ended" /\ host(q)' = h
    <3>1. hosts[h] \in Reqs /\ hosts'[h] = hosts[h]
      BY <2>1, <2>4
    <3>2. CASE sinceEnd[h] = Gap
      BY <2>2, <3>2, <1>0
    <3>3. CASE sinceEnd[h] >= idle[hosts[h]]
      BY <1>0, <2>2, <2>3, <3>1, <3>3
    <3>4. CASE \E q \in Reqs : pc[q] = "ended" /\ host(q) = h
      BY <2>1, <3>4
    <3> QED
      BY <3>1, <3>2, <3>3, <3>4 DEF RestInv
  <2>5. ASSUME NEW r \in Reqs, pc'[r] = "cooling"
        PROVE  sinceEnd'[host(r)'] + sleep'[r] >= Gap
    BY <1>1, <2>1, <2>2, <2>3, <2>5 DEF RestInv
  <2>6. ASSUME NEW r \in Reqs, pc'[r] \in {"slotless", "slot", "ready"}
        PROVE  sinceEnd'[host(r)'] = Gap
    BY <1>1, <2>1, <2>2, <2>6 DEF RestInv
  <2>7. \A h \in Hosts : hosts'[h] = None => sinceEnd'[h] = Gap
    BY <2>1, <2>2 DEF RestInv
  <2> QED
    BY <2>4, <2>5, <2>6, <2>7 DEF RestInv
<1>4. ASSUME NEW r \in Reqs, HostState(r) PROVE RestInv'
  <2> DEFINE h == host(r)
  <2> HIDE DEF h
  <2>1. h \in Hosts /\ \A q \in Reqs : host(q)' = host(q)
    BY <1>1, <1>2, <1>4 DEF h, HostState, reqVars
  <2>2. /\ pc' = [pc EXCEPT ![r] = "enter"] /\ pc[r] = "lookup"
        /\ UNCHANGED <<idle, sinceEnd, sleep>>
        /\ hosts' = hosts \/ (hosts[h] = None /\ hosts' = [hosts EXCEPT ![h] = r])
    BY <1>4, NothingPruned DEF HostState, h, Goto
  <2> QED
    BY <2>1, <2>2 DEF RestInv
<1>5. ASSUME NEW r \in Reqs, NoCooldown(r) PROVE RestInv'
  <2>1. hs[r] \in Reqs /\ \A q \in Reqs : host(q)' = host(q)
    BY <1>2, <1>5 DEF NoCooldown, PointersOK, Leading, reqVars
  <2>2. idle[hs[r]] >= Gap
    BY <1>5, <2>1 DEF NoCooldown, HostWait, MaxJitter, IdleCap
  <2>3. sinceEnd[host(r)] = Gap
    <3>1. sinceEnd[host(r)] = Gap \/ sinceEnd[host(r)] >= idle[hs[r]]
      BY <1>5, RestKnown DEF NoCooldown
    <3> QED
      BY <1>0, <1>1, <2>1, <2>2, <3>1, FullAge
  <2> QED
    BY <1>1, <1>5, <2>1, <2>3 DEF NoCooldown, RestInv, Goto, hostVars
<1>6. ASSUME NEW r \in Reqs, StartCooldown(r) PROVE RestInv'
  <2>1. hs[r] \in Reqs /\ \A q \in Reqs : host(q)' = host(q)
    BY <1>2, <1>6 DEF StartCooldown, PointersOK, Leading, reqVars
  <2>2. sleep'[r] \in Nat /\ sleep'[r] + idle[hs[r]] >= Gap
        /\ \A q \in Reqs : q # r => sleep'[q] = sleep[q]
    BY <1>6, <2>1, HostWaitType DEF StartCooldown, IdleCap, MaxJitter
  <2>3. sinceEnd[host(r)] + sleep'[r] >= Gap
    BY <1>1, <1>6, <2>1, <2>2, RestKnown DEF StartCooldown, IdleCap, MaxJitter
  <2> QED
    BY <1>1, <1>6, <2>1, <2>2, <2>3 DEF StartCooldown, RestInv, Goto, hostVars
<1>7. ASSUME NEW r \in Reqs, CooledDown(r) PROVE RestInv'
  <2>1. \A q \in Reqs : host(q)' = host(q)
    BY <1>2, <1>7 DEF CooledDown, reqVars
  <2>2. sinceEnd[host(r)] = Gap
    <3>1. sinceEnd[host(r)] + sleep[r] >= Gap /\ sleep[r] = 0
      BY <1>7 DEF CooledDown, RestInv
    <3> QED
      BY <1>0, <1>1, <3>1, FullAge
  <2> QED
    BY <1>1, <1>7, <2>1, <2>2 DEF CooledDown, RestInv, Goto, hostVars
<1>8. ASSUME NEW r \in Reqs, FnReturns(r) PROVE RestInv'
  <2>1. \A q \in Reqs : host(q)' = host(q)
    BY <1>2, <1>8 DEF FnReturns
  <2>2. ASSUME NEW q \in Reqs, q # r, pc[q] \in Gated PROVE host(q) # host(r)
    BY <1>8, <2>2, OneHolderPerHost DEF FnReturns, TokenInv, Gated
  <2>3. /\ pc' = [pc EXCEPT ![r] = "ended"] /\ pc[r] = "run"
        /\ sinceEnd' = [sinceEnd EXCEPT ![host(r)] = 0]
        /\ UNCHANGED <<idle, sleep, hosts>>
    BY <1>8 DEF FnReturns, Goto, hostVars
  <2>4. hosts[host(r)] # None
    BY <1>1, <2>3 DEF MapInv, PointersOK, Leading
  <2> QED
    BY <1>1, <2>1, <2>2, <2>3, <2>4 DEF RestInv, Gated
<1>9. ASSUME NEW r \in Reqs, Record(r) PROVE RestInv'
  <2>1. \A q \in Reqs : host(q)' = host(q)
    BY <1>2, <1>9 DEF Record, reqVars
  <2>2. /\ pc' = [pc EXCEPT ![r] = "unwind"] /\ pc[r] = "ended"
        /\ idle' = [idle EXCEPT ![hs[r]] = 0]
        /\ UNCHANGED <<sinceEnd, sleep, hosts>>
    BY <1>9 DEF Record, Goto
  <2>3. hosts[host(r)] = hs[r] /\ hs[r] \in Reqs
    BY <2>2 DEF MapInv, PointersOK, Leading
  <2>4. \A o \in Reqs : idle'[o] = idle[o] \/ idle'[o] = 0
    BY <2>2
  <2>5. idle'[hs[r]] = 0
    BY <2>2, <2>3
  <2>6. ASSUME NEW h \in Hosts, hosts'[h] # None
        PROVE  \/ sinceEnd'[h] = Gap
               \/ sinceEnd'[h] >= idle'[hosts'[h]]
               \/ \E q \in Reqs : pc'[q] = "ended" /\ host(q)' = h
    <3>1. CASE h = host(r)
      BY <2>2, <2>3, <2>5, <3>1
    <3>2. CASE h # host(r)
      <4>1. \A q \in Reqs : pc[q] = "ended" /\ host(q) = h => q # r
        BY <3>2
      <4> QED
        BY <2>1, <2>2, <2>4, <2>6, <4>1 DEF RestInv
    <3> QED
      BY <3>1, <3>2
  <2> QED
    BY <1>1, <2>1, <2>2, <2>6 DEF RestInv
<1>10. ASSUME NEW r \in Reqs, UNCHANGED <<key, hosts, idle, sinceEnd>>,
              \A q \in Reqs : \/ pc'[q] = pc[q] /\ sleep'[q] = sleep[q]
                              \/ /\ pc[q] # "ended"
                                 /\ pc'[q] \notin {"cooling", "slotless", "slot", "ready"}
                              \/ /\ pc[q] \in {"slotless", "slot"}
                                 /\ pc'[q] \in {"slot", "ready"}
       PROVE  RestInv'
  BY <1>1, <1>2, <1>10 DEF RestInv
<1>11. ASSUME NEW r \in Reqs, Do(r) \/ ContextEnds(r) PROVE RestInv'
  <2>1. CASE \/ HostState(r) \/ NoCooldown(r) \/ StartCooldown(r) \/ CooledDown(r)
             \/ FnReturns(r) \/ Record(r)
    BY <1>4, <1>5, <1>6, <1>7, <1>8, <1>9, <2>1
  <2>2. CASE \/ Coalesce(r) \/ FollowerResult(r) \/ FollowerGivesUp(r) \/ Lead(r)
             \/ QueueForHost(r) \/ TakeToken(r) \/ ContextEnds(r)
    BY <1>10, <2>2 DEF Coalesce, FollowerResult, FollowerGivesUp, Lead, QueueForHost,
       TakeToken, ContextEnds, Goto, reqVars, hostVars
  <2>3. CASE \/ QueueForSlot(r) \/ TakeSlot(r) \/ WaitCanceled(r) \/ CountTimeout(r)
             \/ Run(r)
    BY <1>10, <2>3 DEF QueueForSlot, TakeSlot, WaitCanceled, CountTimeout, Run, Goto,
       Waiting, reqVars, hostVars
  <2>4. CASE \/ ReleaseSlot(r) \/ ReleaseToken(r) \/ Delist(r) \/ CloseDone(r)
    BY <1>10, <2>4 DEF ReleaseSlot, ReleaseToken, Delist, CloseDone, Goto, reqVars,
       hostVars
  <2> QED
    BY <1>11, <2>1, <2>2, <2>3, <2>4 DEF Do
<1>12. CASE UNCHANGED vars
  BY <1>1, <1>2, <1>12 DEF vars, RestInv
<1> QED
  BY <1>3, <1>11, <1>12 DEF Next
-----------------------------------------------------------------------------
(* The inductive invariant holds initially. *)
LEMMA PacingInit == Init => PacingInv
<1> SUFFICES ASSUME Init PROVE PacingInv
  OBVIOUS
<1>1. TypeInv
  BY SchedulerAssumption DEF Init, TypeInv, TypeOK, PointersOK, PCs, Leading,
     Contexts, Outcomes, Counters, IdleCap, UnusedCap, MaxJitter
<1>2. TokenInv
  BY DEF Init, TokenInv, Gated
<1>3. SlotInv
  <2>1. SlotHolders = {}
    BY DEF Init, SlotHolders
  <2> QED
    BY <2>1, FS_EmptySet, SchedulerAssumption DEF Init, SlotInv, Slots
<1>4. MapInv /\ RestInv
  BY DEF Init, MapInv, RestInv, Leading
<1> QED
  BY <1>1, <1>2, <1>3, <1>4 DEF PacingInv

(* Every step keeps the inductive invariant while the host map fits. *)
LEMMA PacingStep ==
  ASSUME HostsFit
  PROVE  PacingInv /\ [Next]_vars => PacingInv'
BY TypeStep, TokenStep, SlotStep, MapStep, RestStep DEF PacingInv

(* The inductive invariant gives exclusion: two calls that run for one host
   hold the token of the same hostState. *)
LEMMA PacingExcludes == PacingInv => HostExclusion
BY OneHolderPerHost DEF PacingInv, TokenInv, HostExclusion, Gated

(* scheduler.go's "concurrency within a host is exactly 1", for any number of
   calls, hosts and slots, as long as the host map stays within its bound. *)
THEOREM HostExclusionHolds ==
  ASSUME HostsFit
  PROVE  Spec => []HostExclusion
BY PacingInit, PacingStep, PacingExcludes, PTL DEF Spec

-----------------------------------------------------------------------------
Runners == {q \in Reqs : pc[q] = "run"}

(* Fewer hosts are being navigated than slots are taken by calls that run. *)
LEMMA RunnersFit ==
  ASSUME PacingInv
  PROVE  /\ IsFiniteSet(Runners) /\ IsFiniteSet(NavigatingHosts)
         /\ Cardinality(NavigatingHosts) <= Cardinality(Runners)
<1> DEFINE f == [q \in Runners |-> host(q)]
<1>1. IsFiniteSet(Runners)
  BY SchedulerAssumption, FS_Subset DEF Runners
<1>2. f \in Surjection(Runners, NavigatingHosts)
  BY DEF Surjection, Runners, NavigatingHosts
<1> HIDE DEF f
<1> QED
  BY <1>1, <1>2, FS_Surjection

(* A call about to run leaves room for its host under the cap. *)
LEMMA RoomToRun ==
  ASSUME PacingInv, NEW r \in Reqs, pc[r] = "ready"
  PROVE  Cardinality(NavigatingHosts) < Slots
<1> USE DEF PacingInv
<1>1. IsFiniteSet(SlotHolders) /\ Runners \cup {r} \in SUBSET SlotHolders
  BY SchedulerAssumption, FS_Subset DEF SlotHolders, Runners, TokenInv
<1>2. Cardinality(Runners \cup {r}) = Cardinality(Runners) + 1
  BY RunnersFit, FS_AddElement DEF Runners
<1>3. Cardinality(Runners \cup {r}) <= Cardinality(SlotHolders)
  BY <1>1, FS_Subset
<1>4. /\ Cardinality(Runners) \in Nat /\ Cardinality(SlotHolders) \in Nat
      /\ Cardinality(NavigatingHosts) \in Nat /\ Slots \in Nat
  BY <1>1, RunnersFit, FS_CardinalityType, SchedulerAssumption DEF Slots
<1> QED
  BY <1>2, <1>3, <1>4, RunnersFit DEF SlotInv

(* PacedHosts counts as this module does. *)
LEMMA SameCardinality == ASSUME NEW S PROVE Paced!Cardinality(S) = Cardinality(S)
BY DEF Paced!Cardinality, Cardinality

(* Every step of the scheduler is a step of PacedHosts, or none. *)
LEMMA PacedStep ==
  ASSUME PacingInv, [Next]_vars
  PROVE  [Paced!Next]_<<NavigatingHosts, sinceEnd>>
<1> USE SchedulerAssumption DEF PacingInv, TypeInv, TypeOK
<1>1. \A r \in Reqs : host(r) \in Hosts
  BY DEF host
<1>2. ASSUME UNCHANGED key PROVE \A r \in Reqs : host(r)' = host(r)
  BY <1>2 DEF host
<1>3. CASE Tick
  BY <1>2, <1>3 DEF Tick, Paced!Next, Paced!Tick, Older, NavigatingHosts, reqVars
<1>4. ASSUME NEW r \in Reqs, Run(r) PROVE Paced!Begin(host(r))
  <2>1. /\ pc[r] = "ready" /\ pc' = [pc EXCEPT ![r] = "run"]
        /\ UNCHANGED sinceEnd /\ \A q \in Reqs : host(q)' = host(q)
    BY <1>2, <1>4 DEF Run, Goto, reqVars
  <2>2. host(r) \notin NavigatingHosts
    <3> SUFFICES ASSUME NEW q \in Reqs, pc[q] = "run", host(q) = host(r) PROVE FALSE
      BY DEF NavigatingHosts
    <3> QED
      BY <2>1, OneHolderPerHost DEF TokenInv, Gated
  <2>3. sinceEnd[host(r)] = Gap
    BY <2>1 DEF RestInv
  <2>4. NavigatingHosts' = NavigatingHosts \cup {host(r)}
    <3>1. \A q \in Reqs : pc'[q] = "run" <=> pc[q] = "run" \/ q = r
      BY <2>1
    <3> QED
      BY <2>1, <3>1 DEF NavigatingHosts
  <2> QED
    BY <2>1, <2>2, <2>3, <2>4, RoomToRun, SameCardinality DEF Paced!Begin
<1>5. ASSUME NEW r \in Reqs, FnReturns(r) PROVE Paced!End(host(r))
  <2>1. /\ pc[r] = "run" /\ pc' = [pc EXCEPT ![r] = "ended"]
        /\ sinceEnd' = [sinceEnd EXCEPT ![host(r)] = 0]
        /\ \A q \in Reqs : host(q)' = host(q)
    BY <1>2, <1>5 DEF FnReturns, Goto
  <2>2. \A q \in Reqs : pc[q] = "run" /\ host(q) = host(r) => q = r
    BY <2>1, OneHolderPerHost DEF TokenInv, Gated
  <2>3. \A q \in Reqs : pc'[q] = "run" <=> pc[q] = "run" /\ q # r
    BY <2>1
  <2>4. NavigatingHosts' = NavigatingHosts \ {host(r)}
    BY <2>1, <2>2, <2>3 DEF NavigatingHosts
  <2> QED
    BY <2>1, <2>4 DEF Paced!End, NavigatingHosts
<1>6. ASSUME UNCHANGED <<key, sinceEnd>>,
             \A q \in Reqs : pc'[q] = "run" <=> pc[q] = "run"
      PROVE  UNCHANGED <<NavigatingHosts, sinceEnd>>
  BY <1>2, <1>6 DEF NavigatingHosts
<1>7. ASSUME NEW r \in Reqs, Do(r) \/ ContextEnds(r), ~Run(r), ~FnReturns(r)
      PROVE  /\ UNCHANGED <<key, sinceEnd>>
             /\ \A q \in Reqs : pc'[q] = "run" <=> pc[q] = "run"
  BY <1>7 DEF Do, Coalesce, FollowerResult, FollowerGivesUp, Lead, HostState, TakeToken,
     QueueForHost, NoCooldown, StartCooldown, CooledDown, QueueForSlot, TakeSlot,
     WaitCanceled, CountTimeout, Record, ReleaseSlot, ReleaseToken, Delist,
     CloseDone, ContextEnds, Goto, reqVars, Waiting
<1>8. CASE UNCHANGED vars
  BY <1>6, <1>8 DEF vars
<1> QED
  BY <1>1, <1>3, <1>4, <1>5, <1>6, <1>7, <1>8 DEF Next, Paced!Next

(* The scheduler implements the pacing its package comment describes: at most
   Slots hosts at a time, one navigation per host, Gap of rest in between. *)
THEOREM SchedulerPaces ==
  ASSUME HostsFit
  PROVE  Spec => PacedSpec
<1>1. Init => Paced!Init
  BY DEF Init, Paced!Init, NavigatingHosts
<1> QED
  BY <1>1, PacingInit, PacingStep, PacedStep, PTL DEF Spec, PacedSpec, Paced!Spec
-----------------------------------------------------------------------------
(* The token channels that are full are those of the holders' hostStates. *)
TokenSetInv == tokens = {hs[r] : r \in TokenHolders}

(* Every step keeps the full token channels those of the holders. *)
LEMMA TokenSetStep ==
  ASSUME TypeInv, TokenInv, TokenSetInv, [Next]_vars
  PROVE  TokenSetInv'
<1> USE DEF TypeInv, TypeOK, TokenSetInv, TokenHolders
<1>1. ASSUME NEW r \in Reqs, TakeToken(r) PROVE TokenSetInv'
  <2>1. /\ tokens' = tokens \cup {hs[r]} /\ hs' = hs
        /\ deferred' = [deferred EXCEPT ![r] = {"token"}]
    BY <1>1 DEF TakeToken
  <2>2. TokenHolders' = TokenHolders \cup {r}
    BY <2>1
  <2> QED
    BY <2>1, <2>2
<1>2. ASSUME NEW r \in Reqs, ReleaseToken(r) PROVE TokenSetInv'
  <2>1. /\ tokens' = tokens \ {hs[r]} /\ hs' = hs /\ r \in TokenHolders
        /\ deferred' = [deferred EXCEPT ![r] = {}]
    BY <1>2 DEF ReleaseToken
  <2>2. TokenHolders' = TokenHolders \ {r}
    BY <2>1
  <2>3. \A q \in TokenHolders : hs[q] = hs[r] => q = r
    BY <2>1 DEF TokenInv
  <2> QED
    BY <2>1, <2>2, <2>3
<1>3. ASSUME UNCHANGED tokens, TokenHolders' = TokenHolders,
             \A q \in TokenHolders : hs'[q] = hs[q]
      PROVE  TokenSetInv'
  BY <1>3
<1>4. ASSUME NEW r \in Reqs, HostState(r) PROVE TokenSetInv'
  <2>1. pc[r] = "lookup" /\ UNCHANGED <<tokens, deferred>>
        /\ \A q \in Reqs : q # r => hs'[q] = hs[q]
    BY <1>4 DEF HostState
  <2>2. r \notin TokenHolders
    BY <2>1 DEF TokenInv, Gated
  <2> QED
    BY <1>3, <2>1, <2>2
<1>5. ASSUME NEW r \in Reqs, TakeSlot(r) \/ ReleaseSlot(r) PROVE TokenSetInv'
  <2>1. UNCHANGED <<tokens, hs>> /\ TokenHolders' = TokenHolders
    BY <1>5 DEF TakeSlot, ReleaseSlot
  <2> QED
    BY <1>3, <2>1
<1>6. CASE UNCHANGED <<tokens, deferred, hs>>
  BY <1>3, <1>6
<1>7. ASSUME NEW r \in Reqs, Do(r) \/ ContextEnds(r)
      PROVE  \/ TakeToken(r) \/ ReleaseToken(r) \/ HostState(r) \/ TakeSlot(r)
             \/ ReleaseSlot(r) \/ UNCHANGED <<tokens, deferred, hs>>
  BY <1>7 DEF Do, Coalesce, FollowerResult, FollowerGivesUp, Lead, QueueForHost,
     NoCooldown, StartCooldown, CooledDown, QueueForSlot, WaitCanceled, CountTimeout,
     Run, FnReturns, Record, Delist, CloseDone, ContextEnds
<1> QED
  BY <1>1, <1>2, <1>4, <1>5, <1>6, <1>7 DEF Next, Tick, vars

(* No interleaving of waits, give-ups and deferred releases leaks a token or a
   slot or takes one out twice, whether or not hosts are pruned. *)
THEOREM NothingLeaksHolds == Spec => []NothingLeaks
<1> DEFINE Inv == TypeInv /\ TokenInv /\ SlotInv /\ TokenSetInv
<1>1. Init => Inv
  <2>1. Init => TokenSetInv
    BY DEF Init, TokenSetInv, TokenHolders
  <2> QED
    BY <2>1, PacingInit DEF PacingInv
<1>2. Inv /\ [Next]_vars => Inv'
  BY TypeStep, TokenStep, SlotStep, TokenSetStep
<1>3. Inv => NothingLeaks
  BY DEF TokenInv, SlotInv, TokenSetInv, NothingLeaks, TokenHolders, SlotHolders, Gated
<1> QED
  BY <1>1, <1>2, <1>3, PTL DEF Spec

-----------------------------------------------------------------------------
(* Every step keeps a key in flight for exactly its leader. *)
LEMMA FlightStep ==
  ASSUME TypeInv, SingleFlight, [Next]_vars
  PROVE  SingleFlight'
<1> USE SchedulerAssumption DEF TypeInv, TypeOK, SingleFlight, Leading
<1>1. ASSUME NEW r \in Reqs, Lead(r) PROVE SingleFlight'
  BY <1>1 DEF Lead, Goto
<1>2. ASSUME NEW r \in Reqs, Delist(r) PROVE SingleFlight'
  BY <1>2 DEF Delist, Goto, reqVars
<1>3. ASSUME UNCHANGED <<inflight, key>>,
             \A q \in Reqs : pc'[q] \in Leading \ {"close"} <=> pc[q] \in Leading \ {"close"}
      PROVE  SingleFlight'
  BY <1>3
<1>4. ASSUME NEW r \in Reqs, Do(r) \/ ContextEnds(r), ~Lead(r), ~Delist(r)
      PROVE  /\ UNCHANGED <<inflight, key>>
             /\ \A q \in Reqs :
                  pc'[q] \in Leading \ {"close"} <=> pc[q] \in Leading \ {"close"}
  BY <1>4 DEF Do, Coalesce, FollowerResult, FollowerGivesUp, HostState, TakeToken,
     QueueForHost, NoCooldown, StartCooldown, CooledDown, QueueForSlot, TakeSlot,
     WaitCanceled, CountTimeout, Run, FnReturns, Record, ReleaseSlot, ReleaseToken,
     CloseDone, ContextEnds, Goto, reqVars, Waiting
<1>5. CASE UNCHANGED <<pc, inflight, key>>
  BY <1>3, <1>5
<1>6. Tick \/ UNCHANGED vars => UNCHANGED <<pc, inflight, key>>
  BY DEF Tick, vars, reqVars
<1> QED
  BY <1>1, <1>2, <1>3, <1>4, <1>5, <1>6 DEF Next

(* "identical in-flight URLs are coalesced onto a single navigation", for any
   calls, whether or not the host gate was lost to pruning. *)
THEOREM SingleFlightHolds == Spec => []SingleFlight
<1>1. Init => TypeInv /\ SingleFlight
  <2>1. Init => TypeInv
    BY PacingInit DEF PacingInv
  <2>2. Init /\ TypeInv => SingleFlight
    BY SchedulerAssumption DEF Init, SingleFlight, Leading, TypeInv, TypeOK
  <2> QED
    BY <2>1, <2>2
<1> QED
  BY <1>1, TypeStep, FlightStep, PTL DEF Spec

-----------------------------------------------------------------------------
(* A leader that fn has come back to, or that gave up, holds an outcome: a
   result of fn, or how its own context ended. *)
Decided == {"ended", "timeout", "unwind", "close"}
OutInv ==
  \A r \in Reqs : pc[r] \in Decided => out[r] \in Results \cup ({ctx[r]} \ {"live"})

(* Every step keeps the outcome a leader was left with. *)
LEMMA OutStep ==
  ASSUME TypeInv, OutInv, [Next]_vars
  PROVE  OutInv'
<1> USE DEF OutInv, Decided
<1>0. /\ pc \in [Reqs -> PCs] /\ out \in [Reqs -> Outcomes] /\ ctx \in [Reqs -> Contexts]
  BY DEF TypeInv, TypeOK
<1>1. ASSUME NEW r \in Reqs, WaitCanceled(r) PROVE OutInv'
  BY <1>0, <1>1 DEF WaitCanceled, CtxErr, Goto
<1>2. ASSUME NEW r \in Reqs, FnReturns(r) PROVE OutInv'
  <2>1. PICK res \in Results \cup ({ctx[r]} \ {"live"}) : out' = [out EXCEPT ![r] = res]
    BY <1>2 DEF FnReturns
  <2>2. ctx' = ctx /\ pc' = [pc EXCEPT ![r] = "ended"]
    BY <1>2 DEF FnReturns, Goto
  <2> QED
    BY <1>0, <2>1, <2>2
<1>3. ASSUME NEW r \in Reqs, ContextEnds(r) PROVE OutInv'
  <2>1. /\ pc' = pc /\ out' = out /\ ctx[r] = "live"
        /\ \A q \in Reqs : q # r => ctx'[q] = ctx[q]
    BY <1>0, <1>3 DEF ContextEnds
  <2>2. ASSUME NEW q \in Reqs, pc'[q] \in Decided
        PROVE  out'[q] \in Results \cup ({ctx'[q]} \ {"live"})
    BY <2>1, <2>2
  <2> QED
    BY <2>2
<1>4. ASSUME UNCHANGED ctx,
             \A q \in Reqs : pc'[q] \in Decided => pc[q] \in Decided /\ out'[q] = out[q]
      PROVE  OutInv'
  BY <1>4
<1>5. ASSUME NEW r \in Reqs, FollowerResult(r) \/ FollowerGivesUp(r) PROVE OutInv'
  <2>1. /\ UNCHANGED ctx /\ pc' = [pc EXCEPT ![r] = "done"]
        /\ \A q \in Reqs : q # r => out'[q] = out[q]
    BY <1>0, <1>5 DEF FollowerResult, FollowerGivesUp, CtxErr, Goto
  <2> QED
    BY <1>0, <1>4, <2>1
<1>6. ASSUME NEW r \in Reqs,
             \/ Coalesce(r) \/ Lead(r) \/ HostState(r) \/ QueueForHost(r) \/ TakeToken(r)
             \/ NoCooldown(r) \/ StartCooldown(r) \/ CooledDown(r) \/ QueueForSlot(r)
             \/ TakeSlot(r) \/ CountTimeout(r) \/ Run(r) \/ Record(r) \/ ReleaseSlot(r)
             \/ ReleaseToken(r) \/ Delist(r) \/ CloseDone(r)
      PROVE  OutInv'
  <2>1. UNCHANGED <<ctx, out>>
    BY <1>6 DEF Coalesce, Lead, HostState, QueueForHost, TakeToken, NoCooldown,
       StartCooldown, CooledDown, QueueForSlot, TakeSlot, CountTimeout, Run, Record,
       ReleaseSlot, ReleaseToken, Delist, CloseDone, reqVars
  <2>2. \A q \in Reqs : pc'[q] \in Decided => pc[q] \in Decided
    BY <1>0, <1>6 DEF Coalesce, Lead, HostState, QueueForHost, TakeToken, NoCooldown,
       StartCooldown, CooledDown, QueueForSlot, TakeSlot, CountTimeout, Run, Record,
       ReleaseSlot, ReleaseToken, Delist, CloseDone, Goto
  <2> QED
    BY <1>4, <2>1, <2>2
<1>7. Tick \/ UNCHANGED vars => UNCHANGED <<pc, out, ctx>>
  BY DEF Tick, vars, reqVars
<1>8. UNCHANGED <<pc, out, ctx>> => OutInv'
  BY <1>4
<1> QED
  BY <1>1, <1>2, <1>3, <1>5, <1>6, <1>7, <1>8 DEF Next, Do

(* Every step of the scheduler is a step of the promise or none. *)
LEMMA PromiseStep ==
  ASSUME TypeInv, SingleFlight, OutInv, [Next]_vars
  PROVE  [Promise!Next]_(Promise!vars)
<1>0. /\ pc \in [Reqs -> PCs] /\ out \in [Reqs -> Outcomes] /\ ctx \in [Reqs -> Contexts]
      /\ \A r \in Reqs : pc[r] = "follow" => leader[r] \in Reqs
  BY DEF TypeInv, TypeOK, PointersOK
<1> DEFINE P == [r \in Reqs |-> Phase(r)]
           O == [r \in Reqs |-> Returned(r)]
<1>1. ASSUME NEW r \in Reqs, Lead(r) PROVE Promise!Lead(r)
  <2>1. pc[r] = "idle" /\ pc' = [pc EXCEPT ![r] = "lookup"] /\ out' = out
    BY <1>1 DEF Lead, Goto
  <2>2. P' = [P EXCEPT ![r] = "leads"] /\ O' = O /\ P[r] = "idle"
    BY <1>0, <2>1 DEF Phase, Returned
  <2> QED
    BY <1>1, <2>2 DEF Lead, Promise!Lead
<1>2. ASSUME NEW r \in Reqs, Coalesce(r) PROVE Promise!Join(r)
  <2>1. pc[r] = "idle" /\ pc' = [pc EXCEPT ![r] = "follow"] /\ out' = out
    BY <1>2 DEF Coalesce, Goto
  <2>2. P' = [P EXCEPT ![r] = "follows"] /\ O' = O /\ P[r] = "idle"
    BY <1>0, <2>1 DEF Phase, Returned
  <2> QED
    BY <1>2, <2>2 DEF Coalesce, Promise!Join
<1>3. ASSUME NEW r \in Reqs, Delist(r) PROVE Promise!Leave(r)
  <2>1. pc[r] = "unwind" /\ pc' = [pc EXCEPT ![r] = "close"] /\ out' = out
    BY <1>3 DEF Delist, Goto, reqVars
  <2>2. P' = [P EXCEPT ![r] = "leaving"] /\ O' = O /\ P[r] = "leads"
    BY <1>0, <2>1 DEF Phase, Returned
  <2>3. inflight[key[r]] = r
    BY <2>1 DEF SingleFlight, Leading
  <2> QED
    BY <1>3, <2>2, <2>3 DEF Delist, Promise!Leave, reqVars
<1>4. ASSUME NEW r \in Reqs, CloseDone(r) PROVE Promise!Return(r)
  <2>1. pc[r] = "close" /\ pc' = [pc EXCEPT ![r] = "done"] /\ out' = out
    BY <1>4 DEF CloseDone, Goto, reqVars
  <2>2. P' = [P EXCEPT ![r] = "done"] /\ O' = [O EXCEPT ![r] = out[r]] /\ P[r] = "leaving"
    BY <1>0, <2>1 DEF Phase, Returned
  <2>3. out[r] \in Results \cup ({ctx[r]} \ {"live"})
    BY <2>1 DEF OutInv, Decided
  <2> QED
    BY <1>4, <2>2, <2>3 DEF CloseDone, Promise!Return, reqVars
<1>5. ASSUME NEW r \in Reqs, FollowerResult(r) PROVE Promise!TakeResult(r)
  <2>1. /\ pc[r] = "follow" /\ pc[leader[r]] = "done" /\ leader[r] \in Reqs
        /\ pc' = [pc EXCEPT ![r] = "done"] /\ out' = [out EXCEPT ![r] = out[leader[r]]]
    BY <1>0, <1>5 DEF FollowerResult, Goto
  <2>2. /\ P' = [P EXCEPT ![r] = "done"] /\ O' = [O EXCEPT ![r] = O[leader[r]]]
        /\ P[r] = "follows" /\ P[leader[r]] = "done"
    BY <1>0, <2>1 DEF Phase, Returned
  <2> QED
    BY <1>5, <2>2 DEF FollowerResult, Promise!TakeResult
<1>6. ASSUME NEW r \in Reqs, FollowerGivesUp(r) PROVE Promise!GiveUp(r)
  <2>1. /\ pc[r] = "follow" /\ pc' = [pc EXCEPT ![r] = "done"]
        /\ out' = [out EXCEPT ![r] = ctx[r]]
    BY <1>6 DEF FollowerGivesUp, Goto, CtxErr
  <2>2. /\ P' = [P EXCEPT ![r] = "done"] /\ O' = [O EXCEPT ![r] = ctx[r]]
        /\ P[r] = "follows"
    BY <1>0, <2>1 DEF Phase, Returned
  <2> QED
    BY <1>6, <2>2 DEF FollowerGivesUp, Promise!GiveUp
<1>7. ASSUME NEW r \in Reqs, ContextEnds(r) PROVE Promise!ContextEnds(r)
  <2>1. pc' = pc /\ out' = out /\ pc[r] # "idle"
    BY <1>7 DEF ContextEnds
  <2>2. P' = P /\ O' = O /\ P[r] # "idle"
    BY <1>0, <2>1 DEF Phase, Returned
  <2> QED
    BY <1>7, <2>2 DEF ContextEnds, Promise!ContextEnds
<1>8. ASSUME UNCHANGED <<key, ctx, leader, inflight>>,
             \A q \in Reqs : Phase(q)' = Phase(q) /\ Returned(q)' = Returned(q)
      PROVE  UNCHANGED Promise!vars
  <2>1. P' = P /\ O' = O
    BY <1>8
  <2> QED
    BY <1>8, <2>1 DEF Promise!vars
<1>9. ASSUME NEW r \in Reqs,
             \/ HostState(r) \/ QueueForHost(r) \/ TakeToken(r) \/ NoCooldown(r)
             \/ StartCooldown(r) \/ CooledDown(r) \/ QueueForSlot(r) \/ TakeSlot(r)
             \/ WaitCanceled(r) \/ CountTimeout(r) \/ Run(r) \/ FnReturns(r) \/ Record(r)
             \/ ReleaseSlot(r) \/ ReleaseToken(r)
      PROVE  UNCHANGED Promise!vars
  <2>1. UNCHANGED <<key, ctx, leader, inflight>>
    BY <1>9 DEF HostState, QueueForHost, TakeToken, NoCooldown, StartCooldown,
       CooledDown, QueueForSlot, TakeSlot, WaitCanceled, CountTimeout, Run, FnReturns,
       Record, ReleaseSlot, ReleaseToken, reqVars
  <2>2. \E next \in Leading \ {"close"} :
          pc[r] \in Leading \ {"close"} /\ pc' = [pc EXCEPT ![r] = next]
    BY <1>0, <1>9 DEF HostState, QueueForHost, TakeToken, NoCooldown, StartCooldown,
       CooledDown, QueueForSlot, TakeSlot, WaitCanceled, CountTimeout, Run, FnReturns,
       Record, ReleaseSlot, ReleaseToken, Goto, Leading, Waiting
  <2>3. \A q \in Reqs : q # r => out'[q] = out[q]
    BY <1>0, <1>9 DEF HostState, QueueForHost, TakeToken, NoCooldown, StartCooldown,
       CooledDown, QueueForSlot, TakeSlot, WaitCanceled, CountTimeout, Run, FnReturns,
       Record, ReleaseSlot, ReleaseToken, reqVars, CtxErr
  <2>4. \A q \in Reqs : Phase(q)' = Phase(q) /\ Returned(q)' = Returned(q)
    BY <1>0, <2>2, <2>3 DEF Phase, Returned, Leading
  <2> QED
    BY <1>8, <2>1, <2>4
<1>10. Tick \/ UNCHANGED vars => UNCHANGED <<pc, out, key, ctx, leader, inflight>>
  BY DEF Tick, vars, reqVars
<1>11. UNCHANGED <<pc, out, key, ctx, leader, inflight>> => UNCHANGED Promise!vars
  BY <1>8 DEF Phase, Returned
<1> QED
  BY <1>1, <1>2, <1>3, <1>4, <1>5, <1>6, <1>7, <1>9, <1>10, <1>11
  DEF Next, Do, Promise!Next, Promise!Call, Promise!Proceed

(* Do keeps the promise of Flights for any calls, keys, hosts and caps, whether
   or not hosts are pruned: one outcome per flight, told to exactly those who
   asked for its key, or the caller's own context error. *)
THEOREM SchedulerKeepsItsPromise == Spec => FlightsSpec
<1>1. Init => TypeInv /\ SingleFlight /\ OutInv
  <2>1. Init => TypeInv
    BY PacingInit DEF PacingInv
  <2>2. Init /\ TypeInv => SingleFlight
    BY SchedulerAssumption DEF Init, SingleFlight, Leading, TypeInv, TypeOK
  <2>3. Init => OutInv
    BY DEF Init, OutInv, Decided
  <2> QED
    BY <2>1, <2>2, <2>3
<1>2. Init => Promise!Init
  BY SchedulerAssumption DEF Init, Promise!Init, Phase, Returned
<1> QED
  BY <1>1, <1>2, TypeStep, FlightStep, OutStep, PromiseStep, PTL
  DEF Spec, FlightsSpec, Promise!Spec

-----------------------------------------------------------------------------
In(x, S) == IF x \in S THEN 1 ELSE 0

(* Two sets of calls that differ by one call at most. *)
LEMMA SetMove ==
  ASSUME NEW A, NEW B, A \subseteq Reqs, B \subseteq Reqs, NEW r \in Reqs,
         \A q \in Reqs : q # r => (q \in A <=> q \in B)
  PROVE  /\ Cardinality(A) \in Nat /\ Cardinality(B) \in Nat
         /\ Cardinality(B) = Cardinality(A) + In(r, B) - In(r, A)
<1> DEFINE C == A \ {r}
<1>1. IsFiniteSet(A) /\ IsFiniteSet(B) /\ IsFiniteSet(C)
  <2>1. C \subseteq Reqs
    OBVIOUS
  <2> QED
    BY <2>1, FS_Subset, SchedulerAssumption
<1>2. Cardinality(A) \in Nat /\ Cardinality(B) \in Nat /\ Cardinality(C) \in Nat
  BY <1>1, FS_CardinalityType
<1>3. Cardinality(C \cup {r}) = Cardinality(C) + 1
  <2>1. r \notin C
    OBVIOUS
  <2> QED
    BY <1>1, <2>1, FS_AddElement
<1>4. A = IF r \in A THEN C \cup {r} ELSE C
  OBVIOUS
<1>5. B = IF r \in B THEN C \cup {r} ELSE C
  OBVIOUS
<1>6. In(r, A) \in Int /\ In(r, B) \in Int
  BY DEF In
<1> HIDE DEF C
<1>7. Cardinality(A) = Cardinality(C) + In(r, A)
  <2>1. CASE r \in A
    BY <1>3, <1>4, <2>1 DEF In
  <2>2. CASE r \notin A
    BY <1>2, <1>4, <2>2 DEF In
  <2> QED
    BY <2>1, <2>2
<1>8. Cardinality(B) = Cardinality(C) + In(r, B)
  <2>1. CASE r \in B
    BY <1>3, <1>5, <2>1 DEF In
  <2>2. CASE r \notin B
    BY <1>2, <1>5, <2>2 DEF In
  <2> QED
    BY <2>1, <2>2
<1> QED
  BY <1>2, <1>6, <1>7, <1>8

(* What a step of one call from one phase to another changes in a count. *)
LEMMA CountMove ==
  ASSUME TypeInv, NEW r \in Reqs, NEW next \in PCs, pc' = [pc EXCEPT ![r] = next], NEW S
  PROVE  /\ Count(S) \in Nat /\ Count(S)' \in Nat
         /\ Count(S)' = Count(S) + In(next, S) - In(pc[r], S)
<1> DEFINE A == {q \in Reqs : pc[q] \in S}
           B == {q \in Reqs : pc'[q] \in S}
<1>1. pc'[r] = next /\ \A q \in Reqs : q # r => pc'[q] = pc[q]
  BY DEF TypeInv, TypeOK
<1>2. /\ Cardinality(A) \in Nat /\ Cardinality(B) \in Nat
      /\ Cardinality(B) = Cardinality(A) + In(r, B) - In(r, A)
  <2>1. A \subseteq Reqs /\ B \subseteq Reqs
    OBVIOUS
  <2>2. \A q \in Reqs : q # r => (q \in A <=> q \in B)
    BY <1>1
  <2> HIDE DEF A, B
  <2> QED
    BY <2>1, <2>2, SetMove
<1>3. In(r, B) = In(next, S) /\ In(r, A) = In(pc[r], S)
  BY <1>1 DEF In
<1>4. Count(S) = Cardinality(A) /\ Count(S)' = Cardinality(B)
  BY DEF Count
<1> QED
  BY <1>2, <1>3, <1>4

(* The calls of one hostState. *)
OfHost(o, S) == Cardinality({r \in Reqs : hs[r] = o /\ pc[r] \in S})

(* What such a step changes in the counts of one hostState. *)
LEMMA OfHostMove ==
  ASSUME TypeInv, NEW r \in Reqs, NEW next \in PCs, pc' = [pc EXCEPT ![r] = next], NEW S,
         NEW o \in Reqs, hs' = hs
  PROVE  /\ OfHost(o, S) \in Nat /\ OfHost(o, S)' \in Nat
         /\ o # hs[r] => OfHost(o, S)' = OfHost(o, S)
         /\ o = hs[r] => OfHost(o, S)' = OfHost(o, S) + In(next, S) - In(pc[r], S)
<1> DEFINE A == {q \in Reqs : hs[q] = o /\ pc[q] \in S}
           B == {q \in Reqs : hs'[q] = o /\ pc'[q] \in S}
<1>1. pc'[r] = next /\ \A q \in Reqs : q # r => pc'[q] = pc[q]
  BY DEF TypeInv, TypeOK
<1>2. /\ Cardinality(A) \in Nat /\ Cardinality(B) \in Nat
      /\ Cardinality(B) = Cardinality(A) + In(r, B) - In(r, A)
  <2>1. A \subseteq Reqs /\ B \subseteq Reqs
    OBVIOUS
  <2>2. \A q \in Reqs : q # r => (q \in A <=> q \in B)
    BY <1>1
  <2> HIDE DEF A, B
  <2> QED
    BY <2>1, <2>2, SetMove
<1>3. OfHost(o, S) = Cardinality(A) /\ OfHost(o, S)' = Cardinality(B)
  BY DEF OfHost
<1>4. CASE o = hs[r]
  <2>1. In(r, B) = In(next, S) /\ In(r, A) = In(pc[r], S)
    BY <1>1, <1>4 DEF In
  <2> QED
    BY <1>2, <1>3, <1>4, <2>1
<1>5. CASE o # hs[r]
  <2>1. In(r, B) = 0 /\ In(r, A) = 0
    BY <1>1, <1>5 DEF In
  <2> QED
    BY <1>2, <1>3, <1>5, <2>1
<1> QED
  BY <1>4, <1>5

(* StatsAddUp by the numbers. *)
Uncounted == Leading \ {"unwind", "close"}
Recorded  == stats["total"] - stats["completed"] - stats["failed"] - stats["timedOut"]
Sums ==
  /\ stats["queued"] = Count(Waiting) /\ stats["running"] = Count({"run"})
  /\ \A o \in Reqs : queued[o] = OfHost(o, Waiting) /\ running[o] = OfHost(o, {"run"})
  /\ stats["total"] + stats["shared"] = Cardinality(Reqs) - Count({"idle"})
  /\ Recorded = Count(Uncounted)

(* The sums are what StatsAddUp says. *)
LEMMA SumsAreStats ==
  ASSUME TypeInv
  PROVE  Sums <=> StatsAddUp
<1>1. \A S : Count(S) \in Nat /\ IsFiniteSet({r \in Reqs : pc[r] \in S})
  <2>1. ASSUME NEW S PROVE IsFiniteSet({r \in Reqs : pc[r] \in S})
    <3>1. {r \in Reqs : pc[r] \in S} \subseteq Reqs
      OBVIOUS
    <3> QED
      BY <3>1, FS_Subset, SchedulerAssumption
  <2> QED
    BY <2>1, FS_CardinalityType DEF Count
<1>2. \A o \in Reqs :
        OfHost(o, {"run"}) = Cardinality({r \in Reqs : hs[r] = o /\ pc[r] = "run"})
  <2> SUFFICES ASSUME NEW o \in Reqs
               PROVE  OfHost(o, {"run"}) = Cardinality({r \in Reqs : hs[r] = o /\ pc[r] = "run"})
    OBVIOUS
  <2>1. {r \in Reqs : hs[r] = o /\ pc[r] \in {"run"}} = {r \in Reqs : hs[r] = o /\ pc[r] = "run"}
    OBVIOUS
  <2> QED
    BY <2>1 DEF OfHost
<1>3. \A o \in Reqs :
        OfHost(o, Waiting) = Cardinality({r \in Reqs : hs[r] = o /\ pc[r] \in Waiting})
  BY DEF OfHost
<1>4. Count(Uncounted) = Cardinality({r \in Reqs : pc[r] \in Leading \ {"unwind", "close"}})
  BY DEF Count, Uncounted
<1>5. Count(Uncounted) \in Nat
  BY <1>1
<1>6. /\ stats["total"] \in Int /\ stats["completed"] \in Int /\ stats["failed"] \in Int
      /\ stats["timedOut"] \in Int
  BY DEF TypeInv, TypeOK, Counters
<1>7. Recorded = Count(Uncounted) <=>
        stats["total"] =
          stats["completed"] + stats["failed"] + stats["timedOut"] + Count(Uncounted)
  BY <1>5, <1>6 DEF Recorded
<1> QED
  BY <1>2, <1>3, <1>4, <1>7 DEF Sums, StatsAddUp

(* A step of one call keeps the sums if it changes the counters by what it
   adds to, and takes from, each count. *)
LEMMA SumsMove ==
  ASSUME TypeInv, Sums, NEW r \in Reqs, NEW next \in PCs, pc' = [pc EXCEPT ![r] = next],
         hs' = hs, TypeInv',
         stats'["queued"] = stats["queued"] + In(next, Waiting) - In(pc[r], Waiting),
         stats'["running"] = stats["running"] + In(next, {"run"}) - In(pc[r], {"run"}),
         \A o \in Reqs : o # hs[r] => queued'[o] = queued[o] /\ running'[o] = running[o],
         \A o \in Reqs : o = hs[r] =>
           /\ queued'[o] = queued[o] + In(next, Waiting) - In(pc[r], Waiting)
           /\ running'[o] = running[o] + In(next, {"run"}) - In(pc[r], {"run"}),
         stats'["total"] + stats'["shared"] =
           stats["total"] + stats["shared"] + In(pc[r], {"idle"}) - In(next, {"idle"}),
         Recorded' = Recorded + In(next, Uncounted) - In(pc[r], Uncounted)
  PROVE  Sums'
<1>1. stats'["queued"] = Count(Waiting)' /\ stats'["running"] = Count({"run"})'
  <2>1. Count(Waiting)' = Count(Waiting) + In(next, Waiting) - In(pc[r], Waiting)
    BY CountMove
  <2>2. Count({"run"})' = Count({"run"}) + In(next, {"run"}) - In(pc[r], {"run"})
    BY CountMove
  <2> QED
    BY <2>1, <2>2 DEF Sums
<1>2. ASSUME NEW o \in Reqs
      PROVE  queued'[o] = OfHost(o, Waiting)' /\ running'[o] = OfHost(o, {"run"})'
  <2>1. queued[o] = OfHost(o, Waiting) /\ running[o] = OfHost(o, {"run"})
    BY DEF Sums
  <2>2. ASSUME NEW S
        PROVE  /\ o # hs[r] => OfHost(o, S)' = OfHost(o, S)
               /\ o = hs[r] => OfHost(o, S)' = OfHost(o, S) + In(next, S) - In(pc[r], S)
    <3>1. TypeInv /\ r \in Reqs /\ next \in PCs /\ o \in Reqs
      OBVIOUS
    <3>2. pc' = [pc EXCEPT ![r] = next] /\ hs' = hs
      OBVIOUS
    <3> QED
      BY ONLY <3>1, <3>2, OfHostMove
  <2>3. /\ o # hs[r] => OfHost(o, Waiting)' = OfHost(o, Waiting)
        /\ o = hs[r] => OfHost(o, Waiting)' =
             OfHost(o, Waiting) + In(next, Waiting) - In(pc[r], Waiting)
    BY <2>2
  <2>4. /\ o # hs[r] => OfHost(o, {"run"})' = OfHost(o, {"run"})
        /\ o = hs[r] => OfHost(o, {"run"})' =
             OfHost(o, {"run"}) + In(next, {"run"}) - In(pc[r], {"run"})
    BY <2>2
  <2>5. CASE o # hs[r]
    BY <2>1, <2>3, <2>4, <2>5
  <2>6. CASE o = hs[r]
    BY <2>1, <2>3, <2>4, <2>6
  <2> QED
    BY <2>5, <2>6
<1>3. stats'["total"] + stats'["shared"] = Cardinality(Reqs) - Count({"idle"})'
  <2>1. /\ Count({"idle"}) \in Nat
        /\ Count({"idle"})' = Count({"idle"}) + In(next, {"idle"}) - In(pc[r], {"idle"})
    BY CountMove
  <2>2. Cardinality(Reqs) \in Nat
    BY FS_CardinalityType, SchedulerAssumption
  <2>3. stats["total"] + stats["shared"] = Cardinality(Reqs) - Count({"idle"})
    BY DEF Sums
  <2>4. In(next, {"idle"}) \in Nat /\ In(pc[r], {"idle"}) \in Nat
    BY DEF In
  <2> QED
    BY <2>1, <2>2, <2>3, <2>4
<1>4. Recorded' = Count(Uncounted)'
  <2>1. Count(Uncounted)' = Count(Uncounted) + In(next, Uncounted) - In(pc[r], Uncounted)
    BY CountMove
  <2> QED
    BY <2>1 DEF Sums
<1> QED
  BY <1>1, <1>2, <1>3, <1>4 DEF Sums

(* mark, and no other counter. *)
LEMMA MarkMove ==
  ASSUME TypeInv, TypeInv', Sums, NEW r \in Reqs, NEW next \in PCs,
         pc' = [pc EXCEPT ![r] = next], hs' = hs, hs[r] \in Reqs,
         Mark(hs[r], In(next, Waiting) - In(pc[r], Waiting),
                     In(next, {"run"}) - In(pc[r], {"run"})),
         pc[r] # "idle", next # "idle", In(next, Uncounted) = In(pc[r], Uncounted)
  PROVE  Sums'
<1> DEFINE dq == In(next, Waiting) - In(pc[r], Waiting)
           dr == In(next, {"run"}) - In(pc[r], {"run"})
<1>0. dq \in Int /\ dr \in Int
  BY DEF In
<1> HIDE DEF dq, dr
<1>1. /\ queued'  = [queued  EXCEPT ![hs[r]] = @ + dq]
      /\ running' = [running EXCEPT ![hs[r]] = @ + dr]
      /\ stats'   = [stats EXCEPT !["queued"] = @ + dq, !["running"] = @ + dr]
  BY DEF Mark, dq, dr
<1>2. queued \in [Reqs -> Int] /\ running \in [Reqs -> Int] /\ stats \in [Counters -> Int]
  BY DEF TypeInv, TypeOK
<1>3. /\ stats'["queued"] = stats["queued"] + dq /\ stats'["running"] = stats["running"] + dr
      /\ \A c \in {"total", "shared", "completed", "failed", "timedOut"} : stats'[c] = stats[c]
  BY <1>1, <1>2 DEF Counters
<1>4. /\ \A o \in Reqs : o # hs[r] => queued'[o] = queued[o] /\ running'[o] = running[o]
      /\ \A o \in Reqs : o = hs[r] => queued'[o] = queued[o] + dq /\ running'[o] = running[o] + dr
  BY <1>1, <1>2
<1>5. /\ stats["total"] \in Int /\ stats["shared"] \in Int /\ stats["completed"] \in Int
      /\ stats["failed"] \in Int /\ stats["timedOut"] \in Int
      /\ stats["queued"] \in Int /\ stats["running"] \in Int
  BY <1>2 DEF Counters
<1>6. stats'["queued"] = stats["queued"] + In(next, Waiting) - In(pc[r], Waiting)
  BY <1>3, <1>5 DEF dq, In
<1>7. stats'["running"] = stats["running"] + In(next, {"run"}) - In(pc[r], {"run"})
  BY <1>3, <1>5 DEF dr, In
<1>8. stats'["total"] + stats'["shared"] =
        stats["total"] + stats["shared"] + In(pc[r], {"idle"}) - In(next, {"idle"})
  BY <1>3, <1>5 DEF In
<1>9. Recorded' = Recorded + In(next, Uncounted) - In(pc[r], Uncounted)
  BY <1>3, <1>5 DEF Recorded, In
<1>10. \A o \in Reqs : o = hs[r] =>
         /\ queued'[o] = queued[o] + In(next, Waiting) - In(pc[r], Waiting)
         /\ running'[o] = running[o] + In(next, {"run"}) - In(pc[r], {"run"})
  BY <1>2, <1>4 DEF dq, dr, In
<1> QED
  BY <1>4, <1>6, <1>7, <1>8, <1>9, <1>10, SumsMove

(* No gauge, and counters that change as the call's phase does. *)
LEMMA CounterMove ==
  ASSUME TypeInv, TypeInv', Sums, NEW r \in Reqs, NEW next \in PCs,
         pc' = [pc EXCEPT ![r] = next], hs' = hs, queued' = queued, running' = running,
         pc[r] \notin Waiting \cup {"run"}, next \notin Waiting \cup {"run"},
         stats'["queued"] = stats["queued"], stats'["running"] = stats["running"],
         stats'["total"] + stats'["shared"] =
           stats["total"] + stats["shared"] + In(pc[r], {"idle"}) - In(next, {"idle"}),
         Recorded' = Recorded + In(next, Uncounted) - In(pc[r], Uncounted)
  PROVE  Sums'
<1>1. /\ In(next, Waiting) = 0 /\ In(pc[r], Waiting) = 0
      /\ In(next, {"run"}) = 0 /\ In(pc[r], {"run"}) = 0
  BY DEF In
<1>2. stats["queued"] \in Int /\ stats["running"] \in Int
      /\ queued \in [Reqs -> Int] /\ running \in [Reqs -> Int]
  BY DEF TypeInv, TypeOK, Counters
<1>3. /\ stats'["queued"] = stats["queued"] + In(next, Waiting) - In(pc[r], Waiting)
      /\ stats'["running"] = stats["running"] + In(next, {"run"}) - In(pc[r], {"run"})
  BY <1>1, <1>2
<1>4. /\ \A o \in Reqs : queued'[o] = queued[o] /\ running'[o] = running[o]
      /\ \A o \in Reqs :
           /\ queued'[o] = queued[o] + In(next, Waiting) - In(pc[r], Waiting)
           /\ running'[o] = running[o] + In(next, {"run"}) - In(pc[r], {"run"})
  BY <1>1, <1>2
<1> QED
  BY <1>3, <1>4, SumsMove

(* Every step keeps the sums. *)
LEMMA SumsStep ==
  ASSUME TypeInv, TypeInv', Sums, [Next]_vars
  PROVE  Sums'
<1>0. /\ pc \in [Reqs -> PCs] /\ stats \in [Counters -> Int]
      /\ \A r \in Reqs : pc[r] \in Leading \ {"lookup"} => hs[r] \in Reqs
      /\ \A c \in Counters : stats[c] \in Int
  BY DEF TypeInv, TypeOK, PointersOK
<1>1. ASSUME NEW r \in Reqs, Coalesce(r) PROVE Sums'
  <2>1. /\ pc[r] = "idle" /\ pc' = [pc EXCEPT ![r] = "follow"]
        /\ stats' = [stats EXCEPT !["shared"] = @ + 1] /\ UNCHANGED <<hs, queued, running>>
    BY <1>1 DEF Coalesce, Goto
  <2>2. /\ stats'["queued"] = stats["queued"] /\ stats'["running"] = stats["running"]
        /\ stats'["total"] + stats'["shared"] = stats["total"] + stats["shared"] + 1
        /\ Recorded' = Recorded
    BY <1>0, <2>1 DEF Counters, Recorded
  <2>3. /\ In(pc[r], {"idle"}) = 1 /\ In("follow", {"idle"}) = 0
        /\ In(pc[r], Uncounted) = 0 /\ In("follow", Uncounted) = 0
        /\ pc[r] \notin Waiting \cup {"run"} /\ "follow" \notin Waiting \cup {"run"}
        /\ "follow" \in PCs
    BY <2>1 DEF In, Uncounted, Leading, Waiting, PCs
  <2>4. Recorded \in Int /\ stats["total"] + stats["shared"] \in Int
    BY <1>0 DEF Counters, Recorded
  <2>5. stats'["total"] + stats'["shared"] =
          stats["total"] + stats["shared"] + In(pc[r], {"idle"}) - In("follow", {"idle"})
    BY <2>2, <2>3, <2>4
  <2>6. Recorded' = Recorded + In("follow", Uncounted) - In(pc[r], Uncounted)
    BY <2>2, <2>3, <2>4
  <2>7. hs' = hs /\ queued' = queued /\ running' = running
    BY <2>1
  <2> QED
    BY <2>1, <2>2, <2>3, <2>5, <2>6, <2>7, CounterMove
<1>2. ASSUME NEW r \in Reqs, Lead(r) PROVE Sums'
  <2>1. /\ pc[r] = "idle" /\ pc' = [pc EXCEPT ![r] = "lookup"]
        /\ stats' = [stats EXCEPT !["total"] = @ + 1] /\ UNCHANGED <<hs, queued, running>>
    BY <1>2 DEF Lead, Goto
  <2>2. /\ stats'["queued"] = stats["queued"] /\ stats'["running"] = stats["running"]
        /\ stats'["total"] + stats'["shared"] = stats["total"] + stats["shared"] + 1
        /\ Recorded' = Recorded + 1
    BY <1>0, <2>1 DEF Counters, Recorded
  <2>3. /\ In(pc[r], {"idle"}) = 1 /\ In("lookup", {"idle"}) = 0
        /\ In(pc[r], Uncounted) = 0 /\ In("lookup", Uncounted) = 1
        /\ pc[r] \notin Waiting \cup {"run"} /\ "lookup" \notin Waiting \cup {"run"}
        /\ "lookup" \in PCs
    BY <2>1 DEF In, Uncounted, Leading, Waiting, PCs
  <2>4. Recorded \in Int /\ stats["total"] + stats["shared"] \in Int
    BY <1>0 DEF Counters, Recorded
  <2>5. stats'["total"] + stats'["shared"] =
          stats["total"] + stats["shared"] + In(pc[r], {"idle"}) - In("lookup", {"idle"})
    BY <2>2, <2>3, <2>4
  <2>6. Recorded' = Recorded + In("lookup", Uncounted) - In(pc[r], Uncounted)
    BY <2>2, <2>3, <2>4
  <2>7. hs' = hs /\ queued' = queued /\ running' = running
    BY <2>1
  <2> QED
    BY <2>1, <2>2, <2>3, <2>5, <2>6, <2>7, CounterMove
<1>3. ASSUME NEW r \in Reqs, HostState(r) PROVE Sums'
  <2>1. /\ pc[r] = "lookup" /\ pc' = [pc EXCEPT ![r] = "enter"]
        /\ \A q \in Reqs : q # r => hs'[q] = hs[q]
        /\ UNCHANGED <<stats, queued, running>>
    BY <1>3 DEF HostState, Goto, marks
  <2>2. pc'[r] = "enter" /\ \A q \in Reqs : q # r => pc'[q] = pc[q]
    BY <1>0, <2>1
  <2>3. ASSUME NEW S, "lookup" \in S <=> "enter" \in S PROVE Count(S)' = Count(S)
    <3>1. {q \in Reqs : pc'[q] \in S} = {q \in Reqs : pc[q] \in S}
      BY <2>1, <2>2, <2>3
    <3> QED
      BY <3>1 DEF Count
  <2>4. ASSUME NEW S, "lookup" \notin S, "enter" \notin S, NEW o \in Reqs
        PROVE  OfHost(o, S)' = OfHost(o, S)
    <3>1. {q \in Reqs : hs'[q] = o /\ pc'[q] \in S} = {q \in Reqs : hs[q] = o /\ pc[q] \in S}
      BY <2>1, <2>2, <2>4
    <3> QED
      BY <3>1 DEF OfHost
  <2>5. /\ Count(Waiting)' = Count(Waiting) /\ Count({"run"})' = Count({"run"})
        /\ Count({"idle"})' = Count({"idle"}) /\ Count(Uncounted)' = Count(Uncounted)
    BY <2>3 DEF Waiting, Uncounted, Leading
  <2>6. \A o \in Reqs : /\ OfHost(o, Waiting)' = OfHost(o, Waiting)
                        /\ OfHost(o, {"run"})' = OfHost(o, {"run"})
    BY <2>4 DEF Waiting
  <2> QED
    BY <2>1, <2>5, <2>6 DEF Sums, Recorded
<1>4. ASSUME NEW r \in Reqs, NEW next \in PCs, pc' = [pc EXCEPT ![r] = next],
             UNCHANGED <<hs, stats, queued, running>>,
             pc[r] \notin Waiting \cup {"run", "idle"}, next \notin Waiting \cup {"run", "idle"},
             In(next, Uncounted) = In(pc[r], Uncounted)
      PROVE  Sums'
  <2>1. /\ In(pc[r], {"idle"}) = 0 /\ In(next, {"idle"}) = 0 /\ In(next, Uncounted) \in Int
    BY <1>4 DEF In
  <2>2. Recorded \in Int /\ stats["total"] + stats["shared"] \in Int
    BY <1>0 DEF Counters, Recorded
  <2>3. Recorded' = Recorded + In(next, Uncounted) - In(pc[r], Uncounted)
    BY <1>4, <2>1, <2>2 DEF Recorded
  <2>4. stats'["total"] + stats'["shared"] =
          stats["total"] + stats["shared"] + In(pc[r], {"idle"}) - In(next, {"idle"})
    BY <1>4, <2>1, <2>2
  <2> QED
    BY <1>4, <2>3, <2>4, CounterMove
<1>5. ASSUME NEW r \in Reqs, FollowerResult(r) \/ FollowerGivesUp(r) PROVE Sums'
  <2>1. /\ pc[r] = "follow" /\ pc' = [pc EXCEPT ![r] = "done"]
        /\ UNCHANGED <<hs, stats, queued, running>>
    BY <1>5 DEF FollowerResult, FollowerGivesUp, Goto, marks
  <2> QED
    BY <1>4, <2>1 DEF In, Waiting, Uncounted, Leading, PCs
<1>6. ASSUME NEW r \in Reqs, NoCooldown(r) PROVE Sums'
  <2>1. /\ pc[r] = "paced" /\ pc' = [pc EXCEPT ![r] = "slotless"]
        /\ UNCHANGED <<hs, stats, queued, running>>
    BY <1>6 DEF NoCooldown, Goto, marks
  <2> QED
    BY <1>4, <2>1 DEF In, Waiting, Uncounted, Leading, PCs
<1>7. ASSUME NEW r \in Reqs, Delist(r) PROVE Sums'
  <2>1. /\ pc[r] = "unwind" /\ pc' = [pc EXCEPT ![r] = "close"]
        /\ UNCHANGED <<hs, stats, queued, running>>
    BY <1>7 DEF Delist, Goto, marks
  <2> QED
    BY <1>4, <2>1 DEF In, Waiting, Uncounted, Leading, PCs
<1>8. ASSUME NEW r \in Reqs, CloseDone(r) PROVE Sums'
  <2>1. /\ pc[r] = "close" /\ pc' = [pc EXCEPT ![r] = "done"]
        /\ UNCHANGED <<hs, stats, queued, running>>
    BY <1>8 DEF CloseDone, Goto, marks
  <2> QED
    BY <1>4, <2>1 DEF In, Waiting, Uncounted, Leading, PCs
<1>9. ASSUME NEW r \in Reqs, QueueForHost(r) \/ StartCooldown(r) \/ QueueForSlot(r)
      PROVE  Sums'
  <2>1. PICK next \in Waiting : pc' = [pc EXCEPT ![r] = next]
    BY <1>9 DEF QueueForHost, StartCooldown, QueueForSlot, Goto, Waiting
  <2>2. pc[r] \in {"enter", "paced", "slotless"} /\ Mark(hs[r], 1, 0) /\ UNCHANGED hs
    BY <1>9 DEF QueueForHost, StartCooldown, QueueForSlot
  <2>3. /\ In(next, Waiting) - In(pc[r], Waiting) = 1
        /\ In(next, {"run"}) - In(pc[r], {"run"}) = 0
        /\ In(next, Uncounted) = In(pc[r], Uncounted)
        /\ next \in PCs /\ next # "idle" /\ pc[r] # "idle" /\ hs[r] \in Reqs
    BY <1>0, <2>1, <2>2 DEF In, Waiting, Uncounted, Leading, PCs
  <2> QED
    BY <2>1, <2>2, <2>3, MarkMove
<1>10. ASSUME NEW r \in Reqs,
              TakeToken(r) \/ CooledDown(r) \/ TakeSlot(r) \/ WaitCanceled(r)
       PROVE  Sums'
  <2>1. PICK next \in {"paced", "slotless", "ready", "timeout"} : pc' = [pc EXCEPT ![r] = next]
    BY <1>10 DEF TakeToken, CooledDown, TakeSlot, WaitCanceled, Goto
  <2>2. pc[r] \in Waiting /\ Mark(hs[r], -1, 0) /\ UNCHANGED hs
    BY <1>10 DEF TakeToken, CooledDown, TakeSlot, WaitCanceled, Waiting
  <2>3. /\ In(next, Waiting) - In(pc[r], Waiting) = -1
        /\ In(next, {"run"}) - In(pc[r], {"run"}) = 0
        /\ In(next, Uncounted) = In(pc[r], Uncounted)
        /\ next \in PCs /\ next # "idle" /\ pc[r] # "idle" /\ hs[r] \in Reqs
    BY <1>0, <2>1, <2>2 DEF In, Waiting, Uncounted, Leading, PCs
  <2> QED
    BY <2>1, <2>2, <2>3, MarkMove
<1>11. ASSUME NEW r \in Reqs, Run(r) PROVE Sums'
  <2>1. /\ pc[r] = "ready" /\ pc' = [pc EXCEPT ![r] = "run"]
        /\ Mark(hs[r], 0, 1) /\ UNCHANGED hs
    BY <1>11 DEF Run, Goto
  <2>2. /\ In("run", Waiting) - In(pc[r], Waiting) = 0
        /\ In("run", {"run"}) - In(pc[r], {"run"}) = 1
        /\ In("run", Uncounted) = In(pc[r], Uncounted)
        /\ "run" \in PCs /\ pc[r] # "idle" /\ hs[r] \in Reqs
    BY <1>0, <2>1 DEF In, Waiting, Uncounted, Leading, PCs
  <2> QED
    BY <2>1, <2>2, MarkMove
<1>12. ASSUME NEW r \in Reqs, FnReturns(r) PROVE Sums'
  <2>1. /\ pc[r] = "run" /\ pc' = [pc EXCEPT ![r] = "ended"]
        /\ Mark(hs[r], 0, -1) /\ UNCHANGED hs
    BY <1>12 DEF FnReturns, Goto
  <2>2. /\ In("ended", Waiting) - In(pc[r], Waiting) = 0
        /\ In("ended", {"run"}) - In(pc[r], {"run"}) = -1
        /\ In("ended", Uncounted) = In(pc[r], Uncounted)
        /\ "ended" \in PCs /\ pc[r] # "idle" /\ hs[r] \in Reqs
    BY <1>0, <2>1 DEF In, Waiting, Uncounted, Leading, PCs
  <2> QED
    BY <2>1, <2>2, MarkMove
<1>13. ASSUME NEW r \in Reqs, CountTimeout(r) \/ Record(r) PROVE Sums'
  <2>1. /\ pc[r] \in {"timeout", "ended"} /\ pc' = [pc EXCEPT ![r] = "unwind"]
        /\ UNCHANGED <<hs, queued, running>>
    BY <1>13 DEF CountTimeout, Record, Goto, marks
  <2>2. PICK c \in {"timedOut", "completed", "failed"} : stats' = [stats EXCEPT ![c] = @ + 1]
    BY <1>13 DEF CountTimeout, Record
  <2>3. /\ stats'["queued"] = stats["queued"] /\ stats'["running"] = stats["running"]
        /\ stats'["total"] = stats["total"] /\ stats'["shared"] = stats["shared"]
        /\ Recorded' = Recorded - 1
    BY <1>0, <2>2 DEF Counters, Recorded
  <2>4. /\ In(pc[r], {"idle"}) = 0 /\ In("unwind", {"idle"}) = 0
        /\ In(pc[r], Uncounted) = 1 /\ In("unwind", Uncounted) = 0
        /\ pc[r] \notin Waiting \cup {"run"} /\ "unwind" \notin Waiting \cup {"run"}
        /\ "unwind" \in PCs
    BY <2>1 DEF In, Uncounted, Leading, Waiting, PCs
  <2>5. Recorded \in Int /\ stats["total"] + stats["shared"] \in Int
    BY <1>0 DEF Counters, Recorded
  <2>6. stats'["total"] + stats'["shared"] =
          stats["total"] + stats["shared"] + In(pc[r], {"idle"}) - In("unwind", {"idle"})
    BY <2>3, <2>4, <2>5
  <2>7. Recorded' = Recorded + In("unwind", Uncounted) - In(pc[r], Uncounted)
    BY <2>3, <2>4, <2>5
  <2>8. hs' = hs /\ queued' = queued /\ running' = running
    BY <2>1
  <2> QED
    BY <2>1, <2>3, <2>4, <2>6, <2>7, <2>8, CounterMove
<1>14. UNCHANGED <<pc, hs, queued, running, stats>> => Sums'
  BY DEF Sums, Recorded, Count, OfHost
<1>15. ASSUME NEW r \in Reqs, ReleaseSlot(r) \/ ReleaseToken(r) \/ ContextEnds(r)
       PROVE  UNCHANGED <<pc, hs, queued, running, stats>>
  BY <1>15 DEF ReleaseSlot, ReleaseToken, ContextEnds, marks
<1>16. Tick \/ UNCHANGED vars => UNCHANGED <<pc, hs, queued, running, stats>>
  BY DEF Tick, vars, marks
<1> QED
  BY <1>1, <1>2, <1>3, <1>5, <1>6, <1>7, <1>8, <1>9, <1>10, <1>11, <1>12, <1>13, <1>14,
     <1>15, <1>16 DEF Next, Do

(* The counters of Snapshot add up at every instant for any calls, hosts and
   caps, whether or not hosts are pruned; pruneLocked goes by them. *)
THEOREM StatsAddUpHolds == Spec => []StatsAddUp
<1>1. Init => TypeInv /\ StatsAddUp
  <2>1. Init => TypeInv
    BY PacingInit DEF PacingInv
  <2>2. ASSUME Init PROVE StatsAddUp
    <3>1. Count({"idle"}) = Cardinality(Reqs)
      <4>1. {r \in Reqs : pc[r] \in {"idle"}} = Reqs
        BY <2>2 DEF Init
      <4> QED
        BY <4>1 DEF Count
    <3>2. ASSUME NEW S, "idle" \notin S PROVE Count(S) = 0
      <4>1. {r \in Reqs : pc[r] \in S} = {}
        BY <2>2, <3>2 DEF Init
      <4> QED
        BY <4>1, FS_EmptySet DEF Count
    <3>3. ASSUME NEW S, "idle" \notin S, NEW o \in Reqs PROVE OfHost(o, S) = 0
      <4>1. {r \in Reqs : hs[r] = o /\ pc[r] \in S} = {}
        BY <2>2, <3>3 DEF Init
      <4> QED
        BY <4>1, FS_EmptySet DEF OfHost
    <3>4. /\ Count(Waiting) = 0 /\ Count({"run"}) = 0 /\ Count(Uncounted) = 0
      BY <3>2 DEF Waiting, Uncounted, Leading
    <3>5. \A o \in Reqs : OfHost(o, Waiting) = 0 /\ OfHost(o, {"run"}) = 0
      BY <3>3 DEF Waiting
    <3>6. Cardinality(Reqs) \in Nat
      BY FS_CardinalityType, SchedulerAssumption
    <3>7. Sums
      BY <2>2, <3>1, <3>4, <3>5, <3>6 DEF Init, Sums, Recorded, Counters
    <3> QED
      BY <2>1, <2>2, <3>7, SumsAreStats
  <2> QED
    BY <2>1, <2>2
<1>2. TypeInv /\ StatsAddUp /\ [Next]_vars => (TypeInv /\ StatsAddUp)'
  <2> SUFFICES ASSUME TypeInv, StatsAddUp, [Next]_vars PROVE TypeInv' /\ StatsAddUp'
    OBVIOUS
  <2>1. TypeInv'
    BY TypeStep
  <2>2. Sums
    BY SumsAreStats
  <2>3. Sums'
    BY <2>1, <2>2, SumsStep
  <2>4. (TypeInv => (Sums <=> StatsAddUp))'
    BY SumsAreStats, PTL
  <2> QED
    BY <2>1, <2>3, <2>4
<1> QED
  BY <1>1, <1>2, PTL DEF Spec
=============================================================================
