----------------------------- MODULE Scheduler -----------------------------
(***************************************************************************)
(* internal/scheduler/scheduler.go: the pacing of browser navigations.     *)
(*                                                                         *)
(* Every element of Reqs is one call of Do, made at most once.  A call     *)
(* object (type call) and a hostState object are named after the request   *)
(* that created them, so object identity is a request: hosts[h] is the     *)
(* hostState the map holds for h, hs[r] the one r looked up.  Critical     *)
(* sections of s.mu are single steps; a wait that ends and the mark(-1)    *)
(* that follows it are one step, because the state between them enables    *)
(* nothing the state before does not.  Time is kept as ages, which is all  *)
(* that now().Sub(...) lets the code see: an age stops growing once no     *)
(* comparison of the code can tell it from a greater one.                  *)
(***************************************************************************)
EXTENDS Integers, FiniteSets

CONSTANTS
  Reqs,      \* the calls of Do
  Calls,     \* the keys they may be made with: a set of functions Reqs -> Keys
  Hosts,     \* target hosts
  Keys,      \* dedupe keys (URL, screenshot flag, owner)
  HostOf,    \* the host of a key's URL
  MaxSlots,  \* Options.MaxSlots
  Gap,       \* Options.HostGap, in ticks
  Jitter,    \* Options.Jitter, in ticks
  MaxHosts,  \* 1024 in pruneLocked
  HostTTL,   \* one hour in pruneLocked
  Ends,      \* how a context can end: "canceled" (client gone), "expired"
  Results,   \* what fn can return while its context lives: "ok", "nav", "lost"
  None       \* nil

ASSUME SchedulerAssumption ==
  /\ HostOf \in [Keys -> Hosts] /\ Calls \subseteq [Reqs -> Keys]
  /\ IsFiniteSet(Reqs) /\ IsFiniteSet(Hosts)
  /\ MaxSlots \in Nat /\ Gap \in Nat /\ Jitter \in Nat
  /\ MaxHosts \in Nat /\ HostTTL \in Nat
  /\ Ends \subseteq {"canceled", "expired"} /\ Results \subseteq {"ok", "nav", "lost"}
  /\ None \notin Reqs

VARIABLES
  pc,        \* where in Do each request is
  key,       \* the key it was called with
  ctx,       \* its context: "live", or how it ended
  leader,    \* the call object it created or joined
  out,       \* what Do returns; for a leader also c.val / c.err
  hs,        \* the hostState it looked up
  deferred,  \* the releases its defer stack holds
  sleep,     \* ticks left of its cooldown
  inflight,  \* s.inflight
  hosts,     \* s.hosts
  tokens,    \* hostStates whose token channel is full
  queued,    \* hostState.queued
  running,   \* hostState.inflight
  idle,      \* time since hostState.lastAt
  unused,    \* time since hostState.usedAt
  slots,     \* len(s.slots)
  stats,     \* s.stats
  sinceEnd   \* history: time since fn last returned for a host

reqVars  == <<key, ctx, leader, out>>
hostVars == <<hosts, idle, unused>>
marks    == <<queued, running, stats>>
vars == <<pc, key, ctx, leader, out, hs, deferred, sleep, inflight, hosts,
          tokens, queued, running, idle, unused, slots, stats, sinceEnd>>

Contexts == {"live", "canceled", "expired"}

(* "lost" is the context error of a worker whose own lifetime ended: the
   same Go value as "canceled", kept apart here to know where it came from. *)
Outcomes == {"none", "ok", "nav", "lost", "canceled", "expired"}

Counters == {"queued", "running", "total", "shared", "timedOut", "completed", "failed"}

Leading == {"lookup", "enter", "gate", "paced", "cooling", "slotless", "slot",
            "ready", "run", "ended", "timeout", "unwind", "close"}
PCs     == Leading \cup {"idle", "follow", "done"}
Waiting == {"gate", "cooling", "slot"}   \* the phases mark counts as queued

(* hostWait's rand.Int63n(jitter), and the greatest ages the code can tell
   from smaller ones. *)
MaxJitter == IF Jitter > 0 THEN Jitter - 1 ELSE 0
IdleCap   == Gap + MaxJitter
UnusedCap == HostTTL + 1

(* The effective cap of the slots channel: New raises MaxSlots < 1 to 1. *)
Slots == IF MaxSlots < 1 THEN 1 ELSE MaxSlots

host(r) == HostOf[key[r]]

-----------------------------------------------------------------------------
Init ==
  /\ pc       = [r \in Reqs |-> "idle"]
  /\ key      \in Calls
  /\ ctx      = [r \in Reqs |-> "live"]
  /\ leader   = [r \in Reqs |-> None]
  /\ out      = [r \in Reqs |-> "none"]
  /\ hs       = [r \in Reqs |-> None]
  /\ deferred = [r \in Reqs |-> {}]
  /\ sleep    = [r \in Reqs |-> 0]
  /\ inflight = [k \in Keys |-> None]
  /\ hosts    = [h \in Hosts |-> None]
  /\ tokens   = {}
  /\ queued   = [o \in Reqs |-> 0]
  /\ running  = [o \in Reqs |-> 0]
  /\ idle     = [o \in Reqs |-> IdleCap]
  /\ unused   = [o \in Reqs |-> UnusedCap]
  /\ slots    = 0
  /\ stats    = [c \in Counters |-> 0]
  /\ sinceEnd = [h \in Hosts |-> Gap]

(* mark: the queued and running counters of a hostState and of the scheduler. *)
Mark(o, dq, dr) ==
  /\ queued'  = [queued  EXCEPT ![o] = @ + dq]
  /\ running' = [running EXCEPT ![o] = @ + dr]
  /\ stats'   = [stats EXCEPT !["queued"] = @ + dq, !["running"] = @ + dr]

Goto(r, next) == pc' = [pc EXCEPT ![r] = next]

(* ctx.Err() of a context that is done. *)
CtxErr(r) == out' = [out EXCEPT ![r] = ctx[r]]

-----------------------------------------------------------------------------
(* Do, step 1: join the call in flight for the key. *)
Coalesce(r) ==
  /\ pc[r] = "idle" /\ inflight[key[r]] # None
  /\ leader' = [leader EXCEPT ![r] = inflight[key[r]]]
  /\ stats'  = [stats EXCEPT !["shared"] = @ + 1]
  /\ Goto(r, "follow")
  /\ UNCHANGED <<key, ctx, out, hs, deferred, sleep, inflight, hostVars, tokens,
                 queued, running, slots, sinceEnd>>

(* Mutant of FollowerResult: reads the call before done is closed. *)
FollowerResult_early(r) ==
  /\ pc[r] = "follow"
  /\ out' = [out EXCEPT ![r] = out[leader[r]]]
  /\ Goto(r, "done")
  /\ UNCHANGED <<key, ctx, leader, hs, deferred, sleep, inflight, hostVars, tokens,
                 marks, slots, sinceEnd>>

(* A follower takes over the leader's result once done is closed. *)
FollowerResult(r) ==
  /\ pc[r] = "follow" /\ pc[leader[r]] = "done"
  /\ out' = [out EXCEPT ![r] = out[leader[r]]]
  /\ Goto(r, "done")
  /\ UNCHANGED <<key, ctx, leader, hs, deferred, sleep, inflight, hostVars, tokens,
                 marks, slots, sinceEnd>>

(* A follower whose own context is done stops waiting for the leader. *)
FollowerGivesUp(r) ==
  /\ pc[r] = "follow" /\ ctx[r] # "live"
  /\ CtxErr(r)
  /\ Goto(r, "done")
  /\ UNCHANGED <<key, ctx, leader, hs, deferred, sleep, inflight, hostVars, tokens,
                 marks, slots, sinceEnd>>

(* Do, step 1: nothing in flight, so this request leads. *)
Lead(r) ==
  /\ pc[r] = "idle" /\ inflight[key[r]] = None
  /\ inflight' = [inflight EXCEPT ![key[r]] = r]
  /\ leader'   = [leader EXCEPT ![r] = r]
  /\ stats'    = [stats EXCEPT !["total"] = @ + 1]
  /\ Goto(r, "lookup")
  /\ UNCHANGED <<key, ctx, out, hs, deferred, sleep, hostVars, tokens, queued,
                 running, slots, sinceEnd>>

(* pruneLocked on a map m into which hostState r was just put.  usedAt of the
   new entry is still the zero time here: hostState sets it afterwards. *)
Pruned(m, r) ==
  LET entries == {h \in Hosts : m[h] # None}
      stale(o) == /\ running[o] = 0 /\ queued[o] = 0
                  /\ o = r \/ unused[o] > HostTTL
  IN  IF Cardinality(entries) <= MaxHosts THEN m
      ELSE [h \in Hosts |-> IF m[h] # None /\ stale(m[h]) THEN None ELSE m[h]]

(* Mutant of HostState: creates a hostState without looking one up. *)
HostState_alwaysNew(r) ==
  /\ pc[r] = "lookup"
  /\ hosts'  = Pruned([hosts EXCEPT ![host(r)] = r], r)
  /\ hs'     = [hs EXCEPT ![r] = r]
  /\ unused' = [unused EXCEPT ![r] = 0]
  /\ Goto(r, "enter")
  /\ UNCHANGED <<reqVars, deferred, sleep, inflight, idle, tokens, marks, slots,
                 sinceEnd>>

(* hostState: look the host up, or create (and prune). *)
HostState(r) ==
  LET h   == host(r)
      new == hosts[h] = None
      o   == IF new THEN r ELSE hosts[h]
  IN
  /\ pc[r] = "lookup"
  /\ hosts'  = IF new THEN Pruned([hosts EXCEPT ![h] = r], r) ELSE hosts
  /\ hs'     = [hs EXCEPT ![r] = o]
  /\ unused' = [unused EXCEPT ![o] = 0]
  /\ Goto(r, "enter")
  /\ UNCHANGED <<reqVars, deferred, sleep, inflight, idle, tokens, marks, slots,
                 sinceEnd>>

(* Do, step 2: queue for the host's token. *)
QueueForHost(r) ==
  /\ pc[r] = "enter"
  /\ Mark(hs[r], 1, 0)
  /\ Goto(r, "gate")
  /\ UNCHANGED <<reqVars, hs, deferred, sleep, inflight, hostVars, tokens, slots,
                 sinceEnd>>

TakeToken(r) ==
  /\ pc[r] = "gate" /\ hs[r] \notin tokens
  /\ tokens' = tokens \cup {hs[r]}
  /\ deferred' = [deferred EXCEPT ![r] = {"token"}]
  /\ Mark(hs[r], -1, 0)
  /\ Goto(r, "paced")
  /\ UNCHANGED <<reqVars, hs, sleep, inflight, hostVars, slots, sinceEnd>>

(* Do, step 3 with hostWait: how long the host still has to cool down. *)
HostWait(o, jitter) ==
  IF Gap = 0 \/ idle[o] >= Gap + jitter THEN 0 ELSE Gap + jitter - idle[o]

NoCooldown(r) ==
  /\ pc[r] = "paced"
  /\ \E j \in 0 .. MaxJitter : HostWait(hs[r], j) = 0
  /\ Goto(r, "slotless")
  /\ UNCHANGED <<reqVars, hs, deferred, sleep, inflight, hostVars, tokens, marks,
                 slots, sinceEnd>>

StartCooldown(r) ==
  /\ pc[r] = "paced"
  /\ \E j \in 0 .. MaxJitter :
       /\ HostWait(hs[r], j) > 0
       /\ sleep' = [sleep EXCEPT ![r] = HostWait(hs[r], j)]
  /\ Mark(hs[r], 1, 0)
  /\ Goto(r, "cooling")
  /\ UNCHANGED <<reqVars, hs, deferred, inflight, hostVars, tokens, slots, sinceEnd>>

(* sleepCtx returns nil: the timer fired. *)
CooledDown(r) ==
  /\ pc[r] = "cooling" /\ sleep[r] = 0
  /\ Mark(hs[r], -1, 0)
  /\ Goto(r, "slotless")
  /\ UNCHANGED <<reqVars, hs, deferred, sleep, inflight, hostVars, tokens, slots,
                 sinceEnd>>

(* Do, step 4: queue for a global slot. *)
QueueForSlot(r) ==
  /\ pc[r] = "slotless"
  /\ Mark(hs[r], 1, 0)
  /\ Goto(r, "slot")
  /\ UNCHANGED <<reqVars, hs, deferred, sleep, inflight, hostVars, tokens, slots,
                 sinceEnd>>

TakeSlot(r) ==
  /\ pc[r] = "slot" /\ slots < Slots
  /\ slots' = slots + 1
  /\ deferred' = [deferred EXCEPT ![r] = @ \cup {"slot"}]
  /\ Mark(hs[r], -1, 0)
  /\ Goto(r, "ready")
  /\ UNCHANGED <<reqVars, hs, sleep, inflight, hostVars, tokens, sinceEnd>>

(* Mutant of WaitCanceled: returns before the release was deferred. *)
WaitCanceled_leaky(r) ==
  /\ pc[r] \in Waiting /\ ctx[r] # "live"
  /\ CtxErr(r)
  /\ Mark(hs[r], -1, 0)
  /\ sleep' = [sleep EXCEPT ![r] = 0]
  /\ deferred' = [deferred EXCEPT ![r] = {}]
  /\ Goto(r, "timeout")
  /\ UNCHANGED <<key, ctx, leader, hs, inflight, hostVars, tokens, slots, sinceEnd>>

(* Any of the three waits loses the race against ctx.Done(). *)
WaitCanceled(r) ==
  /\ pc[r] \in Waiting /\ ctx[r] # "live"
  /\ CtxErr(r)
  /\ Mark(hs[r], -1, 0)
  /\ sleep' = [sleep EXCEPT ![r] = 0]
  /\ Goto(r, "timeout")
  /\ UNCHANGED <<key, ctx, leader, hs, deferred, inflight, hostVars, tokens, slots,
                 sinceEnd>>

(* Mutant of CountTimeout: the give-up is not counted. *)
CountTimeout_forgotten(r) ==
  /\ pc[r] = "timeout"
  /\ Goto(r, "unwind")
  /\ UNCHANGED <<reqVars, hs, deferred, sleep, inflight, hostVars, tokens, marks,
                 slots, sinceEnd>>

(* countTimeout. *)
CountTimeout(r) ==
  /\ pc[r] = "timeout"
  /\ stats' = [stats EXCEPT !["timedOut"] = @ + 1]
  /\ Goto(r, "unwind")
  /\ UNCHANGED <<reqVars, hs, deferred, sleep, inflight, hostVars, tokens, queued,
                 running, slots, sinceEnd>>

(* Do, step 5: the navigation itself starts ... *)
Run(r) ==
  /\ pc[r] = "ready"
  /\ Mark(hs[r], 0, 1)
  /\ Goto(r, "run")
  /\ UNCHANGED <<reqVars, hs, deferred, sleep, inflight, hostVars, tokens, slots,
                 sinceEnd>>

(* ... and fn returns: a page, an error, its worker's loss, or its context's
   error if that is done. *)
FnReturns(r) ==
  /\ pc[r] = "run"
  /\ \E res \in Results \cup ({ctx[r]} \ {"live"}) :
       out' = [out EXCEPT ![r] = res]
  /\ Mark(hs[r], 0, -1)
  /\ sinceEnd' = [sinceEnd EXCEPT ![host(r)] = 0]
  /\ Goto(r, "ended")
  /\ UNCHANGED <<key, ctx, leader, hs, deferred, sleep, inflight, hostVars, tokens,
                 slots>>

(* Mutant of Record: lastAt is only set after a success. *)
Record_successOnly(r) ==
  /\ pc[r] = "ended"
  /\ idle' = IF out[r] = "ok" THEN [idle EXCEPT ![hs[r]] = 0] ELSE idle
  /\ stats' = IF out[r] = "ok" THEN [stats EXCEPT !["completed"] = @ + 1]
                               ELSE [stats EXCEPT !["failed"] = @ + 1]
  /\ Goto(r, "unwind")
  /\ UNCHANGED <<reqVars, hs, deferred, sleep, inflight, hosts, unused, tokens,
                 queued, running, slots, sinceEnd>>

(* The end of the navigation is recorded: lastAt, and the counters. *)
Record(r) ==
  /\ pc[r] = "ended"
  /\ idle' = [idle EXCEPT ![hs[r]] = 0]
  /\ stats' = IF out[r] = "ok" THEN [stats EXCEPT !["completed"] = @ + 1]
                               ELSE [stats EXCEPT !["failed"] = @ + 1]
  /\ Goto(r, "unwind")
  /\ UNCHANGED <<reqVars, hs, deferred, sleep, inflight, hosts, unused, tokens,
                 queued, running, slots, sinceEnd>>

(* The deferred functions, last in first out: slot, token, inflight, done. *)
ReleaseSlot(r) ==
  /\ pc[r] = "unwind" /\ "slot" \in deferred[r]
  /\ slots' = slots - 1
  /\ deferred' = [deferred EXCEPT ![r] = @ \ {"slot"}]
  /\ UNCHANGED <<pc, reqVars, hs, sleep, inflight, hostVars, tokens, marks, sinceEnd>>

ReleaseToken(r) ==
  /\ pc[r] = "unwind" /\ deferred[r] = {"token"}
  /\ tokens' = tokens \ {hs[r]}
  /\ deferred' = [deferred EXCEPT ![r] = {}]
  /\ UNCHANGED <<pc, reqVars, hs, sleep, inflight, hostVars, marks, slots, sinceEnd>>

Delist(r) ==
  /\ pc[r] = "unwind" /\ deferred[r] = {}
  /\ inflight' = [inflight EXCEPT ![key[r]] = None]
  /\ Goto(r, "close")
  /\ UNCHANGED <<reqVars, hs, deferred, sleep, hostVars, tokens, marks, slots,
                 sinceEnd>>

CloseDone(r) ==
  /\ pc[r] = "close"
  /\ Goto(r, "done")
  /\ UNCHANGED <<reqVars, hs, deferred, sleep, inflight, hostVars, tokens, marks,
                 slots, sinceEnd>>

-----------------------------------------------------------------------------
(* The client disconnects, or the request's timeout passes. *)
ContextEnds(r) ==
  /\ pc[r] \notin {"idle", "done"} /\ ctx[r] = "live"
  /\ \E why \in Ends : ctx' = [ctx EXCEPT ![r] = why]
  /\ UNCHANGED <<pc, key, leader, out, hs, deferred, sleep, inflight, hostVars,
                 tokens, marks, slots, sinceEnd>>

Older(age, cap) == IF age < cap THEN age + 1 ELSE cap

Tick ==
  /\ idle'     = [o \in Reqs |-> Older(idle[o], IdleCap)]
  /\ unused'   = [o \in Reqs |-> Older(unused[o], UnusedCap)]
  /\ sinceEnd' = [h \in Hosts |-> Older(sinceEnd[h], Gap)]
  /\ sleep'    = [r \in Reqs |-> IF sleep[r] > 0 THEN sleep[r] - 1 ELSE 0]
  /\ UNCHANGED <<pc, reqVars, hs, deferred, inflight, hosts, tokens, marks, slots>>

(* The steps of one call of Do. *)
Do(r) ==
  \/ Coalesce(r) \/ FollowerResult(r) \/ FollowerGivesUp(r)
  \/ Lead(r) \/ HostState(r)
  \/ QueueForHost(r) \/ TakeToken(r)
  \/ NoCooldown(r) \/ StartCooldown(r) \/ CooledDown(r)
  \/ QueueForSlot(r) \/ TakeSlot(r)
  \/ WaitCanceled(r) \/ CountTimeout(r)
  \/ Run(r) \/ FnReturns(r) \/ Record(r)
  \/ ReleaseSlot(r) \/ ReleaseToken(r) \/ Delist(r) \/ CloseDone(r)

Next == Tick \/ \E r \in Reqs : Do(r) \/ ContextEnds(r)

Spec == Init /\ [][Next]_vars

(* Goroutines that can run do run, and the clock advances.  Nobody is obliged to
   call Do or to give up, and fn need not return: most of Manager.Fetch ends
   with its context, but not the creation of its tab. *)
Fairness ==
  /\ WF_vars(Tick)
  /\ \A r \in Reqs : WF_vars(pc[r] \notin {"idle", "run"} /\ Do(r))

FairSpec == Spec /\ Fairness

-----------------------------------------------------------------------------
(* Type invariant. *)
TypeOK ==
  /\ pc       \in [Reqs -> PCs]
  /\ key      \in [Reqs -> Keys]
  /\ ctx      \in [Reqs -> Contexts]
  /\ leader   \in [Reqs -> Reqs \cup {None}]
  /\ out      \in [Reqs -> Outcomes]
  /\ hs       \in [Reqs -> Reqs \cup {None}]
  /\ deferred \in [Reqs -> SUBSET {"token", "slot"}]
  /\ sleep    \in [Reqs -> 0 .. IdleCap]
  /\ inflight \in [Keys -> Reqs \cup {None}]
  /\ hosts    \in [Hosts -> Reqs \cup {None}]
  /\ tokens   \subseteq Reqs
  /\ queued   \in [Reqs -> Int]
  /\ running  \in [Reqs -> Int]
  /\ idle     \in [Reqs -> 0 .. IdleCap]
  /\ unused   \in [Reqs -> 0 .. UnusedCap]
  /\ slots    \in Int
  /\ stats    \in [Counters -> Int]
  /\ sinceEnd \in [Hosts -> 0 .. Gap]

(* "concurrency within a host is exactly 1": two calls of Do never have fn in
   progress for the same host. *)
HostExclusion ==
  \A r, q \in Reqs :
    pc[r] = "run" /\ pc[q] = "run" /\ host(r) = host(q) => r = q

(* While the host map stays within its bound, navigations are paced as the
   package comment says: global cap, one per host, and Gap of rest between
   the end of one and the start of the next. *)
NavigatingHosts == {host(r) : r \in {q \in Reqs : pc[q] = "run"}}
Paced == INSTANCE PacedHosts WITH active <- NavigatingHosts, rest <- sinceEnd, Cap <- Slots
PacedSpec == Paced!Spec

SlotHolders  == {r \in Reqs : "slot" \in deferred[r]}
TokenHolders == {r \in Reqs : "token" \in deferred[r]}

(* Whatever order calls win, lose, time out and unwind in, the channels hold
   exactly one element per call that must still take one out: no early return
   leaks a token or a slot, and none is taken out twice. *)
NothingLeaks ==
  /\ slots = Cardinality(SlotHolders) /\ slots <= Slots
  /\ tokens = {hs[r] : r \in TokenHolders}
  /\ \A r, q \in TokenHolders : hs[r] = hs[q] => r = q
  /\ \A r \in Reqs : pc[r] \in {"run", "ready"} => r \in SlotHolders \cap TokenHolders

(* What Snapshot shows adds up at every instant: gauges count the calls that
   wait and run, counters the calls that led, joined, finished and gave up,
   and every call that led is counted as exactly one outcome in the end. *)
Count(S) == Cardinality({r \in Reqs : pc[r] \in S})
StatsAddUp ==
  /\ stats["queued"] = Count(Waiting)
  /\ stats["running"] = Count({"run"})
  /\ \A o \in Reqs :
       /\ queued[o]  = Cardinality({r \in Reqs : hs[r] = o /\ pc[r] \in Waiting})
       /\ running[o] = Cardinality({r \in Reqs : hs[r] = o /\ pc[r] = "run"})
  /\ stats["total"] + stats["shared"] = Cardinality(Reqs) - Count({"idle"})
  /\ LET uncounted == {r \in Reqs : pc[r] \in Leading \ {"unwind", "close"}}
     IN  stats["total"] =
           stats["completed"] + stats["failed"] + stats["timedOut"] + Cardinality(uncounted)

(* "identical in-flight URLs are coalesced onto a single navigation": between
   taking the key and giving it up a leader is the only one for that key, even
   when the host gate has been lost to pruning. *)
SingleFlight ==
  \A r, q \in Reqs :
    /\ pc[r] \in Leading \ {"close"} => inflight[key[r]] = r
    /\ inflight[key[q]] = r => pc[r] \in Leading \ {"close"} /\ key[r] = key[q]

(* A caller of Do gets the one outcome its flight ended with, for the key it
   asked for, or its own context's error; nobody joins a flight that has been
   delisted, none reads a result before done is closed, and an outcome once
   returned never changes: Scheduler implements Flights. *)
Phase(r) ==
  IF pc[r] \in {"idle", "done"} THEN pc[r]
  ELSE IF pc[r] = "follow" THEN "follows"
  ELSE IF pc[r] = "close" THEN "leaving" ELSE "leads"
Returned(r) == IF pc[r] = "done" THEN out[r] ELSE "none"
Promise == INSTANCE Flights WITH
  Callers <- Reqs, phase <- [r \in Reqs |-> Phase(r)], flight <- inflight,
  out <- [r \in Reqs |-> Returned(r)]
FlightsSpec == Promise!Spec

(* Every call of Do returns or somebody's fn has not returned, even if no
   context ever ends: nothing but a navigation keeps others waiting. *)
EveryCallReturns ==
  \A r \in Reqs : pc[r] # "idle" ~> pc[r] = "done" \/ \E q \in Reqs : pc[q] = "run"
=============================================================================
