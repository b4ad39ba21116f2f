------------------------------ MODULE Manager ------------------------------
(***************************************************************************)
(* internal/browser: the Manager, between its callers and the tab pool.    *)
(*                                                                         *)
(* A fetch (Fetch, with or without a screenshot) or a session (Acquire)    *)
(* finds the pool of the Chrome that runs now, leases a tab of it, drives  *)
(* the tab and gives it back.  Chrome may restart at any time; its         *)
(* websocket identity is then a new one, and a generation of tabs is named *)
(* after the identity it is attached to.  The pool itself is TabPool: here *)
(* an acquire or a release is one step, with the outcomes TabPool gives.   *)
(***************************************************************************)
EXTENDS Integers, FiniteSets

CONSTANTS
  Shots,      \* fetches with a screenshot
  Pages,      \* fetches without
  Leases,     \* sessions
  Size,       \* MaxTabs
  Slots,      \* cap(captureSlots), 2 in the code
  Retries,    \* ChallengeRetries
  MaxChrome,  \* bound: how many Chromes there ever are
  None        \* nobody

Users == Shots \cup Pages \cup Leases
Generations == 0 .. MaxChrome

ASSUME ManagerAssumption ==
  /\ IsFiniteSet(Users) /\ None \notin Users \cup (Generations \X Nat)
  /\ Shots \cap (Pages \cup Leases) = {} /\ Pages \cap Leases = {}
  /\ Size \in Nat \ {0} /\ Slots \in Nat \ {0}
  /\ Retries \in Nat /\ MaxChrome \in Nat \ {0}

VARIABLES
  chrome,    \* the identity of the Chrome that runs
  pool,      \* wsURL and pool: the attached generation; 0 is the one of New
  stopped,   \* generations whose allocator is stopped, and their tabs with it
  closed,    \* closed
  prober,    \* who holds poolMu over the discovery request
  seen,      \* the identity that request answered
  idle,      \* the idle tabs of each generation
  created,   \* pool.created of each generation
  nextID,    \* pool.nextID of each generation
  dead,      \* tabs of a pool whose own context has ended
  override,  \* tabs of a pool that render with the screenshot's metrics
  assists,   \* assists: pairs of a page id and who waits for its human
  slots,     \* len(captureSlots)
  pc,        \* where a user is
  ctx,       \* its context: "live" or "done"
  got,       \* the generation currentPool gave it
  tab,       \* the tab it holds, or has created and not got yet
  healthy,   \* whether it would reuse the tab
  tries      \* attempt

attachVars == <<pool, stopped, closed, prober, seen>>
poolVars == <<idle, created, nextID>>
tabVars == <<dead, override>>
userVars == <<got, tab, healthy, tries>>
vars == <<chrome, attachVars, poolVars, tabVars, assists, slots, pc, ctx, userVars>>

Tabs == Generations \X Nat
Attaching == {"current", "probe", "attach", "acquire"}
Driving == {"create", "leased", "metrics", "navigate", "settle", "assist", "retry",
            "capture", "reset", "held", "release"}
PCs == Attaching \cup Driving \cup {"idle", "slot", "free", "done"}

Init ==
  /\ chrome = 1 /\ pool = 0 /\ stopped = {} /\ closed = FALSE
  /\ prober = None /\ seen = [u \in Users |-> 0]
  /\ idle = [g \in Generations |-> {}]
  /\ created = [g \in Generations |-> 0]
  /\ nextID = [g \in Generations |-> 0]
  /\ dead = {} /\ override = {} /\ assists = {} /\ slots = 0
  /\ pc = [u \in Users |-> "idle"]
  /\ ctx = [u \in Users |-> "live"]
  /\ got = [u \in Users |-> 0]
  /\ tab = [u \in Users |-> None]
  /\ healthy = [u \in Users |-> TRUE]
  /\ tries = [u \in Users |-> 0]

Goto(u, next) == pc' = [pc EXCEPT ![u] = next]

(* p.ctx.Err() # nil: the tab's own context, or the allocator's above it. *)
Dead(t) == t \in dead \/ t[1] \in stopped

(* Chrome can carry out a command of this tab. *)
Works(t) == ~Dead(t) /\ t[1] = chrome

(* A tab that is retired is in no pool any more. *)
Forget(t) == dead' = dead \ {t} /\ override' = override \ {t}

(* The locals of a call, and its interest in its context, go with it. *)
Drop(u) ==
  /\ ctx' = [ctx EXCEPT ![u] = "live"]
  /\ got' = [got EXCEPT ![u] = 0]
  /\ tab' = [tab EXCEPT ![u] = None]
  /\ healthy' = [healthy EXCEPT ![u] = TRUE]
  /\ tries' = [tries EXCEPT ![u] = 0]

(* Where Fetch's deferred calls begin: once a tab is held, and without one. *)
Unwind(u) == IF u \in Shots THEN "reset" ELSE "release"
Return(u) == IF u \in Shots THEN "free" ELSE "done"

(* healthy after an error on the tab: isFatalTabErr finds its context ended,
   or one of its markers in the text of the error. *)
Judge(u) ==
  \E fatal \in BOOLEAN :
    /\ Dead(tab[u]) => fatal
    /\ healthy' = [healthy EXCEPT ![u] = healthy[u] /\ ~fatal]

-----------------------------------------------------------------------------
(* Fetch or Acquire is called. *)
Call(u) ==
  /\ pc[u] = "idle"
  /\ Goto(u, IF u \in Shots THEN "slot" ELSE "current")
  /\ UNCHANGED <<chrome, attachVars, poolVars, tabVars, assists, slots, ctx, userVars>>

TakeSlot(u) ==
  /\ pc[u] = "slot" /\ slots < Slots
  /\ slots' = slots + 1
  /\ Goto(u, "current")
  /\ UNCHANGED <<chrome, attachVars, poolVars, tabVars, assists, ctx, userVars>>

LeaveSlot(u) ==
  /\ pc[u] = "slot" /\ ctx[u] = "done"
  /\ Drop(u)
  /\ Goto(u, "done")
  /\ UNCHANGED <<chrome, attachVars, poolVars, tabVars, assists, slots>>

(* Mutant of LockPool: the request goes out without poolMu. *)
LockPool_unlocked(u) ==
  /\ pc[u] = "current" /\ ~closed
  /\ prober' = u
  /\ Goto(u, "probe")
  /\ UNCHANGED <<chrome, pool, stopped, closed, seen, poolVars, tabVars, assists, slots, ctx, userVars>>

(* currentPool: poolMu is held until the pool is known. *)
LockPool(u) ==
  /\ pc[u] = "current" /\ ~closed /\ prober = None
  /\ prober' = u
  /\ Goto(u, "probe")
  /\ UNCHANGED <<chrome, pool, stopped, closed, seen, poolVars, tabVars, assists, slots, ctx, userVars>>

FindClosed(u) ==
  /\ pc[u] = "current" /\ closed /\ prober = None
  /\ Drop(u)
  /\ Goto(u, Return(u))
  /\ UNCHANGED <<chrome, attachVars, poolVars, tabVars, assists, slots>>

(* Chrome's answer to /json/version names the identity it has then. *)
Discover(u) ==
  /\ pc[u] = "probe"
  /\ seen' = [seen EXCEPT ![u] = chrome]
  /\ Goto(u, "attach")
  /\ UNCHANGED <<chrome, pool, stopped, closed, prober, poolVars, tabVars, assists, slots, ctx, userVars>>

(* Mutant of DiscoverFails: poolMu stays locked. *)
DiscoverFails_locked(u) ==
  /\ pc[u] = "probe"
  /\ Drop(u)
  /\ Goto(u, Return(u))
  /\ UNCHANGED <<chrome, attachVars, poolVars, tabVars, assists, slots>>

DiscoverFails(u) ==
  /\ pc[u] = "probe"
  /\ prober' = None
  /\ Drop(u)
  /\ Goto(u, Return(u))
  /\ UNCHANGED <<chrome, pool, stopped, closed, seen, poolVars, tabVars, assists, slots>>

(* Mutant of Attach: the tabs of the old generation are left open. *)
Attach_keepOld(u) ==
  /\ pc[u] = "attach"
  /\ pool' = seen[u]
  /\ got' = [got EXCEPT ![u] = seen[u]]
  /\ prober' = None
  /\ seen' = [seen EXCEPT ![u] = 0]
  /\ Goto(u, "acquire")
  /\ UNCHANGED <<chrome, stopped, closed, poolVars, tabVars, assists, slots, ctx, tab, healthy, tries>>

(* An identity other than wsURL: closeAll and stop, then a new generation. *)
Attach(u) ==
  /\ pc[u] = "attach"
  /\ pool' = seen[u]
  /\ stopped' = IF seen[u] = pool THEN stopped ELSE stopped \cup {pool}
  /\ got' = [got EXCEPT ![u] = seen[u]]
  /\ prober' = None
  /\ seen' = [seen EXCEPT ![u] = 0]
  /\ Goto(u, "acquire")
  /\ UNCHANGED <<chrome, closed, poolVars, tabVars, assists, slots, ctx, tab, healthy, tries>>

-----------------------------------------------------------------------------
(* pool.acquire, on the generation currentPool returned, which may have been
   replaced since. *)
Open(u) == pc[u] = "acquire" /\ ctx[u] = "live" /\ got[u] \notin stopped

TakeIdle(u) ==
  /\ Open(u)
  /\ \E t \in idle[got[u]] :
       /\ ~Dead(t)
       /\ idle' = [idle EXCEPT ![got[u]] = @ \ {t}]
       /\ tab' = [tab EXCEPT ![u] = t]
  /\ Goto(u, "leased")
  /\ UNCHANGED <<chrome, attachVars, created, nextID, tabVars, assists, slots, ctx, got, healthy, tries>>

DropIdle(u) ==
  /\ Open(u)
  /\ \E t \in idle[got[u]] :
       /\ Dead(t)
       /\ idle' = [idle EXCEPT ![got[u]] = @ \ {t}]
       /\ Forget(t)
  /\ created' = [created EXCEPT ![got[u]] = @ - 1]
  /\ UNCHANGED <<chrome, attachVars, nextID, assists, slots, pc, ctx, userVars>>

(* Capacity for a new tab, which from here on has an id. *)
ReserveTab(u) ==
  LET g == got[u] IN
  /\ Open(u) /\ idle[g] = {} /\ created[g] < Size
  /\ created' = [created EXCEPT ![g] = @ + 1]
  /\ nextID' = [nextID EXCEPT ![g] = @ + 1]
  /\ tab' = [tab EXCEPT ![u] = <<g, nextID[g] + 1>>]
  /\ Goto(u, "create")
  /\ UNCHANGED <<chrome, attachVars, idle, tabVars, assists, slots, ctx, got, healthy, tries>>

(* newPage: three commands to Chrome under the context of the allocator, with
   no timeout and no look at the caller's context. *)
NewPage(u) ==
  /\ pc[u] = "create" /\ Works(tab[u])
  /\ Goto(u, "leased")
  /\ UNCHANGED <<chrome, attachVars, poolVars, tabVars, assists, slots, ctx, userVars>>

NewPageFails(u) ==
  /\ pc[u] = "create"
  /\ Forget(tab[u])
  /\ created' = [created EXCEPT ![got[u]] = @ - 1]
  /\ Drop(u)
  /\ Goto(u, Return(u))
  /\ UNCHANGED <<chrome, attachVars, idle, nextID, assists, slots>>

(* Mutant of AcquireFails: the wait for a tab does not look at the context. *)
AcquireFails_deaf(u) ==
  /\ pc[u] = "acquire"
  /\ got[u] \in stopped
  /\ Drop(u)
  /\ Goto(u, Return(u))
  /\ UNCHANGED <<chrome, attachVars, poolVars, tabVars, assists, slots>>

(* The context, or the allocator's, ends first. *)
AcquireFails(u) ==
  /\ pc[u] = "acquire"
  /\ ctx[u] = "done" \/ got[u] \in stopped
  /\ Drop(u)
  /\ Goto(u, Return(u))
  /\ UNCHANGED <<chrome, attachVars, poolVars, tabVars, assists, slots>>

(* Fetch checks its context again; a session keeps the tab. *)
Leased(u) ==
  /\ pc[u] = "leased"
  /\ Goto(u, IF u \in Leases THEN "held"
             ELSE IF ctx[u] = "done" THEN "release"
             ELSE IF u \in Shots THEN "metrics" ELSE "navigate")
  /\ UNCHANGED <<chrome, attachVars, poolVars, tabVars, assists, slots, ctx, userVars>>

(* The session ends and calls the release it was given. *)
EndLease(u) ==
  /\ pc[u] = "held"
  /\ Goto(u, "release")
  /\ UNCHANGED <<chrome, attachVars, poolVars, tabVars, assists, slots, ctx, userVars>>

-----------------------------------------------------------------------------
SetMetrics(u) ==
  /\ pc[u] = "metrics" /\ Works(tab[u])
  /\ override' = override \cup {tab[u]}
  /\ Goto(u, "navigate")
  /\ UNCHANGED <<chrome, attachVars, poolVars, dead, assists, slots, ctx, userVars>>

(* Mutant of SetMetricsFails: the deferred reset is set up too late. *)
SetMetricsFails_noReset(u) ==
  /\ pc[u] = "metrics"
  /\ override' \in {override, override \cup {tab[u]}}
  /\ Judge(u)
  /\ Goto(u, "release")
  /\ UNCHANGED <<chrome, attachVars, poolVars, dead, assists, slots, ctx, got, tab, tries>>

(* "cancelled after Chrome applied it": the override may be there. *)
SetMetricsFails(u) ==
  /\ pc[u] = "metrics"
  /\ override' \in {override, override \cup {tab[u]}}
  /\ Judge(u)
  /\ Goto(u, "reset")
  /\ UNCHANGED <<chrome, attachVars, poolVars, dead, assists, slots, ctx, got, tab, tries>>

Navigate(u) ==
  /\ pc[u] = "navigate" /\ Works(tab[u])
  /\ tries' = [tries EXCEPT ![u] = @ + 1]
  /\ Goto(u, "settle")
  /\ UNCHANGED <<chrome, attachVars, poolVars, tabVars, assists, slots, ctx, got, tab, healthy>>

NavigateFails(u) ==
  /\ pc[u] = "navigate"
  /\ Judge(u)
  /\ Goto(u, Unwind(u))
  /\ UNCHANGED <<chrome, attachVars, poolVars, tabVars, assists, slots, ctx, got, tab, tries>>

(* What settle can return: content, an error, or a challenge nobody solved,
   which alone is worth another attempt. *)
Content(u) ==
  /\ Works(tab[u])
  /\ healthy' = healthy
  /\ Goto(u, IF u \in Shots THEN "capture" ELSE "release")

Broken(u) == Judge(u) /\ Goto(u, Unwind(u))

Unresolved(u) ==
  /\ Judge(u)
  /\ Goto(u, IF healthy'[u] /\ ctx[u] = "live" /\ tries[u] <= Retries
             THEN "retry" ELSE Unwind(u))

Outcome(u) ==
  /\ Content(u) \/ Broken(u) \/ Unresolved(u)
  /\ UNCHANGED <<chrome, attachVars, poolVars, tabVars, slots, ctx, got, tab, tries>>

(* awaitReady, and waitOut while the challenge may still resolve itself. *)
Settle(u) ==
  /\ pc[u] = "settle"
  /\ Outcome(u)
  /\ UNCHANGED assists

(* addAssist replaces what the map holds for the page id. *)
AskHuman(u) ==
  /\ pc[u] = "settle"
  /\ assists' = {a \in assists : a[1] # tab[u][2]} \cup {<<tab[u][2], u>>}
  /\ Goto(u, "assist")
  /\ UNCHANGED <<chrome, attachVars, poolVars, tabVars, slots, ctx, userVars>>

(* Mutant of AssistEnds: an error returns before removeAssist. *)
AssistEnds_errorFirst(u) ==
  /\ pc[u] = "assist"
  /\ Outcome(u)
  /\ assists' = IF healthy'[u] THEN {a \in assists : a[1] # tab[u][2]} ELSE assists

(* waitOut for a human, then removeAssist whatever came of it. *)
AssistEnds(u) ==
  /\ pc[u] = "assist"
  /\ Outcome(u)
  /\ assists' = {a \in assists : a[1] # tab[u][2]}

(* sleepCtx between attempts. *)
Retry(u) ==
  /\ pc[u] = "retry"
  /\ Goto(u, "navigate")
  /\ UNCHANGED <<chrome, attachVars, poolVars, tabVars, assists, slots, ctx, userVars>>

GiveUpRetry(u) ==
  /\ pc[u] = "retry" /\ ctx[u] = "done"
  /\ Goto(u, Unwind(u))
  /\ UNCHANGED <<chrome, attachVars, poolVars, tabVars, assists, slots, ctx, userVars>>

(* capture: a failure, a late challenge included, is never tried again. *)
Capture(u) ==
  /\ pc[u] = "capture"
  /\ \/ Works(tab[u]) /\ healthy' = healthy
     \/ Judge(u)
  /\ Goto(u, "reset")
  /\ UNCHANGED <<chrome, attachVars, poolVars, tabVars, assists, slots, ctx, got, tab, tries>>

-----------------------------------------------------------------------------
(* The deferred calls: clear the override under the tab's own lifetime ... *)
Reset(u) ==
  /\ pc[u] = "reset" /\ Works(tab[u])
  /\ override' = override \ {tab[u]}
  /\ Goto(u, "release")
  /\ UNCHANGED <<chrome, attachVars, poolVars, dead, assists, slots, ctx, userVars>>

ResetFails(u) ==
  /\ pc[u] = "reset"
  /\ healthy' = [healthy EXCEPT ![u] = FALSE]
  /\ Goto(u, "release")
  /\ UNCHANGED <<chrome, attachVars, poolVars, tabVars, assists, slots, ctx, got, tab, tries>>

(* ... pool.release: the tab is parked in the generation that owns it ... *)
Park(u) ==
  /\ pc[u] = "release" /\ healthy[u] /\ Works(tab[u])
  /\ idle' = [idle EXCEPT ![got[u]] = @ \cup {tab[u]}]
  /\ Drop(u)
  /\ Goto(u, Return(u))
  /\ UNCHANGED <<chrome, attachVars, created, nextID, tabVars, assists, slots>>

(* Mutant of Retire: the capacity goes back to the pool of today. *)
Retire_current(u) ==
  /\ pc[u] = "release"
  /\ Forget(tab[u])
  /\ created' = [created EXCEPT ![pool] = @ - 1]
  /\ Drop(u)
  /\ Goto(u, Return(u))
  /\ UNCHANGED <<chrome, attachVars, idle, nextID, assists, slots>>

(* ... or retired, when it is unhealthy, dead or cannot be parked ... *)
Retire(u) ==
  /\ pc[u] = "release"
  /\ Forget(tab[u])
  /\ created' = [created EXCEPT ![got[u]] = @ - 1]
  /\ Drop(u)
  /\ Goto(u, Return(u))
  /\ UNCHANGED <<chrome, attachVars, idle, nextID, assists, slots>>

(* ... and a capture slot is given back. *)
FreeSlot(u) ==
  /\ pc[u] = "free"
  /\ slots' = slots - 1
  /\ Goto(u, "done")
  /\ UNCHANGED <<chrome, attachVars, poolVars, tabVars, assists, ctx, userVars>>

-----------------------------------------------------------------------------
Close ==
  /\ ~closed /\ prober = None
  /\ closed' = TRUE
  /\ stopped' = stopped \cup {pool}
  /\ UNCHANGED <<chrome, pool, prober, seen, poolVars, tabVars, assists, slots, pc, ctx, userVars>>

Restart ==
  /\ chrome < MaxChrome
  /\ chrome' = chrome + 1
  /\ UNCHANGED <<attachVars, poolVars, tabVars, assists, slots, pc, ctx, userVars>>

(* A tab crashes, or its connection is found to be gone. *)
TabDies(t) ==
  /\ ~Dead(t)
  /\ dead' = dead \cup {t}
  /\ UNCHANGED <<chrome, attachVars, poolVars, override, assists, slots, pc, ctx, userVars>>

(* The caller's context, where somebody still reads it: what ends it while the
   tab is created is seen once there is one. *)
ContextEnds(u) ==
  /\ ctx[u] = "live"
  /\ pc[u] \notin {"idle", "create", "held", "capture", "reset", "release", "free", "done"}
  /\ ctx' = [ctx EXCEPT ![u] = "done"]
  /\ UNCHANGED <<chrome, attachVars, poolVars, tabVars, assists, slots, pc, userVars>>

Held == {tab[u] : u \in {v \in Users : tab[v] # None}}

(* What goes on by itself: everything it waits for on Chrome has a timeout. *)
Proceed(u) ==
  \/ TakeSlot(u) \/ LeaveSlot(u)
  \/ LockPool(u) \/ FindClosed(u) \/ Discover(u) \/ DiscoverFails(u) \/ Attach(u)
  \/ TakeIdle(u) \/ DropIdle(u) \/ ReserveTab(u) \/ AcquireFails(u)
  \/ Leased(u) \/ SetMetrics(u) \/ SetMetricsFails(u)
  \/ Navigate(u) \/ NavigateFails(u) \/ Settle(u) \/ AskHuman(u) \/ AssistEnds(u)
  \/ Retry(u) \/ GiveUpRetry(u) \/ Capture(u)
  \/ Reset(u) \/ ResetFails(u) \/ Park(u) \/ Retire(u) \/ FreeSlot(u)

Step(u) == Proceed(u) \/ NewPage(u) \/ NewPageFails(u) \/ EndLease(u)

Next ==
  \/ \E u \in Users : Call(u) \/ Step(u) \/ ContextEnds(u)
  \/ \E t \in Held \cup UNION {idle[g] : g \in Generations} : TabDies(t)
  \/ Close \/ Restart

Spec == Init /\ [][Next]_vars

(* Goroutines that can run do run, a fetch has a deadline, and the end of an
   allocator ends what is created under it.  A Chrome that hangs may keep
   newPage waiting for ever, a session lasts as long as it is held, and the
   context of its request has no deadline.  Nobody is obliged to call, to
   restart or to close. *)
FairSpec ==
  /\ Spec
  /\ \A u \in Users :
       /\ WF_vars(Proceed(u))
       /\ WF_vars(got[u] \in stopped /\ NewPageFails(u))
  /\ \A u \in Shots \cup Pages : WF_vars(ContextEnds(u))

-----------------------------------------------------------------------------
(* Type invariant. *)
TypeOK ==
  /\ chrome \in 1 .. MaxChrome
  /\ pool \in Generations /\ stopped \subseteq Generations /\ closed \in BOOLEAN
  /\ prober \in Users \cup {None} /\ seen \in [Users -> Generations]
  /\ idle \in [Generations -> SUBSET Tabs]
  /\ created \in [Generations -> Int] /\ nextID \in [Generations -> Nat]
  /\ dead \subseteq Tabs /\ override \subseteq Tabs
  /\ assists \subseteq Nat \X Users
  /\ slots \in Int
  /\ pc \in [Users -> PCs] /\ ctx \in [Users -> {"live", "done"}]
  /\ got \in [Users -> Generations]
  /\ tab \in [Users -> Tabs \cup {None}]
  /\ healthy \in [Users -> BOOLEAN]
  /\ tries \in [Users -> 0 .. Retries + 1]

(* "creates fresh tabs when Chrome's websocket identity changes": a late
   answer never re-attaches a Chrome that was already replaced. *)
GenerationsAdvance == [][pool' >= pool]_vars

(* A tab somebody could still drive belongs to the attached generation, and
   after Close there is none: no tab outlives its allocator. *)
OnlyAttachedTabsLive ==
  \A t \in Held \cup UNION {idle[g] : g \in Generations} :
    ~Dead(t) => t[1] = pool /\ ~closed

(* "Return to the owning generation, even if Chrome restarts during the
   lease": every generation counts its idle and its leased tabs, never those
   of another, and stays within MaxTabs. *)
GenerationsAccount ==
  \A g \in Generations :
    /\ \A t \in idle[g] : t[1] = g
    /\ created[g] = Cardinality(idle[g])
                    + Cardinality({u \in Users : tab[u] # None /\ tab[u][1] = g})
    /\ created[g] <= Size

(* "Return to the owning generation, even if Chrome restarts during the lease":
   each generation is a pool of TabLeases, whoever still has its tabs. *)
Lending == INSTANCE TabLeases WITH
  Lessees <- Users, Pools <- Generations, Tabs <- [g \in Generations |-> {g} \X Nat],
  held <- tab
LendingSpec == Lending!Spec

(* No page fetch or session meets the screenshot's metrics: an idle tab has
   none, however setting, driving or resetting it went. *)
IdleTabsAreReset == \A g \in Generations : idle[g] \cap override = {}

(* /healthz lists a challenge only while somebody waits for its human. *)
NoStaleAssist == \A a \in assists : pc[a[2]] = "assist"

(* A capture slot is held by exactly the screenshots between its two ends,
   whichever of the returns they leave by. *)
SlotsMatch ==
  /\ slots = Cardinality({u \in Shots : pc[u] \notin {"idle", "slot", "done"}})
  /\ slots <= Slots

(* What the code sets no time for: Chrome creating a tab in the attached
   generation, and a session that is held. *)
Creating(u) == pc[u] = "create" /\ got[u] \notin stopped
Untimed(u) == Creating(u) \/ pc[u] = "held"

(* "RequestTimeout bounds a whole /fetch call", but for one wait: although
   Chrome restarts, tabs die and others hold the lock, the slots and the tabs
   it waits for, every fetch returns or is itself creating a tab; and every
   session is opened and given back, or somebody is in a wait that has no end
   of its own. *)
EveryCallReturns ==
  /\ \A u \in Shots \cup Pages : pc[u] # "idle" ~> pc[u] = "done" \/ Creating(u)
  /\ \A u \in Leases : pc[u] # "idle" ~> pc[u] = "done" \/ \E v \in Users : Untimed(v)
=============================================================================
