------------------------------ MODULE TabPool ------------------------------
(***************************************************************************)
(* internal/browser/pool.go: one generation of the tab pool.               *)
(*                                                                         *)
(* Every element of Users is one acquire and the release that follows it.  *)
(* An acquire creates at most one tab, so a tab is named after the user    *)
(* that created it.  Critical sections of pool.mu are single steps; what   *)
(* happens between them (Chrome creating, parking or losing a tab, a       *)
(* context ending) interleaves.                                            *)
(***************************************************************************)
EXTENDS Integers, Sequences, FiniteSets

CONSTANTS
  Users,  \* pairs of acquire and release
  Size,   \* pool.size, at least 1 by newPool
  None    \* nil

ASSUME TabPoolAssumption ==
  IsFiniteSet(Users) /\ Size \in Nat \ {0} /\ None \notin Users

VARIABLES
  pc,       \* where in acquire or release a user is
  tab,      \* the tab it holds, or is checking, parking or retiring
  ctx,      \* its context: "live" or "done"
  free,     \* pool.free, a channel of capacity Size
  created,  \* pool.created
  busy,     \* pool.busy
  retired,  \* pool.retired
  pages,    \* pool.pages
  open,     \* users waiting on a changed channel nobody has closed yet
  dead,     \* tabs whose context has ended
  used,     \* tabs that show a page, not about:blank
  alloc     \* the allocator's context: "live" or "done"

poolVars == <<free, created, busy, retired, pages, open>>
vars == <<pc, tab, ctx, free, created, busy, retired, pages, open, dead, used, alloc>>

Acquiring == {"acquire", "lock", "check", "drop", "discard", "create", "uncreate", "wait", "mark"}
Releasing == {"release", "parking", "return", "retire", "remove"}
PCs == Acquiring \cup Releasing \cup {"idle", "leased", "done"}

(* The phases in which a user accounts for one tab in created. *)
Accounted == {"check", "drop", "discard", "create", "uncreate", "mark", "leased"} \cup Releasing

Init ==
  /\ pc = [u \in Users |-> "idle"]
  /\ tab = [u \in Users |-> None]
  /\ ctx = [u \in Users |-> "live"]
  /\ free = <<>> /\ created = 0 /\ busy = 0 /\ retired = 0
  /\ pages = {} /\ open = {} /\ dead = {} /\ used = {}
  /\ alloc = "live"

Goto(u, next) == pc' = [pc EXCEPT ![u] = next]
Hold(u, t) == tab' = [tab EXCEPT ![u] = t]

(* notifyLocked: close changed and replace it. *)
Notify == open' = {}

-----------------------------------------------------------------------------
Acquire(u) ==
  /\ pc[u] = "idle"
  /\ Goto(u, "acquire")
  /\ UNCHANGED <<tab, ctx, poolVars, dead, used, alloc>>

(* acquire's loop: the contexts are checked, then the lock is taken. *)
Enter(u) ==
  /\ pc[u] = "acquire" /\ ctx[u] = "live" /\ alloc = "live"
  /\ Goto(u, "lock")
  /\ UNCHANGED <<tab, ctx, poolVars, dead, used, alloc>>

Refuse(u) ==
  /\ pc[u] = "acquire" /\ (ctx[u] = "done" \/ alloc = "done")
  /\ Goto(u, "done")
  /\ UNCHANGED <<tab, ctx, poolVars, dead, used, alloc>>

(* Mutant of TakeFree: looks at the idle tab without receiving it. *)
TakeFree_peek(u) ==
  /\ pc[u] = "lock" /\ free # <<>>
  /\ Hold(u, Head(free))
  /\ Goto(u, "check")
  /\ UNCHANGED <<ctx, poolVars, dead, used, alloc>>

(* Under the lock: an idle tab, else a creation slot, else the channel that
   announces the next of either. *)
TakeFree(u) ==
  /\ pc[u] = "lock" /\ free # <<>>
  /\ Hold(u, Head(free))
  /\ free' = Tail(free)
  /\ Goto(u, "check")
  /\ UNCHANGED <<ctx, created, busy, retired, pages, open, dead, used, alloc>>

ReserveTab(u) ==
  /\ pc[u] = "lock" /\ free = <<>> /\ created < Size
  /\ created' = created + 1
  /\ Goto(u, "create")
  /\ UNCHANGED <<tab, ctx, free, busy, retired, pages, open, dead, used, alloc>>

AwaitChange(u) ==
  /\ pc[u] = "lock" /\ free = <<>> /\ created >= Size
  /\ open' = open \cup {u}
  /\ Goto(u, "wait")
  /\ UNCHANGED <<tab, ctx, free, created, busy, retired, pages, dead, used, alloc>>

(* The select at the end of the loop. *)
Awake(u) ==
  /\ pc[u] = "wait" /\ u \notin open
  /\ Goto(u, "acquire")
  /\ UNCHANGED <<tab, ctx, poolVars, dead, used, alloc>>

StopWaiting(u) ==
  /\ pc[u] = "wait" /\ (ctx[u] = "done" \/ alloc = "done")
  /\ open' = open \ {u}
  /\ Goto(u, "done")
  /\ UNCHANGED <<tab, ctx, free, created, busy, retired, pages, dead, used, alloc>>

(* An idle tab may have lost its connection since it was parked. *)
CheckTab(u) ==
  /\ pc[u] = "check"
  /\ Goto(u, IF tab[u] \in dead THEN "drop" ELSE "mark")
  /\ UNCHANGED <<tab, ctx, poolVars, dead, used, alloc>>

MarkBusy(u) ==
  /\ pc[u] = "mark"
  /\ busy' = busy + 1
  /\ Goto(u, "leased")
  /\ UNCHANGED <<tab, ctx, free, created, retired, pages, open, dead, used, alloc>>

(* newPage. *)
NewPage(u) ==
  /\ pc[u] = "create" /\ alloc = "live"
  /\ Hold(u, u)
  /\ pages' = pages \cup {u}
  /\ Goto(u, "mark")
  /\ UNCHANGED <<ctx, free, created, busy, retired, open, dead, used, alloc>>

NewPageFails(u) ==
  /\ pc[u] = "create"
  /\ Goto(u, "uncreate")
  /\ UNCHANGED <<tab, ctx, poolVars, dead, used, alloc>>

(* Mutant of Uncreate: the reserved capacity is not given back. *)
Uncreate_leaky(u) ==
  /\ pc[u] = "uncreate"
  /\ Notify
  /\ Goto(u, "done")
  /\ UNCHANGED <<tab, ctx, free, created, busy, retired, pages, dead, used, alloc>>

Uncreate(u) ==
  /\ pc[u] = "uncreate"
  /\ created' = created - 1
  /\ Notify
  /\ Goto(u, "done")
  /\ UNCHANGED <<tab, ctx, free, busy, retired, pages, dead, used, alloc>>

-----------------------------------------------------------------------------
(* What a lease is for: the tab navigates somewhere. *)
Navigate(u) ==
  /\ pc[u] = "leased" /\ tab[u] \notin dead /\ tab[u] \notin used
  /\ used' = used \cup {tab[u]}
  /\ UNCHANGED <<pc, tab, ctx, poolVars, dead, alloc>>

(* release, called with healthy or not. *)
Release(u) ==
  /\ pc[u] = "leased"
  /\ busy' = busy - 1
  /\ \E healthy \in BOOLEAN : Goto(u, IF healthy THEN "release" ELSE "retire")
  /\ UNCHANGED <<tab, ctx, free, created, retired, pages, open, dead, used, alloc>>

ReleaseDead(u) ==
  /\ pc[u] = "release"
  /\ Goto(u, IF tab[u] \in dead THEN "retire" ELSE "parking")
  /\ UNCHANGED <<tab, ctx, poolVars, dead, used, alloc>>

(* park navigates to about:blank; it can fail or time out on a live tab. *)
Park(u) ==
  /\ pc[u] = "parking" /\ tab[u] \notin dead
  /\ used' = used \ {tab[u]}
  /\ Goto(u, "return")
  /\ UNCHANGED <<tab, ctx, poolVars, dead, alloc>>

(* Mutant of ParkFails: the error of park is ignored. *)
ParkFails_ignored(u) ==
  /\ pc[u] = "parking"
  /\ Goto(u, "return")
  /\ UNCHANGED <<tab, ctx, poolVars, dead, used, alloc>>

ParkFails(u) ==
  /\ pc[u] = "parking"
  /\ Goto(u, "retire")
  /\ UNCHANGED <<tab, ctx, poolVars, dead, used, alloc>>

(* The send on free happens with the lock held: it must never block. *)
Return(u) ==
  /\ pc[u] = "return" /\ Len(free) < Size
  /\ free' = Append(free, tab[u])
  /\ Notify
  /\ Hold(u, None)
  /\ Goto(u, "done")
  /\ UNCHANGED <<ctx, created, busy, retired, pages, dead, used, alloc>>

(* retire, called from release and from acquire: cancel the tab ... *)
CancelTab(u) ==
  /\ pc[u] \in {"retire", "drop"}
  /\ dead' = dead \cup {tab[u]}
  /\ Goto(u, IF pc[u] = "drop" THEN "discard" ELSE "remove")
  /\ UNCHANGED <<tab, ctx, poolVars, used, alloc>>

(* Mutant of Retire: nobody is told that there is capacity again. *)
Retire_silent(u) ==
  /\ pc[u] \in {"remove", "discard"}
  /\ created' = created - 1
  /\ retired' = retired + 1
  /\ pages' = pages \ {tab[u]}
  /\ Hold(u, None)
  /\ Goto(u, IF pc[u] = "discard" THEN "acquire" ELSE "done")
  /\ UNCHANGED <<ctx, free, busy, open, dead, used, alloc>>

(* ... and give its capacity back; acquire then tries again. *)
Retire(u) ==
  /\ pc[u] \in {"remove", "discard"}
  /\ created' = created - 1
  /\ retired' = retired + 1
  /\ pages' = pages \ {tab[u]}
  /\ Notify
  /\ Hold(u, None)
  /\ Goto(u, IF pc[u] = "discard" THEN "acquire" ELSE "done")
  /\ UNCHANGED <<ctx, free, busy, dead, used, alloc>>

-----------------------------------------------------------------------------
(* closeAll, when the Manager replaces the pool. *)
CloseAll ==
  /\ pages # {}
  /\ pages' = {}
  /\ dead' = dead \cup pages
  /\ UNCHANGED <<pc, tab, ctx, free, created, busy, retired, open, used, alloc>>

(* The allocator's context ends, and with it every tab made under it. *)
AllocEnds ==
  /\ alloc = "live"
  /\ alloc' = "done"
  /\ dead' = Users
  /\ UNCHANGED <<pc, tab, ctx, poolVars, used>>

(* A tab crashes or loses its connection. *)
TabDies(t) ==
  /\ t \notin dead
  /\ \/ \E i \in DOMAIN free : free[i] = t
     \/ \E u \in Users : tab[u] = t
  /\ dead' = dead \cup {t}
  /\ UNCHANGED <<pc, tab, ctx, poolVars, used, alloc>>

ContextEnds(u) ==
  /\ pc[u] \in Acquiring /\ ctx[u] = "live"
  /\ ctx' = [ctx EXCEPT ![u] = "done"]
  /\ UNCHANGED <<pc, tab, poolVars, dead, used, alloc>>

(* What one acquire and its release do by themselves. *)
Proceed(u) ==
  \/ Enter(u) \/ Refuse(u) \/ TakeFree(u) \/ ReserveTab(u) \/ AwaitChange(u)
  \/ Awake(u) \/ StopWaiting(u) \/ CheckTab(u) \/ MarkBusy(u) \/ Uncreate(u)
  \/ ReleaseDead(u) \/ Park(u) \/ ParkFails(u) \/ Return(u)
  \/ CancelTab(u) \/ Retire(u)

Step(u) == Proceed(u) \/ NewPage(u) \/ NewPageFails(u) \/ Release(u)

Next ==
  \/ \E u \in Users : Acquire(u) \/ Step(u) \/ Navigate(u) \/ ContextEnds(u) \/ TabDies(u)
  \/ CloseAll \/ AllocEnds

Spec == Init /\ [][Next]_vars

(* Goroutines that can run do run, parking has a timeout, and a creation ends
   with its allocator.  Nobody is obliged to acquire, to give a lease back or to
   give up, and Chrome need not answer newPage, which has no timeout. *)
FairSpec ==
  Spec /\ \A u \in Users :
            /\ WF_vars(Proceed(u))
            /\ WF_vars(alloc = "done" /\ NewPageFails(u))

-----------------------------------------------------------------------------
(* Type invariant. *)
TypeOK ==
  /\ pc \in [Users -> PCs]
  /\ tab \in [Users -> Users \cup {None}]
  /\ ctx \in [Users -> {"live", "done"}]
  /\ free \in Seq(Users)
  /\ created \in 0 .. Size
  /\ busy \in Int /\ retired \in Nat
  /\ pages \subseteq Users /\ open \subseteq Users
  /\ dead \subseteq Users /\ used \subseteq Users
  /\ alloc \in {"live", "done"}

(* created counts exactly the idle tabs and the tabs that somebody creates,
   holds, checks, parks or retires, whatever of these fails; so the numbers
   stat reports fit together. *)
Accounting ==
  /\ created = Len(free) + Cardinality({u \in Users : pc[u] \in Accounted})
  /\ busy = Cardinality({u \in Users : pc[u] = "leased"})
  /\ busy + Len(free) <= created

(* release sends on free while it holds the lock: the send never blocks. *)
ReturnNeverBlocks == \A u \in Users : pc[u] = "return" => Len(free) < Size

(* No tab has two users, and none that is idle has one. *)
NoSharedTab ==
  /\ \A u, v \in Users : tab[u] # None /\ tab[u] = tab[v] => u = v
  /\ \A u \in Users, i \in DOMAIN free : tab[u] # free[i]
  /\ \A i, j \in DOMAIN free : free[i] = free[j] => i = j

(* "acquire returns a ready tab": a caller gets an idle tab or a new one within
   Size, and has it for itself until it is idle again or gone, whatever is
   created, checked, lost, parked and retired meanwhile: TabPool implements
   TabLeases, as its only pool. *)
Lending == INSTANCE TabLeases WITH
  Lessees <- Users, Pools <- {None}, Tabs <- [p \in {None} |-> Users],
  idle <- [p \in {None} |-> {free[i] : i \in DOMAIN free}], held <- tab
LendingSpec == Lending!Spec

(* "Wake up for both cases, otherwise waiters on a full pool can stall until
   their deadline": whoever waits on a channel not yet closed has nothing to
   wake up for. *)
NoLostWakeup ==
  \A u \in open : pc[u] = "wait" /\ free = <<>> /\ created = Size

(* "no page state leaks between fetches": an idle tab shows about:blank. *)
FreeTabsAreBlank == \A i \in DOMAIN free : free[i] \notin used

(* Every acquire and its release come to an end, even if no context ends, or
   somebody has a lease or waits for Chrome to create a tab: nothing else makes
   others wait. *)
EveryUserFinishes ==
  \A u \in Users :
    pc[u] # "idle" ~>
      \/ pc[u] = "done"
      \/ \E v \in Users : pc[v] = "leased" \/ (pc[v] = "create" /\ alloc = "live")
=============================================================================
