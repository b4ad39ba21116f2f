----------------------------- MODULE TabLeases -----------------------------
(***************************************************************************)
(* What the tab pools promise their callers, fetches and sessions: a tab   *)
(* is idle in its pool or with one caller, a pool has no more than Size of *)
(* them, and a tab that is given back goes to the pool it came from or is  *)
(* gone.  It says nothing of waiting, of Chrome and of how the promise is  *)
(* kept (TabPool); a Manager has one pool for each Chrome it has met.      *)
(***************************************************************************)
EXTENDS Naturals, FiniteSets

CONSTANTS
  Lessees,  \* the calls of acquire
  Pools,    \* the pools
  Tabs,     \* of a pool: the tabs it can ever make
  Size,     \* how many of them it can have at once
  None      \* no tab

VARIABLES
  idle,  \* of a pool: its tabs that nobody has
  held   \* of a caller: the tab it has

Init ==
  /\ \A p \in Pools : /\ idle[p] \subseteq Tabs[p] /\ IsFiniteSet(idle[p])
                      /\ Cardinality(idle[p]) <= Size
  /\ held = [l \in Lessees |-> None]

HasNone(l) == held[l] = None
Hold(l, t) == held' = [held EXCEPT ![l] = t]
Existing(p) == idle[p] \cup ({held[l] : l \in Lessees} \cap Tabs[p])

(* A caller gets an idle tab ... *)
Take(l, p) ==
  /\ HasNone(l)
  /\ \E t \in idle[p] : idle' = [idle EXCEPT ![p] = @ \ {t}] /\ Hold(l, t)

(* ... or, while there is room, one that did not exist. *)
Make(l, p) ==
  /\ HasNone(l) /\ Cardinality(Existing(p)) < Size
  /\ held'[l] \in Tabs[p] \ Existing(p) /\ Hold(l, held'[l])
  /\ UNCHANGED idle

(* A tab is given back to its pool ... *)
Park(l, p) ==
  /\ held[l] \in Tabs[p]
  /\ idle' = [idle EXCEPT ![p] = @ \cup {held[l]}]
  /\ Hold(l, None)

(* ... or retired; so is an idle one that was lost. *)
Retire(l) == ~HasNone(l) /\ Hold(l, None) /\ UNCHANGED idle

Discard(p) == \E t \in idle[p] : idle' = [idle EXCEPT ![p] = @ \ {t}] /\ UNCHANGED held

Next ==
  \E p \in Pools :
    \/ \E l \in Lessees : Take(l, p) \/ Make(l, p) \/ Park(l, p) \/ Retire(l)
    \/ Discard(p)

Spec == Init /\ [][Next]_<<idle, held>>
=============================================================================
