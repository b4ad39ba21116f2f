------------------------------ MODULE Sessions ------------------------------
(***************************************************************************)
(* internal/session/session.go: interactive sessions on leased tabs.       *)
(*                                                                         *)
(* Every element of Opens is one call of Manager.Open, and names the       *)
(* session it makes (ids are never reused).  Every element of Acts is one  *)
(* call of Manager.Run, by the HTTP handler or by a macro replay, with the *)
(* session it got earlier.  stage[s] follows s from Open to the return of  *)
(* its tab; s is in m.sessions exactly while it is "live".  m.mu is a step *)
(* for everybody but the reaper, which keeps it while it looks at one      *)
(* session after the other.  The pool is what pool.go promises (module     *)
(* TabPool) for tabs that stay alive.  Time is kept as ages, as in         *)
(* Scheduler; a torn read of lastUsed in Reap yields its old or its new    *)
(* value, because only its monotonic word is used.                         *)
(***************************************************************************)
EXTENDS Integers, Sequences, FiniteSets

CONSTANTS
  Opens,        \* calls of Open, and the sessions they make
  Held,         \* the sessions a recording may hold
  Acts,         \* calls of Run
  Plans,        \* what these do: a set of functions Acts -> Kinds
  Tabs,         \* the tabs of the pool
  MaxSessions,  \* Options.MaxSessions
  MaxIdle,      \* Options.MaxIdle, in ticks
  AssertTTL,    \* Options.AssertTTL, in ticks
  MaxLog,       \* Options.MaxLog
  None

(* "screenshot" also stands for wait, content, fields, download and autofill:
   they command the tab and leave the session and the page as they are. *)
Kinds == {"navigate", "click", "password", "exact", "landmark", "screenshot"}

ASSUME SessionsAssumption ==
  /\ Plans \subseteq [Acts -> Kinds] /\ Held \subseteq Opens
  /\ IsFiniteSet(Opens) /\ IsFiniteSet(Acts) /\ IsFiniteSet(Tabs)
  /\ MaxSessions \in Nat /\ MaxIdle \in Nat /\ AssertTTL \in Nat /\ MaxLog \in Nat
  /\ None \notin Tabs /\ None \notin Opens

VARIABLES
  stage,     \* where a session is between Open and the return of its tab
  tab,       \* Session.tab
  hold,      \* Session.hold
  idle,      \* time since Session.lastUsed
  asserted,  \* time since Session.assertedAt
  log,       \* Session.log: the calls of Run it records
  free,      \* tabs idle in the pool
  page,      \* what a tab shows: "blank", or the page of a "site"
  reaper,    \* where Reap is
  todo,      \* sessions its loop has still to look at
  subject,   \* the session it looks at or closes
  kind,      \* what a call of Run does
  pc,        \* where it is
  sess,      \* the session it runs on
  ok,        \* whether it succeeded
  ended,     \* history: time since its exact assertion was recorded
  returned   \* history: the calls that came back from a session, in this order

sessionVars == <<stage, tab, hold, idle, asserted, log>>
poolVars == <<free, page>>
reapVars == <<reaper, todo, subject>>
pastVars == <<ended, returned>>
actVars  == <<kind, pc, sess, ok, pastVars>>
vars == <<stage, tab, hold, idle, asserted, log, free, page, reaper, todo,
          subject, kind, pc, sess, ok, ended, returned>>

Stages == {"new", "lease", "insert", "live", "removed", "expired", "closing",
           "parked", "blank", "closed", "failed"}

(* Session.closing is set. *)
Closing == {"closing", "parked", "blank", "closed"}

(* The phases in which dispatch sends commands to the tab. *)
Dispatched == {"dispatch", "type", "typing", "capturing"}
PCs == Dispatched \cup {"new", "found", "record", "done", "refused"}

IdleCap == MaxIdle + 1

Init ==
  /\ stage = [s \in Opens |-> "new"]
  /\ tab = [s \in Opens |-> None]
  /\ hold = [s \in Opens |-> FALSE]
  /\ idle = [s \in Opens |-> 0]
  /\ asserted = [s \in Opens |-> AssertTTL]   \* the zero time
  /\ log = [s \in Opens |-> <<>>]
  /\ free = Tabs
  /\ page = [t \in Tabs |-> "blank"]
  /\ reaper = "off" /\ todo = {} /\ subject = None
  /\ kind \in Plans
  /\ pc = [a \in Acts |-> "new"]
  /\ sess = [a \in Acts |-> None]
  /\ ok = [a \in Acts |-> FALSE]
  /\ ended = [a \in Acts |-> AssertTTL]
  /\ returned = [s \in Opens |-> <<>>]

Live == {s \in Opens : stage[s] = "live"}
ManagerUnlocked == reaper \notin {"loop", "decide"}
Enter(s, st) == stage' = [stage EXCEPT ![s] = st]
Goto(a, next) == pc' = [pc EXCEPT ![a] = next]

-----------------------------------------------------------------------------
(* Open: the limit is checked under the lock, the tab leased outside of it,
   and the session put into the map under the lock again. *)
Admit(s) ==
  /\ stage[s] = "new" /\ ManagerUnlocked
  /\ Enter(s, IF Cardinality(Live) >= MaxSessions THEN "failed" ELSE "lease")
  /\ UNCHANGED <<tab, hold, idle, asserted, log, poolVars, reapVars, actVars>>

LeaseTab(s) ==
  /\ stage[s] = "lease"
  /\ \E t \in free :
       /\ free' = free \ {t}
       /\ tab' = [tab EXCEPT ![s] = t]
  /\ Enter(s, "insert")
  /\ UNCHANGED <<hold, idle, asserted, log, page, reapVars, actVars>>

LeaseFails(s) ==
  /\ stage[s] = "lease"
  /\ Enter(s, "failed")
  /\ UNCHANGED <<tab, hold, idle, asserted, log, poolVars, reapVars, actVars>>

Insert(s) ==
  /\ stage[s] = "insert" /\ ManagerUnlocked
  /\ Enter(s, "live")
  /\ UNCHANGED <<tab, hold, idle, asserted, log, poolVars, reapVars, actVars>>

(* SetHold, by whoever got the session while it was live. *)
SetHold(s) ==
  /\ s \in Held /\ stage[s] \in {"live", "removed", "expired"} \cup Closing
  /\ hold' = [hold EXCEPT ![s] = ~hold[s]]
  /\ UNCHANGED <<stage, tab, idle, asserted, log, poolVars, reapVars, actVars>>

(* Close takes the session out of the map ... *)
Close(s) ==
  /\ stage[s] = "live" /\ ManagerUnlocked
  /\ Enter(s, "removed")
  /\ UNCHANGED <<tab, hold, idle, asserted, log, poolVars, reapVars, actVars>>

(* ... and so does Reap, for every session that is not held and idle for too
   long.  s.mu is only held for the look at hold. *)
Reap ==
  /\ reaper = "off"
  /\ reaper' = "loop"
  /\ todo' = Live
  /\ UNCHANGED <<sessionVars, poolVars, subject, actVars>>

ReadHold(s) ==
  /\ reaper = "loop" /\ s \in todo
  /\ todo' = todo \ {s}
  /\ IF hold[s] THEN UNCHANGED <<reaper, subject>>
                ELSE reaper' = "decide" /\ subject' = s
  /\ UNCHANGED <<sessionVars, poolVars, actVars>>

(* Mutant of ReadLastUsed: the session is forgotten, not closed. *)
ReadLastUsed_forgets(s) ==
  /\ reaper = "decide" /\ subject = s
  /\ reaper' = "loop"
  /\ Enter(s, IF idle[s] > MaxIdle THEN "failed" ELSE stage[s])
  /\ UNCHANGED <<tab, hold, idle, asserted, log, poolVars, todo, subject, actVars>>

ReadLastUsed(s) ==
  /\ reaper = "decide" /\ subject = s
  /\ reaper' = "loop"
  /\ Enter(s, IF idle[s] > MaxIdle THEN "expired" ELSE stage[s])
  /\ UNCHANGED <<tab, hold, idle, asserted, log, poolVars, todo, subject, actVars>>

(* The expired ones are closed one after the other, without the lock. *)
Expired == {s \in Opens : stage[s] = "expired"}

ReapCloses ==
  /\ \/ reaper = "loop" /\ todo = {}
     \/ reaper = "closing" /\ stage[subject] = "closed"
  /\ reaper' = IF Expired = {} THEN "off" ELSE "close"
  /\ subject' = None
  /\ UNCHANGED <<sessionVars, poolVars, todo, actVars>>

ReapExpired(s) ==
  /\ reaper = "close" /\ s \in Expired
  /\ reaper' = "closing" /\ subject' = s
  /\ Enter(s, "closing")
  /\ idle' = [idle EXCEPT ![s] = 0]
  /\ UNCHANGED <<tab, hold, asserted, log, poolVars, todo, actVars>>

(* close: called once, because the session has left the map once.  lastUsed is
   not read again: its age is dropped here. *)
SetClosing(s) ==
  /\ stage[s] = "removed"
  /\ Enter(s, "closing")
  /\ idle' = [idle EXCEPT ![s] = 0]
  /\ UNCHANGED <<tab, hold, asserted, log, poolVars, reapVars, actVars>>

(* Its own parking of the tab, of which the error is ignored ... *)
ParkTab(s) ==
  /\ stage[s] = "closing"
  /\ \/ page' = [page EXCEPT ![tab[s]] = "blank"]
     \/ page' = page
  /\ Enter(s, "parked")
  /\ UNCHANGED <<tab, hold, idle, asserted, log, free, reapVars, actVars>>

(* ... and release: the pool parks the tab again and takes it back. *)
PoolParks(s) ==
  /\ stage[s] = "parked"
  /\ page' = [page EXCEPT ![tab[s]] = "blank"]
  /\ Enter(s, "blank")
  /\ UNCHANGED <<tab, hold, idle, asserted, log, free, reapVars, actVars>>

(* Mutant of PoolTakes: the lease can be released again. *)
PoolTakes_again(s) ==
  /\ stage[s] \in {"blank", "closed"}
  /\ free' = free \cup {tab[s]}
  /\ Enter(s, "closed")
  /\ UNCHANGED <<tab, hold, idle, asserted, log, page, reapVars, actVars>>

PoolTakes(s) ==
  /\ stage[s] = "blank"
  /\ free' = free \cup {tab[s]}
  /\ Enter(s, "closed")
  /\ UNCHANGED <<tab, hold, idle, asserted, log, page, reapVars, actVars>>

-----------------------------------------------------------------------------
(* Get, by the handler or by the replay that will call Run. *)
Find(a, s) ==
  /\ pc[a] = "new" /\ stage[s] = "live" /\ ManagerUnlocked
  /\ sess' = [sess EXCEPT ![a] = s]
  /\ Goto(a, "found")
  /\ UNCHANGED <<sessionVars, poolVars, reapVars, kind, ok, pastVars>>

(* Run: refused on a closed session, else the session counts as used.
   pendingType is tested here and never set. *)
Refuse(a) ==
  /\ pc[a] = "found" /\ stage[sess[a]] \in Closing
  /\ Goto(a, "refused")
  /\ UNCHANGED <<sessionVars, poolVars, reapVars, kind, sess, ok, pastVars>>

Begin(a) ==
  /\ pc[a] = "found" /\ stage[sess[a]] \notin Closing
  /\ idle' = [idle EXCEPT ![sess[a]] = 0]
  /\ Goto(a, "dispatch")
  /\ UNCHANGED <<stage, tab, hold, asserted, log, poolVars, reapVars, kind, sess, ok, pastVars>>

Succeed(a) == Goto(a, "record") /\ ok' = [ok EXCEPT ![a] = TRUE]

(* dispatch of navigate, and dispatchClick when a candidate of its ladder
   hits: the tab shows the page of a site. *)
Navigate(a) ==
  /\ pc[a] = "dispatch" /\ kind[a] \in {"navigate", "click"}
  /\ page' = [page EXCEPT ![tab[sess[a]]] = "site"]
  /\ Succeed(a)
  /\ UNCHANGED <<sessionVars, free, reapVars, kind, sess, pastVars>>

(* A person leads the tab of a session elsewhere: the Chrome is VNC-visible. *)
Drive(s) ==
  /\ stage[s] = "live"
  /\ page' = [page EXCEPT ![tab[s]] = "site"]
  /\ UNCHANGED <<sessionVars, free, reapVars, actVars>>

(* dispatchType: password fields need a fresh exact assertion. *)
CanTypeCredentials(s) == asserted[s] < AssertTTL

PassGate(a) ==
  /\ pc[a] = "dispatch" /\ kind[a] = "password" /\ CanTypeCredentials(sess[a])
  /\ Goto(a, "type")
  /\ UNCHANGED <<sessionVars, poolVars, reapVars, kind, sess, ok, pastVars>>

SendKeys(a) ==
  /\ pc[a] = "type"
  /\ Goto(a, "typing")
  /\ UNCHANGED <<sessionVars, poolVars, reapVars, kind, sess, ok, pastVars>>

KeysSent(a) ==
  /\ pc[a] = "typing"
  /\ Succeed(a)
  /\ UNCHANGED <<sessionVars, poolVars, reapVars, kind, sess, pastVars>>

(* dispatchAssert: which pages the pattern or the landmarks match is left open;
   a pattern can match about:blank too. *)
AssertHolds(a) ==
  /\ pc[a] = "dispatch" /\ kind[a] \in {"exact", "landmark"}
  /\ Succeed(a)
  /\ UNCHANGED <<sessionVars, poolVars, reapVars, kind, sess, pastVars>>

(* dispatchScreenshot. *)
StartCapture(a) ==
  /\ pc[a] = "dispatch" /\ kind[a] = "screenshot"
  /\ Goto(a, "capturing")
  /\ UNCHANGED <<sessionVars, poolVars, reapVars, kind, sess, ok, pastVars>>

Captured(a) ==
  /\ pc[a] = "capturing"
  /\ Succeed(a)
  /\ UNCHANGED <<sessionVars, poolVars, reapVars, kind, sess, pastVars>>

(* Everything dispatched can fail: refused by the gate, an assertion that does
   not hold, no candidate that matches, the action context done. *)
Fail(a) ==
  /\ pc[a] \in Dispatched
  /\ Goto(a, "record")
  /\ UNCHANGED <<sessionVars, poolVars, reapVars, kind, sess, ok, pastVars>>

(* Mutant of LastOf: the oldest are kept. *)
LastOf_oldest(q, n) == IF Len(q) > n THEN SubSeq(q, 1, n) ELSE q

LastOf(q, n) == IF Len(q) > n THEN SubSeq(q, Len(q) - n + 1, Len(q)) ELSE q

(* Mutant of Record: a failed action leaves no evidence. *)
Record_successOnly(a) ==
  LET s == sess[a] IN
  /\ pc[a] = "record"
  /\ log' = IF ok[a] THEN [log EXCEPT ![s] = LastOf(Append(@, a), MaxLog)] ELSE log
  /\ asserted' = IF ok[a] /\ kind[a] = "exact" THEN [asserted EXCEPT ![s] = 0] ELSE asserted
  /\ ended' = IF ok[a] /\ kind[a] = "exact" THEN [ended EXCEPT ![a] = 0] ELSE ended
  /\ returned' = [returned EXCEPT ![s] = Append(@, a)]
  /\ Goto(a, "done")
  /\ UNCHANGED <<stage, tab, hold, idle, poolVars, reapVars, kind, sess, ok>>

(* Mutant of Record: landmarks count as exact. *)
Record_anyAssert(a) ==
  LET s == sess[a] IN
  /\ pc[a] = "record"
  /\ log' = [log EXCEPT ![s] = LastOf(Append(@, a), MaxLog)]
  /\ asserted' = IF ok[a] /\ kind[a] \in {"exact", "landmark"}
                 THEN [asserted EXCEPT ![s] = 0] ELSE asserted
  /\ ended' = IF ok[a] /\ kind[a] = "exact" THEN [ended EXCEPT ![a] = 0] ELSE ended
  /\ returned' = [returned EXCEPT ![s] = Append(@, a)]
  /\ Goto(a, "done")
  /\ UNCHANGED <<stage, tab, hold, idle, poolVars, reapVars, kind, sess, ok>>

(* Run's last critical section: the evidence, and the assertion's time. *)
Record(a) ==
  LET s == sess[a] IN
  /\ pc[a] = "record"
  /\ log' = [log EXCEPT ![s] = LastOf(Append(@, a), MaxLog)]
  /\ asserted' = IF ok[a] /\ kind[a] = "exact" THEN [asserted EXCEPT ![s] = 0] ELSE asserted
  /\ ended' = IF ok[a] /\ kind[a] = "exact" THEN [ended EXCEPT ![a] = 0] ELSE ended
  /\ returned' = [returned EXCEPT ![s] = Append(@, a)]
  /\ Goto(a, "done")
  /\ UNCHANGED <<stage, tab, hold, idle, poolVars, reapVars, kind, sess, ok>>

-----------------------------------------------------------------------------
Older(age, cap) == IF age < cap THEN age + 1 ELSE cap

Tick ==
  /\ idle' = [s \in Opens |-> IF stage[s] \in {"insert", "live"} THEN Older(idle[s], IdleCap)
                                                             ELSE idle[s]]
  /\ asserted' = [s \in Opens |-> Older(asserted[s], AssertTTL)]
  /\ ended' = [a \in Acts |-> Older(ended[a], AssertTTL)]
  /\ UNCHANGED <<stage, tab, hold, log, poolVars, reapVars, kind, pc, sess, ok, returned>>

(* What Open and close do once they were called. *)
OpenStep(s) == LeaseTab(s) \/ LeaseFails(s) \/ Insert(s)
CloseStep(s) == SetClosing(s) \/ ParkTab(s) \/ PoolParks(s) \/ PoolTakes(s)

ReapStep ==
  \/ Reap \/ ReapCloses
  \/ \E s \in Opens : ReadHold(s) \/ ReadLastUsed(s) \/ ReapExpired(s)

RunStep(a) ==
  \/ Refuse(a) \/ Begin(a) \/ Navigate(a) \/ PassGate(a) \/ SendKeys(a) \/ KeysSent(a)
  \/ AssertHolds(a) \/ StartCapture(a) \/ Captured(a) \/ Fail(a) \/ Record(a)

Next ==
  \/ \E s \in Opens : Admit(s) \/ OpenStep(s) \/ SetHold(s) \/ Close(s) \/ CloseStep(s)
                    \/ Drive(s)
  \/ ReapStep
  \/ \E a \in Acts : RunStep(a) \/ \E s \in Opens : Find(a, s)
  \/ Tick

Spec == Init /\ [][Next]_vars

(* The clock advances, the reaper's ticker fires, goroutines that can run do
   run, and commands to a tab end (the action context bounds them).  Open waits
   for a mutex the reaper takes again and again; sync.Mutex starves nobody,
   hence strong fairness.  Nobody has to open, close, hold or call Run. *)
FairSpec ==
  /\ Spec
  /\ WF_vars(Tick) /\ WF_vars(ReapStep)
  /\ \A s \in Opens : SF_vars(OpenStep(s)) /\ WF_vars(CloseStep(s))
  /\ \A a \in Acts : WF_vars(RunStep(a))

-----------------------------------------------------------------------------
(* Type invariant; in particular the evidence log is bounded by MaxLog. *)
TypeOK ==
  /\ stage \in [Opens -> Stages]
  /\ tab \in [Opens -> Tabs \cup {None}]
  /\ hold \in [Opens -> BOOLEAN]
  /\ idle \in [Opens -> 0 .. IdleCap]
  /\ asserted \in [Opens -> 0 .. AssertTTL]
  /\ log \in [Opens -> Seq(Acts)] /\ \A s \in Opens : Len(log[s]) <= MaxLog
  /\ free \subseteq Tabs
  /\ page \in [Tabs -> {"blank", "site"}]
  /\ reaper \in {"off", "loop", "decide", "close", "closing"}
  /\ todo \subseteq Opens /\ subject \in Opens \cup {None}
  /\ kind \in [Acts -> Kinds]
  /\ pc \in [Acts -> PCs]
  /\ sess \in [Acts -> Opens \cup {None}]
  /\ ok \in [Acts -> BOOLEAN]
  /\ ended \in [Acts -> 0 .. AssertTTL]
  /\ returned \in [Opens -> Seq(Acts)]

(* "Every action is recorded": a call of Run that got as far as its tab has come
   back from its session once, also when it failed or ran against the session's
   close, and the log is the newest MaxLog of these calls, in their order. *)
Recorded(s) == {a \in Acts : sess[a] = s /\ pc[a] = "done"}
EvidenceIsComplete ==
  \A s \in Opens :
    LET all == returned[s] IN
    /\ {all[i] : i \in DOMAIN all} = Recorded(s)
    /\ \A i, j \in DOMAIN all : all[i] = all[j] => i = j
    /\ Len(log[s]) = IF Len(all) <= MaxLog THEN Len(all) ELSE MaxLog
    /\ \A i \in DOMAIN log[s] : log[s][i] = all[Len(all) - Len(log[s]) + i]

(* "Credentials are never typed blind": the gate opens for an action only if
   an exact assertion of the same session succeeded less than AssertTTL ago,
   however assertions, navigations and closes of several callers overlap. *)
FreshExact(s) ==
  \E b \in Acts : /\ sess[b] = s /\ kind[b] = "exact" /\ ok[b] /\ pc[b] = "done"
                  /\ ended[b] < AssertTTL
TypingIsGated ==
  [][\A a \in Acts : pc[a] # "type" /\ pc'[a] = "type" => FreshExact(sess[a])]_vars

(* Although Open looks at the limit and leases in two steps, and several calls
   may pass the first together: no tab is driven by two sessions or free while
   one drives it, so there are never more sessions than tabs. *)
Driving == {s \in Opens : stage[s] \in {"insert", "live", "removed", "expired", "closing",
                                        "parked", "blank"}}
OneSessionPerTab ==
  /\ \A s \in Driving : tab[s] \notin free
  /\ \A s, q \in Driving : tab[s] = tab[q] => s = q
  /\ Cardinality(Live) <= Cardinality(Tabs)

(* What the sessions do with the pool is what TabLeases promises and no more. *)
Lending == INSTANCE TabLeases WITH
  Lessees <- Opens, Pools <- {None}, Tabs <- [p \in {None} |-> Tabs],
  Size <- Cardinality(Tabs), idle <- [p \in {None} |-> free],
  held <- [s \in Opens |-> IF s \in Driving THEN tab[s] ELSE None]
LendingSpec == Lending!Spec

(* A session that nobody holds for ever gives its tab back, whether its client
   closes it or forgets it: by Reap, at the latest. *)
TabsComeBack ==
  \A s \in Opens :
    <>[](~hold[s]) => (stage[s] \in {"insert", "live"} ~> stage[s] = "closed")

(* internal/browser/pool.go: tabs "are parked on about:blank between jobs so
   no page state leaks between fetches". *)
FreeTabsAreBlank == \A t \in free : page[t] = "blank"
=============================================================================
