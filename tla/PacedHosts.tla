---------------------------- MODULE PacedHosts -----------------------------
(***************************************************************************)
(* What the package comment of internal/scheduler/scheduler.go promises of *)
(* navigations, whoever asked for them: concurrency is capped across       *)
(* hosts, it is one within a host, and a host rests for Gap between the    *)
(* end of one navigation and the start of the next.                        *)
(***************************************************************************)
EXTENDS Integers, FiniteSets

CONSTANTS Hosts, Cap, Gap

VARIABLES
  active,  \* hosts being navigated
  rest     \* time since a host's last navigation ended, at most Gap

Init == active = {} /\ rest = [h \in Hosts |-> Gap]

Begin(h) ==
  /\ h \notin active
  /\ Cardinality(active) < Cap
  /\ rest[h] = Gap
  /\ active' = active \cup {h}
  /\ UNCHANGED rest

End(h) ==
  /\ h \in active
  /\ active' = active \ {h}
  /\ rest' = [rest EXCEPT ![h] = 0]

Tick ==
  /\ rest' = [h \in Hosts |-> IF rest[h] < Gap THEN rest[h] + 1 ELSE Gap]
  /\ UNCHANGED active

Next == Tick \/ \E h \in Hosts : Begin(h) \/ End(h)

Spec == Init /\ [][Next]_<<active, rest>>
=============================================================================
