----------------------------- MODULE FetchGate -----------------------------
(***************************************************************************)
(* POST /fetch and POST /fetch/screenshot from the route to the answer:    *)
(* internal/server/fetch.go, internal/screenshot/store.go and              *)
(* internal/reqlog/reqlog.go, on top of what scheduler.Do promises         *)
(* (Flights, which Scheduler implements).                                  *)
(*                                                                         *)
(* A request is a record: the work asked for (URL and assist policy), its  *)
(* form, whether it wants pictures, and the class of its bearer token.  A  *)
(* capture is named after the request that stored it (rand.Text never      *)
(* repeats).  The critical sections of the store and of the ring are       *)
(* single steps, and between any two of them others run.                   *)
(***************************************************************************)
EXTENDS Integers, Sequences, FiniteSets

CONSTANTS
  Reqs,           \* the requests
  Asks,           \* what each may ask for: functions from Reqs to records
  Works,          \* URL and assist policy
  SizeOf,         \* encoded tile bytes of a work's pictures; 0: unusable
  TTL,            \* screenshot.TTL, in ticks
  MaxCaptures,    \* screenshot.MaxCaptures
  MaxStoreBytes,  \* screenshot.MaxStoreBytes
  DebugRing,      \* config.DebugRing
  Ends,           \* how a context can end: "canceled", "expired"
  Results,        \* what mgr.Fetch returns while the context it got lives: "ok",
                  \* "challenge", "nav", "lost" (its worker's context was
                  \* canceled), "late" (a deadline of its own passed: NavTimeout,
                  \* or that of the probe, the read or the capture)
  Nil             \* nil

Classes == {"none", "reader", "driver", "full"}
Forms   == {"malformed", "forbidden", "good"}
Ask     == [work : Works, form : Forms, visual : BOOLEAN, class : Classes]

ASSUME FetchGateAssumption ==
  /\ Asks \subseteq [Reqs -> Ask] /\ IsFiniteSet(Reqs) /\ Nil \notin Reqs
  /\ SizeOf \in [Works -> Nat]
  /\ TTL \in Nat /\ MaxCaptures \in Nat /\ MaxStoreBytes \in Nat /\ DebugRing \in Int
  /\ Ends \subseteq {"canceled", "expired"}
  /\ Results \subseteq {"ok", "challenge", "nav", "lost", "late"}

VARIABLES
  ask,      \* what each request asks for
  phase, key, ctx, leader, flight, out,   \* Do, as Flights has it
  stage,    \* new, do (in sched.Do), answering, answered
  code,     \* the outcome it is answered with
  entries,  \* screenshot.Store.entries
  bytes,    \* screenshot.Store.bytes
  age,      \* ticks since a capture was stored, up to TTL
  ring,     \* reqlog.Ring: buf, next, count
  log       \* history: the requests finishFetch recorded, oldest first

flights == <<phase, key, ctx, leader, flight, out>>
store   == <<entries, bytes, age>>
gateVars == <<ask, flights, stage, code, store, ring, log>>

Visual(r) == ask[r].visual
Class(r)  == ask[r].class
Size(r)   == SizeOf[ask[r].work]

(* Mutant of KeyOf: the credential class is left out. *)
KeyOf_anyOwner(a) == <<a.work, a.visual>>

(* The dedupe key: work, screenshot flag and, for pictures, the owner. *)
KeyOf(a) == IF a.visual THEN <<a.work, a.visual, a.class>> ELSE <<a.work, a.visual>>

Do == INSTANCE Flights WITH Callers <- Reqs, Keys <- {KeyOf(a) : a \in Ask}, None <- Nil

-----------------------------------------------------------------------------
(* NewRing raises a capacity below one. *)
RingLen == IF DebugRing < 1 THEN 1 ELSE DebugRing

RingAdd(r) ==
  ring' = [buf   |-> [ring.buf EXCEPT ![ring.next] = r],
           next  |-> (ring.next + 1) % RingLen,
           count |-> IF ring.count < RingLen THEN ring.count + 1 ELSE ring.count]

(* Mutant of Recent: starts at the slot that is written next. *)
Recent_stale(limit) ==
  LET n == IF limit <= 0 \/ limit > ring.count THEN ring.count ELSE limit
  IN  [i \in 1 .. n |-> ring.buf[(ring.next - (i - 1) + RingLen * 2) % RingLen]]

(* Ring.Recent: up to limit entries, newest first. *)
Recent(limit) ==
  LET n == IF limit <= 0 \/ limit > ring.count THEN ring.count ELSE limit
  IN  [i \in 1 .. n |-> ring.buf[(ring.next - 1 - (i - 1) + RingLen * 2) % RingLen]]

-----------------------------------------------------------------------------
(* The encoded bytes of the tiles of the captures in S, each counted once. *)
Tiles(S) == UNION {{r} \X (1 .. Size(r)) : r \in S}
Bytes(S) == Cardinality(Tiles(S))

(* Mutant of Live: expired entries are left in the map. *)
Live_all == entries

(* reapLocked, which every operation of the store begins with: what is left
   of the map ... *)
Live == {id \in entries : age[id] < TTL}

(* Mutant of LiveBytes: what was dropped stays counted. *)
LiveBytes_forgets == bytes

(* ... and of the byte count. *)
LiveBytes == bytes - Bytes(entries \ Live)

Reap == entries' = Live /\ bytes' = LiveBytes

Usable(r) == Size(r) > 0

HasRoom(r) ==
  Cardinality(Live) < MaxCaptures /\ LiveBytes + Size(r) <= MaxStoreBytes

(* Store.Get as a caller of class k meets it.  The same answer for a capture
   that is gone and for one of another class. *)
Get(k, id) == IF id \in Live /\ Class(id) = k THEN "shot" ELSE "gone"

-----------------------------------------------------------------------------
GateInit ==
  /\ ask \in Asks
  /\ key = [r \in Reqs |-> KeyOf(ask[r])]
  /\ Do!Init
  /\ stage   = [r \in Reqs |-> "new"]
  /\ code    = [r \in Reqs |-> "none"]
  /\ entries = {} /\ bytes = 0
  /\ age     = [r \in Reqs |-> 0]
  /\ ring    = [buf |-> [i \in 0 .. RingLen - 1 |-> Nil], next |-> 0, count |-> 0]
  /\ log     = <<>>

(* The request is about to be answered with outcome c. *)
Reply(r, c) ==
  /\ stage' = [stage EXCEPT ![r] = "answering"]
  /\ code'  = [code EXCEPT ![r] = c]

(* routeClass turns the caller away before the handler: no ring entry. *)
Unauthorized(r) ==
  /\ stage[r] = "new" /\ Class(r) = "none"
  /\ stage' = [stage EXCEPT ![r] = "answered"]
  /\ code'  = [code EXCEPT ![r] = "unauthorized"]
  /\ UNCHANGED <<ask, flights, store, ring, log>>

(* Mutant of TurnDown: answered without finishFetch. *)
TurnDown_unrecorded(r) ==
  /\ stage[r] = "new" /\ Class(r) # "none" /\ ask[r].form # "good"
  /\ stage' = [stage EXCEPT ![r] = "answered"]
  /\ code'  = [code EXCEPT ![r] = "rejected_url"]
  /\ UNCHANGED <<ask, flights, store, ring, log>>

(* parseFetchRequest or the URL guard refuses it before a browser sees it. *)
TurnDown(r) ==
  /\ stage[r] = "new" /\ Class(r) # "none" /\ ask[r].form # "good"
  /\ Reply(r, IF ask[r].form = "malformed" THEN "bad_request" ELSE "rejected_url")
  /\ UNCHANGED <<ask, flights, store, ring, log>>

(* sched.Do is called with the request's key and context ... *)
Call(r) ==
  /\ stage[r] = "new" /\ Class(r) # "none" /\ ask[r].form = "good"
  /\ Do!Call(r)
  /\ stage' = [stage EXCEPT ![r] = "do"]
  /\ UNCHANGED <<ask, code, store, ring, log>>

(* ... and does what it promises.  The client leaves, or the time is up. *)
Wait(r) ==
  /\ stage[r] = "do"
  /\ Do!Proceed(r) \/ Do!ContextEnds(r)
  /\ UNCHANGED <<ask, stage, code, store, ring, log>>

(* Mutant of Classify: every context error is put down to the client. *)
Classify_anyCancel(r) ==
  IF out[r] = "challenge" THEN "challenge"
  ELSE IF "expired" \in {out[r], ctx[r]} \/ out[r] = "late" THEN "timeout"
  ELSE IF out[r] \in {"canceled", "lost"} THEN "client_gone"
  ELSE IF out[r] = "nav" THEN "nav_error" ELSE "chrome_unavailable"

(* classify.  "canceled" and "lost" are the same Go error, and so are "expired"
   and "late"; "client_gone" is the timeout outcome with status 499. *)
Classify(r) ==
  IF out[r] = "challenge" THEN "challenge"
  ELSE IF "expired" \in {out[r], ctx[r]} \/ out[r] = "late" THEN "timeout"
  ELSE IF out[r] \in {"canceled", "lost"}
    THEN IF ctx[r] = "live" THEN "chrome_unavailable" ELSE "client_gone"
  ELSE IF out[r] = "nav" THEN "nav_error" ELSE "chrome_unavailable"

Returned(r) == stage[r] = "do" /\ phase[r] = "done"

Fail(r) ==
  /\ Returned(r) /\ out[r] # "ok"
  /\ Reply(r, Classify(r))
  /\ UNCHANGED <<ask, flights, store, ring, log>>

Succeed(r) ==
  /\ Returned(r) /\ out[r] = "ok" /\ ~Visual(r)
  /\ Reply(r, "ok")
  /\ UNCHANGED <<ask, flights, store, ring, log>>

(* Store.Add for the caller's class, each caller of a shared flight its own. *)
AddCapture(r) ==
  /\ Returned(r) /\ out[r] = "ok" /\ Visual(r) /\ Usable(r) /\ HasRoom(r)
  /\ Reply(r, "ok")
  /\ entries' = Live \cup {r} /\ bytes' = LiveBytes + Size(r)
  /\ UNCHANGED <<ask, flights, age, ring, log>>

(* No room, after the reaping; an unusable capture is refused before it. *)
RefuseCapture(r) ==
  /\ Returned(r) /\ out[r] = "ok" /\ Visual(r) /\ ~(Usable(r) /\ HasRoom(r))
  /\ Reply(r, "screenshot_capacity")
  /\ IF Usable(r) THEN Reap ELSE UNCHANGED <<entries, bytes>>
  /\ UNCHANGED <<ask, flights, age, ring, log>>

(* finishFetch: the ring entry, then the answer. *)
FinishFetch(r) ==
  /\ stage[r] = "answering"
  /\ stage' = [stage EXCEPT ![r] = "answered"]
  /\ RingAdd(r)
  /\ log' = Append(log, r)
  /\ UNCHANGED <<ask, flights, code, store>>

(* sessionsReaper, or a caller of /fetch/screenshot with any id: the store is
   reaped and nothing else changes. *)
ReapStore ==
  /\ Reap
  /\ UNCHANGED <<ask, flights, stage, code, age, ring, log>>

Tick ==
  /\ age' = [r \in Reqs |-> IF r \in entries /\ age[r] < TTL THEN age[r] + 1 ELSE age[r]]
  /\ UNCHANGED <<ask, flights, stage, code, entries, bytes, ring, log>>

HandleFetch(r) ==
  \/ Unauthorized(r) \/ TurnDown(r) \/ Call(r) \/ Wait(r) \/ Fail(r) \/ Succeed(r)
  \/ AddCapture(r) \/ RefuseCapture(r) \/ FinishFetch(r)

GateNext == ReapStore \/ Tick \/ \E r \in Reqs : HandleFetch(r)

GateSpec == GateInit /\ [][GateNext]_gateVars

-----------------------------------------------------------------------------
(* A caller told "ok" can read its capture until TTL has passed since it was
   stored, whatever is stored, read or reaped meanwhile; neither can another
   class read it, nor anyone once it has expired; and what is read was taken
   for that class, however requests coalesced: "Credential classes must not
   share captures". *)
ReadableExactly ==
  \A r \in Reqs : \A k \in Classes \ {"none"} :
    /\ Get(k, r) = "shot" <=> code[r] = "ok" /\ Visual(r) /\ Class(r) = k /\ age[r] < TTL
    /\ Get(k, r) = "shot" => Class(leader[r]) = k

(* The running byte count is that of the captures in the map, and neither it
   nor their number exceeds its limit, whichever operation reaps. *)
StoreAccounts ==
  /\ bytes = Bytes(entries) /\ bytes <= MaxStoreBytes
  /\ Cardinality(entries) <= MaxCaptures

(* A usable capture is refused only when those that have not expired yet leave
   no room for it: expired ones never hold space a caller is refused. *)
Unexpired == {r \in Reqs : code[r] = "ok" /\ Visual(r) /\ age[r] < TTL}
FullOnlyOfTheLiving ==
  [][\A r \in Reqs :
       code'[r] = "screenshot_capacity" /\ code[r] = "none" /\ Usable(r) =>
         \/ Cardinality(Unexpired) >= MaxCaptures
         \/ Bytes(Unexpired) + Size(r) > MaxStoreBytes]_gateVars

(* What a caller is told is about its own request: 499 only when its own client
   went away; 504 only when its own time or that of the caller whose navigation
   it shared was up, or a deadline of that navigation itself passed ("navigation
   deadline" of fetch_test.go:26); and "ok" only when that one succeeded. *)
ToldWhatHappened ==
  \A r \in Reqs :
    /\ code[r] = "client_gone" => ctx[r] = "canceled"
    /\ code[r] = "timeout" =>
         "expired" \in {ctx[r], ctx[leader[r]]} \/ out[leader[r]] = "late"
    /\ code[r] = "ok" => out[leader[r]] = "ok"

(* Every request that got past the route, however it is answered, is recorded
   exactly once before it is, and /debug shows the last of these entries,
   newest first, for every limit. *)
RecentIsTheLast ==
  /\ {log[i] : i \in DOMAIN log} = {r \in Reqs : stage[r] = "answered" /\ Class(r) # "none"}
  /\ \A i, j \in DOMAIN log : log[i] = log[j] => i = j
  /\ \A limit \in 0 .. RingLen + 1 :
       LET all == IF Len(log) < RingLen THEN Len(log) ELSE RingLen
           n   == IF limit = 0 \/ limit > all THEN all ELSE limit
       IN  Recent(limit) = [i \in 1 .. n |-> log[Len(log) + 1 - i]]
=============================================================================
