------------------------------ MODULE Flights ------------------------------
(***************************************************************************)
(* What scheduler.Do promises its callers about results: the calls of one  *)
(* key share one flight at a time, a flight ends with one outcome, and a   *)
(* caller gets that outcome or its own context's error.  It says nothing   *)
(* of pacing (see PacedHosts) nor of how the promise is kept (Scheduler).  *)
(***************************************************************************)
CONSTANTS
  Callers,  \* the calls of Do
  Keys,     \* what calls are told apart by
  Ends,     \* how a context can end
  Results,  \* what fn can return while its context lives
  None      \* no flight

VARIABLES
  phase,   \* idle, leads, leaving (delisted, not yet closed), follows, done
  key,     \* the key of each call
  ctx,     \* its context: "live", or how it ended
  leader,  \* the call whose flight it is on
  flight,  \* the flight open for each key
  out      \* what the call returned

vars == <<phase, key, ctx, leader, flight, out>>

Init ==
  /\ phase  = [c \in Callers |-> "idle"]
  /\ key    \in [Callers -> Keys]
  /\ ctx    = [c \in Callers |-> "live"]
  /\ leader = [c \in Callers |-> None]
  /\ flight = [k \in Keys |-> None]
  /\ out    = [c \in Callers |-> "none"]

(* No flight for the key: the call opens one. *)
Lead(c) ==
  /\ phase[c] = "idle" /\ flight[key[c]] = None
  /\ phase'  = [phase EXCEPT ![c] = "leads"]
  /\ leader' = [leader EXCEPT ![c] = c]
  /\ flight' = [flight EXCEPT ![key[c]] = c]
  /\ UNCHANGED <<key, ctx, out>>

(* The call joins the flight open for its key. *)
Join(c) ==
  /\ phase[c] = "idle" /\ flight[key[c]] # None
  /\ phase'  = [phase EXCEPT ![c] = "follows"]
  /\ leader' = [leader EXCEPT ![c] = flight[key[c]]]
  /\ UNCHANGED <<key, ctx, flight, out>>

(* The flight is over: the next call of the key opens another. *)
Leave(c) ==
  /\ phase[c] = "leads" /\ flight[key[c]] = c
  /\ phase'  = [phase EXCEPT ![c] = "leaving"]
  /\ flight' = [flight EXCEPT ![key[c]] = None]
  /\ UNCHANGED <<key, ctx, leader, out>>

(* Its leader returns what fn gave it, or its own context's error. *)
Return(c) ==
  /\ phase[c] = "leaving"
  /\ phase' = [phase EXCEPT ![c] = "done"]
  /\ \E res \in Results \cup ({ctx[c]} \ {"live"}) : out' = [out EXCEPT ![c] = res]
  /\ UNCHANGED <<key, ctx, leader, flight>>

(* A follower returns what its leader returned, whatever that is ... *)
TakeResult(c) ==
  /\ phase[c] = "follows" /\ phase[leader[c]] = "done"
  /\ phase' = [phase EXCEPT ![c] = "done"]
  /\ out' = [out EXCEPT ![c] = out[leader[c]]]
  /\ UNCHANGED <<key, ctx, leader, flight>>

(* ... unless its own context ends first. *)
GiveUp(c) ==
  /\ phase[c] = "follows" /\ ctx[c] # "live"
  /\ phase' = [phase EXCEPT ![c] = "done"]
  /\ out' = [out EXCEPT ![c] = ctx[c]]
  /\ UNCHANGED <<key, ctx, leader, flight>>

(* Once a context has ended it stays so. *)
ContextEnds(c) ==
  /\ phase[c] # "idle" /\ ctx[c] = "live"
  /\ \E why \in Ends : ctx' = [ctx EXCEPT ![c] = why]
  /\ UNCHANGED <<phase, key, leader, flight, out>>

Call(c)    == Lead(c) \/ Join(c)
Proceed(c) == Leave(c) \/ Return(c) \/ TakeResult(c) \/ GiveUp(c)

Next == \E c \in Callers : Call(c) \/ Proceed(c) \/ ContextEnds(c)

Spec == Init /\ [][Next]_vars
=============================================================================
