----------------------------- MODULE Recordings -----------------------------
(***************************************************************************)
(* internal/server/macro.go: the recordings of what a human does in a tab. *)
(*                                                                         *)
(* Every element of Starts is one call of record/start and names what it   *)
(* makes: the recording, its channel of capture events, and the session if *)
(* it opens one.  Every element of Stops is one call of record/stop.  The  *)
(* critical sections of ms.mu, of a session and of a recorder are one step *)
(* each.  Sessions is abstracted to what a recording sees of it: a session *)
(* is open until a client, a stop or the reaper closes it, and the reaper  *)
(* takes any that is not held.                                             *)
(***************************************************************************)
EXTENDS Naturals, Sequences, FiniteSets, SequencesExt

CONSTANTS
  Ids,        \* macro ids
  Starts,     \* calls of record/start, and the recordings they make
  Stops,      \* calls of record/stop
  Given,      \* sessions that clients have opened
  Requests,   \* what the starts ask for: a set of functions from Starts to
              \* records of an id and a session, None for one of its own
  Buffer,     \* capacity of the channel of capture events
  MaxEvents,  \* bound: events in the tabs
  None

ASSUME RecordingsAssumption ==
  /\ Requests \subseteq [Starts -> [id : Ids, given : Given \cup {None}]]
  /\ Buffer \in Nat /\ MaxEvents \in Nat
  /\ Given \cap Starts = {} /\ None \notin Given \cup Starts \cup Ids

VARIABLES
  asked,       \* what each start asks for
  pc,          \* where it is
  recordings,  \* macroState.recordings: the recording of a macro id
  status,      \* of a session: "none", "open", "reaped" or "closed"
  hold,        \* Session.hold
  drain,       \* of a recording: its goroutine
  queue,       \* its events channel
  steps,       \* Recorder.steps
  heard,       \* history: the events that got into the channel
  events,      \* events so far
  at,          \* where a stop is
  took,        \* the recording it stops
  draft,       \* its draft
  stored       \* whether the store took that

startVars == <<asked, pc>>
sessVars == <<status, hold>>
drainVars == <<drain, queue, steps, heard, events>>
stopVars == <<at, took, draft, stored>>
vars == <<asked, pc, recordings, status, hold, drain, queue, steps, heard, events,
          at, took, draft, stored>>

Sessions == Given \cup Starts
Id(r) == asked[r].id
Own(r) == asked[r].given = None
Sess(r) == IF Own(r) THEN r ELSE asked[r].given

(* Events of the capture script: a navigation that is part of the flow, one to
   about: or data:, and anything the human does to an element. *)
Kinds == {"nav", "blank", "act"}

Init ==
  /\ asked \in Requests
  /\ pc = [r \in Starts |-> "new"]
  /\ recordings = [m \in Ids |-> None]
  /\ status = [s \in Sessions |-> IF s \in Given THEN "open" ELSE "none"]
  /\ hold = [s \in Sessions |-> FALSE]
  /\ drain = [r \in Starts |-> "none"]
  /\ queue = [r \in Starts |-> <<>>] /\ steps = [r \in Starts |-> <<>>]
  /\ heard = [r \in Starts |-> <<>>] /\ events = 0
  /\ at = [c \in Stops |-> "new"] /\ took = [c \in Stops |-> None]
  /\ draft = [c \in Stops |-> <<>>] /\ stored = [c \in Stops |-> FALSE]

Goto(r, next) == pc' = [pc EXCEPT ![r] = next]
Proceed(c, next) == at' = [at EXCEPT ![c] = next]
End(s, how) == status' = [status EXCEPT ![s] = IF @ = "open" THEN how ELSE @]
SetHold(s, h) == hold' = [hold EXCEPT ![s] = h]

-----------------------------------------------------------------------------
(* record/start. *)
CheckId(r) ==
  /\ pc[r] = "new"
  /\ Goto(r, IF recordings[Id(r)] = None THEN "lease" ELSE "refused")
  /\ UNCHANGED <<asked, recordings, sessVars, drainVars, stopVars>>

(* Get of a session that is open, or Open, which can fail. *)
Lease(r) ==
  /\ pc[r] = "lease"
  /\ \/ /\ Own(r) \/ status[Sess(r)] = "open"
        /\ status' = [status EXCEPT ![Sess(r)] = "open"]
        /\ Goto(r, "install")
     \/ /\ Own(r) \/ status[Sess(r)] # "open"
        /\ status' = status
        /\ Goto(r, "refused")
  /\ UNCHANGED <<asked, recordings, hold, drainVars, stopVars>>

(* StartRecording has put its listener on the tab by now; the script can fail
   to be installed. *)
InstallFails(r) ==
  /\ pc[r] = "install"
  /\ IF Own(r) THEN End(r, "closed") ELSE status' = status
  /\ Goto(r, "refused")
  /\ UNCHANGED <<asked, recordings, hold, drainVars, stopVars>>

(* Installed: the session is held, and the drain started. *)
Installed(r) ==
  /\ pc[r] = "install"
  /\ SetHold(Sess(r), TRUE)
  /\ drain' = [drain EXCEPT ![r] = "running"]
  /\ Goto(r, "insert")
  /\ UNCHANGED <<asked, recordings, status, queue, steps, heard, events, stopVars>>

(* Whatever recording of that id was put there since CheckId is replaced. *)
Insert(r) ==
  /\ pc[r] = "insert"
  /\ recordings' = [recordings EXCEPT ![Id(r)] = r]
  /\ Goto(r, "started")
  /\ UNCHANGED <<asked, sessVars, drainVars, stopVars>>

-----------------------------------------------------------------------------
Listening(s) == {r \in Starts : Sess(r) = s /\ pc[r] \in {"install", "insert", "started"}}

(* The binding is called in the tab of s: every listener ever put on it gets the
   event, and drops it when its channel is full.  Listeners and script stay on
   the tab; once s is closed it is somebody else who works in it. *)
Capture(s, k) ==
  LET gets == {r \in Listening(s) : Len(queue[r]) < Buffer}
      plus(q) == [r \in Starts |-> IF r \in gets THEN Append(q[r], k) ELSE q[r]]
  IN /\ status[s] # "none" /\ Listening(s) # {} /\ events < MaxEvents
     /\ queue' = plus(queue) /\ heard' = plus(heard)
     /\ events' = events + 1
     /\ UNCHANGED <<asked, pc, recordings, sessVars, drain, steps, stopVars>>

(* AddEvent: of navigations back-to-back only the last one is kept. *)
Added(q, k) ==
  CASE k = "blank" -> q
    [] k = "nav" /\ q # <<>> /\ Last(q) = "nav" -> ReplaceAt(q, Len(q), k)
    [] OTHER -> Append(q, k)

(* Mutant of AddEvent: the chain is not collapsed. *)
AddEvent_keepsChain(r) ==
  /\ drain[r] \in {"running", "canceled"} /\ queue[r] # <<>>
  /\ steps' = [steps EXCEPT ![r] = IF Head(queue[r]) = "blank" THEN @
                                   ELSE Append(@, Head(queue[r]))]
  /\ queue' = [queue EXCEPT ![r] = Tail(@)]
  /\ UNCHANGED <<startVars, recordings, sessVars, drain, heard, events, stopVars>>

(* The drain; once it is canceled its select may prefer an event or end it. *)
AddEvent(r) ==
  /\ drain[r] \in {"running", "canceled"} /\ queue[r] # <<>>
  /\ steps' = [steps EXCEPT ![r] = Added(@, Head(queue[r]))]
  /\ queue' = [queue EXCEPT ![r] = Tail(@)]
  /\ UNCHANGED <<startVars, recordings, sessVars, drain, heard, events, stopVars>>

-----------------------------------------------------------------------------
Canceled(r) == [drain EXCEPT ![r] = IF @ = "running" THEN "canceled" ELSE @]

(* Mutant of TakeRecording: looked up, and deleted when it is done. *)
TakeRecording_keeps(c, m) ==
  /\ at[c] = "new" /\ recordings[m] # None
  /\ took' = [took EXCEPT ![c] = recordings[m]]
  /\ drain' = Canceled(recordings[m])
  /\ Proceed(c, "draft")
  /\ UNCHANGED <<startVars, recordings, sessVars, queue, steps, heard, events, draft, stored>>

(* record/stop, refused without a live recording, takes it out of the map and
   cancels its drain, which nobody else can do by then ... *)
TakeRecording(c, m) ==
  /\ at[c] = "new" /\ recordings[m] # None
  /\ took' = [took EXCEPT ![c] = recordings[m]]
  /\ recordings' = [recordings EXCEPT ![m] = None]
  /\ drain' = Canceled(recordings[m])
  /\ Proceed(c, "draft")
  /\ UNCHANGED <<startVars, sessVars, queue, steps, heard, events, draft, stored>>

(* ... takes what the recorder has got by now ... *)
Draft(c) ==
  /\ at[c] = "draft"
  /\ draft' = [draft EXCEPT ![c] = steps[took[c]]]
  /\ Proceed(c, "store")
  /\ UNCHANGED <<startVars, recordings, sessVars, drainVars, took, stored>>

(* ... and stores that (RecordStop and PutOrphan of MacroStore).  If the store
   refuses it, that is the end of the call. *)
Store(c) ==
  /\ at[c] = "store"
  /\ \/ /\ draft[c] # <<>>
        /\ Proceed(c, "release") /\ stored' = [stored EXCEPT ![c] = TRUE]
     \/ /\ Proceed(c, "parked") /\ stored' = stored
  /\ UNCHANGED <<startVars, recordings, sessVars, drainVars, took, draft>>

(* Mutant of Release: only a session that is closed, too, is let go. *)
Release_closing(c) ==
  /\ at[c] = "release"
  /\ \/ /\ IF status[Sess(took[c])] = "open" THEN SetHold(Sess(took[c]), FALSE) ELSE hold' = hold
        /\ Proceed(c, "close")
     \/ Proceed(c, "done") /\ hold' = hold
  /\ UNCHANGED <<startVars, recordings, status, drainVars, took, draft, stored>>

(* The hold is taken off a session that is still open; close_session says
   whether it is closed, too. *)
Release(c) ==
  /\ at[c] = "release"
  /\ IF status[Sess(took[c])] = "open" THEN SetHold(Sess(took[c]), FALSE) ELSE hold' = hold
  /\ Proceed(c, "close") \/ Proceed(c, "done")
  /\ UNCHANGED <<startVars, recordings, status, drainVars, took, draft, stored>>

CloseSession(c) ==
  /\ at[c] = "close"
  /\ End(Sess(took[c]), "closed")
  /\ Proceed(c, "done")
  /\ UNCHANGED <<startVars, recordings, hold, drainVars, took, draft, stored>>

-----------------------------------------------------------------------------
(* Clients close sessions, and Reap those that are idle and not held. *)
ClientCloses(s) ==
  /\ status[s] = "open" /\ End(s, "closed")
  /\ UNCHANGED <<startVars, recordings, hold, drainVars, stopVars>>

Reap(s) ==
  /\ status[s] = "open" /\ ~hold[s] /\ End(s, "reaped")
  /\ UNCHANGED <<startVars, recordings, hold, drainVars, stopVars>>

StartStep(r) ==
  CheckId(r) \/ Lease(r) \/ InstallFails(r) \/ Installed(r) \/ Insert(r)
StopStep(c) == Draft(c) \/ Store(c) \/ Release(c) \/ CloseSession(c)

Next ==
  \/ \E r \in Starts : StartStep(r) \/ AddEvent(r)
  \/ \E c \in Stops : StopStep(c) \/ \E m \in Ids : TakeRecording(c, m)
  \/ \E s \in Sessions : ClientCloses(s) \/ Reap(s) \/ \E k \in Kinds : Capture(s, k)

Spec == Init /\ [][Next]_vars

-----------------------------------------------------------------------------
(* Type invariant; in particular the channels stay within their buffer. *)
TypeOK ==
  /\ asked \in Requests
  /\ pc \in [Starts -> {"new", "lease", "install", "insert", "started", "refused"}]
  /\ recordings \in [Ids -> Starts \cup {None}]
  /\ status \in [Sessions -> {"none", "open", "reaped", "closed"}]
  /\ hold \in [Sessions -> BOOLEAN]
  /\ drain \in [Starts -> {"none", "running", "canceled"}]
  /\ queue \in [Starts -> Seq(Kinds)] /\ \A r \in Starts : Len(queue[r]) <= Buffer
  /\ steps \in [Starts -> Seq(Kinds)] /\ heard \in [Starts -> Seq(Kinds)]
  /\ events \in Nat
  /\ at \in [Stops -> {"new", "draft", "store", "release", "close", "parked", "done"}]
  /\ took \in [Stops -> Starts \cup {None}]
  /\ draft \in [Stops -> Seq(Kinds)] /\ stored \in [Stops -> BOOLEAN]

(* What a sequence of events comes to.  Blank pages are no part of the flow, and
   a navigation that only another one follows is a redirect ... *)
Redirects(q, i) ==
  /\ q[i] = "nav"
  /\ \E j \in i + 1 .. Len(q) : q[j] = "nav" /\ \A l \in i + 1 .. j - 1 : q[l] = "blank"
Kept(q) == {i \in DOMAIN q : q[i] # "blank" /\ ~Redirects(q, i)}

(* ... so that d is what is kept, in that order. *)
Upto(q, i) == {j \in Kept(q) : j <= i}
ComesTo(q, d) ==
  /\ Len(d) = Cardinality(Kept(q))
  /\ \A i \in Kept(q) : d[Cardinality(Upto(q, i))] = q[i]

(* A draft is what was done in its tab, in that order and with redirects
   collapsed, up to some moment: of what got into the channel nothing is
   skipped, doubled or taken from another recording, however events, the
   drain, the stop and other recordings of the same tab overlap. *)
DraftIsWhatWasDone ==
  \A c \in Stops :
    at[c] \in {"store", "release", "close", "parked", "done"} =>
      \E n \in 0 .. Len(heard[took[c]]) :
        ComesTo(SubSeq(heard[took[c]], 1, n), draft[c])

(* A recording is stopped once: of stops that race one gets the draft. *)
StoppedOnce ==
  \A c, d \in Stops : c # d /\ took[c] # None => took[c] # took[d]

(* A stop that could store its draft leaves neither a running drain nor a held
   session behind, unless another recording is in the same session. *)
StopReleases ==
  \A c \in Stops :
    at[c] = "done" =>
      /\ drain[took[c]] = "canceled"
      /\ \/ status[Sess(took[c])] # "open" \/ ~hold[Sess(took[c])]
         \/ \E r \in Starts \ {took[c]} : Sess(r) = Sess(took[c])
=============================================================================
