------------------------------- MODULE Replays -------------------------------
(***************************************************************************)
(* Replays of macros: handleMacroReplay and WaitResume in internal/server/ *)
(* macro.go, the Replayer in internal/macro/replay.go.                     *)
(*                                                                         *)
(* Every element of Runs is one call of macro/replay and names the session *)
(* it opens, if it opens one; every element of Resumes is one call of      *)
(* macro/resume.  The macros change under the replays by what MacroStore   *)
(* allows: any edit makes a draft, an approval leaves the steps alone.  A  *)
(* session is open until somebody closes it; the reaper may, too, while a  *)
(* replay waits for its human.                                             *)
(***************************************************************************)
EXTENDS Naturals, Sequences, FiniteSets, SequencesExt

CONSTANTS
  Ids,       \* macro ids
  Lists,     \* the step lists a macro may have
  Runs,      \* calls of macro/replay
  Resumes,   \* calls of macro/resume
  Given,     \* sessions that clients have opened
  Requests,  \* what the replays ask for: a set of functions from Runs to
             \* records of an id and a session, None for one of its own
  None

(* A step of a macro: a pause, "guarded" by a resume_assert or not, an "act"
   (any other kind that can run) and a "bare" type step, which Validate refuses. *)
Pauses == {"pause", "guarded"}
StepKinds == Pauses \cup {"act", "bare"}

ASSUME ReplaysAssumption ==
  /\ Lists \subseteq Seq(StepKinds)
  /\ Requests \subseteq [Runs -> [id : Ids, given : Given \cup {None}]]
  /\ Given \cap Runs = {} /\ None \notin Given \cup Runs

VARIABLES
  steps,      \* the stored steps of a macro
  approved,   \* whether they are approved
  grants,     \* macros whose site is agent-editable
  certified,  \* history: the lists ever approved for a macro
  status,     \* of a session: "none", "open" or "closed"
  asked,      \* what each replay asks for
  pc,         \* where it is
  macro,      \* the steps it read
  test,       \* whether it is a test replay
  at,         \* the step it is about to run
  ran,        \* history: the steps it ran
  resumes,    \* macroState.resumes: a channel, named <<replay, step>>
  closed,     \* the channels that are closed
  rpc,        \* where a resume is
  found       \* the channel it found

storeVars == <<steps, approved, grants, certified>>
runVars == <<asked, pc, macro, test, at, ran>>
resumeVars == <<rpc, found>>
vars == <<steps, approved, grants, certified, status, asked, pc, macro, test, at, ran,
          resumes, closed, rpc, found>>

Sessions == Given \cup Runs
Id(r) == asked[r].id
Own(r) == asked[r].given = None
Sess(r) == IF Own(r) THEN r ELSE asked[r].given
Strict(q) == q # <<>> /\ "bare" \notin ToSet(q)
Channel(r) == <<r, at[r]>>

Init ==
  /\ steps \in [Ids -> Lists]
  /\ approved = [m \in Ids |-> FALSE]
  /\ grants \in SUBSET Ids
  /\ certified = [m \in Ids |-> {}]
  /\ status = [s \in Sessions |-> IF s \in Given THEN "open" ELSE "none"]
  /\ asked \in Requests
  /\ pc = [r \in Runs |-> "new"]
  /\ macro = [r \in Runs |-> <<>>]
  /\ test = [r \in Runs |-> FALSE]
  /\ at = [r \in Runs |-> 1]
  /\ ran = [r \in Runs |-> <<>>]
  /\ resumes = [m \in Ids |-> None] /\ closed = {}
  /\ rpc = [c \in Resumes |-> "new"] /\ found = [c \in Resumes |-> None]

Goto(r, next) == pc' = [pc EXCEPT ![r] = next]

-----------------------------------------------------------------------------
(* The store and the grants. *)
Edit(m) ==
  /\ \E q \in Lists : steps' = [steps EXCEPT ![m] = q]
  /\ approved' = [approved EXCEPT ![m] = FALSE]
  /\ UNCHANGED <<grants, certified, status, runVars, resumes, closed, resumeVars>>

Approve(m) ==
  /\ Strict(steps[m])
  /\ approved' = [approved EXCEPT ![m] = TRUE]
  /\ certified' = [certified EXCEPT ![m] = @ \cup {steps[m]}]
  /\ UNCHANGED <<steps, grants, status, runVars, resumes, closed, resumeVars>>

Grant(m) ==
  /\ grants' = IF m \in grants THEN grants \ {m} ELSE grants \cup {m}
  /\ UNCHANGED <<steps, approved, certified, status, runVars, resumes, closed, resumeVars>>

-----------------------------------------------------------------------------
(* The macro is read once, stamp and steps together. *)
Read(r) ==
  /\ pc[r] = "new"
  /\ macro' = [macro EXCEPT ![r] = steps[Id(r)]]
  /\ Goto(r, IF approved[Id(r)] THEN "open" ELSE "draft")
  /\ UNCHANGED <<storeVars, status, asked, test, at, ran, resumes, closed, resumeVars>>

(* An unapproved one is a test replay, if its site is agent-editable. *)
CheckGrant(r) ==
  /\ pc[r] = "draft"
  /\ IF Id(r) \in grants
     THEN Goto(r, "open") /\ test' = [test EXCEPT ![r] = TRUE]
     ELSE Goto(r, "refused") /\ test' = test
  /\ UNCHANGED <<storeVars, status, asked, macro, at, ran, resumes, closed, resumeVars>>

(* openReplaySession, and the strict validation of Run. *)
OpenSession(r) ==
  /\ pc[r] = "open"
  /\ \/ /\ Own(r) \/ status[Sess(r)] = "open"
        /\ status' = [status EXCEPT ![Sess(r)] = "open"]
        /\ Goto(r, IF Strict(macro[r]) THEN "step" ELSE "end")
     \/ /\ Own(r) \/ status[Sess(r)] # "open"
        /\ Goto(r, "refused") /\ status' = status
  /\ UNCHANGED <<storeVars, asked, macro, test, at, ran, resumes, closed, resumeVars>>

Ran(r) == ran' = [ran EXCEPT ![r] = Append(@, macro[r][at[r]])]
Proceed(r) ==
  /\ at' = [at EXCEPT ![r] = @ + 1]
  /\ Goto(r, IF at[r] = Len(macro[r]) THEN "end" ELSE "step")

(* Mutant of RunAct: the macro is read again for every step. *)
RunAct_rereads(r) ==
  /\ pc[r] = "step" /\ macro[r][at[r]] = "act" /\ status[Sess(r)] = "open"
  /\ macro' = [macro EXCEPT ![r] = IF Len(steps[Id(r)]) >= at[r] THEN steps[Id(r)] ELSE @]
  /\ ran' = [ran EXCEPT ![r] = Append(@, macro'[r][at[r]])]
  /\ at' = [at EXCEPT ![r] = @ + 1]
  /\ Goto(r, IF at[r] = Len(macro'[r]) THEN "end" ELSE "step")
  /\ UNCHANGED <<storeVars, status, asked, test, resumes, closed, resumeVars>>

(* runStep, and the call of Run it makes, which needs an open session ... *)
RunAct(r) ==
  /\ pc[r] = "step" /\ macro[r][at[r]] = "act" /\ status[Sess(r)] = "open"
  /\ Ran(r) /\ Proceed(r)
  /\ UNCHANGED <<storeVars, status, asked, macro, test, resumes, closed, resumeVars>>

(* ... and can fail otherwise: the replay ends at the first step that does. *)
ActFails(r) ==
  /\ pc[r] = "step" /\ macro[r][at[r]] = "act"
  /\ Goto(r, "end")
  /\ UNCHANGED <<storeVars, status, asked, macro, test, at, ran, resumes, closed, resumeVars>>

(* WaitResume registers its channel, whatever was registered for the macro. *)
Pause(r) ==
  /\ pc[r] = "step" /\ macro[r][at[r]] \in Pauses
  /\ resumes' = [resumes EXCEPT ![Id(r)] = Channel(r)]
  /\ Goto(r, "wait")
  /\ UNCHANGED <<storeVars, status, asked, macro, test, at, ran, closed, resumeVars>>

(* It deletes what is registered then, whosever it is. *)
Unregister(r) == resumes' = [resumes EXCEPT ![Id(r)] = None]

(* Mutant of Signaled: one channel for all the waits of a macro. *)
Signaled_shared(r) ==
  /\ pc[r] = "wait" /\ \E w \in closed : Id(w[1]) = Id(r)
  /\ Unregister(r)
  /\ Goto(r, "assert")
  /\ UNCHANGED <<storeVars, status, asked, macro, test, at, ran, closed, resumeVars>>

Signaled(r) ==
  /\ pc[r] = "wait" /\ Channel(r) \in closed
  /\ Unregister(r)
  /\ Goto(r, "assert")
  /\ UNCHANGED <<storeVars, status, asked, macro, test, at, ran, closed, resumeVars>>

(* The pause's own timeout, or the request's context. *)
TimesOut(r) ==
  /\ pc[r] = "wait"
  /\ Unregister(r)
  /\ Goto(r, "end")
  /\ UNCHANGED <<storeVars, status, asked, macro, test, at, ran, closed, resumeVars>>

(* The resume_assert of a pause step, if it has one: by Run, too. *)
ResumeAssert(r) ==
  /\ pc[r] = "assert"
  /\ \/ /\ macro[r][at[r]] = "guarded" => status[Sess(r)] = "open"
        /\ Ran(r) /\ Proceed(r)
     \/ /\ macro[r][at[r]] = "guarded"
        /\ Goto(r, "end") /\ UNCHANGED <<at, ran>>
  /\ UNCHANGED <<storeVars, status, asked, macro, test, resumes, closed, resumeVars>>

(* Mutant of End: a replay that failed leaves its session open. *)
End_leaks(r) ==
  /\ pc[r] = "end"
  /\ status' = IF Own(r) /\ ran[r] = macro[r] THEN [status EXCEPT ![r] = "closed"] ELSE status
  /\ Goto(r, "done")
  /\ UNCHANGED <<storeVars, asked, macro, test, at, ran, resumes, closed, resumeVars>>

(* The session is closed if the replay has leased it, and only then. *)
End(r) ==
  /\ pc[r] = "end"
  /\ status' = IF Own(r) THEN [status EXCEPT ![r] = "closed"] ELSE status
  /\ Goto(r, "done")
  /\ UNCHANGED <<storeVars, asked, macro, test, at, ran, resumes, closed, resumeVars>>

-----------------------------------------------------------------------------
(* macro/resume: the channel is found under the lock and closed after it.  The
   call panics if somebody has closed it, and ends there. *)
FindWaiter(c, m) ==
  /\ rpc[c] = "new" /\ resumes[m] # None
  /\ rpc' = [rpc EXCEPT ![c] = "close"]
  /\ found' = [found EXCEPT ![c] = resumes[m]]
  /\ UNCHANGED <<storeVars, status, runVars, resumes, closed>>

CloseChannel(c) ==
  /\ rpc[c] = "close"
  /\ closed' = closed \cup {found[c]}
  /\ rpc' = [rpc EXCEPT ![c] = IF found[c] \in closed THEN "panicked" ELSE "resumed"]
  /\ UNCHANGED <<storeVars, status, runVars, resumes, found>>

(* Clients, or the reaper. *)
CloseElsewhere(s) ==
  /\ status[s] = "open"
  /\ status' = [status EXCEPT ![s] = "closed"]
  /\ UNCHANGED <<storeVars, runVars, resumes, closed, resumeVars>>

RunStep(r) ==
  \/ Read(r) \/ CheckGrant(r) \/ OpenSession(r) \/ RunAct(r) \/ ActFails(r)
  \/ Pause(r) \/ Signaled(r) \/ TimesOut(r) \/ ResumeAssert(r) \/ End(r)

Next ==
  \/ \E m \in Ids : Edit(m) \/ Approve(m) \/ Grant(m)
  \/ \E r \in Runs : RunStep(r)
  \/ \E c \in Resumes : CloseChannel(c) \/ \E m \in Ids : FindWaiter(c, m)
  \/ \E s \in Sessions : CloseElsewhere(s)

Spec == Init /\ [][Next]_vars

-----------------------------------------------------------------------------
(* Type invariant: a replay that goes on has a step to go on with. *)
TypeOK ==
  /\ steps \in [Ids -> Lists] /\ approved \in [Ids -> BOOLEAN]
  /\ grants \subseteq Ids /\ certified \in [Ids -> SUBSET Lists]
  /\ status \in [Sessions -> {"none", "open", "closed"}]
  /\ asked \in Requests
  /\ pc \in [Runs -> {"new", "draft", "open", "step", "wait", "assert", "end", "done", "refused"}]
  /\ macro \in [Runs -> Lists \cup {<<>>}]
  /\ test \in [Runs -> BOOLEAN]
  /\ at \in [Runs -> Nat \ {0}] /\ ran \in [Runs -> Seq(StepKinds)]
  /\ \A r \in Runs : pc[r] \in {"step", "wait", "assert"} => at[r] <= Len(macro[r])
  /\ resumes \in [Ids -> (Runs \X Nat) \cup {None}]
  /\ closed \subseteq Runs \X Nat
  /\ rpc \in [Resumes -> {"new", "close", "resumed", "panicked"}]
  /\ found \in [Resumes -> (Runs \X Nat) \cup {None}]

(* Production replays run steps of one list that was approved, in its order
   and from its start, whatever edits, approvals and revocations come in
   between. *)
RunsWhatWasApproved ==
  \A r \in Runs :
    ran[r] # <<>> /\ ~test[r] => \E q \in certified[Id(r)] : IsPrefix(ran[r], q)

(* A pause is passed by a human only: for every one that a replay has left
   behind, a call of macro/resume found that very wait, and no other one. *)
Resumed(w) == \E c \in Resumes : rpc[c] = "resumed" /\ found[c] = w
ResumedByHuman ==
  \A r \in Runs : \A i \in DOMAIN ran[r] : ran[r][i] \in Pauses => Resumed(<<r, i>>)

(* A replay closes the session it leased, however it ends ... *)
LeasedIsClosed ==
  \A r \in Runs : pc[r] = "done" /\ Own(r) => status[r] = "closed"

(* ... and none that a client has opened, wherever in its list it is and however
   it ends: no step of a replay opens or closes such a session. *)
GivenSurvives ==
  [][\A r \in Runs : RunStep(r) => \A s \in Given : status'[s] = status[s]]_vars
=============================================================================
