----------------------------- MODULE MacroStore -----------------------------
(***************************************************************************)
(* internal/macro/macro.go: macros, parked drafts and who may change them. *)
(* A call is a recording that is stopped or a request of the agent; what   *)
(* the operator does in the admin band is one critical section of s.mu     *)
(* each, except PromoteOrphan, which has two files to change.  A file is   *)
(* written by a rename, so a Get without the lock reads one version of it. *)
(* Every write can fail, and the process can be killed between two steps.  *)
(***************************************************************************)
EXTENDS EditableSites, Naturals, Sequences, SequencesExt

CONSTANTS
  Ids,       \* macro ids
  SiteOf,    \* the site of each: Ids -> Sites
  Calls,     \* requests being served
  MaxSteps,  \* bound: steps of a macro
  None

ASSUME MacroAssumption ==
  SiteOf \in [Ids -> Sites] /\ MaxSteps \in Nat /\ None \notin Ids

VARIABLES
  stamp,      \* of <id>.json: "absent", "draft" or "approved"
  steps,      \* its step list
  parked,     \* whether there is an <id>.orphan.json
  kept,       \* its step list
  promoting,  \* s.mu is held by PromoteOrphan for this id
  pc,         \* where a call is
  id,         \* the macro it is about
  take        \* the draft of a recording that could not be stored

fileVars == <<stamp, steps, parked, kept>>
callVars == <<pc, id, take>>
vars == <<granted, loaded, saved, revoked, stamp, steps, parked, kept, promoting,
          pc, id, take>>

(* A step as validate sees it: a type step without and with its op:// reference,
   another step, and one that is refused in a draft, too. *)
StepKinds == {"bare", "secret", "plain", "bad"}
Recordable == {"bare", "plain", "bad"}   \* what AddEvent makes

ValidDraft(q) == q # <<>> /\ "bad" \notin ToSet(q)
Valid(q) == ValidDraft(q) /\ "bare" \notin ToSet(q)

Init ==
  /\ SitesInit
  /\ stamp = [m \in Ids |-> "absent"] /\ steps = [m \in Ids |-> <<>>]
  /\ parked = [m \in Ids |-> FALSE] /\ kept = [m \in Ids |-> <<>>]
  /\ promoting = None
  /\ pc = [c \in Calls |-> "idle"] /\ id \in [Calls -> Ids]
  /\ take = [c \in Calls |-> <<>>]

Unlocked == promoting = None
Goto(c, next) == pc' = [pc EXCEPT ![c] = next]

(* writeLocked; the stamp a macro is written with is what certifies it. *)
Write(m, q, st) ==
  /\ stamp' = [stamp EXCEPT ![m] = st]
  /\ steps' = [steps EXCEPT ![m] = q]

-----------------------------------------------------------------------------
(* record/stop: Put refuses an invalid draft and an id that is taken, and can
   fail; whatever it was, the draft is parked then. *)
RecordStop(c, m) ==
  /\ pc[c] = "idle" /\ Unlocked
  /\ id' = [id EXCEPT ![c] = m]
  /\ \E q \in BoundedSeq(Recordable, MaxSteps) :
       \/ /\ ValidDraft(q) /\ stamp[m] = "absent"
          /\ Write(m, q, "draft")
          /\ UNCHANGED <<pc, take>>
       \/ /\ Goto(c, "park") /\ take' = [take EXCEPT ![c] = q]
          /\ UNCHANGED <<stamp, steps>>
  /\ UNCHANGED <<siteVars, parked, kept, promoting>>

PutOrphan(c) ==
  /\ pc[c] = "park" /\ Unlocked
  /\ \/ /\ parked' = [parked EXCEPT ![id[c]] = TRUE]
        /\ kept' = [kept EXCEPT ![id[c]] = take[c]]
     \/ UNCHANGED <<parked, kept>>
  /\ take' = [take EXCEPT ![c] = <<>>]
  /\ Goto(c, "idle")
  /\ UNCHANGED <<siteVars, stamp, steps, promoting, id>>

-----------------------------------------------------------------------------
(* AgentPut: the grant, then the stamp without the lock, then Put. *)
AgentPut(c, m) ==
  /\ pc[c] = "idle"
  /\ Consult
  /\ id' = [id EXCEPT ![c] = m]
  /\ IF SiteOf[m] \in granted' THEN Goto(c, "put") ELSE pc' = pc
  /\ UNCHANGED <<fileVars, promoting, take>>

PutSeesStamp(c) ==
  /\ pc[c] = "put"
  /\ Goto(c, IF stamp[id[c]] = "approved" THEN "idle" ELSE "store")
  /\ UNCHANGED <<siteVars, fileVars, promoting, id, take>>

(* Mutant of Put: that the id is free was seen before the lock was taken. *)
Put_unchecked(c) ==
  /\ pc[c] = "store" /\ Unlocked
  /\ \/ \E q \in BoundedSeq(StepKinds, MaxSteps) :
          ValidDraft(q) /\ Write(id[c], q, "draft")
     \/ UNCHANGED <<stamp, steps>>
  /\ Goto(c, "idle")
  /\ UNCHANGED <<siteVars, parked, kept, promoting, id, take>>

Put(c) ==
  /\ pc[c] = "store" /\ Unlocked
  /\ \/ \E q \in BoundedSeq(StepKinds, MaxSteps) :
          ValidDraft(q) /\ stamp[id[c]] = "absent" /\ Write(id[c], q, "draft")
     \/ UNCHANGED <<stamp, steps>>
  /\ Goto(c, "idle")
  /\ UNCHANGED <<siteVars, parked, kept, promoting, id, take>>

(* AgentUpdate: the stamp without the lock, the grant, and then Update. *)
AgentUpdate(c, m) ==
  /\ pc[c] = "idle" /\ stamp[m] = "draft"
  /\ id' = [id EXCEPT ![c] = m]
  /\ Goto(c, "edit")
  /\ UNCHANGED <<siteVars, fileVars, promoting, take>>

EditSeesGrant(c) ==
  /\ pc[c] = "edit"
  /\ Consult
  /\ Goto(c, IF SiteOf[id[c]] \in granted' THEN "update" ELSE "idle")
  /\ UNCHANGED <<fileVars, promoting, id, take>>

(* Mutant of Update: an edit keeps the stamp. *)
Update_keepsStamp(m, results) ==
  /\ Unlocked /\ stamp[m] # "absent"
  /\ \E q \in results : ValidDraft(q) /\ Write(m, q, stamp[m])
  /\ UNCHANGED <<siteVars, parked, kept, promoting>>

(* Update: any edit clears the stamp; an invalid result is not written. *)
Update(m, results) ==
  /\ Unlocked /\ stamp[m] # "absent"
  /\ \E q \in results : ValidDraft(q) /\ Write(m, q, "draft")
  /\ UNCHANGED <<siteVars, parked, kept, promoting>>

Swap(q, i, j) == ReplaceAt(ReplaceAt(q, i, q[j]), j, q[i])

(* applyEditOp; an op out of bounds changes nothing.  A request has several
   ops and only its result is validated: two are enough to pass through an
   invalid list. *)
AgentOp(q) ==
  {q} \cup {Append(q, k) : k \in IF Len(q) < MaxSteps THEN StepKinds ELSE {}}
      \cup {ReplaceAt(q, i, k) : i \in DOMAIN q, k \in StepKinds}
      \cup {RemoveAt(q, i) : i \in DOMAIN q}
      \cup {Swap(q, i, j) : i, j \in DOMAIN q}
AgentEdits(q) == UNION {AgentOp(r) : r \in AgentOp(q)}

AgentWrites(c) ==
  /\ pc[c] = "update"
  /\ \/ Update(id[c], AgentEdits(steps[id[c]]))
     \/ UNCHANGED <<siteVars, fileVars, promoting>>
  /\ Goto(c, "idle")
  /\ UNCHANGED <<id, take>>

-----------------------------------------------------------------------------
(* The admin band.  Revoke is an Update that changes no step; set_secret and
   clear_secret, drop_step, move_up and move_down change one. *)
AdminEdits(q) ==
  {q} \cup {ReplaceAt(q, i, "secret") : i \in {j \in DOMAIN q : q[j] = "bare"}}
      \cup {ReplaceAt(q, i, "bare") : i \in {j \in DOMAIN q : q[j] = "secret"}}
      \cup {RemoveAt(q, i) : i \in DOMAIN q}
      \cup {Swap(q, i, i + 1) : i \in {j \in DOMAIN q : j < Len(q)}}

AdminEdit(m) == Update(m, AdminEdits(steps[m])) /\ UNCHANGED callVars

(* Mutant of Approve: validated as a draft only. *)
Approve_lax(m) ==
  /\ Unlocked /\ stamp[m] # "absent" /\ ValidDraft(steps[m])
  /\ Write(m, steps[m], "approved")
  /\ UNCHANGED <<siteVars, parked, kept, promoting, callVars>>

Approve(m) ==
  /\ Unlocked /\ stamp[m] # "absent" /\ Valid(steps[m])
  /\ Write(m, steps[m], "approved")
  /\ UNCHANGED <<siteVars, parked, kept, promoting, callVars>>

Delete(m) ==
  /\ Unlocked /\ stamp[m] # "absent"
  /\ Write(m, <<>>, "absent")
  /\ UNCHANGED <<siteVars, parked, kept, promoting, callVars>>

(* Mutant of PromoteOrphan: removed before it is written, which fails then. *)
PromoteOrphan_removes(m) ==
  /\ Unlocked /\ parked[m] /\ ValidDraft(kept[m]) /\ stamp[m] # "approved"
  /\ parked' = [parked EXCEPT ![m] = FALSE] /\ kept' = [kept EXCEPT ![m] = <<>>]
  /\ promoting' = m
  /\ UNCHANGED <<siteVars, stamp, steps, callVars>>

(* The parked draft replaces a draft, but no approved macro ... *)
PromoteOrphan(m) ==
  /\ Unlocked /\ parked[m] /\ ValidDraft(kept[m]) /\ stamp[m] # "approved"
  /\ Write(m, kept[m], "draft")
  /\ promoting' = m
  /\ UNCHANGED <<siteVars, parked, kept, callVars>>

Unpark(m) ==
  /\ parked' = [parked EXCEPT ![m] = FALSE]
  /\ kept' = [kept EXCEPT ![m] = <<>>]

(* ... and is removed then, if that works. *)
RemovePromoted(m) ==
  /\ promoting = m
  /\ Unpark(m) \/ UNCHANGED <<parked, kept>>
  /\ promoting' = None
  /\ UNCHANGED <<siteVars, stamp, steps, callVars>>

DiscardOrphan(m) ==
  /\ Unlocked /\ parked[m]
  /\ Unpark(m)
  /\ UNCHANGED <<siteVars, stamp, steps, promoting, callVars>>

Designate ==
  /\ \E s \in Sites : Enable(s) \/ Disable(s)
  /\ UNCHANGED <<fileVars, promoting, callVars>>

-----------------------------------------------------------------------------
(* The process is killed and started again. *)
Restart ==
  /\ SitesRestart
  /\ promoting' = None
  /\ pc' = [c \in Calls |-> "idle"] /\ take' = [c \in Calls |-> <<>>]
  /\ UNCHANGED <<fileVars, id>>

CallStep(c) ==
  \/ PutOrphan(c) \/ PutSeesStamp(c) \/ Put(c) \/ EditSeesGrant(c) \/ AgentWrites(c)
  \/ \E m \in Ids : RecordStop(c, m) \/ AgentPut(c, m) \/ AgentUpdate(c, m)

AdminStep(m) ==
  \/ AdminEdit(m) \/ Approve(m) \/ Delete(m)
  \/ PromoteOrphan(m) \/ RemovePromoted(m) \/ DiscardOrphan(m)

Next ==
  \/ \E c \in Calls : CallStep(c)
  \/ \E m \in Ids : AdminStep(m)
  \/ Designate
  \/ Restart

Spec == Init /\ [][Next]_vars

-----------------------------------------------------------------------------
(* Type invariant; in particular whatever is stored is at least a valid draft. *)
TypeOK ==
  /\ SitesTypeOK
  /\ stamp \in [Ids -> {"absent", "draft", "approved"}]
  /\ steps \in [Ids -> Seq(StepKinds)]
  /\ parked \in [Ids -> BOOLEAN]
  /\ kept \in [Ids -> Seq(Recordable)]
  /\ promoting \in Ids \cup {None}
  /\ pc \in [Calls -> {"idle", "park", "put", "store", "edit", "update"}]
  /\ id \in [Calls -> Ids]
  /\ take \in [Calls -> Seq(Recordable)]
  /\ \A m \in Ids : IF stamp[m] = "absent" THEN steps[m] = <<>> ELSE ValidDraft(steps[m])

(* "A secret-less draft can never reach production replay": whatever edits,
   puts and promotions of the agent, of recordings and of the operator came
   before or race with the approval, what is stored as approved is complete. *)
ApprovedIsValid == \A m \in Ids : stamp[m] = "approved" => Valid(steps[m])

(* "Approval certifies the exact step list": while a macro stays approved no
   step changes, and it becomes approved without a step changing. *)
ApprovalCertifies ==
  [][\A m \in Ids : stamp'[m] = "approved" => stamp[m] # "absent" /\ steps'[m] = steps[m]]_vars

(* An approval ends by an edit, by Revoke or by Delete and not implicitly: no
   Put, whatever its unlocked look at the stamp saw, no stopped recording and
   no promoted draft replaces an approved macro. *)
ApprovalIsNotReplaced ==
  [][\A m \in Ids :
       stamp[m] = "approved" /\ stamp'[m] # "approved" =>
         \/ Delete(m) \/ AdminEdit(m)
         \/ \E c \in Calls : pc[c] = "update" /\ id[c] = m /\ AgentWrites(c)]_vars

(* PromoteOrphan loses no draft, wherever it fails or the process is killed: the
   draft that is parked for an id is removed by the operator or once that very
   draft is the stored macro.  What the code does besides, and macro.go:300
   ("must not be silently discarded") says it must not: the next recording of
   the id that cannot be stored is parked over it. *)
ParkedOver(m) == \E c \in Calls : id[c] = m /\ PutOrphan(c) /\ parked'[m]
KeepsParked(m) ==
  parked[m] /\ ~(parked'[m] /\ kept'[m] = kept[m]) =>
    \/ DiscardOrphan(m)
    \/ ~parked'[m] /\ stamp[m] # "absent" /\ steps[m] = kept[m]
    \/ ParkedOver(m)
ParkedIsKept == [][\A m \in Ids : KeepsParked(m)]_vars

(* "Approved macros are frozen to the agent". *)
FrozenToAgent ==
  [][\A m \in Ids, c \in Calls :
       stamp[m] = "approved" /\ pc[c] = "update" /\ pc'[c] = "idle" /\ id[c] = m
         => stamp'[m] = "approved"]_vars
=============================================================================
