-------------------------- MODULE MacroStoreProofs --------------------------
(***************************************************************************)
(* Theorems about MacroStore, for any macros, sites, calls and lengths.    *)
(***************************************************************************)
EXTENDS MacroStore, TLAPS, SequenceTheorems

(* What the enumerations and the edits of the model yield are step lists. *)
LEMMA BoundedSeqType ==
  ASSUME NEW S, NEW n \in Nat, NEW q \in BoundedSeq(S, n)
  PROVE  q \in Seq(S)
<1>1. PICK m \in 0 .. n : q \in [1 .. m -> S] BY DEF BoundedSeq, SeqOf
<1> QED BY <1>1, SeqDef

(* What a recorder writes is a list of steps. *)
LEMMA RecordableType ==
  ASSUME NEW q \in Seq(Recordable)
  PROVE  q \in Seq(StepKinds)
<1>1. Recordable \subseteq StepKinds BY DEF Recordable, StepKinds
<1> QED BY <1>1, SeqMonotonic

(* A list without one of its elements. *)
LEMMA RemoveType ==
  ASSUME NEW S, NEW q \in Seq(S), NEW i \in DOMAIN q
  PROVE  RemoveAt(q, i) \in Seq(S)
<1>1. i \in Int /\ Len(q) \in Int /\ DOMAIN q = 1 .. Len(q) BY LenProperties
<1>2. SubSeq(q, 1, i - 1) \in Seq(S)
  <2>1. \A j \in 1 .. i - 1 : q[j] \in S BY <1>1, ElementOfSeq
  <2> QED BY <1>1, <2>1, SubSeqProperties
<1>3. SubSeq(q, i + 1, Len(q)) \in Seq(S)
  <2>1. \A j \in i + 1 .. Len(q) : q[j] \in S BY <1>1, ElementOfSeq
  <2> QED BY <1>1, <2>1, SubSeqProperties
<1> QED BY <1>2, <1>3, ConcatProperties DEF RemoveAt

(* A list with one element replaced: as long as it was. *)
LEMMA ReplaceType ==
  ASSUME NEW S, NEW q \in Seq(S), NEW i \in DOMAIN q, NEW k \in S
  PROVE  ReplaceAt(q, i, k) \in Seq(S) /\ DOMAIN ReplaceAt(q, i, k) = DOMAIN q
<1>1. DOMAIN q = 1 .. Len(q) BY LenProperties
<1>2. [q EXCEPT ![i] = k] \in Seq(S) /\ Len([q EXCEPT ![i] = k]) = Len(q)
  BY <1>1, ExceptSeq
<1> QED BY <1>1, <1>2, LenProperties DEF ReplaceAt

(* A list with two of its elements exchanged. *)
LEMMA SwapType ==
  ASSUME NEW S, NEW q \in Seq(S), NEW i \in DOMAIN q, NEW j \in DOMAIN q
  PROVE  Swap(q, i, j) \in Seq(S)
<1>1. q[i] \in S /\ q[j] \in S BY LenProperties, ElementOfSeq
<1>2. ReplaceAt(q, i, q[j]) \in Seq(S) /\ j \in DOMAIN ReplaceAt(q, i, q[j])
  BY <1>1, ReplaceType
<1> QED BY <1>1, <1>2, ReplaceType DEF Swap

(* One operation of an AgentUpdate (applyOps) makes a list of steps out of one. *)
LEMMA AgentOpType ==
  ASSUME NEW q \in Seq(StepKinds), NEW r \in AgentOp(q)
  PROVE  r \in Seq(StepKinds)
<1>1. CASE r = q BY <1>1
<1>2. ASSUME NEW k \in StepKinds, r = Append(q, k) PROVE r \in Seq(StepKinds) BY <1>2
<1>3. ASSUME NEW i \in DOMAIN q, NEW k \in StepKinds, r = ReplaceAt(q, i, k)
      PROVE  r \in Seq(StepKinds)
  BY <1>3, ReplaceType
<1>4. ASSUME NEW i \in DOMAIN q, r = RemoveAt(q, i) PROVE r \in Seq(StepKinds)
  BY <1>4, RemoveType
<1>5. ASSUME NEW i \in DOMAIN q, NEW j \in DOMAIN q, r = Swap(q, i, j)
      PROVE  r \in Seq(StepKinds)
  BY <1>5, SwapType
<1> QED BY <1>1, <1>2, <1>3, <1>4, <1>5 DEF AgentOp

(* So does a request of them. *)
LEMMA AgentEditsType ==
  ASSUME NEW q \in Seq(StepKinds), NEW r \in AgentEdits(q)
  PROVE  r \in Seq(StepKinds)
<1>1. PICK p \in AgentOp(q) : r \in AgentOp(p) BY DEF AgentEdits
<1> QED BY <1>1, AgentOpType

(* So does an edit of the operator. *)
LEMMA AdminEditsType ==
  ASSUME NEW q \in Seq(StepKinds), NEW r \in AdminEdits(q)
  PROVE  r \in Seq(StepKinds)
<1>1. CASE r = q BY <1>1
<1>2. ASSUME NEW i \in DOMAIN q, NEW k \in StepKinds, r = ReplaceAt(q, i, k)
      PROVE  r \in Seq(StepKinds)
  BY <1>2, ReplaceType
<1>3. ASSUME NEW i \in DOMAIN q, r = RemoveAt(q, i) PROVE r \in Seq(StepKinds)
  BY <1>3, RemoveType
<1>4. ASSUME NEW i \in DOMAIN q, i < Len(q), r = Swap(q, i, i + 1) PROVE r \in Seq(StepKinds)
  <2>1. i + 1 \in DOMAIN q BY <1>4, LenProperties
  <2> QED BY <1>4, <2>1, SwapType
<1>5. "secret" \in StepKinds /\ "bare" \in StepKinds BY DEF StepKinds
<1> QED BY <1>1, <1>2, <1>3, <1>4, <1>5 DEF AdminEdits

-----------------------------------------------------------------------------
(* While PromoteOrphan has the lock, what it wrote is what is still parked. *)
Promoted ==
  promoting # None =>
    /\ parked[promoting] /\ stamp[promoting] = "draft"
    /\ steps[promoting] = kept[promoting]

(* The inductive invariant. *)
IInv == TypeOK /\ ApprovedIsValid /\ RevocationLasts /\ Promoted

(* An empty store certifies nothing. *)
LEMMA InitIInv == Init => IInv
<1>1. <<>> \in Seq(StepKinds) /\ <<>> \in Seq(Recordable) OBVIOUS
<1> SUFFICES ASSUME Init PROVE IInv OBVIOUS
<1>2. SitesTypeOK /\ RevocationLasts BY DEF Init, SitesInit, SitesTypeOK, RevocationLasts
<1>3. TypeOK BY <1>1, <1>2 DEF Init, TypeOK
<1> QED BY <1>2, <1>3 DEF Init, IInv, ApprovedIsValid, Promoted

(* The part of a step that writes a macro. *)
FilesOK ==
  /\ stamp \in [Ids -> {"absent", "draft", "approved"}]
  /\ steps \in [Ids -> Seq(StepKinds)]
  /\ \A m \in Ids : IF stamp[m] = "absent" THEN steps[m] = <<>> ELSE ValidDraft(steps[m])
  /\ ApprovedIsValid

(* A write of a list that is at least a draft, approved only if it is valid, keeps the files in order. *)
LEMMA WriteIInv ==
  ASSUME IInv, Unlocked, promoting' \in {None} \cup Ids,
         NEW m \in Ids, NEW q \in Seq(StepKinds), ValidDraft(q),
         NEW st \in {"draft", "approved"}, Write(m, q, st),
         st = "approved" => Valid(q)
  PROVE  FilesOK'
BY DEF FilesOK, IInv, TypeOK, ApprovedIsValid, Write

(* The grants. *)
LEMMA SitesIInv ==
  ASSUME SitesTypeOK, RevocationLasts,
         \/ Consult
         \/ \E s \in Sites : Enable(s) \/ Disable(s)
         \/ SitesRestart
  PROVE  SitesTypeOK' /\ RevocationLasts'
<1> USE DEF SitesTypeOK, RevocationLasts
<1>1. CASE Consult BY <1>1 DEF Consult, Load, Unreadable
<1>2. ASSUME NEW s \in Sites, Enable(s) PROVE SitesTypeOK' /\ RevocationLasts'
  BY <1>2 DEF Enable, Unreadable, Grants
<1>3. ASSUME NEW s \in Sites, Disable(s) PROVE SitesTypeOK' /\ RevocationLasts'
  BY <1>3 DEF Disable, Unreadable, Grants
<1>4. CASE SitesRestart BY <1>4 DEF SitesRestart
<1> QED BY <1>1, <1>2, <1>3, <1>4

(* Update writes one of the results, which must be step lists. *)
LEMMA UpdateIInv ==
  ASSUME IInv, NEW m \in Ids, NEW results, \A q \in results : q \in Seq(StepKinds),
         Update(m, results), pc' \in [Calls -> {"idle", "park", "put", "store", "edit", "update"}],
         UNCHANGED <<id, take>>
  PROVE  IInv'
<1>1. PICK q \in results : ValidDraft(q) /\ Write(m, q, "draft") BY DEF Update
<1>2. Unlocked /\ UNCHANGED <<siteVars, parked, kept, promoting>> BY DEF Update
<1>3. promoting' \in {None} \cup Ids BY <1>2 DEF IInv, TypeOK
<1>4. FilesOK'
  BY <1>1, <1>2, <1>3, WriteIInv
<1> QED BY <1>2, <1>4 DEF FilesOK, IInv, TypeOK, SitesTypeOK, ApprovedIsValid, RevocationLasts, Promoted,
      Unlocked, siteVars

(* A stopped recording becomes a stored or a parked draft. *)
LEMMA RecordStopIInv ==
  ASSUME IInv, NEW c \in Calls, NEW m \in Ids, RecordStop(c, m)
  PROVE  IInv'
<1>1. PICK q \in BoundedSeq(Recordable, MaxSteps) :
        \/ /\ ValidDraft(q) /\ stamp[m] = "absent" /\ Write(m, q, "draft")
           /\ UNCHANGED <<pc, take>>
        \/ /\ Goto(c, "park") /\ take' = [take EXCEPT ![c] = q]
           /\ UNCHANGED <<stamp, steps>>
  BY DEF RecordStop
<1>2. q \in Seq(Recordable) BY MacroAssumption, BoundedSeqType
<1>3. q \in Seq(StepKinds) BY <1>2, RecordableType
<1>4. Unlocked /\ id' = [id EXCEPT ![c] = m] /\ UNCHANGED <<siteVars, parked, kept, promoting>>
  BY DEF RecordStop
<1>5. FilesOK'
  <2>1. promoting' \in {None} \cup Ids BY <1>4 DEF IInv, TypeOK
  <2>2. CASE ValidDraft(q) /\ Write(m, q, "draft") BY <1>3, <1>4, <2>1, <2>2, WriteIInv
  <2>3. CASE UNCHANGED <<stamp, steps>> BY <2>3 DEF FilesOK, IInv, TypeOK, ApprovedIsValid
  <2> QED BY <1>1, <2>2, <2>3
<1>6. pc' \in [Calls -> {"idle", "park", "put", "store", "edit", "update"}]
      /\ take' \in [Calls -> Seq(Recordable)]
  BY <1>1, <1>2 DEF IInv, TypeOK, Goto
<1> QED BY <1>4, <1>5, <1>6 DEF FilesOK, IInv, TypeOK, SitesTypeOK, ApprovedIsValid, RevocationLasts,
      Promoted, Unlocked, siteVars

(* An agent's put: the look and the critical section. *)
LEMMA PutIInv ==
  ASSUME IInv, NEW c \in Calls, Put(c)
  PROVE  IInv'
<1>1. /\ Unlocked /\ Goto(c, "idle")
      /\ UNCHANGED <<siteVars, parked, kept, promoting, id, take>>
  BY DEF Put
<1>2. FilesOK'
  <2>1. promoting' \in {None} \cup Ids /\ id[c] \in Ids BY <1>1 DEF IInv, TypeOK
  <2>2. CASE UNCHANGED <<stamp, steps>> BY <2>2 DEF FilesOK, IInv, TypeOK, ApprovedIsValid
  <2>3. ASSUME NEW q \in BoundedSeq(StepKinds, MaxSteps), ValidDraft(q), Write(id[c], q, "draft")
        PROVE  FilesOK'
    <3>1. q \in Seq(StepKinds) BY MacroAssumption, BoundedSeqType
    <3> QED BY <1>1, <2>1, <2>3, <3>1, WriteIInv
  <2> QED BY <2>2, <2>3 DEF Put
<1> QED BY <1>1, <1>2 DEF FilesOK, IInv, TypeOK, SitesTypeOK, ApprovedIsValid, RevocationLasts, Promoted,
      Unlocked, Goto, siteVars

(* All steps of the calls. *)
LEMMA CallIInv ==
  ASSUME IInv, NEW c \in Calls, CallStep(c)
  PROVE  IInv'
<1> USE DEF Goto, fileVars, siteVars
<1>1. CASE PutOrphan(c)
  <2>1. <<>> \in Seq(Recordable) OBVIOUS
  <2> QED BY <1>1, <2>1 DEF PutOrphan, IInv, TypeOK, SitesTypeOK, ApprovedIsValid, RevocationLasts, Promoted, Unlocked
<1>2. CASE PutSeesStamp(c)
  BY <1>2 DEF PutSeesStamp, IInv, TypeOK, SitesTypeOK, ApprovedIsValid, RevocationLasts, Promoted
<1>3. CASE Put(c) BY <1>3, PutIInv
<1>4. CASE EditSeesGrant(c)
  <2>1. SitesTypeOK' /\ RevocationLasts' BY <1>4, SitesIInv DEF EditSeesGrant, IInv, TypeOK
  <2> QED BY <1>4, <2>1 DEF EditSeesGrant, IInv, TypeOK, ApprovedIsValid, Promoted
<1>5. CASE AgentWrites(c)
  <2>1. CASE UNCHANGED <<siteVars, fileVars, promoting>>
    BY <1>5, <2>1 DEF AgentWrites, IInv, TypeOK, SitesTypeOK, ApprovedIsValid, RevocationLasts, Promoted
  <2>2. CASE Update(id[c], AgentEdits(steps[id[c]]))
    <3>1. id[c] \in Ids /\ steps[id[c]] \in Seq(StepKinds) BY DEF IInv, TypeOK
    <3>2. \A q \in AgentEdits(steps[id[c]]) : q \in Seq(StepKinds) BY <3>1, AgentEditsType
    <3>3. pc' \in [Calls -> {"idle", "park", "put", "store", "edit", "update"}]
          /\ UNCHANGED <<id, take>>
      BY <1>5 DEF AgentWrites, IInv, TypeOK
    <3> QED BY <2>2, <3>1, <3>2, <3>3, UpdateIInv
  <2> QED BY <1>5, <2>1, <2>2 DEF AgentWrites
<1>6. ASSUME NEW m \in Ids, RecordStop(c, m) PROVE IInv' BY <1>6, RecordStopIInv
<1>7. ASSUME NEW m \in Ids, AgentPut(c, m) PROVE IInv'
  <2>1. SitesTypeOK' /\ RevocationLasts' BY <1>7, SitesIInv DEF AgentPut, IInv, TypeOK
  <2> QED BY <1>7, <2>1 DEF AgentPut, IInv, TypeOK, ApprovedIsValid, Promoted
<1>8. ASSUME NEW m \in Ids, AgentUpdate(c, m) PROVE IInv'
  BY <1>8 DEF AgentUpdate, IInv, TypeOK, SitesTypeOK, ApprovedIsValid, RevocationLasts, Promoted
<1> QED BY <1>1, <1>2, <1>3, <1>4, <1>5, <1>6, <1>7, <1>8 DEF CallStep

(* All steps of the operator, PromoteOrphan's two files among them. *)
LEMMA AdminIInv ==
  ASSUME IInv, NEW m \in Ids, AdminStep(m)
  PROVE  IInv'
<1> USE DEF siteVars, callVars
<1>1. CASE AdminEdit(m)
  <2>1. steps[m] \in Seq(StepKinds) BY DEF IInv, TypeOK
  <2>2. \A q \in AdminEdits(steps[m]) : q \in Seq(StepKinds) BY <2>1, AdminEditsType
  <2>3. pc' \in [Calls -> {"idle", "park", "put", "store", "edit", "update"}]
        /\ UNCHANGED <<id, take>>
    BY <1>1 DEF AdminEdit, IInv, TypeOK
  <2> QED BY <1>1, <2>2, <2>3, UpdateIInv DEF AdminEdit
<1>2. CASE Approve(m)
  <2>1. FilesOK'
    <3>1. promoting' \in {None} \cup Ids /\ steps[m] \in Seq(StepKinds)
          /\ Valid(steps[m]) /\ ValidDraft(steps[m]) /\ Write(m, steps[m], "approved")
      BY <1>2 DEF Approve, IInv, TypeOK, Valid
    <3> QED BY <1>2, <3>1, WriteIInv DEF Approve
  <2> QED BY <1>2, <2>1 DEF Approve, FilesOK, IInv, TypeOK, SitesTypeOK, ApprovedIsValid,
        RevocationLasts, Promoted, Unlocked
<1>3. CASE Delete(m)
  <2>1. <<>> \in Seq(StepKinds) OBVIOUS
  <2> QED BY <1>3, <2>1 DEF Delete, Write, IInv, TypeOK, SitesTypeOK, ApprovedIsValid,
        RevocationLasts, Promoted, Unlocked
<1>4. CASE PromoteOrphan(m)
  <2>1. kept[m] \in Seq(StepKinds) BY RecordableType DEF IInv, TypeOK
  <2>2. FilesOK'
    <3>1. promoting' \in {None} \cup Ids BY <1>4 DEF PromoteOrphan
    <3> QED BY <1>4, <2>1, <3>1, WriteIInv DEF PromoteOrphan
  <2>3. TypeOK' BY <1>4, <2>2 DEF PromoteOrphan, FilesOK, IInv, TypeOK, SitesTypeOK
  <2>4. Promoted' BY <1>4 DEF PromoteOrphan, Write, IInv, TypeOK, Promoted
  <2>5. RevocationLasts' BY <1>4 DEF PromoteOrphan, IInv, RevocationLasts
  <2> QED BY <2>2, <2>3, <2>4, <2>5 DEF FilesOK, IInv
<1>5. <<>> \in Seq(Recordable) OBVIOUS
<1>6. CASE RemovePromoted(m)
  <2>1. /\ parked' \in [Ids -> BOOLEAN] /\ kept' \in [Ids -> Seq(Recordable)]
    <3>1. parked \in [Ids -> BOOLEAN] /\ kept \in [Ids -> Seq(Recordable)] BY DEF IInv, TypeOK
    <3>2. CASE Unpark(m) BY <1>5, <3>1, <3>2 DEF Unpark
    <3>3. CASE UNCHANGED <<parked, kept>> BY <3>1, <3>3
    <3> QED BY <1>6, <3>2, <3>3 DEF RemovePromoted
  <2>2. promoting' = None /\ UNCHANGED <<siteVars, stamp, steps, callVars>>
    BY <1>6 DEF RemovePromoted
  <2>3. TypeOK' BY <2>1, <2>2 DEF IInv, TypeOK, SitesTypeOK
  <2>4. Promoted' BY <2>2 DEF Promoted
  <2>5. ApprovedIsValid' /\ RevocationLasts' BY <2>2 DEF IInv, ApprovedIsValid, RevocationLasts
  <2> QED BY <2>3, <2>4, <2>5 DEF IInv
<1>7. CASE DiscardOrphan(m)
  BY <1>5, <1>7 DEF DiscardOrphan, Unpark, IInv, TypeOK, SitesTypeOK, ApprovedIsValid,
     RevocationLasts, Promoted, Unlocked
<1> QED BY <1>1, <1>2, <1>3, <1>4, <1>6, <1>7 DEF AdminStep

(* Every step keeps the invariant, a restart included. *)
LEMMA StepIInv == IInv /\ [Next]_vars => IInv'
<1> SUFFICES ASSUME IInv, [Next]_vars PROVE IInv' OBVIOUS
<1> USE DEF siteVars, fileVars, callVars
<1>1. ASSUME NEW c \in Calls, CallStep(c) PROVE IInv' BY <1>1, CallIInv
<1>2. ASSUME NEW m \in Ids, AdminStep(m) PROVE IInv' BY <1>2, AdminIInv
<1>3. CASE Designate
  <2>1. SitesTypeOK' /\ RevocationLasts' BY <1>3, SitesIInv DEF Designate, IInv, TypeOK
  <2> QED BY <1>3, <2>1 DEF Designate, IInv, TypeOK, ApprovedIsValid, Promoted
<1>4. CASE Restart
  <2>1. SitesTypeOK' /\ RevocationLasts' BY <1>4, SitesIInv DEF Restart, IInv, TypeOK
  <2>2. <<>> \in Seq(Recordable) OBVIOUS
  <2> QED BY <1>4, <2>1, <2>2 DEF Restart, IInv, TypeOK, ApprovedIsValid, Promoted
<1>5. CASE UNCHANGED vars
  BY <1>5 DEF vars, IInv, TypeOK, SitesTypeOK, ApprovedIsValid, RevocationLasts, Promoted
<1> QED BY <1>1, <1>2, <1>3, <1>4, <1>5 DEF Next

(* IInv is an invariant. *)
LEMMA AlwaysIInv == Spec => []IInv
BY InitIInv, StepIInv, PTL DEF Spec

-----------------------------------------------------------------------------
(* Type correctness, and that nothing invalid is ever stored as a macro:
   NewStore, Put, Update, PromoteOrphan and Approve together. *)
THEOREM StoreTyped == Spec => []TypeOK
<1>1. IInv => TypeOK BY DEF IInv
<1> QED BY <1>1, AlwaysIInv, PTL

(* A macro that is stored as approved passes the strict validation of Approve. *)
THEOREM ApprovedIsValidHolds == Spec => []ApprovedIsValid
<1>1. IInv => ApprovedIsValid BY DEF IInv
<1> QED BY <1>1, AlwaysIInv, PTL

(* A revocation of an agent-editable site that succeeded lasts over failed
   saves, unreadable registries and restarts, until the site is granted again. *)
THEOREM RevocationLastsHolds == Spec => []RevocationLasts
<1>1. IInv => RevocationLasts BY DEF IInv
<1> QED BY <1>1, AlwaysIInv, PTL

(* An approval certifies the exact steps it was given to. *)
THEOREM ApprovalCertifiesHolds == Spec => ApprovalCertifies
<1>1. IInv /\ [Next]_vars =>
        [\A m \in Ids : stamp'[m] = "approved" => stamp[m] # "absent" /\ steps'[m] = steps[m]]_vars
  <2> SUFFICES ASSUME IInv, Next, NEW n \in Ids, stamp'[n] = "approved"
               PROVE  stamp[n] # "absent" /\ steps'[n] = steps[n]
    OBVIOUS
  <2> USE DEF fileVars, IInv, TypeOK, Write
  <2>1. ASSUME NEW c \in Calls, CallStep(c) PROVE stamp[n] # "absent" /\ steps'[n] = steps[n]
    BY <2>1 DEF CallStep, RecordStop, PutOrphan, AgentPut, PutSeesStamp, Put, AgentUpdate,
       EditSeesGrant, AgentWrites, Update
  <2>2. ASSUME NEW m \in Ids, AdminStep(m) PROVE stamp[n] # "absent" /\ steps'[n] = steps[n]
    BY <2>2 DEF AdminStep, AdminEdit, Update, Approve, Delete, PromoteOrphan, RemovePromoted,
       DiscardOrphan
  <2>3. CASE Designate BY <2>3 DEF Designate
  <2>4. CASE Restart BY <2>4 DEF Restart
  <2> QED BY <2>1, <2>2, <2>3, <2>4 DEF Next
<1> QED BY <1>1, AlwaysIInv, PTL DEF Spec, ApprovalCertifies

(* No put, recording or promotion takes an approved macro's place: what ends an
   approval is the operator's Delete or edit, or an agent's edit already checked. *)
THEOREM ApprovalIsNotReplacedHolds == Spec => ApprovalIsNotReplaced
<1>1. IInv /\ [Next]_vars =>
        [\A m \in Ids :
           stamp[m] = "approved" /\ stamp'[m] # "approved" =>
             \/ Delete(m) \/ AdminEdit(m)
             \/ \E c \in Calls : pc[c] = "update" /\ id[c] = m /\ AgentWrites(c)]_vars
  <2> SUFFICES ASSUME IInv, Next, NEW n \in Ids, stamp[n] = "approved", stamp'[n] # "approved"
               PROVE  \/ Delete(n) \/ AdminEdit(n)
                      \/ \E c \in Calls : pc[c] = "update" /\ id[c] = n /\ AgentWrites(c)
    OBVIOUS
  <2>1. stamp \in [Ids -> {"absent", "draft", "approved"}] /\ id \in [Calls -> Ids]
    BY DEF IInv, TypeOK
  <2>2. ASSUME NEW m \in Ids, NEW q, NEW st, Write(m, q, st), st = "approved" \/ m # n
        PROVE  FALSE
    BY <2>1, <2>2 DEF Write
  <2>3. ASSUME NEW c \in Calls, CallStep(c)
        PROVE  pc[c] = "update" /\ id[c] = n /\ AgentWrites(c)
    <3>1. stamp' # stamp OBVIOUS
    <3>2. ~PutOrphan(c) /\ ~PutSeesStamp(c) /\ ~EditSeesGrant(c)
      BY <3>1 DEF PutOrphan, PutSeesStamp, EditSeesGrant, fileVars
    <3>3. ~(\E m \in Ids : AgentPut(c, m) \/ AgentUpdate(c, m))
      BY <3>1 DEF AgentPut, AgentUpdate, fileVars
    <3>4. ~(\E m \in Ids : RecordStop(c, m)) BY <2>2, <3>1 DEF RecordStop
    <3>5. ~Put(c) BY <2>1, <2>2, <3>1 DEF Put
    <3>6. AgentWrites(c) BY <2>3, <3>2, <3>3, <3>4, <3>5 DEF CallStep
    <3>7. pc[c] = "update" BY <3>6 DEF AgentWrites
    <3>8. Update(id[c], AgentEdits(steps[id[c]])) BY <3>1, <3>6 DEF AgentWrites, fileVars
    <3>9. id[c] = n BY <2>1, <2>2, <3>8 DEF Update
    <3> QED BY <3>6, <3>7, <3>9
  <2>4. ASSUME NEW m \in Ids, AdminStep(m) PROVE Delete(n) \/ AdminEdit(n)
    <3>1. stamp' # stamp OBVIOUS
    <3>2. ~RemovePromoted(m) /\ ~DiscardOrphan(m) BY <3>1 DEF RemovePromoted, DiscardOrphan
    <3>3. ~Approve(m) BY <2>2 DEF Approve
    <3>4. ~PromoteOrphan(m) BY <2>2 DEF PromoteOrphan
    <3>5. CASE Delete(m)
      <4>1. m = n BY <2>2, <3>5 DEF Delete
      <4> QED BY <3>5, <4>1
    <3>6. CASE AdminEdit(m)
      <4>1. m = n BY <2>2, <3>6 DEF AdminEdit, Update
      <4> QED BY <3>6, <4>1
    <3> QED BY <2>4, <3>2, <3>3, <3>4, <3>5, <3>6 DEF AdminStep
  <2>5. ~Designate BY DEF Designate, fileVars
  <2>6. ~Restart BY DEF Restart, fileVars
  <2> QED BY <2>3, <2>4, <2>5, <2>6 DEF Next
<1> QED BY <1>1, AlwaysIInv, PTL DEF Spec, ApprovalIsNotReplaced

(* The draft that is parked for an id leaves the disk when the operator discards
   it, when it has become the stored macro, or when the next one of that id is
   parked over it: not between the two files of a promotion, whatever fails or
   is killed. *)
THEOREM ParkedIsKeptHolds == Spec => ParkedIsKept
<1>1. IInv /\ [Next]_vars =>
        [\A m \in Ids : KeepsParked(m)]_vars
  <2> DEFINE Gone(n) == \/ DiscardOrphan(n)
                        \/ ~parked'[n] /\ stamp[n] # "absent" /\ steps[n] = kept[n]
                        \/ ParkedOver(n)
  <2> SUFFICES ASSUME IInv, Next, NEW n \in Ids, parked[n],
                      ~(parked'[n] /\ kept'[n] = kept[n])
               PROVE  Gone(n)
    BY DEF KeepsParked
  <2>1. parked \in [Ids -> BOOLEAN] /\ kept \in [Ids -> Seq(Recordable)]
        /\ id \in [Calls -> Ids]
    BY DEF IInv, TypeOK
  <2>2. ~UNCHANGED <<parked, kept>> OBVIOUS
  <2>3. ASSUME NEW c \in Calls, CallStep(c) PROVE Gone(n)
    <3>1. CASE PutOrphan(c)
      <4>1. /\ parked' = [parked EXCEPT ![id[c]] = TRUE]
            /\ kept' = [kept EXCEPT ![id[c]] = take[c]]
        BY <2>2, <3>1 DEF PutOrphan
      <4>2. id[c] = n /\ parked'[n] BY <2>1, <4>1
      <4> QED BY <3>1, <4>2 DEF ParkedOver
    <3>2. ~AgentWrites(c) BY <2>2 DEF AgentWrites, Update, fileVars
    <3>3. ~(\E m \in Ids : RecordStop(c, m) \/ AgentPut(c, m) \/ AgentUpdate(c, m))
      BY <2>2 DEF RecordStop, AgentPut, AgentUpdate, fileVars
    <3>4. ~PutSeesStamp(c) /\ ~Put(c) /\ ~EditSeesGrant(c)
      BY <2>2 DEF PutSeesStamp, Put, EditSeesGrant, fileVars
    <3> QED BY <2>3, <3>1, <3>2, <3>3, <3>4 DEF CallStep
  <2>4. ASSUME NEW m \in Ids, AdminStep(m)
        PROVE  Gone(n)
    <3>1. ~AdminEdit(m) /\ ~Approve(m) /\ ~Delete(m) /\ ~PromoteOrphan(m)
      BY <2>2 DEF AdminEdit, Update, Approve, Delete, PromoteOrphan
    <3>2. ASSUME Unpark(m) PROVE m = n /\ ~parked'[n] BY <2>1, <3>2 DEF Unpark
    <3>3. CASE RemovePromoted(m)
      <4>1. m = n /\ promoting = n /\ ~parked'[n] BY <2>2, <3>2, <3>3 DEF RemovePromoted
      <4>2. promoting # None BY <4>1, MacroAssumption
      <4> QED BY <4>1, <4>2 DEF IInv, Promoted
    <3>4. CASE DiscardOrphan(m)
      <4>1. m = n BY <3>2, <3>4 DEF DiscardOrphan
      <4> QED BY <3>4, <4>1
    <3> QED BY <2>4, <3>1, <3>3, <3>4 DEF AdminStep
  <2>5. ~Designate BY <2>2 DEF Designate, fileVars
  <2>6. ~Restart BY <2>2 DEF Restart, fileVars
  <2> QED BY <2>3, <2>4, <2>5, <2>6 DEF Next
<1> QED BY <1>1, AlwaysIInv, PTL DEF Spec, ParkedIsKept
=============================================================================
