---------------------------- MODULE ReplaysProofs ----------------------------
(***************************************************************************)
(* Theorems about Replays, for any macros, replays, sessions and edits.    *)
(***************************************************************************)
EXTENDS Replays, TLAPS, SequenceTheorems

Running == {"step", "wait", "assert"}

(* What a replay has run is the start of the list it read. *)
RanOK ==
  \A r \in Runs :
    /\ Len(ran[r]) = at[r] - 1 /\ Len(ran[r]) <= Len(macro[r])
    /\ \A i \in 1 .. Len(ran[r]) : ran[r][i] = macro[r][i]

(* That list was approved when it was read, unless the replay is a test. *)
CertOK == \A m \in Ids : approved[m] => steps[m] \in certified[m]
ReadBy(r) ==
  /\ pc[r] \in {"new", "draft", "refused", "open"} => ran[r] = <<>>
  /\ pc[r] \in {"open", "end", "done"} \cup Running /\ ~test[r] => macro[r] \in certified[Id(r)]
ReadOK == \A r \in Runs : ReadBy(r)

(* A channel is closed by a resume that found it; a wait that is over, and every
   pause a replay has left behind, has its channel closed. *)
ClosedOK == \A w \in closed : Resumed(w)
FoundOK == \A c \in Resumes : rpc[c] = "close" => found[c] # None
PausedOK ==
  /\ \A r \in Runs : pc[r] = "assert" => Channel(r) \in closed
  /\ \A r \in Runs : \A i \in 1 .. Len(ran[r]) : ran[r][i] \in Pauses => <<r, i>> \in closed

(* The inductive invariant. *)
IInv ==
  TypeOK /\ RanOK /\ CertOK /\ ReadOK /\ ClosedOK /\ FoundOK /\ PausedOK /\ LeasedIsClosed

(* What belongs to a replay: its session, id, lists, position and channel. *)
LEMMA RunType ==
  ASSUME TypeOK, NEW r \in Runs
  PROVE  /\ Sess(r) \in Sessions /\ Id(r) \in Ids /\ (Own(r) => Sess(r) = r)
         /\ macro[r] \in Seq(StepKinds) /\ ran[r] \in Seq(StepKinds)
         /\ at[r] \in Nat \ {0} /\ Len(macro[r]) \in Nat /\ Channel(r) \in Runs \X Nat
<1>1. asked[r] \in [id : Ids, given : Given \cup {None}]
  BY ReplaysAssumption DEF TypeOK
<1>2. <<>> \in Seq(StepKinds) OBVIOUS
<1>3. macro[r] \in Seq(StepKinds) BY <1>2, ReplaysAssumption DEF TypeOK
<1> QED BY <1>1, <1>3, LenProperties DEF TypeOK, Sess, Own, Id, Sessions, Channel

(* A session of its own belongs to one replay only. *)
LEMMA OwnSession ==
  ASSUME TypeOK, NEW r \in Runs, NEW q \in Runs, Own(r), Sess(q) = r
  PROVE  q = r
<1>1. asked[q].given \in Given \cup {None} BY ReplaysAssumption DEF TypeOK
<1> QED BY <1>1, ReplaysAssumption DEF Sess, Own

(* Before the first macro/replay. *)
LEMMA InitIInv == Init => IInv
<1> SUFFICES ASSUME Init PROVE IInv OBVIOUS
<1>1. <<>> \in Seq(StepKinds) /\ Len(<<>>) = 0 OBVIOUS
<1>2. TypeOK BY <1>1, ReplaysAssumption DEF Init, TypeOK, Sessions
<1>3. RanOK BY <1>1 DEF Init, RanOK
<1>4. PausedOK /\ ClosedOK /\ FoundOK BY <1>1 DEF Init, PausedOK, ClosedOK, FoundOK
<1> QED BY <1>2, <1>3, <1>4 DEF Init, IInv, CertOK, ReadOK, ReadBy, LeasedIsClosed, Running

-----------------------------------------------------------------------------
(* Edits, approvals and grants, and the ends of sessions. *)
LEMMA OtherIInv ==
  ASSUME IInv,
         \/ \E m \in Ids : Edit(m) \/ Approve(m) \/ Grant(m)
         \/ \E s \in Sessions : CloseElsewhere(s)
  PROVE  IInv'
<1> USE DEF runVars, resumeVars
<1>1. UNCHANGED <<asked, pc, macro, test, at, ran, resumes, closed, rpc, found>>
  BY DEF Edit, Approve, Grant, CloseElsewhere
<1>2. /\ steps' \in [Ids -> Lists] /\ approved' \in [Ids -> BOOLEAN]
      /\ grants' \subseteq Ids /\ certified' \in [Ids -> SUBSET Lists]
      /\ status' \in [Sessions -> {"none", "open", "closed"}]
  <2>1. /\ steps \in [Ids -> Lists] /\ approved \in [Ids -> BOOLEAN]
        /\ grants \subseteq Ids /\ certified \in [Ids -> SUBSET Lists]
        /\ status \in [Sessions -> {"none", "open", "closed"}]
    BY DEF IInv, TypeOK
  <2>2. ASSUME NEW m \in Ids, Edit(m) PROVE <1>2 BY <2>1, <2>2 DEF Edit
  <2>3. ASSUME NEW m \in Ids, Approve(m) PROVE <1>2 BY <2>1, <2>3 DEF Approve
  <2>4. ASSUME NEW m \in Ids, Grant(m) PROVE <1>2 BY <2>1, <2>4 DEF Grant
  <2>5. ASSUME NEW s \in Sessions, CloseElsewhere(s) PROVE <1>2
    BY <2>1, <2>5 DEF CloseElsewhere, storeVars
  <2> QED BY <2>2, <2>3, <2>4, <2>5
<1>3. TypeOK' BY <1>1, <1>2 DEF IInv, TypeOK
<1>4. CertOK' /\ \A m \in Ids : certified[m] \subseteq certified'[m]
  <2>1. /\ steps \in [Ids -> Lists] /\ approved \in [Ids -> BOOLEAN]
        /\ certified \in [Ids -> SUBSET Lists] /\ CertOK
    BY DEF IInv, TypeOK
  <2>2. ASSUME NEW m \in Ids, Edit(m) PROVE <1>4 BY <2>1, <2>2 DEF Edit, CertOK
  <2>3. ASSUME NEW m \in Ids, Approve(m) PROVE <1>4 BY <2>1, <2>3 DEF Approve, CertOK
  <2>4. ASSUME NEW m \in Ids, Grant(m) PROVE <1>4 BY <2>1, <2>4 DEF Grant, CertOK
  <2>5. ASSUME NEW s \in Sessions, CloseElsewhere(s) PROVE <1>4
    BY <2>1, <2>5 DEF CloseElsewhere, storeVars, CertOK
  <2> QED BY <2>2, <2>3, <2>4, <2>5
<1>5. \A s \in Sessions : status[s] = "closed" => status'[s] = "closed"
  BY DEF Edit, Approve, Grant, CloseElsewhere, IInv, TypeOK
<1>6. ReadOK'
  <2>1. \A r \in Runs : Id(r)' = Id(r) /\ Id(r) \in Ids
    BY <1>1, RunType DEF Id, IInv
  <2> QED BY <1>1, <1>4, <2>1 DEF IInv, ReadOK, ReadBy
<1>7. LeasedIsClosed'
  BY <1>1, <1>5 DEF IInv, LeasedIsClosed, Own, Sessions
<1>8. RanOK' BY <1>1 DEF IInv, RanOK
<1>9. ClosedOK' /\ FoundOK' /\ PausedOK'
  BY <1>1 DEF IInv, ClosedOK, FoundOK, PausedOK, Resumed, Channel
<1> QED BY <1>3, <1>4, <1>6, <1>7, <1>8, <1>9 DEF IInv

(* macro/resume. *)
LEMMA ResumeIInv ==
  ASSUME IInv, NEW c \in Resumes, CloseChannel(c) \/ \E m \in Ids : FindWaiter(c, m)
  PROVE  IInv'
<1> USE DEF runVars, storeVars
<1>1. UNCHANGED <<asked, pc, macro, test, at, ran, resumes, steps, approved, grants, certified, status>>
  BY DEF CloseChannel, FindWaiter
<1>2. /\ closed' \subseteq Runs \X Nat /\ closed \subseteq closed'
      /\ rpc' \in [Resumes -> {"new", "close", "resumed", "panicked"}]
      /\ found' \in [Resumes -> (Runs \X Nat) \cup {None}]
      /\ ClosedOK' /\ FoundOK'
  <2>1. /\ closed \subseteq Runs \X Nat
        /\ rpc \in [Resumes -> {"new", "close", "resumed", "panicked"}]
        /\ found \in [Resumes -> (Runs \X Nat) \cup {None}]
        /\ resumes \in [Ids -> (Runs \X Nat) \cup {None}]
        /\ ClosedOK /\ FoundOK
    BY DEF IInv, TypeOK
  <2>2. ASSUME NEW m \in Ids, FindWaiter(c, m) PROVE <1>2
    BY <2>1, <2>2 DEF FindWaiter, ClosedOK, FoundOK, Resumed
  <2>3. ASSUME CloseChannel(c) PROVE <1>2
    <3>1. found[c] \in Runs \X Nat BY <2>1, <2>3 DEF FoundOK, CloseChannel
    <3>2. \A w : Resumed(w) => Resumed(w)'
      BY <2>1, <2>3 DEF CloseChannel, Resumed
    <3>3. found[c] \notin closed => Resumed(found[c])'
      BY <2>1, <2>3 DEF CloseChannel, Resumed
    <3>4. closed' = closed \cup {found[c]} BY <2>3 DEF CloseChannel
    <3>5. ClosedOK'
      <4> SUFFICES ASSUME NEW w \in closed' PROVE Resumed(w)' BY DEF ClosedOK
      <4>1. CASE w \in closed BY <2>1, <3>2, <4>1 DEF ClosedOK
      <4>2. CASE w \notin closed
        <5>1. w = found[c] BY <3>4, <4>2
        <5> QED BY <2>1, <2>3, <4>2, <5>1 DEF CloseChannel, Resumed
      <4> QED BY <4>1, <4>2
    <3> QED BY <2>1, <2>3, <3>1, <3>4, <3>5 DEF CloseChannel, FoundOK
  <2> QED BY <2>2, <2>3
<1>3. TypeOK' BY <1>1, <1>2 DEF IInv, TypeOK
<1>4. RanOK' /\ CertOK' BY <1>1 DEF IInv, RanOK, CertOK
<1>5. ReadOK' /\ LeasedIsClosed'
  BY <1>1 DEF IInv, ReadOK, ReadBy, LeasedIsClosed, Own, Id
<1>6. PausedOK' BY <1>1, <1>2 DEF IInv, PausedOK, Channel
<1> QED BY <1>2, <1>3, <1>4, <1>5, <1>6 DEF IInv

-----------------------------------------------------------------------------
(* What every step of a replay leaves alone. *)
LEMMA RunFrame ==
  ASSUME NEW r \in Runs, RunStep(r)
  PROVE  UNCHANGED <<steps, approved, grants, certified, asked, closed, rpc, found>>
BY DEF RunStep, Read, CheckGrant, OpenSession, RunAct, ActFails, Pause, Signaled, TimesOut,
   ResumeAssert, End, storeVars, resumeVars

(* A step of a replay that runs the step it is at. *)
Advances(r) ==
  /\ pc[r] \in {"step", "assert"} /\ (pc[r] = "assert" \/ macro[r][at[r]] \notin Pauses)
  /\ Ran(r) /\ Proceed(r)
  /\ UNCHANGED <<macro, test, status, resumes>>

(* One that does not. *)
Stays(r) ==
  /\ UNCHANGED <<at, ran>>
  /\ \A q \in Runs \ {r} : macro'[q] = macro[q] /\ test'[q] = test[q] /\ pc'[q] = pc[q]
  /\ pc[r] # "new" => macro' = macro
  /\ pc'[r] = "step" => pc[r] = "open" /\ Strict(macro[r])
  /\ pc'[r] \in {"wait", "assert"} => pc[r] \in {"step", "wait"}
  /\ pc'[r] = "assert" => Channel(r) \in closed

(* A step of a replay either runs no step of its list or runs the next one. *)
LEMMA StaysOrAdvances ==
  ASSUME IInv, NEW r \in Runs, RunStep(r)
  PROVE  Stays(r) \/ Advances(r)
<1> USE DEF Goto, storeVars, resumeVars
<1>0. /\ pc \in [Runs -> {"new", "draft", "open", "step", "wait", "assert", "end", "done", "refused"}]
      /\ macro \in [Runs -> Lists \cup {<<>>}] /\ test \in [Runs -> BOOLEAN]
  BY DEF IInv, TypeOK
<1>1. CASE Read(r) BY <1>0, <1>1 DEF Read, Stays
<1>2. CASE CheckGrant(r) BY <1>0, <1>2 DEF CheckGrant, Stays
<1>3. CASE OpenSession(r) BY <1>0, <1>3 DEF OpenSession, Stays
<1>4. CASE ActFails(r) BY <1>0, <1>4 DEF ActFails, Stays
<1>5. CASE Pause(r) BY <1>0, <1>5 DEF Pause, Stays
<1>6. CASE Signaled(r) BY <1>0, <1>6 DEF Signaled, Unregister, Stays
<1>7. CASE TimesOut(r) BY <1>0, <1>7 DEF TimesOut, Unregister, Stays
<1>8. CASE End(r) BY <1>0, <1>8 DEF End, Stays
<1>9. CASE RunAct(r) BY <1>0, <1>9 DEF RunAct, Advances, Pauses
<1>10. CASE ResumeAssert(r) BY <1>0, <1>10 DEF ResumeAssert, Stays, Advances
<1> QED BY <1>1, <1>2, <1>3, <1>4, <1>5, <1>6, <1>7, <1>8, <1>9, <1>10 DEF RunStep

(* What it runs comes after what it has run. *)
LEMMA RanStep ==
  ASSUME IInv, NEW r \in Runs, Advances(r)
  PROVE  /\ at[r] \in 1 .. Len(macro[r]) /\ ran'[r] \in Seq(StepKinds)
         /\ Len(ran'[r]) = at[r]
         /\ \A i \in 1 .. at[r] - 1 : ran'[r][i] = ran[r][i]
         /\ ran'[r][at[r]] = macro[r][at[r]]
         /\ \A q \in Runs \ {r} : ran'[q] = ran[q] /\ at'[q] = at[q]
         /\ at'[r] = at[r] + 1
<1>1. /\ at[r] \in Nat \ {0} /\ Len(macro[r]) \in Nat /\ macro[r] \in Seq(StepKinds)
      /\ ran[r] \in Seq(StepKinds) /\ Len(ran[r]) = at[r] - 1
  BY RunType DEF IInv, RanOK
<1>2. at[r] \in 1 .. Len(macro[r]) BY <1>1 DEF IInv, TypeOK, Advances
<1>3. macro[r][at[r]] \in StepKinds BY <1>1, <1>2, ElementOfSeq
<1>4. ran'[r] = Append(ran[r], macro[r][at[r]]) /\ \A q \in Runs \ {r} : ran'[q] = ran[q]
  BY DEF Advances, Ran, IInv, TypeOK
<1>5. at'[r] = at[r] + 1 /\ \A q \in Runs \ {r} : at'[q] = at[q]
  BY DEF Advances, Proceed, IInv, TypeOK
<1>6. /\ Append(ran[r], macro[r][at[r]]) \in Seq(StepKinds)
      /\ Len(Append(ran[r], macro[r][at[r]])) = at[r]
      /\ \A i \in 1 .. at[r] - 1 : Append(ran[r], macro[r][at[r]])[i] = ran[r][i]
      /\ Append(ran[r], macro[r][at[r]])[at[r]] = macro[r][at[r]]
  BY <1>1, <1>3, AppendProperties
<1> QED BY <1>2, <1>4, <1>5, <1>6

(* The steps of a replay keep the types. *)
LEMMA RunTypeOK ==
  ASSUME IInv, NEW r \in Runs, RunStep(r)
  PROVE  TypeOK'
<1> USE DEF Goto, storeVars, resumeVars
<1>1. UNCHANGED <<steps, approved, grants, certified, asked, closed, rpc, found>> BY RunFrame
<1>2. Sess(r) \in Sessions /\ Id(r) \in Ids /\ Channel(r) \in Runs \X Nat /\ r \in Sessions
  BY RunType DEF IInv, Sessions
<1>3. pc' \in [Runs -> {"new", "draft", "open", "step", "wait", "assert", "end", "done", "refused"}]
  <2>1. PICK next \in {"draft", "open", "step", "wait", "assert", "end", "done", "refused"} :
          pc' = [pc EXCEPT ![r] = next]
    BY DEF RunStep, Read, CheckGrant, OpenSession, RunAct, ActFails, Pause, Signaled, TimesOut,
       ResumeAssert, End, Proceed
  <2> QED BY <2>1 DEF IInv, TypeOK
<1>4. macro' \in [Runs -> Lists \cup {<<>>}] /\ test' \in [Runs -> BOOLEAN]
  <2>1. /\ macro \in [Runs -> Lists \cup {<<>>}] /\ test \in [Runs -> BOOLEAN]
        /\ steps \in [Ids -> Lists]
    BY DEF IInv, TypeOK
  <2>2. CASE Read(r) BY <1>2, <2>1, <2>2 DEF Read
  <2>3. CASE CheckGrant(r) BY <2>1, <2>3 DEF CheckGrant
  <2> QED BY <2>1, <2>2, <2>3
      DEF RunStep, OpenSession, RunAct, ActFails, Pause, Signaled, TimesOut, ResumeAssert, End
<1>5. resumes' \in [Ids -> (Runs \X Nat) \cup {None}]
  BY <1>2 DEF IInv, TypeOK, RunStep, Read, CheckGrant, OpenSession, RunAct, ActFails, Pause,
     Signaled, TimesOut, ResumeAssert, End, Unregister
<1>6. status' \in [Sessions -> {"none", "open", "closed"}]
  <2>1. status \in [Sessions -> {"none", "open", "closed"}] BY DEF IInv, TypeOK
  <2>2. CASE OpenSession(r) BY <1>2, <2>1, <2>2 DEF OpenSession
  <2>3. CASE End(r) BY <1>2, <2>1, <2>3 DEF End
  <2> QED BY <2>1, <2>2, <2>3
      DEF RunStep, Read, CheckGrant, RunAct, ActFails, Pause, Signaled, TimesOut, ResumeAssert
<1>7. at' \in [Runs -> Nat \ {0}] /\ ran' \in [Runs -> Seq(StepKinds)]
  <2>1. at \in [Runs -> Nat \ {0}] /\ ran \in [Runs -> Seq(StepKinds)] BY DEF IInv, TypeOK
  <2>2. CASE Stays(r) BY <2>1, <2>2 DEF Stays
  <2>3. CASE Advances(r)
    <3>1. ran'[r] \in Seq(StepKinds) BY <2>3, RanStep
    <3>2. ran' = [ran EXCEPT ![r] = ran'[r]] BY <2>1, <2>3 DEF Advances, Ran
    <3>3. at' = [at EXCEPT ![r] = at[r] + 1] BY <2>1, <2>3 DEF Advances, Proceed
    <3>4. at[r] + 1 \in Nat \ {0} BY <2>1
    <3> QED BY <2>1, <3>1, <3>2, <3>3, <3>4
  <2> QED BY <2>2, <2>3, StaysOrAdvances
<1>8. \A q \in Runs : pc'[q] \in {"step", "wait", "assert"} => at'[q] <= Len(macro'[q])
  <2> SUFFICES ASSUME NEW q \in Runs, pc'[q] \in {"step", "wait", "assert"}
               PROVE  at'[q] <= Len(macro'[q])
    OBVIOUS
  <2>1. pc[q] \in {"step", "wait", "assert"} => at[q] <= Len(macro[q])
    BY DEF IInv, TypeOK
  <2>2. CASE Stays(r)
    <3>1. CASE q # r \/ pc[r] # "open" BY <2>1, <2>2, <3>1 DEF Stays
    <3>2. CASE q = r /\ pc[r] = "open"
      <4>1. macro[r] \in Seq(StepKinds) /\ macro[r] # <<>> /\ macro' = macro
        BY <2>2, <3>2, RunType DEF Stays, Strict, IInv
      <4>2. at'[r] = 1
        <5>1. ran[r] = <<>> /\ Len(ran[r]) = at[r] - 1 /\ at[r] \in Nat
          BY <3>2, RunType DEF IInv, ReadOK, ReadBy, RanOK
        <5> QED BY <2>2, <5>1 DEF Stays
      <4> QED BY <3>2, <4>1, <4>2, LenProperties, EmptySeq
    <3> QED BY <3>1, <3>2
  <2>3. CASE Advances(r)
    <3>1. CASE q # r BY <2>1, <2>3, <3>1, RanStep DEF Advances, Proceed, IInv, TypeOK
    <3>2. CASE q = r
      <4>1. at[r] # Len(macro[r])
        BY <2>3, <3>2 DEF Advances, Proceed, IInv, TypeOK
      <4>2. at[r] \in 1 .. Len(macro[r]) /\ at'[r] = at[r] + 1 /\ Len(macro[r]) \in Nat
        BY <2>3, RanStep, RunType DEF IInv
      <4> QED BY <2>3, <3>2, <4>1, <4>2 DEF Advances
    <3> QED BY <3>1, <3>2
  <2> QED BY <2>2, <2>3, StaysOrAdvances
<1> QED BY <1>1, <1>3, <1>4, <1>5, <1>6, <1>7, <1>8 DEF IInv, TypeOK

(* The steps of a replay keep the invariant. *)
LEMMA RunIInv ==
  ASSUME IInv, NEW r \in Runs, RunStep(r)
  PROVE  IInv'
<1> USE DEF Goto, storeVars, resumeVars
<1>1. UNCHANGED <<steps, approved, grants, certified, asked, closed, rpc, found>> BY RunFrame
<1>2. \A q \in Runs : /\ Id(q)' = Id(q) /\ Id(q) \in Ids /\ (Own(q)' <=> Own(q))
                      /\ ran[q] \in Seq(StepKinds) /\ at[q] \in Nat \ {0}
                      /\ Len(macro[q]) \in Nat
  BY <1>1, RunType DEF Id, Own, IInv
<1>3. TypeOK' BY RunTypeOK
<1>4. CertOK' /\ ClosedOK' /\ FoundOK'
  BY <1>1 DEF IInv, CertOK, ClosedOK, FoundOK, Resumed
<1>5. Stays(r) \/ Advances(r) BY StaysOrAdvances
<1>6. RanOK'
  <2>1. CASE Stays(r) /\ macro' = macro BY <2>1 DEF Stays, IInv, RanOK
  <2>2. CASE Stays(r) /\ pc[r] = "new"
    <3>1. ran[r] = <<>> /\ Len(ran[r]) = 0 BY <2>2 DEF IInv, ReadOK, ReadBy
    <3>2. Len(macro'[r]) \in Nat
      <4>1. <<>> \in Seq(StepKinds) OBVIOUS
      <4>2. macro'[r] \in Seq(StepKinds) BY <1>3, <4>1, ReplaysAssumption DEF TypeOK
      <4> QED BY <4>2, LenProperties
    <3> QED BY <2>2, <3>1, <3>2 DEF Stays, IInv, RanOK
  <2>3. CASE Advances(r)
    <3>1. macro' = macro /\ at[r] \in 1 .. Len(macro[r]) BY <2>3, RanStep DEF Advances
    <3>2. Len(ran[r]) = at[r] - 1 BY DEF IInv, RanOK
    <3>3. at'[r] = at[r] + 1 /\ Len(ran'[r]) = at[r] /\ Len(macro[r]) \in Nat /\ at[r] \in Nat
      BY <1>2, <2>3, RanStep
    <3>4. \A i \in 1 .. Len(ran'[r]) : ran'[r][i] = macro[r][i]
      <4> SUFFICES ASSUME NEW i \in 1 .. at[r] PROVE ran'[r][i] = macro[r][i] BY <3>3
      <4>1. CASE i = at[r] BY <2>3, <4>1, RanStep
      <4>2. CASE i # at[r]
        <5>1. i \in 1 .. at[r] - 1 BY <1>2, <4>2
        <5> QED BY <2>3, <3>2, <5>1, RanStep DEF IInv, RanOK
      <4> QED BY <4>1, <4>2
    <3>5. \A q \in Runs \ {r} : ran'[q] = ran[q] /\ at'[q] = at[q] BY <2>3, RanStep
    <3>6. Len(ran'[r]) = at'[r] - 1 /\ Len(ran'[r]) <= Len(macro[r]) BY <3>1, <3>3
    <3> QED BY <3>1, <3>4, <3>5, <3>6 DEF IInv, RanOK
  <2> QED BY <1>5, <2>1, <2>2, <2>3 DEF Stays
<1>7. PausedOK'
  <2>1. CASE Stays(r)
    <3>1. \A q \in Runs : ran'[q] = ran[q] /\ Channel(q)' = Channel(q)
      BY <2>1 DEF Stays, Channel
    <3> QED BY <1>1, <2>1, <3>1 DEF Stays, IInv, PausedOK
  <2>2. CASE Advances(r)
    <3>1. \A q \in Runs \ {r} : Channel(q)' = Channel(q) /\ ran'[q] = ran[q] /\ pc'[q] = pc[q]
      BY <2>2, RanStep DEF Channel, Advances, Proceed, IInv, TypeOK
    <3>2. pc'[r] # "assert" BY <2>2 DEF Advances, Proceed, IInv, TypeOK
    <3>3. ASSUME NEW i \in 1 .. Len(ran'[r]), ran'[r][i] \in Pauses PROVE <<r, i>> \in closed
      <4>1. CASE i = at[r]
        <5>1. pc[r] = "assert" BY <2>2, <3>3, <4>1, RanStep DEF Advances
        <5> QED BY <4>1, <5>1 DEF IInv, PausedOK, Channel
      <4>2. CASE i # at[r]
        <5>1. Len(ran'[r]) = at[r] /\ Len(ran[r]) = at[r] - 1
          BY <2>2, RanStep DEF IInv, RanOK
        <5>2. i \in 1 .. at[r] - 1 /\ i \in 1 .. Len(ran[r]) BY <1>2, <4>2, <5>1
        <5>3. ran'[r][i] = ran[r][i] BY <2>2, <5>2, RanStep
        <5> QED BY <3>3, <5>2, <5>3 DEF IInv, PausedOK
      <4> QED BY <4>1, <4>2
    <3> QED BY <1>1, <3>1, <3>2, <3>3 DEF IInv, PausedOK
  <2> QED BY <1>5, <2>1, <2>2
<1>8. ReadOK'
  <2>1. \A q \in Runs \ {r} :
          pc'[q] = pc[q] /\ ran'[q] = ran[q] /\ macro'[q] = macro[q] /\ test'[q] = test[q]
    BY <1>5, RanStep DEF Stays, Advances, Proceed, IInv, TypeOK
  <2>2. ReadBy(r)'
    <3>0. ReadBy(r) /\ r \in Runs BY DEF IInv, ReadOK
    <3>1. CASE Read(r)
      <4>1. approved[Id(r)] => steps[Id(r)] \in certified[Id(r)] BY <1>2 DEF IInv, CertOK
      <4>2. /\ pc'[r] \in {"open", "draft"} /\ ran' = ran /\ macro'[r] = steps[Id(r)]
            /\ pc'[r] = "open" => approved[Id(r)] /\ pc[r] = "new"
        BY <3>1 DEF Read, IInv, TypeOK
      <4>3. ran[r] = <<>> BY <3>0, <3>1 DEF ReadBy, Read
      <4> QED BY <1>1, <1>2, <4>1, <4>2, <4>3 DEF ReadBy, Running
    <3>2. CASE CheckGrant(r)
      <4>1. ran' = ran /\ pc'[r] \in {"open", "refused"} /\ (pc'[r] = "open" => test'[r])
        BY <3>2 DEF CheckGrant, IInv, TypeOK
      <4>2. ran[r] = <<>> BY <3>0, <3>2 DEF ReadBy, CheckGrant
      <4> QED BY <4>1, <4>2 DEF ReadBy, Running
    <3>3. CASE OpenSession(r)
      <4>1. /\ pc[r] = "open" /\ pc'[r] \in {"step", "end", "refused"}
            /\ ran' = ran /\ macro' = macro /\ test' = test
        BY <3>3 DEF OpenSession, IInv, TypeOK
      <4> QED BY <1>1, <1>2, <3>0, <4>1 DEF ReadBy, Running
    <3>4. CASE pc[r] \in Running \cup {"end"} /\ ~Read(r) /\ ~CheckGrant(r) /\ ~OpenSession(r)
      <4>1. pc'[r] \in {"end", "done"} \cup Running
        BY <3>4 DEF RunStep, RunAct, ActFails, Pause, Signaled, TimesOut, ResumeAssert, End, Proceed,
           IInv, TypeOK, Running
      <4>2. macro' = macro /\ test' = test
        BY <3>4 DEF RunStep, RunAct, ActFails, Pause, Signaled, TimesOut, ResumeAssert, End
      <4> QED BY <1>1, <1>2, <3>0, <3>4, <4>1, <4>2 DEF ReadBy, Running
    <3> QED BY <3>1, <3>2, <3>3, <3>4
        DEF RunStep, RunAct, ActFails, Pause, Signaled, TimesOut, ResumeAssert, End, Running
  <2>3. ASSUME NEW q \in Runs \ {r} PROVE ReadBy(q)'
    <3>1. ReadBy(q) BY DEF IInv, ReadOK
    <3> QED BY <1>1, <1>2, <2>1, <3>1 DEF ReadBy
  <2> QED BY <2>2, <2>3 DEF ReadOK
<1>9. LeasedIsClosed'
  <2> SUFFICES ASSUME NEW q \in Runs, pc'[q] = "done", Own(q) PROVE status'[q] = "closed"
    BY <1>2 DEF LeasedIsClosed
  <2>1. q \in Sessions /\ status \in [Sessions -> {"none", "open", "closed"}]
    BY DEF Sessions, IInv, TypeOK
  <2>2. CASE End(r) /\ q = r BY <2>1, <2>2 DEF End
  <2>3. CASE ~(End(r) /\ q = r)
    <3>1. pc[q] = "done"
      BY <2>3 DEF RunStep, Read, CheckGrant, OpenSession, RunAct, ActFails, Pause, Signaled, TimesOut,
         ResumeAssert, End, Proceed, IInv, TypeOK
    <3>2. status[q] = "closed" BY <3>1 DEF IInv, LeasedIsClosed
    <3>3. CASE OpenSession(r)
      <4>1. r # q BY <3>1, <3>3 DEF OpenSession
      <4>2. Sess(r) # q BY <4>1, OwnSession DEF IInv
      <4> QED BY <2>1, <3>2, <3>3, <4>2 DEF OpenSession
    <3>4. CASE End(r) BY <2>1, <3>2, <3>4 DEF End
    <3> QED BY <3>2, <3>3, <3>4
        DEF RunStep, Read, CheckGrant, RunAct, ActFails, Pause, Signaled, TimesOut, ResumeAssert
  <2> QED BY <2>2, <2>3
<1> QED BY <1>3, <1>4, <1>6, <1>7, <1>8, <1>9 DEF IInv

(* IInv is an invariant. *)
LEMMA AlwaysIInv == Spec => []IInv
<1>1. IInv /\ [Next]_vars => IInv'
  <2> SUFFICES ASSUME IInv, [Next]_vars PROVE IInv' OBVIOUS
  <2>1. CASE Next BY <2>1, OtherIInv, ResumeIInv, RunIInv DEF Next
  <2>2. CASE UNCHANGED vars
    <3>1. UNCHANGED vars BY <2>2
    <3> USE <3>1 DEF vars, IInv
    <3>2. TypeOK' BY DEF TypeOK
    <3>3. RanOK' /\ CertOK' BY DEF RanOK, CertOK
    <3>4. ReadOK' /\ LeasedIsClosed' BY DEF ReadOK, ReadBy, LeasedIsClosed, Own, Id
    <3>5. ClosedOK' /\ FoundOK' /\ PausedOK' BY DEF ClosedOK, FoundOK, PausedOK, Resumed, Channel
    <3> QED BY <3>2, <3>3, <3>4, <3>5
  <2> QED BY <2>1, <2>2
<1> QED BY InitIInv, <1>1, PTL DEF Spec

-----------------------------------------------------------------------------
(* Type correctness: no replay goes on past the end of its list. *)
THEOREM ReplaysTyped == Spec => []TypeOK
<1>1. IInv => TypeOK BY DEF IInv
<1> QED BY <1>1, AlwaysIInv, PTL

(* Whatever is edited, approved and revoked meanwhile, a production replay runs
   the start of one list that was approved. *)
THEOREM RunsWhatWasApprovedHolds == Spec => []RunsWhatWasApproved
<1>1. IInv => RunsWhatWasApproved
  <2> SUFFICES ASSUME IInv, NEW r \in Runs, ran[r] # <<>>, ~test[r]
               PROVE  \E q \in certified[Id(r)] : IsPrefix(ran[r], q)
    BY DEF RunsWhatWasApproved
  <2>1. macro[r] \in certified[Id(r)] BY DEF IInv, TypeOK, ReadOK, ReadBy, Running
  <2>2. /\ macro[r] \in Seq(StepKinds) /\ ran[r] \in Seq(StepKinds)
        /\ Len(ran[r]) <= Len(macro[r])
        /\ \A i \in 1 .. Len(ran[r]) : ran[r][i] = macro[r][i]
    BY RunType DEF IInv, RanOK
  <2>3. Len(ran[r]) \in Nat /\ Len(macro[r]) \in Nat BY <2>2, LenProperties
  <2>4. SubSeq(ran[r], 1, Len(ran[r])) = SubSeq(macro[r], 1, Len(ran[r]))
    BY <2>2, <2>3
  <2> QED BY <2>1, <2>2, <2>4 DEF IsPrefix
<1> QED BY <1>1, AlwaysIInv, PTL

(* No replay passes a pause without a human, whichever waits overlap. *)
THEOREM ResumedByHumanHolds == Spec => []ResumedByHuman
<1>1. IInv => ResumedByHuman
  <2> SUFFICES ASSUME IInv, NEW r \in Runs, NEW i \in DOMAIN ran[r], ran[r][i] \in Pauses
               PROVE  Resumed(<<r, i>>)
    BY DEF ResumedByHuman
  <2>1. i \in 1 .. Len(ran[r]) BY RunType, LenProperties DEF IInv
  <2> QED BY <2>1 DEF IInv, PausedOK, ClosedOK
<1> QED BY <1>1, AlwaysIInv, PTL

(* A replay does not leave the session it leased behind. *)
THEOREM LeasedIsClosedHolds == Spec => []LeasedIsClosed
<1>1. IInv => LeasedIsClosed BY DEF IInv
<1> QED BY <1>1, AlwaysIInv, PTL

(* No step of a replay opens or closes a session that a client has opened: those
   in the middle of its list do not, nor does the end of one that failed. *)
THEOREM GivenSurvivesHolds == Spec => GivenSurvives
<1>1. ASSUME IInv, NEW r \in Runs, RunStep(r), NEW s \in Given
      PROVE  status'[s] = status[s]
  <2>1. s \in Sessions /\ s \notin Runs /\ status \in [Sessions -> {"none", "open", "closed"}]
    BY <1>1, ReplaysAssumption DEF Sessions, IInv, TypeOK
  <2>2. CASE OpenSession(r)
    <3>1. Own(r) => Sess(r) = r
      BY DEF Sess
    <3> QED BY <2>1, <2>2, <3>1 DEF OpenSession
  <2>3. CASE End(r)
    <3>1. r # s BY <2>1
    <3> QED BY <2>1, <2>3, <3>1 DEF End
  <2> QED BY <1>1, <2>2, <2>3
      DEF RunStep, Read, CheckGrant, RunAct, ActFails, Pause, Signaled, TimesOut, ResumeAssert
<1>2. IInv /\ [Next]_vars =>
        [\A r \in Runs : RunStep(r) => \A s \in Given : status'[s] = status[s]]_vars
  BY <1>1
<1> QED BY <1>2, AlwaysIInv, PTL DEF GivenSurvives, Spec
=============================================================================
