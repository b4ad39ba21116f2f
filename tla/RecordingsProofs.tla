-------------------------- MODULE RecordingsProofs --------------------------
(***************************************************************************)
(* Theorems about Recordings, for any ids, calls, sessions and requests.   *)
(***************************************************************************)
EXTENDS Recordings, FiniteSetTheorems, SequenceTheorems, TLAPS

(* A recording in the map is under its own id, was inserted, and was taken by
   no stop; one that was taken is not in the map and not to be inserted. *)
MapOK ==
  /\ \A m \in Ids : recordings[m] # None =>
       /\ Id(recordings[m]) = m /\ pc[recordings[m]] = "started"
       /\ \A c \in Stops : took[c] # recordings[m]
  /\ \A c \in Stops : took[c] # None => pc[took[c]] = "started"
  /\ \A c \in Stops : at[c] # "new" => took[c] # None
  /\ \A c \in Stops : at[c] = "new" => took[c] = None

(* The drain runs from Installed to the stop. *)
DrainOK ==
  /\ \A r \in Starts : pc[r] \in {"insert", "started"} => drain[r] # "none"
  /\ \A c \in Stops : took[c] # None => drain[took[c]] = "canceled"

(* StopReleases, from the moment the hold is taken off. *)
Released(c) ==
  \/ status[Sess(took[c])] # "open" \/ ~hold[Sess(took[c])]
  \/ \E r \in Starts \ {took[c]} : Sess(r) = Sess(took[c])
ReleaseOK == \A c \in Stops : at[c] \in {"close", "done"} => Released(c)

(* The inductive invariant of what a stop takes and releases. *)
IInv == TypeOK /\ MapOK /\ DrainOK /\ StoppedOnce /\ ReleaseOK

(* The session and the id of a recording. *)
LEMMA SessType ==
  ASSUME TypeOK, NEW r \in Starts
  PROVE  Sess(r) \in Sessions /\ Id(r) \in Ids /\ asked[r].given \in Given \cup {None}
BY RecordingsAssumption DEF TypeOK, Sess, Own, Id, Sessions

(* A session of its own belongs to one recording only. *)
LEMMA OwnSession ==
  ASSUME TypeOK, NEW r \in Starts, NEW q \in Starts, Own(r), Sess(q) = Sess(r)
  PROVE  q = r
BY SessType, RecordingsAssumption DEF Sess, Own

(* Before the first record/start. *)
LEMMA InitIInv == Init => IInv
<1> SUFFICES ASSUME Init PROVE IInv OBVIOUS
<1>1. <<>> \in Seq(Kinds) /\ Len(<<>>) = 0 OBVIOUS
<1>2. TypeOK BY <1>1, RecordingsAssumption DEF Init, TypeOK, Sessions
<1> QED BY <1>2 DEF Init, IInv, MapOK, DrainOK, StoppedOnce, ReleaseOK

-----------------------------------------------------------------------------
(* The calls of record/start. *)
LEMMA StartIInv ==
  ASSUME IInv, NEW r \in Starts, StartStep(r)
  PROVE  IInv'
<1> USE DEF sessVars, drainVars, stopVars, Goto
<1>1. Sess(r) \in Sessions /\ Id(r) \in Ids BY SessType DEF IInv
<1>2. \A q \in Starts : Sess(q)' = Sess(q) /\ Id(q)' = Id(q) /\ (Own(q)' <=> Own(q))
  BY DEF StartStep, CheckId, Lease, InstallFails, Installed, Insert, Sess, Own, Id
<1>3. pc[r] \notin {"started"} /\ \A c \in Stops : took[c] # None => took[c] # r
  BY DEF IInv, MapOK, StartStep, CheckId, Lease, InstallFails, Installed, Insert
<1>4. TypeOK'
  <2>1. status' \in [Sessions -> {"none", "open", "reaped", "closed"}]
    <3>1. status \in [Sessions -> {"none", "open", "reaped", "closed"}] BY DEF IInv, TypeOK
    <3>2. CASE Lease(r) BY <1>1, <3>1, <3>2 DEF Lease
    <3>3. CASE InstallFails(r) BY <3>1, <3>3 DEF InstallFails, End
    <3> QED BY <3>1, <3>2, <3>3 DEF StartStep, CheckId, Installed, Insert
  <2>2. hold' \in [Sessions -> BOOLEAN]
    BY <1>1 DEF IInv, TypeOK, StartStep, CheckId, Lease, InstallFails, Installed, Insert, SetHold
  <2>3. pc' \in [Starts -> {"new", "lease", "install", "insert", "started", "refused"}]
    <3>1. PICK next \in {"lease", "install", "insert", "started", "refused"} :
            pc' = [pc EXCEPT ![r] = next]
      BY DEF StartStep, CheckId, Lease, InstallFails, Installed, Insert
    <3> QED BY <3>1 DEF IInv, TypeOK
  <2>4. recordings' \in [Ids -> Starts \cup {None}]
    BY <1>1 DEF IInv, TypeOK, StartStep, CheckId, Lease, InstallFails, Installed, Insert
  <2>5. drain' \in [Starts -> {"none", "running", "canceled"}]
    BY DEF IInv, TypeOK, StartStep, CheckId, Lease, InstallFails, Installed, Insert
  <2>6. UNCHANGED <<asked, queue, steps, heard, events, stopVars>>
    BY DEF StartStep, CheckId, Lease, InstallFails, Installed, Insert
  <2> QED BY <2>1, <2>2, <2>3, <2>4, <2>5, <2>6 DEF IInv, TypeOK
<1>5. MapOK'
  <2>1. took' = took /\ at' = at /\ \A q \in Starts \ {r} : pc'[q] = pc[q]
    BY DEF IInv, TypeOK, StartStep, CheckId, Lease, InstallFails, Installed, Insert
  <2>2. CASE Insert(r)
    BY <1>1, <1>2, <1>3, <2>1, <2>2 DEF IInv, TypeOK, MapOK, Insert
  <2>3. CASE recordings' = recordings
    BY <1>2, <1>3, <2>1, <2>3 DEF IInv, TypeOK, MapOK
  <2> QED BY <2>2, <2>3 DEF StartStep, CheckId, Lease, InstallFails, Installed
<1>6. DrainOK'
  <2>1. took' = took /\ \A q \in Starts \ {r} : pc'[q] = pc[q] /\ drain'[q] = drain[q]
    BY DEF IInv, TypeOK, StartStep, CheckId, Lease, InstallFails, Installed, Insert
  <2>2. pc'[r] \in {"insert", "started"} => drain'[r] # "none"
    BY DEF IInv, TypeOK, DrainOK, StartStep, CheckId, Lease, InstallFails, Installed, Insert
  <2>3. /\ \A q \in Starts : pc[q] \in {"insert", "started"} => drain[q] # "none"
        /\ \A c \in Stops : took[c] # None => took[c] \in Starts /\ drain[took[c]] = "canceled"
    BY DEF IInv, TypeOK, DrainOK
  <2>4. \A q \in Starts : pc'[q] \in {"insert", "started"} => drain'[q] # "none"
    BY <2>1, <2>2, <2>3
  <2>5. \A c \in Stops : took'[c] # None => drain'[took'[c]] = "canceled"
    BY <1>3, <2>1, <2>3
  <2> QED BY <2>4, <2>5 DEF DrainOK
<1>7. StoppedOnce'
  BY DEF IInv, StoppedOnce, StartStep, CheckId, Lease, InstallFails, Installed, Insert
<1>8. ReleaseOK'
  <2> SUFFICES ASSUME NEW c \in Stops, at'[c] \in {"close", "done"} PROVE Released(c)'
    BY DEF ReleaseOK
  <2>1. at' = at /\ took' = took
    BY DEF StartStep, CheckId, Lease, InstallFails, Installed, Insert
  <2>2. Released(c) /\ took[c] \in Starts
    BY <2>1 DEF IInv, TypeOK, MapOK, ReleaseOK
  <2>3. Sess(took[c]) \in Sessions BY <2>2, SessType DEF IInv
  <2>4. CASE \E q \in Starts \ {took[c]} : Sess(q) = Sess(took[c])
    BY <1>2, <2>1, <2>2, <2>4 DEF Released
  <2>5. CASE Sess(r) = Sess(took[c])
    <3>1. took[c] # r BY <1>3, <2>2, RecordingsAssumption
    <3>2. asked' = asked
      BY DEF StartStep, CheckId, Lease, InstallFails, Installed, Insert
    <3> QED BY <2>1, <2>5, <3>1, <3>2 DEF Released, Sess, Own
  <2>6. CASE Sess(r) # Sess(took[c])
    <3>1. hold'[Sess(took[c])] = hold[Sess(took[c])]
      BY <1>1, <2>3, <2>6 DEF StartStep, CheckId, Lease, InstallFails, Installed, Insert, SetHold,
         IInv, TypeOK
    <3>2. status'[Sess(took[c])] = status[Sess(took[c])]
      <4>1. Own(r) => Sess(r) = r BY DEF Sess
      <4>2. status \in [Sessions -> {"none", "open", "reaped", "closed"}] BY DEF IInv, TypeOK
      <4>3. CASE Lease(r) BY <1>1, <2>3, <2>6, <4>2, <4>3 DEF Lease
      <4>4. CASE InstallFails(r)
        BY <2>3, <2>6, <4>1, <4>2, <4>4 DEF InstallFails, End
      <4> QED BY <4>3, <4>4 DEF StartStep, CheckId, Installed, Insert
    <3> QED BY <1>2, <2>1, <2>2, <3>1, <3>2 DEF Released
  <2> QED BY <2>4, <2>5, <2>6
<1> QED BY <1>4, <1>5, <1>6, <1>7, <1>8 DEF IInv

-----------------------------------------------------------------------------
(* The calls of record/stop. *)
LEMMA TakeIInv ==
  ASSUME IInv, NEW c \in Stops, NEW m \in Ids, TakeRecording(c, m)
  PROVE  IInv'
<1> USE DEF sessVars, startVars, Proceed, Canceled
<1>1. recordings[m] \in Starts /\ recordings[m] # None /\ at[c] = "new" /\ took[c] = None
  BY DEF IInv, TypeOK, MapOK, TakeRecording
<1>2. /\ UNCHANGED <<asked, pc, status, hold, queue, steps, heard, events, draft, stored>>
      /\ took' = [took EXCEPT ![c] = recordings[m]]
      /\ recordings' = [recordings EXCEPT ![m] = None]
      /\ at' = [at EXCEPT ![c] = "draft"]
      /\ drain' = [drain EXCEPT ![recordings[m]] = IF @ = "running" THEN "canceled" ELSE @]
  BY DEF TakeRecording
<1>3. TypeOK' BY <1>1, <1>2 DEF IInv, TypeOK
<1>4. \A n \in Ids : recordings'[n] # None => n # m /\ recordings'[n] = recordings[n] /\ recordings[n] # recordings[m]
  <2>1. \A n \in Ids : recordings[n] # None => Id(recordings[n]) = n BY DEF IInv, MapOK
  <2> QED BY <1>1, <1>2, <2>1 DEF IInv, TypeOK
<1>5. MapOK'
  <2>1. \A r \in Starts : Id(r)' = Id(r) BY <1>2 DEF Id
  <2>2. \A n \in Ids : recordings'[n] # None =>
          /\ Id(recordings'[n]) = n /\ pc'[recordings'[n]] = "started"
          /\ \A d \in Stops : took'[d] # recordings'[n]
    BY <1>1, <1>2, <1>4 DEF IInv, TypeOK, MapOK
  <2>3. \A d \in Stops : took'[d] # None => pc'[took'[d]] = "started"
    BY <1>1, <1>2 DEF IInv, TypeOK, MapOK
  <2>4. \A d \in Stops : (at'[d] # "new" => took'[d] # None) /\ (at'[d] = "new" => took'[d] = None)
    BY <1>1, <1>2 DEF IInv, TypeOK, MapOK
  <2> QED BY <1>2, <2>1, <2>2, <2>3, <2>4 DEF MapOK, Id
<1>6. DrainOK'
  <2>1. drain[recordings[m]] # "none" BY <1>1 DEF IInv, MapOK, DrainOK
  <2>2. drain'[recordings[m]] = "canceled" BY <1>1, <1>2, <2>1 DEF IInv, TypeOK
  <2> QED BY <1>1, <1>2, <2>2 DEF IInv, TypeOK, DrainOK
<1>7. StoppedOnce'
  <2>1. \A d \in Stops : took[d] # recordings[m] BY <1>1 DEF IInv, MapOK
  <2> QED BY <1>1, <1>2, <2>1 DEF IInv, TypeOK, StoppedOnce
<1>8. ReleaseOK'
  <2> SUFFICES ASSUME NEW d \in Stops, at'[d] \in {"close", "done"} PROVE Released(d)'
    BY DEF ReleaseOK
  <2>1. d # c /\ at[d] \in {"close", "done"} /\ took'[d] = took[d]
    BY <1>2 DEF IInv, TypeOK
  <2>2. Released(d) BY <2>1 DEF IInv, ReleaseOK
  <2> QED BY <1>2, <2>1, <2>2 DEF Released, Sess, Own
<1> QED BY <1>3, <1>5, <1>6, <1>7, <1>8 DEF IInv

(* The calls of record/stop. *)
LEMMA StopIInv ==
  ASSUME IInv, NEW c \in Stops, StopStep(c)
  PROVE  IInv'
<1> USE DEF sessVars, startVars, drainVars, Proceed
<1>1. /\ UNCHANGED <<asked, pc, recordings, drain, queue, steps, heard, events, took>>
      /\ at[c] # "new"
  BY DEF StopStep, Draft, Store, Release, CloseSession
<1>2. PICK next \in {"store", "release", "close", "parked", "done"} : at' = [at EXCEPT ![c] = next]
  BY DEF StopStep, Draft, Store, Release, CloseSession
<1>3. took[c] \in Starts BY <1>1 DEF IInv, TypeOK, MapOK
<1>4. Sess(took[c]) \in Sessions BY <1>3, SessType DEF IInv
<1>5. TypeOK'
  <2>1. status' \in [Sessions -> {"none", "open", "reaped", "closed"}]
    <3>1. status \in [Sessions -> {"none", "open", "reaped", "closed"}] BY DEF IInv, TypeOK
    <3>2. CASE CloseSession(c) BY <1>4, <3>1, <3>2 DEF CloseSession, End
    <3> QED BY <3>1, <3>2 DEF StopStep, Draft, Store, Release
  <2>2. hold' \in [Sessions -> BOOLEAN]
    BY <1>4 DEF IInv, TypeOK, StopStep, Draft, Store, Release, CloseSession, SetHold
  <2>3. draft' \in [Stops -> Seq(Kinds)] /\ stored' \in [Stops -> BOOLEAN]
    <3>1. /\ draft \in [Stops -> Seq(Kinds)] /\ stored \in [Stops -> BOOLEAN]
          /\ steps[took[c]] \in Seq(Kinds)
      BY <1>3 DEF IInv, TypeOK
    <3>2. CASE Draft(c) BY <3>1, <3>2 DEF Draft
    <3>3. CASE Store(c) BY <3>1, <3>3 DEF Store
    <3> QED BY <3>1, <3>2, <3>3 DEF StopStep, Release, CloseSession
  <2> QED BY <1>1, <1>2, <2>1, <2>2, <2>3 DEF IInv, TypeOK
<1>6. MapOK' BY <1>1, <1>2 DEF IInv, TypeOK, MapOK, Id
<1>7. DrainOK' /\ StoppedOnce' BY <1>1 DEF IInv, DrainOK, StoppedOnce
<1>8. ReleaseOK'
  <2> SUFFICES ASSUME NEW d \in Stops, at'[d] \in {"close", "done"} PROVE Released(d)'
    BY DEF ReleaseOK
  <2>1. \A s \in Sessions : /\ status[s] # "open" => status'[s] # "open"
                            /\ ~hold[s] => ~hold'[s]
    <3>1. CASE Draft(c) \/ Store(c) BY <3>1 DEF Draft, Store
    <3>2. CASE Release(c)
      <4>1. status' = status /\ (SetHold(Sess(took[c]), FALSE) \/ hold' = hold)
        BY <3>2 DEF Release
      <4>2. hold \in [Sessions -> BOOLEAN] BY DEF IInv, TypeOK
      <4> QED BY <1>4, <4>1, <4>2 DEF SetHold
    <3>3. CASE CloseSession(c) BY <1>4, <3>3 DEF IInv, TypeOK, CloseSession, End
    <3> QED BY <3>1, <3>2, <3>3 DEF StopStep
  <2>2. ASSUME Released(d), took[d] \in Starts PROVE Released(d)'
    <3>1. Sess(took[d]) \in Sessions BY <2>2, SessType DEF IInv
    <3> QED BY <1>1, <2>1, <2>2, <3>1 DEF Released, Sess, Own
  <2>3. CASE at[d] \in {"close", "done"}
    <3>1. Released(d) /\ took[d] \in Starts
      BY <2>3 DEF IInv, TypeOK, MapOK, ReleaseOK
    <3> QED BY <2>2, <3>1
  <2>4. CASE at[d] \notin {"close", "done"}
    <3>1. d = c BY <1>2, <2>4 DEF IInv, TypeOK
    <3>2. Release(c)
      BY <2>4, <3>1 DEF StopStep, Draft, Store, CloseSession, IInv, TypeOK
    <3>3. status[Sess(took[c])] # "open" \/ hold'[Sess(took[c])] = FALSE
      BY <1>4, <3>2 DEF Release, SetHold, IInv, TypeOK
    <3>4. status' = status BY <3>2 DEF Release
    <3> QED BY <1>1, <3>1, <3>3, <3>4 DEF Released, Sess, Own
  <2> QED BY <2>3, <2>4
<1> QED BY <1>5, <1>6, <1>7, <1>8 DEF IInv

(* Events, and the ends of sessions. *)
LEMMA OtherIInv ==
  ASSUME IInv,
         \/ \E r \in Starts : AddEvent(r)
         \/ \E s \in Sessions : \/ ClientCloses(s) \/ Reap(s)
                                \/ \E k \in Kinds : Capture(s, k)
  PROVE  IInv'
<1> USE DEF sessVars, startVars, stopVars, drainVars
<1>1. UNCHANGED <<asked, pc, recordings, hold, drain, at, took, draft, stored>>
  BY DEF AddEvent, ClientCloses, Reap, Capture
<1>2. /\ status' \in [Sessions -> {"none", "open", "reaped", "closed"}]
      /\ \A s \in Sessions : status[s] # "open" => status'[s] # "open"
  <2>0. status \in [Sessions -> {"none", "open", "reaped", "closed"}]
    BY DEF IInv, TypeOK
  <2>1. CASE UNCHANGED status BY <2>0, <2>1
  <2>2. CASE \E s \in Sessions, how \in {"closed", "reaped"} : End(s, how)
    BY <2>0, <2>2 DEF End
  <2> QED BY <2>1, <2>2 DEF AddEvent, ClientCloses, Reap, Capture
<1>3. /\ queue' \in [Starts -> Seq(Kinds)] /\ \A r \in Starts : Len(queue'[r]) <= Buffer
      /\ steps' \in [Starts -> Seq(Kinds)] /\ heard' \in [Starts -> Seq(Kinds)]
      /\ events' \in Nat
  <2>1. ASSUME NEW r \in Starts, AddEvent(r)
        PROVE  /\ queue' \in [Starts -> Seq(Kinds)] /\ \A q \in Starts : Len(queue'[q]) <= Buffer
               /\ steps' \in [Starts -> Seq(Kinds)]
    <3>1. queue[r] \in Seq(Kinds) /\ queue[r] # <<>> /\ steps[r] \in Seq(Kinds)
          /\ Len(queue[r]) <= Buffer
      BY <2>1 DEF AddEvent, IInv, TypeOK
    <3>2. Head(queue[r]) \in Kinds /\ Tail(queue[r]) \in Seq(Kinds) /\ Len(Tail(queue[r])) <= Buffer
      BY <3>1, RecordingsAssumption, HeadTailProperties
    <3>3. ASSUME NEW q \in Seq(Kinds), NEW k \in Kinds PROVE Added(q, k) \in Seq(Kinds)
      <4>1. Append(q, k) \in Seq(Kinds) OBVIOUS
      <4>2. ASSUME q # <<>> PROVE ReplaceAt(q, Len(q), k) \in Seq(Kinds)
        <5>1. Len(q) \in 1 .. Len(q) BY <4>2, EmptySeq, LenProperties
        <5> QED BY <5>1, ExceptSeq DEF ReplaceAt
      <4> QED BY <4>1, <4>2 DEF Added
    <3>4. Added(steps[r], Head(queue[r])) \in Seq(Kinds) BY <3>1, <3>2, <3>3
    <3> QED BY <2>1, <3>2, <3>4 DEF AddEvent, IInv, TypeOK
  <2>2. ASSUME NEW s \in Sessions, NEW k \in Kinds, Capture(s, k)
        PROVE  /\ queue' \in [Starts -> Seq(Kinds)] /\ \A r \in Starts : Len(queue'[r]) <= Buffer
               /\ heard' \in [Starts -> Seq(Kinds)] /\ events' \in Nat
    <3>5. {r \in Listening(s) : Len(queue[r]) < Buffer} \in SUBSET Starts BY DEF Listening
    <3>1. PICK gets \in SUBSET Starts :
            /\ \A r \in gets : Len(queue[r]) < Buffer
            /\ queue' = [r \in Starts |-> IF r \in gets THEN Append(queue[r], k) ELSE queue[r]]
            /\ heard' = [r \in Starts |-> IF r \in gets THEN Append(heard[r], k) ELSE heard[r]]
            /\ events' = events + 1
      BY <2>2, <3>5 DEF Capture
    <3>2. ASSUME NEW q \in Seq(Kinds) PROVE Append(q, k) \in Seq(Kinds) /\ Len(Append(q, k)) = Len(q) + 1
      OBVIOUS
    <3>3. \A r \in Starts : queue[r] \in Seq(Kinds) /\ heard[r] \in Seq(Kinds) /\ Len(queue[r]) <= Buffer
      BY DEF IInv, TypeOK
    <3>4. \A r \in Starts : Len(queue[r]) \in Nat BY <3>3, LenProperties
    <3>6. queue' \in [Starts -> Seq(Kinds)] BY <3>1, <3>2, <3>3
    <3>7. heard' \in [Starts -> Seq(Kinds)] BY <3>1, <3>2, <3>3
    <3>8. \A r \in Starts : Len(queue'[r]) <= Buffer
      <4> SUFFICES ASSUME NEW r \in Starts PROVE Len(queue'[r]) <= Buffer OBVIOUS
      <4>1. CASE r \in gets
        <5>1. Len(queue'[r]) = Len(queue[r]) + 1 BY <3>1, <3>2, <3>3, <4>1
        <5> QED BY <3>1, <3>4, <4>1, <5>1, RecordingsAssumption
      <4>2. CASE r \notin gets BY <3>1, <3>3, <4>2
      <4> QED BY <4>1, <4>2
    <3>9. events' \in Nat BY <3>1 DEF IInv, TypeOK
    <3> QED BY <3>6, <3>7, <3>8, <3>9
  <2>3. /\ queue \in [Starts -> Seq(Kinds)] /\ \A r \in Starts : Len(queue[r]) <= Buffer
        /\ steps \in [Starts -> Seq(Kinds)] /\ heard \in [Starts -> Seq(Kinds)]
        /\ events \in Nat
    BY DEF IInv, TypeOK
  <2>4. CASE \E r \in Starts : AddEvent(r) BY <2>1, <2>3, <2>4 DEF AddEvent
  <2>5. CASE \E s \in Sessions : ClientCloses(s) \/ Reap(s)
    BY <2>3, <2>5 DEF ClientCloses, Reap
  <2>6. CASE \E s \in Sessions, k \in Kinds : Capture(s, k) BY <2>2, <2>3, <2>6 DEF Capture
  <2> QED BY <2>4, <2>5, <2>6
<1>4. TypeOK' BY <1>1, <1>2, <1>3 DEF IInv, TypeOK
<1>5. MapOK' BY <1>1 DEF IInv, MapOK, Id
<1>6. DrainOK' /\ StoppedOnce' BY <1>1 DEF IInv, DrainOK, StoppedOnce
<1>7. ReleaseOK'
  <2> SUFFICES ASSUME NEW c \in Stops, at'[c] \in {"close", "done"} PROVE Released(c)'
    BY DEF ReleaseOK
  <2>1. Released(c) /\ took[c] \in Starts
    BY <1>1 DEF IInv, TypeOK, MapOK, ReleaseOK
  <2>2. Sess(took[c]) \in Sessions BY <2>1, SessType DEF IInv
  <2> QED BY <1>1, <1>2, <2>1, <2>2 DEF Released, Sess, Own
<1> QED BY <1>4, <1>5, <1>6, <1>7 DEF IInv

(* IInv is an invariant. *)
LEMMA AlwaysIInv == Spec => []IInv
<1>1. IInv /\ [Next]_vars => IInv'
  <2> SUFFICES ASSUME IInv, [Next]_vars PROVE IInv' OBVIOUS
  <2>1. CASE Next BY <2>1, StartIInv, TakeIInv, StopIInv, OtherIInv DEF Next
  <2>2. CASE UNCHANGED vars
    BY <2>2 DEF vars, IInv, TypeOK, MapOK, DrainOK, StoppedOnce, ReleaseOK, Released, Sess, Own, Id
  <2> QED BY <2>1, <2>2
<1> QED BY InitIInv, <1>1, PTL DEF Spec

-----------------------------------------------------------------------------
(* Type correctness, and that no channel of capture events outgrows its buffer. *)
THEOREM RecordingsTyped == Spec => []TypeOK
<1>1. IInv => TypeOK BY DEF IInv
<1> QED BY <1>1, AlwaysIInv, PTL

(* Stops that race: record/stop's deletion from the map gives a recording to
   one of them. *)
THEOREM StoppedOnceHolds == Spec => []StoppedOnce
<1>1. IInv => StoppedOnce BY DEF IInv
<1> QED BY <1>1, AlwaysIInv, PTL

(* A stop that stored its draft leaves no held session and no drain behind,
   unless another recording is in the same session. *)
THEOREM StopReleasesHolds == Spec => []StopReleases
<1>1. IInv => StopReleases
  <2> SUFFICES ASSUME IInv, NEW c \in Stops, at[c] = "done"
               PROVE  drain[took[c]] = "canceled" /\ Released(c)
    BY DEF StopReleases, Released
  <2> QED BY DEF IInv, MapOK, DrainOK, ReleaseOK
<1> QED BY <1>1, AlwaysIInv, PTL

-----------------------------------------------------------------------------
(* The last event of q that is no blank page is the m-th; 0: there is none. *)
Ended(q, m) ==
  /\ m \in 0 .. Len(q)
  /\ m > 0 => q[m] # "blank"
  /\ \A j \in m + 1 .. Len(q) : q[j] = "blank"

(* What is kept of events is a finite set of their numbers. *)
LEMMA KeptFinite ==
  ASSUME NEW q \in Seq(Kinds)
  PROVE  /\ Kept(q) \subseteq 1 .. Len(q) /\ IsFiniteSet(Kept(q)) /\ Cardinality(Kept(q)) \in Nat
         /\ \A i \in Kept(q) : /\ IsFiniteSet(Upto(q, i))
                               /\ Cardinality(Upto(q, i)) \in 1 .. Cardinality(Kept(q))
<1>1. Kept(q) \subseteq 1 .. Len(q) /\ Len(q) \in Nat
  BY DEF Kept
<1>2. IsFiniteSet(Kept(q))
  <2>1. 1 \in Int /\ Len(q) \in Int
    BY <1>1
  <2>2. IsFiniteSet(1 .. Len(q))
    BY <2>1, FS_Interval
  <2> QED
    BY <1>1, <2>2, FS_Subset
<1>3. ASSUME NEW i \in Kept(q)
      PROVE  /\ IsFiniteSet(Upto(q, i))
             /\ Cardinality(Upto(q, i)) \in 1 .. Cardinality(Kept(q))
  <2>1. Upto(q, i) \subseteq Kept(q) /\ i \in Upto(q, i)
    BY <1>1, <1>3 DEF Upto
  <2>2. IsFiniteSet(Upto(q, i)) /\ Cardinality(Upto(q, i)) <= Cardinality(Kept(q))
    BY <1>2, <2>1, FS_Subset
  <2>3. Cardinality(Upto(q, i)) # 0
    BY <2>1, <2>2, FS_EmptySet
  <2>4. Cardinality(Upto(q, i)) \in Nat /\ Cardinality(Kept(q)) \in Nat
    BY <1>2, <2>2, FS_CardinalityType
  <2> QED
    BY <2>2, <2>3, <2>4
<1> QED
  BY <1>1, <1>2, <1>3, FS_CardinalityType

(* The last event that is no blank page is kept, and is the last that is. *)
LEMMA LastKept ==
  ASSUME NEW q \in Seq(Kinds), NEW m, Ended(q, m)
  PROVE  /\ m > 0 => m \in Kept(q) /\ Upto(q, m) = Kept(q)
         /\ \A i \in Kept(q) : i <= m
         /\ m = 0 => Kept(q) = {}
<1>1. Len(q) \in Nat /\ m \in Nat /\ DOMAIN q = 1 .. Len(q)
  BY DEF Ended
<1>2. \A i \in Kept(q) : i <= m /\ i \in 1 .. Len(q)
  BY <1>1 DEF Ended, Kept
<1>3. m > 0 => m \in Kept(q)
  BY <1>1 DEF Ended, Kept, Redirects
<1> QED
  BY <1>1, <1>2, <1>3 DEF Upto

(* One event more: which are kept. *)
LEMMA KeptAppend ==
  ASSUME NEW q \in Seq(Kinds), NEW k \in Kinds, NEW m, Ended(q, m)
  PROVE  /\ k = "blank" => Kept(Append(q, k)) = Kept(q) /\ Ended(Append(q, k), m)
         /\ k # "blank" => Ended(Append(q, k), Len(q) + 1)
         /\ k # "blank" /\ ~(k = "nav" /\ m > 0 /\ q[m] = "nav") =>
              Kept(Append(q, k)) = Kept(q) \cup {Len(q) + 1}
         /\ k = "nav" /\ m > 0 /\ q[m] = "nav" =>
              Kept(Append(q, k)) = (Kept(q) \ {m}) \cup {Len(q) + 1}
<1> DEFINE p == Append(q, k)
           n == Len(q)
<1>1. /\ p \in Seq(Kinds) /\ Len(p) = n + 1 /\ p[n + 1] = k /\ \A i \in 1 .. n : p[i] = q[i]
      /\ n \in Nat /\ m \in 0 .. n /\ DOMAIN q = 1 .. n /\ DOMAIN p = 1 .. n + 1
  BY DEF Ended
<1> HIDE DEF p, n
<1>2. /\ n = Len(q) /\ (m > 0 => q[m] # "blank") /\ \A j \in m + 1 .. n : q[j] = "blank"
  BY DEF Ended, n
<1>3. \A i \in 1 .. n :
        Redirects(p, i) <=> \/ Redirects(q, i)
                            \/ /\ q[i] = "nav" /\ k = "nav"
                               /\ \A l \in i + 1 .. n : q[l] = "blank"
  <2> SUFFICES ASSUME NEW i \in 1 .. n
               PROVE  Redirects(p, i) <=> \/ Redirects(q, i)
                                          \/ /\ q[i] = "nav" /\ k = "nav"
                                             /\ \A l \in i + 1 .. n : q[l] = "blank"
    OBVIOUS
  <2>1. ASSUME Redirects(q, i) PROVE Redirects(p, i)
    <3>1. PICK j \in i + 1 .. n : q[j] = "nav" /\ \A l \in i + 1 .. j - 1 : q[l] = "blank"
      BY <1>2, <2>1 DEF Redirects
    <3>2. j \in i + 1 .. n + 1 /\ p[j] = "nav" /\ p[i] = "nav"
      BY <1>1, <2>1, <3>1 DEF Redirects
    <3>3. \A l \in i + 1 .. j - 1 : p[l] = "blank"
      BY <1>1, <3>1
    <3> QED
      BY <1>1, <3>2, <3>3 DEF Redirects
  <2>2. ASSUME q[i] = "nav", k = "nav", \A l \in i + 1 .. n : q[l] = "blank"
        PROVE  Redirects(p, i)
    <3>1. n + 1 \in i + 1 .. n + 1 /\ p[n + 1] = "nav" /\ p[i] = "nav"
      BY <1>1, <2>2
    <3>2. \A l \in i + 1 .. n + 1 - 1 : p[l] = "blank"
      BY <1>1, <2>2
    <3> QED
      BY <1>1, <3>1, <3>2 DEF Redirects
  <2>3. ASSUME Redirects(p, i)
        PROVE  \/ Redirects(q, i)
               \/ /\ q[i] = "nav" /\ k = "nav"
                  /\ \A l \in i + 1 .. n : q[l] = "blank"
    <3>1. PICK j \in i + 1 .. n + 1 : p[j] = "nav" /\ \A l \in i + 1 .. j - 1 : p[l] = "blank"
      BY <1>1, <2>3 DEF Redirects
    <3>2. q[i] = "nav"
      BY <1>1, <2>3 DEF Redirects
    <3>3. \A l \in i + 1 .. j - 1 : q[l] = "blank"
      BY <1>1, <3>1
    <3>4. CASE j = n + 1
      BY <1>1, <3>1, <3>2, <3>3, <3>4
    <3>5. CASE j \in i + 1 .. n
      <4>1. q[j] = "nav"
        BY <1>1, <3>1, <3>5
      <4> QED
        BY <1>2, <3>2, <3>3, <3>5, <4>1 DEF Redirects
    <3> QED
      BY <1>1, <3>1, <3>4, <3>5
  <2> QED
    BY <2>1, <2>2, <2>3
<1>4. ~Redirects(p, n + 1)
  BY <1>1 DEF Redirects
<1>5. \A i \in 1 .. n : i \in Kept(p) <=> i \in Kept(q) /\ ~(k = "nav" /\ q[i] = "nav" /\ i = m)
  <2> SUFFICES ASSUME NEW i \in 1 .. n
               PROVE  i \in Kept(p) <=> i \in Kept(q) /\ ~(k = "nav" /\ q[i] = "nav" /\ i = m)
    OBVIOUS
  <2>1. i \in Kept(p) <=> q[i] # "blank" /\ ~Redirects(p, i)
    BY <1>1 DEF Kept
  <2>2. i \in Kept(q) <=> q[i] # "blank" /\ ~Redirects(q, i)
    BY <1>1 DEF Kept
  <2>3. q[i] # "blank" => ((\A l \in i + 1 .. n : q[l] = "blank") <=> i = m)
    BY <1>1, <1>2
  <2> QED
    BY <1>3, <2>1, <2>2, <2>3
<1>6. n + 1 \in Kept(p) <=> k # "blank"
  BY <1>1, <1>4 DEF Kept
<1>7. Kept(p) \subseteq 1 .. n + 1 /\ Kept(q) \subseteq 1 .. n
  BY <1>1 DEF Kept
<1>8. k = "blank" => Kept(p) = Kept(q) /\ Ended(p, m)
  <2>1. ASSUME k = "blank" PROVE Kept(p) = Kept(q)
    <3>1. n + 1 \notin Kept(p) /\ n + 1 \notin Kept(q)
      BY <1>1, <1>6, <1>7, <2>1
    <3>2. \A i \in 1 .. n : i \in Kept(p) <=> i \in Kept(q)
      BY <1>5, <2>1
    <3>3. Kept(p) \subseteq 1 .. n
      BY <1>1, <1>7, <3>1
    <3> QED
      BY <1>7, <3>2, <3>3
  <2>2. k = "blank" => Ended(p, m)
    BY <1>1, <1>2 DEF Ended
  <2> QED
    BY <2>1, <2>2
<1>9. k # "blank" => Ended(p, n + 1)
  BY <1>1 DEF Ended
<1>10. k # "blank" /\ ~(k = "nav" /\ m > 0 /\ q[m] = "nav") => Kept(p) = Kept(q) \cup {n + 1}
  BY <1>1, <1>5, <1>6, <1>7
<1>11. k = "nav" /\ m > 0 /\ q[m] = "nav" => Kept(p) = (Kept(q) \ {m}) \cup {n + 1}
  BY <1>1, <1>5, <1>6, <1>7
<1> QED
  BY <1>8, <1>9, <1>10, <1>11 DEF p, n

(* What is kept up to a number does not depend on what comes later. *)
LEMMA UptoSame ==
  ASSUME NEW q, NEW p, NEW i \in Nat, NEW n \in Nat, NEW m \in Nat, i <= n, i < m,
         Kept(q) \subseteq 1 .. n, Kept(p) = (Kept(q) \ {m}) \cup {n + 1}
  PROVE  Upto(p, i) = Upto(q, i)
BY DEF Upto

(* AddEvent: the steps stay what the events come to. *)
LEMMA AddedComesTo ==
  ASSUME NEW q \in Seq(Kinds), NEW d \in Seq(Kinds), NEW k \in Kinds, NEW m,
         Ended(q, m), ComesTo(q, d)
  PROVE  /\ ComesTo(Append(q, k), Added(d, k))
         /\ \E m1 \in Nat : Ended(Append(q, k), m1)
<1> DEFINE p == Append(q, k)
           n == Len(q)
<1>1. /\ p \in Seq(Kinds) /\ p[n + 1] = k /\ \A i \in 1 .. n : p[i] = q[i]
      /\ n \in Nat /\ m \in 0 .. n /\ n + 1 \in Nat /\ Len(d) \in Nat
  BY DEF Ended
<1>2. /\ Kept(q) \subseteq 1 .. n /\ IsFiniteSet(Kept(q))
      /\ \A i \in Kept(q) : /\ IsFiniteSet(Upto(q, i))
                            /\ Cardinality(Upto(q, i)) \in 1 .. Len(d)
      /\ Len(d) = Cardinality(Kept(q))
      /\ \A i \in Kept(q) : d[Cardinality(Upto(q, i))] = q[i]
  BY KeptFinite DEF ComesTo
<1>3. /\ m > 0 => m \in Kept(q) /\ Upto(q, m) = Kept(q)
      /\ \A i \in Kept(q) : i <= m
      /\ m = 0 => Kept(q) = {}
  BY LastKept
<1>4. /\ k = "blank" => Kept(p) = Kept(q) /\ Ended(p, m)
      /\ k # "blank" => Ended(p, n + 1)
      /\ k # "blank" /\ ~(k = "nav" /\ m > 0 /\ q[m] = "nav") => Kept(p) = Kept(q) \cup {n + 1}
      /\ k = "nav" /\ m > 0 /\ q[m] = "nav" => Kept(p) = (Kept(q) \ {m}) \cup {n + 1}
  BY KeptAppend
<1> HIDE DEF p, n
<1>5. m > 0 => d # <<>> /\ d[Len(d)] = q[m]
  <2> SUFFICES ASSUME m > 0 PROVE d # <<>> /\ d[Len(d)] = q[m]
    OBVIOUS
  <2>1. Cardinality(Upto(q, m)) = Len(d) /\ Len(d) \in 1 .. Len(d) /\ d[Len(d)] = q[m]
    BY <1>2, <1>3
  <2>2. Len(d) # 0
    BY <2>1
  <2> QED
    BY <2>1, <2>2
<1>6. m = 0 => d = <<>>
  <2> SUFFICES ASSUME m = 0 PROVE d = <<>>
    OBVIOUS
  <2>1. Cardinality({}) = 0
    BY FS_EmptySet
  <2>2. Len(d) = 0
    BY <1>2, <1>3, <2>1
  <2> QED
    BY <2>2
<1>7. \E m1 \in Nat : Ended(p, m1)
  BY <1>1, <1>4
<1>8. \A i \in Kept(q) : i \in 1 .. n /\ i \in Nat /\ i # n + 1 /\ p[i] = q[i]
  BY <1>1, <1>2
<1>9. CASE k = "blank"
  <2>1. Added(d, k) = d /\ Kept(p) = Kept(q)
    BY <1>4, <1>9 DEF Added
  <2>2. \A i \in Kept(p) : Upto(p, i) = Upto(q, i)
    BY <2>1 DEF Upto
  <2> QED
    BY <1>2, <1>7, <1>8, <2>1, <2>2 DEF ComesTo, p
<1>10. CASE k # "blank" /\ ~(k = "nav" /\ m > 0 /\ q[m] = "nav")
  <2>1. Added(d, k) = Append(d, k)
    <3>1. ~(k = "nav" /\ d # <<>> /\ Last(d) = "nav")
      BY <1>1, <1>5, <1>6, <1>10 DEF Last
    <3> QED
      BY <1>10, <3>1 DEF Added
  <2>2. Kept(p) = Kept(q) \cup {n + 1} /\ n + 1 \notin Kept(q)
    BY <1>4, <1>8, <1>10
  <2>3. Cardinality(Kept(p)) = Len(d) + 1
    <3>1. IsFiniteSet(Kept(q)) /\ Cardinality(Kept(q)) = Len(d)
      BY <1>2
    <3> QED
      BY ONLY <2>2, <3>1, FS_AddElement
  <2>4. /\ Len(Append(d, k)) = Len(d) + 1 /\ Append(d, k)[Len(d) + 1] = k
        /\ \A i \in 1 .. Len(d) : Append(d, k)[i] = d[i]
    OBVIOUS
  <2>5. \A i \in Kept(q) : Upto(p, i) = Upto(q, i)
    BY <1>1, <1>8, <2>2 DEF Upto
  <2>6. Upto(p, n + 1) = Kept(p)
    BY <1>1, <1>8, <2>2 DEF Upto
  <2>7. ASSUME NEW i \in Kept(p) PROVE Append(d, k)[Cardinality(Upto(p, i))] = p[i]
    <3>1. CASE i \in Kept(q)
      BY <1>2, <1>8, <2>4, <2>5, <3>1
    <3>2. CASE i = n + 1
      BY <1>1, <2>3, <2>4, <2>6, <3>2
    <3> QED
      BY <2>2, <2>7, <3>1, <3>2
  <2> QED
    BY <1>7, <2>1, <2>3, <2>4, <2>7 DEF ComesTo, p
<1>11. CASE k = "nav" /\ m > 0 /\ q[m] = "nav"
  <2>1. Added(d, k) = [d EXCEPT ![Len(d)] = k]
    BY <1>5, <1>11 DEF Added, Last, ReplaceAt
  <2>2. /\ Kept(p) = (Kept(q) \ {m}) \cup {n + 1} /\ n + 1 \notin Kept(q) \ {m}
        /\ m \in Kept(q) /\ m \in Nat
    BY <1>1, <1>3, <1>4, <1>8, <1>11
  <2>3. IsFiniteSet(Kept(q) \ {m}) /\ Cardinality(Kept(q) \ {m}) = Len(d) - 1
    <3>1. IsFiniteSet(Kept(q)) /\ Cardinality(Kept(q)) = Len(d)
      BY <1>2
    <3> QED
      BY ONLY <2>2, <3>1, FS_RemoveElement
  <2>4. Cardinality(Kept(p)) = Len(d) - 1 + 1
    <3>1. Cardinality((Kept(q) \ {m}) \cup {n + 1}) = Cardinality(Kept(q) \ {m}) + 1
      BY ONLY <2>2, <2>3, FS_AddElement
    <3> QED
      BY ONLY <2>2, <2>3, <3>1
  <2>5. /\ Len(d) \in 1 .. Len(d) /\ Len([d EXCEPT ![Len(d)] = k]) = Len(d)
        /\ [d EXCEPT ![Len(d)] = k][Len(d)] = k
        /\ \A i \in 1 .. Len(d) - 1 : [d EXCEPT ![Len(d)] = k][i] = d[i]
    <3>1. Len(d) \in 1 .. Len(d)
      BY <1>2, <2>2
    <3> QED
      BY <3>1
  <2>6. Upto(p, n + 1) = Kept(p)
    <3>1. \A j \in Kept(p) : j \in Nat /\ j <= n + 1
      BY <1>1, <1>8, <2>2
    <3> QED
      BY <3>1 DEF Upto
  <2>7. ASSUME NEW i \in Kept(q) \ {m}
        PROVE  [d EXCEPT ![Len(d)] = k][Cardinality(Upto(p, i))] = p[i]
    <3>1. i \in Nat /\ i <= n /\ i < m
      BY <1>1, <1>3, <1>8, <2>7, <2>2
    <3>2. Upto(p, i) = Upto(q, i)
      BY <1>1, <1>2, <2>2, <3>1, UptoSame
    <3>3. Upto(q, i) \subseteq Kept(q) \ {m}
      BY <2>2, <3>1 DEF Upto
    <3>4. Cardinality(Upto(q, i)) <= Len(d) - 1
      BY <2>3, <3>3, FS_Subset
    <3>5. Cardinality(Upto(q, i)) \in 1 .. Len(d) - 1
      BY <1>1, <1>2, <2>7, <3>4
    <3> QED
      BY <1>2, <1>8, <2>5, <2>7, <3>2, <3>5
  <2>8. ASSUME NEW i \in Kept(p)
        PROVE  [d EXCEPT ![Len(d)] = k][Cardinality(Upto(p, i))] = p[i]
    <3>1. CASE i = n + 1
      <4>1. Cardinality(Upto(p, i)) = Len(d)
        BY <1>1, <2>4, <2>6, <3>1
      <4> QED
        BY <1>1, <1>11, <2>5, <3>1, <4>1
    <3> QED
      BY <2>2, <2>7, <2>8, <3>1
  <2>9. Cardinality(Kept(p)) = Len([d EXCEPT ![Len(d)] = k])
    BY <1>1, <2>4, <2>5
  <2> QED
    BY <1>7, <2>1, <2>8, <2>9 DEF ComesTo, p
<1> QED
  BY <1>9, <1>10, <1>11

(* A prefix of what was heard, when more is. *)
LEMMA HeardPrefix ==
  ASSUME NEW h \in Seq(Kinds), NEW k \in Kinds, NEW n \in 0 .. Len(h)
  PROVE  /\ SubSeq(Append(h, k), 1, n) = SubSeq(h, 1, n)
         /\ SubSeq(h, 1, n) \in Seq(Kinds)
         /\ n < Len(h) => SubSeq(h, 1, n + 1) = Append(SubSeq(h, 1, n), h[n + 1])
OBVIOUS

(* Of the events h that got into a channel q are left, and the steps are d. *)
Tracks(h, q, d) ==
  LET n == Len(h) - Len(q) IN
  /\ n \in 0 .. Len(h)
  /\ \A i \in 1 .. Len(q) : q[i] = h[n + i]
  /\ ComesTo(SubSeq(h, 1, n), d)
  /\ \E m \in Nat : Ended(SubSeq(h, 1, n), m)

(* A capture event. *)
LEMMA TracksCapture ==
  ASSUME NEW h \in Seq(Kinds), NEW q \in Seq(Kinds), NEW d, NEW k \in Kinds, Tracks(h, q, d)
  PROVE  Tracks(Append(h, k), Append(q, k), d)
<1>1. PICK n \in Int : n = Len(h) - Len(q)
  <2>1. Len(h) \in Nat /\ Len(q) \in Nat
    OBVIOUS
  <2> QED
    BY <2>1
<1>2. /\ n \in 0 .. Len(h) /\ \A i \in 1 .. Len(q) : q[i] = h[n + i]
      /\ ComesTo(SubSeq(h, 1, n), d) /\ \E m \in Nat : Ended(SubSeq(h, 1, n), m)
  BY <1>1 DEF Tracks
<1>3. /\ Len(Append(h, k)) = Len(h) + 1 /\ Len(Append(q, k)) = Len(q) + 1
      /\ Len(h) \in Nat /\ Len(q) \in Nat
  OBVIOUS
<1>4. n = Len(Append(h, k)) - Len(Append(q, k)) /\ n \in 0 .. Len(Append(h, k))
  BY <1>1, <1>2, <1>3
<1>5. ASSUME NEW i \in 1 .. Len(q) + 1 PROVE Append(q, k)[i] = Append(h, k)[n + i]
  <2>1. CASE i = Len(q) + 1
    <3>1. n + i = Len(h) + 1
      BY <1>1, <1>3, <2>1
    <3> QED
      BY <2>1, <3>1
  <2>2. CASE i \in 1 .. Len(q)
    <3>0. n + i \in 1 .. Len(h)
      BY ONLY n \in Int, <1>1, <1>2, <1>3, <2>2
    <3>1. n + i \in 1 .. Len(h) /\ q[i] = h[n + i]
      BY <1>2, <2>2, <3>0
    <3>2. Append(q, k)[i] = q[i] /\ Append(h, k)[n + i] = h[n + i]
      BY <2>2, <3>1
    <3> QED
      BY <3>1, <3>2
  <2>3. i = Len(q) + 1 \/ i \in 1 .. Len(q)
    BY <1>3
  <2> QED
    BY <2>1, <2>2, <2>3
<1>6. SubSeq(Append(h, k), 1, n) = SubSeq(h, 1, n)
  BY <1>2, HeardPrefix
<1> QED
  BY <1>2, <1>3, <1>4, <1>5, <1>6 DEF Tracks

(* The drain adds the next one. *)
LEMMA TracksAdd ==
  ASSUME NEW h \in Seq(Kinds), NEW q \in Seq(Kinds), NEW d \in Seq(Kinds), q # <<>>,
         Tracks(h, q, d)
  PROVE  Tracks(h, Tail(q), Added(d, Head(q)))
<1>1. PICK n \in Int : n = Len(h) - Len(q)
  <2>1. Len(h) \in Nat /\ Len(q) \in Nat
    OBVIOUS
  <2> QED
    BY <2>1
<1>2. /\ n \in 0 .. Len(h) /\ \A i \in 1 .. Len(q) : q[i] = h[n + i]
      /\ ComesTo(SubSeq(h, 1, n), d) /\ \E m \in Nat : Ended(SubSeq(h, 1, n), m)
  BY <1>1 DEF Tracks
<1>3. /\ Len(q) \in Nat \ {0} /\ Len(Tail(q)) = Len(q) - 1 /\ Len(h) \in Nat
      /\ Head(q) = q[1] /\ Head(q) \in Kinds
      /\ \A i \in 1 .. Len(q) - 1 : Tail(q)[i] = q[i + 1]
  OBVIOUS
<1>4. n + 1 = Len(h) - Len(Tail(q)) /\ n + 1 \in 0 .. Len(h) /\ n < Len(h)
  BY <1>1, <1>2, <1>3
<1>5. Head(q) = h[n + 1]
  BY <1>2, <1>3
<1>6. \A i \in 1 .. Len(q) - 1 : Tail(q)[i] = h[n + 1 + i]
  <2> SUFFICES ASSUME NEW i \in 1 .. Len(q) - 1 PROVE Tail(q)[i] = h[n + 1 + i]
    OBVIOUS
  <2>1. i + 1 \in 1 .. Len(q) /\ n + (i + 1) = n + 1 + i
    BY <1>2, <1>3
  <2> QED
    BY <1>2, <1>3, <2>1
<1>7. SubSeq(h, 1, n + 1) = Append(SubSeq(h, 1, n), Head(q)) /\ SubSeq(h, 1, n) \in Seq(Kinds)
  BY <1>2, <1>3, <1>4, <1>5, HeardPrefix
<1>8. /\ ComesTo(SubSeq(h, 1, n + 1), Added(d, Head(q)))
      /\ \E m \in Nat : Ended(SubSeq(h, 1, n + 1), m)
  <2>1. PICK m \in Nat : Ended(SubSeq(h, 1, n), m)
    BY <1>2
  <2>2. Head(q) \in Kinds /\ ComesTo(SubSeq(h, 1, n), d)
    BY <1>2, <1>3
  <2>3. /\ ComesTo(Append(SubSeq(h, 1, n), Head(q)), Added(d, Head(q)))
        /\ \E m1 \in Nat : Ended(Append(SubSeq(h, 1, n), Head(q)), m1)
    BY ONLY d \in Seq(Kinds), <1>7, <2>1, <2>2, AddedComesTo
  <2> QED
    BY ONLY <1>7, <2>3
<1> QED
  BY <1>3, <1>4, <1>6, <1>8 DEF Tracks

(* The inductive invariant of what a draft is. *)
DraftInv ==
  /\ IInv /\ DraftIsWhatWasDone
  /\ \A r \in Starts : Tracks(heard[r], queue[r], steps[r])

(* A draft is a moment's steps, and what was heard by then stays heard. *)
LEMMA DraftStep == DraftInv /\ IInv' /\ [Next]_vars => DraftInv'
<1> SUFFICES ASSUME DraftInv, IInv', [Next]_vars PROVE DraftInv'
  OBVIOUS
<1>0. IInv /\ TypeOK
  BY DEF DraftInv, IInv
<1>1. \A r \in Starts : Tracks(heard[r], queue[r], steps[r])'
  <2>1. CASE UNCHANGED <<heard, queue, steps>>
    BY <2>1 DEF DraftInv
  <2>2. ASSUME NEW r \in Starts, AddEvent(r), NEW q \in Starts
        PROVE  Tracks(heard[q], queue[q], steps[q])'
    <3>1. /\ heard[r] \in Seq(Kinds) /\ queue[r] \in Seq(Kinds) /\ steps[r] \in Seq(Kinds)
          /\ queue[r] # <<>> /\ heard' = heard
          /\ steps' = [steps EXCEPT ![r] = Added(steps[r], Head(queue[r]))]
          /\ queue' = [queue EXCEPT ![r] = Tail(queue[r])]
      BY <1>0, <2>2 DEF TypeOK, AddEvent
    <3>2. Tracks(heard[r], Tail(queue[r]), Added(steps[r], Head(queue[r])))
      BY <3>1, TracksAdd DEF DraftInv
    <3>3. /\ queue'[q] = (IF q = r THEN Tail(queue[r]) ELSE queue[q])
          /\ steps'[q] = (IF q = r THEN Added(steps[r], Head(queue[r])) ELSE steps[q])
      BY <1>0, <3>1 DEF TypeOK
    <3> QED
      BY <3>1, <3>2, <3>3 DEF DraftInv
  <2>3. ASSUME NEW s \in Sessions, NEW k \in Kinds, Capture(s, k), NEW q \in Starts
        PROVE  Tracks(heard[q], queue[q], steps[q])'
    <3>1. /\ steps' = steps
          /\ \/ heard'[q] = heard[q] /\ queue'[q] = queue[q]
             \/ heard'[q] = Append(heard[q], k) /\ queue'[q] = Append(queue[q], k)
      BY <2>3 DEF Capture
    <3>2. heard[q] \in Seq(Kinds) /\ queue[q] \in Seq(Kinds) /\ Tracks(heard[q], queue[q], steps[q])
      BY <1>0 DEF TypeOK, DraftInv
    <3>3. Tracks(Append(heard[q], k), Append(queue[q], k), steps[q])
      BY <3>2, TracksCapture
    <3> QED
      BY <3>1, <3>2, <3>3
  <2> QED
    BY <2>1, <2>2, <2>3 DEF Next, vars, StartStep, CheckId, Lease, InstallFails, Installed, Insert,
       StopStep, Draft, Store, Release, CloseSession, TakeRecording, ClientCloses, Reap, drainVars
<1>2. \A r \in Starts : \A n \in 0 .. Len(heard[r]) :
        n \in 0 .. Len(heard'[r]) /\ SubSeq(heard'[r], 1, n) = SubSeq(heard[r], 1, n)
  <2>1. CASE heard' = heard
    BY <2>1
  <2>2. ASSUME NEW s \in Sessions, NEW k \in Kinds, Capture(s, k), NEW r \in Starts,
               NEW n \in 0 .. Len(heard[r])
        PROVE  n \in 0 .. Len(heard'[r]) /\ SubSeq(heard'[r], 1, n) = SubSeq(heard[r], 1, n)
    <3>1. heard'[r] = heard[r] \/ heard'[r] = Append(heard[r], k)
      BY <2>2 DEF Capture
    <3>2. heard[r] \in Seq(Kinds) /\ Len(Append(heard[r], k)) = Len(heard[r]) + 1
      BY <1>0 DEF TypeOK
    <3>3. SubSeq(Append(heard[r], k), 1, n) = SubSeq(heard[r], 1, n)
      BY <3>2, HeardPrefix
    <3> QED
      BY <3>1, <3>2, <3>3
  <2> QED
    BY <2>1, <2>2 DEF Next, vars, StartStep, CheckId, Lease, InstallFails, Installed, Insert,
       StopStep, Draft, Store, Release, CloseSession, TakeRecording, ClientCloses, Reap, drainVars,
       AddEvent
<1>3. DraftIsWhatWasDone'
  <2> SUFFICES ASSUME NEW c \in Stops, at'[c] \in {"store", "release", "close", "parked", "done"}
               PROVE  \E n \in 0 .. Len(heard'[took'[c]]) :
                        ComesTo(SubSeq(heard'[took'[c]], 1, n), draft'[c])
    BY DEF DraftIsWhatWasDone
  <2>1. CASE Draft(c)
    <3>1. /\ took[c] \in Starts /\ heard' = heard /\ took' = took
          /\ draft'[c] = steps[took[c]]
      BY <1>0, <2>1 DEF IInv, TypeOK, MapOK, Draft, drainVars
    <3>2. Tracks(heard[took[c]], queue[took[c]], steps[took[c]])
      BY <3>1 DEF DraftInv
    <3> QED
      BY <3>1, <3>2 DEF Tracks
  <2>2. CASE ~Draft(c)
    <3>1. /\ at[c] \in {"store", "release", "close", "parked", "done"}
          /\ took'[c] = took[c] /\ draft'[c] = draft[c]
      <4>0. at \in [Stops -> {"new", "draft", "store", "release", "close", "parked", "done"}]
            /\ took \in [Stops -> Starts \cup {None}] /\ draft \in [Stops -> Seq(Kinds)]
        BY <1>0 DEF TypeOK
      <4>1. CASE UNCHANGED stopVars
        BY <4>1 DEF stopVars
      <4>2. ASSUME NEW d \in Stops, NEW m \in Ids, TakeRecording(d, m)
            PROVE  /\ at[c] \in {"store", "release", "close", "parked", "done"}
                   /\ took'[c] = took[c] /\ draft'[c] = draft[c]
        BY <4>0, <4>2 DEF TakeRecording, Proceed
      <4>3. ASSUME NEW d \in Stops, StopStep(d)
            PROVE  /\ at[c] \in {"store", "release", "close", "parked", "done"}
                   /\ took'[c] = took[c] /\ draft'[c] = draft[c]
        <5>1. took' = took
          BY <4>3 DEF StopStep, Draft, Store, Release, CloseSession
        <5>2. CASE d = c
          BY <2>2, <4>0, <4>3, <5>1, <5>2 DEF StopStep, Store, Release, CloseSession
        <5>3. CASE d # c
          <6>1. \E next : at' = [at EXCEPT ![d] = next]
            BY <4>3 DEF StopStep, Draft, Store, Release, CloseSession, Proceed
          <6>2. draft'[c] = draft[c]
            BY <4>0, <4>3, <5>3 DEF StopStep, Draft, Store, Release, CloseSession
          <6> QED
            BY <4>0, <5>1, <5>3, <6>1, <6>2
        <5> QED
          BY <5>2, <5>3
      <4> QED
        BY <4>1, <4>2, <4>3 DEF Next, vars, stopVars, StartStep, CheckId, Lease, InstallFails,
           Installed, Insert, ClientCloses, Reap, AddEvent, Capture
    <3>2. took[c] \in Starts
      BY <1>0, <3>1 DEF IInv, TypeOK, MapOK
    <3>3. PICK n \in 0 .. Len(heard[took[c]]) : ComesTo(SubSeq(heard[took[c]], 1, n), draft[c])
      BY <3>1 DEF DraftInv, DraftIsWhatWasDone
    <3> QED
      BY <1>2, <3>1, <3>2, <3>3
  <2> QED
    BY <2>1, <2>2
<1> QED
  BY <1>1, <1>3 DEF DraftInv

(* A draft is what was done in the tab up to some moment: the channel, the
   drain, AddEvent and record/stop together lose and invent nothing. *)
THEOREM DraftIsWhatWasDoneHolds == Spec => []DraftIsWhatWasDone
<1>1. Init => DraftInv
  <2> SUFFICES ASSUME Init, NEW r \in Starts PROVE Tracks(heard[r], queue[r], steps[r])
    BY InitIInv DEF Init, DraftInv, DraftIsWhatWasDone
  <2>1. heard[r] = <<>> /\ queue[r] = <<>> /\ steps[r] = <<>> /\ SubSeq(<<>>, 1, 0) = <<>>
    BY DEF Init
  <2>2. Kept(<<>>) = {} /\ Cardinality({}) = 0 /\ Len(<<>>) = 0
    BY FS_EmptySet DEF Kept
  <2>3. ComesTo(<<>>, <<>>) /\ Ended(<<>>, 0)
    BY <2>2 DEF ComesTo, Ended
  <2>4. Tracks(<<>>, <<>>, <<>>)
    <3>1. Len(<<>>) - Len(<<>>) = 0 /\ 0 \in 0 .. 0 /\ 0 \in Nat
      BY <2>2
    <3>2. \A i \in 1 .. 0 : FALSE
      OBVIOUS
    <3> QED
      BY <2>1, <2>2, <2>3, <3>1, <3>2 DEF Tracks
  <2> QED
    BY <2>1, <2>4
<1>2. DraftInv => DraftIsWhatWasDone
  BY DEF DraftInv
<1> QED
  BY <1>1, <1>2, DraftStep, AlwaysIInv, PTL DEF Spec
=============================================================================
