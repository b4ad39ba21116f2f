-------------------------- MODULE EndpointProofs --------------------------
(***************************************************************************)
(* Proofs about the two endpoints that answer from what a browser left:    *)
(* HistoryCopy, for any number of files, inodes, calls, slots, attempts    *)
(* and writes, and FetchGate, for any requests, sizes, limits and          *)
(* capacities.                                                             *)
(***************************************************************************)
EXTENDS HistoryCopy, FetchGate, FiniteSetTheorems, SequenceTheorems, TLAPS

DiskTyped ==
  /\ path \in [Files -> Inodes \cup {None}]
  /\ content \in [Inodes -> Seq(Nat)]
  /\ stamp \in [Inodes -> Nat] /\ clock \in Nat

CallsTyped ==
  /\ slots \subseteq Calls
  /\ pc \in [Calls -> PCs]
  /\ answer \in [Calls -> Answers]
  /\ tries \in [Calls -> 0 .. MaxTries]
  /\ at \in [Calls -> Files]

CopiesTyped ==
  /\ ino \in [Calls -> [Files -> Inodes \cup {None}]]
  /\ mark \in [Calls -> [Files -> Nat]]
  /\ copy \in [Calls -> [Files -> Seq(Nat)]]
  /\ total \in [Calls -> Nat] /\ disk \in [Calls -> Nat]
  /\ \A c \in Calls : pc[c] = "copy" => ino[c][at[c]] \in Inodes

TypeInv == DiskTyped /\ CallsTyped /\ CopiesTyped /\ DOMAIN since = Calls

(* What a block written over, or after, the blocks of a file leaves is a
   sequence of blocks. *)
LEMMA WrittenType ==
  ASSUME NEW s \in Seq(Nat), NEW b \in 1 .. Len(s) + 1, NEW v \in Nat
  PROVE  [n \in 1 .. (IF b > Len(s) THEN b ELSE Len(s)) |-> IF n = b THEN v ELSE s[n]]
           \in Seq(Nat)
<1>1. PICK m \in Nat : m = IF b > Len(s) THEN b ELSE Len(s)
  OBVIOUS
<1>2. \A n \in 1 .. m : (IF n = b THEN v ELSE s[n]) \in Nat
  BY <1>1
<1> QED
  BY <1>1, <1>2

(* Blocks are numbers. *)
LEMMA BlockType ==
  ASSUME NEW s \in Seq(Nat), NEW t \in Seq(Nat), Len(t) + 1 <= Len(s)
  PROVE  s[Len(t) + 1] \in Nat
OBVIOUS

(* The copy of one file is replaced by another sequence of blocks. *)
LEMMA CopyType ==
  ASSUME NEW g \in [Calls -> [Files -> Seq(Nat)]], NEW c \in Calls, NEW f \in Files,
         NEW s \in Seq(Nat)
  PROVE  [g EXCEPT ![c][f] = s] \in [Calls -> [Files -> Seq(Nat)]]
OBVIOUS

(* One block more. *)
LEMMA CountType ==
  ASSUME NEW g \in [Calls -> Nat], NEW c \in Calls
  PROVE  [g EXCEPT ![c] = @ + 1] \in [Calls -> Nat]
OBVIOUS

(* Chrome's steps keep the types. *)
LEMMA ChromeType == TypeInv /\ Chrome => TypeInv'
<1> SUFFICES ASSUME TypeInv, NEW f \in Files, WriteBlock(f) \/ Create(f) \/ Remove(f)
             PROVE  TypeInv'
  BY DEF Chrome
<1> USE DEF TypeInv
<1>1. /\ UNCHANGED <<slots, pc, answer, tries, at, ino, mark, copy, total, disk>>
      /\ DOMAIN since' = Calls
  BY DEF WriteBlock, Create, Remove, Witness
<1>2. CallsTyped' /\ CopiesTyped'
  BY <1>1 DEF CallsTyped, CopiesTyped
<1>3. ASSUME WriteBlock(f) PROVE DiskTyped'
  <2>1. path[f] \in Inodes /\ path' = path /\ Stamped(path[f])
    BY <1>3 DEF WriteBlock, DiskTyped, Present
  <2>2. PICK b \in 1 .. Len(content[path[f]]) + 1 :
          content' = [content EXCEPT ![path[f]] =
             [n \in 1 .. (IF b > Len(@) THEN b ELSE Len(@)) |->
                IF n = b THEN clock + 1 ELSE @[n]]]
    BY <1>3 DEF WriteBlock
  <2>3. content[path[f]] \in Seq(Nat) /\ clock + 1 \in Nat
    BY <2>1 DEF DiskTyped
  <2>4. [n \in 1 .. (IF b > Len(content[path[f]]) THEN b ELSE Len(content[path[f]])) |->
           IF n = b THEN clock + 1 ELSE content[path[f]][n]] \in Seq(Nat)
    BY <2>3, WrittenType
  <2>5. content' \in [Inodes -> Seq(Nat)]
    BY <2>1, <2>2, <2>4 DEF DiskTyped
  <2>6. path' \in [Files -> Inodes \cup {None}] /\ stamp' \in [Inodes -> Nat] /\ clock' \in Nat
    BY <2>1 DEF DiskTyped, Stamped
  <2> QED
    BY <2>5, <2>6 DEF DiskTyped
<1>4. ASSUME Create(f) PROVE DiskTyped'
  BY <1>4 DEF DiskTyped, Create, Stamped
<1>5. ASSUME Remove(f) PROVE DiskTyped'
  BY <1>5 DEF DiskTyped, Remove
<1> QED
  BY <1>1, <1>2, <1>3, <1>4, <1>5

(* The steps of the calls keep the types. *)
LEMMA CallType == ASSUME TypeInv, NEW c \in Calls, TakeSlot(c) \/ Busy(c) \/ Serve(c)
                  PROVE  TypeInv'
<1> USE HistoryAssumption DEF TypeInv, CallsTyped, CopiesTyped, PCs, Copying, Answers,
        Goto, copyVars
<1>1. UNCHANGED fileVars
  BY DEF TakeSlot, Busy, Serve, Sources, Refuse, Query, GiveUp, Attempt, Fails, Absent,
     Open, ReadBlock, EndOfFile, Verify, Rows
<1>2. DiskTyped'
  BY <1>1 DEF DiskTyped, fileVars
<1>20. ASSUME NEW next \in PCs \ {"copy"}, pc' = [pc EXCEPT ![c] = next],
              at' \in [Calls -> Files], \A d \in Calls \ {c} : at'[d] = at[d],
              UNCHANGED <<ino, mark, copy, total, disk>>
       PROVE  CopiesTyped' /\ pc' \in [Calls -> PCs]
  <2>1. \A d \in Calls : pc'[d] = "copy" => d # c /\ pc[d] = "copy" /\ at'[d] = at[d]
    BY <1>20
  <2> QED
    BY <1>20, <2>1
<1>21. ASSUME NEW next \in PCs \ {"copy"}, pc' = [pc EXCEPT ![c] = next],
              UNCHANGED copyVars
       PROVE  CopiesTyped' /\ pc' \in [Calls -> PCs] /\ DOMAIN since' = Calls
                /\ at' \in [Calls -> Files]
  BY <1>20, <1>21
<1>3. ASSUME TakeSlot(c) PROVE TypeInv'
  <2>1. pc' = [pc EXCEPT ![c] = "checks"] /\ slots' \subseteq Calls
        /\ UNCHANGED <<answer, tries, copyVars>>
    BY <1>3 DEF TakeSlot
  <2> QED
    BY <1>2, <1>21, <2>1
<1>4. ASSUME Busy(c) PROVE TypeInv'
  <2>1. pc' = [pc EXCEPT ![c] = "answered"] /\ answer' \in [Calls -> Answers]
        /\ UNCHANGED <<slots, tries, copyVars>>
    BY <1>4 DEF Busy
  <2> QED
    BY <1>2, <1>21, <2>1
<1>5. ASSUME Sources(c) \/ Refuse(c) \/ GiveUp(c) PROVE TypeInv'
  <2>1. pc' = [pc EXCEPT ![c] = "answered"] /\ answer' \in [Calls -> Answers]
        /\ slots' \subseteq Calls /\ UNCHANGED <<tries, copyVars>>
    BY <1>5 DEF Sources, Refuse, GiveUp, Answer
  <2> QED
    BY <1>2, <1>21, <2>1
<1>6. ASSUME Query(c) PROVE TypeInv'
  <2>1. pc' = [pc EXCEPT ![c] = "attempt"] /\ UNCHANGED <<slots, answer, tries, copyVars>>
    BY <1>6 DEF Query
  <2> QED
    BY <1>2, <1>21, <2>1
<1>7. ASSUME Attempt(c) PROVE TypeInv'
  <2>1. /\ tries' \in [Calls -> 0 .. MaxTries]
        /\ UNCHANGED <<slots, answer, ino, mark, copy, total, disk>>
    BY <1>7 DEF Attempt
  <2>2. CASE UNCHANGED <<pc, at, since>>
    BY <1>2, <2>1, <2>2
  <2>3. CASE /\ at' = [at EXCEPT ![c] = 1] /\ since' = [since EXCEPT ![c] = {View}]
             /\ pc' = [pc EXCEPT ![c] = "open"]
    <3>1. at' \in [Calls -> Files] /\ \A d \in Calls \ {c} : at'[d] = at[d]
      BY <2>3 DEF Files
    <3> QED
      BY <1>2, <1>20, <2>1, <2>3, <3>1
  <2> QED
    BY <1>7, <2>2, <2>3 DEF Attempt
<1>8. ASSUME Forget(c), pc' \in [Calls -> PCs], \A d \in Calls \ {c} : pc'[d] = pc[d],
             pc'[c] # "copy"
      PROVE  CopiesTyped' /\ at' \in [Calls -> Files] /\ DOMAIN since' = Calls
  <2>1. NoFile \in [Files -> Inodes \cup {None}] /\ Zeros \in [Files -> Nat]
        /\ Empty \in [Files -> Seq(Nat)] /\ 1 \in Files
    BY DEF NoFile, Zeros, Empty, Files
  <2>2. ino' \in [Calls -> [Files -> Inodes \cup {None}]] /\ mark' \in [Calls -> [Files -> Nat]]
        /\ copy' \in [Calls -> [Files -> Seq(Nat)]]
    BY <1>8, <2>1 DEF Forget
  <2>3. \A d \in Calls \ {c} : ino'[d] = ino[d] /\ at'[d] = at[d]
    BY <1>8 DEF Forget
  <2> QED
    BY <1>8, <2>1, <2>2, <2>3 DEF Forget
<1>9. ASSUME Fails(c) PROVE TypeInv'
  <2>1. Forget(c) /\ pc' = [pc EXCEPT ![c] = "attempt"] /\ UNCHANGED <<slots, answer, tries>>
    BY <1>9 DEF Fails
  <2> QED
    BY <1>2, <1>8, <2>1
<1>10. ASSUME Rows(c) PROVE TypeInv'
  <2>1. /\ Forget(c) /\ pc' = [pc EXCEPT ![c] = "answered"]
        /\ answer' = [answer EXCEPT ![c] = "rows"] /\ slots' = slots \ {c}
        /\ UNCHANGED tries
    BY <1>10 DEF Rows, Answer
  <2> QED
    BY <1>2, <1>8, <2>1
<1>11. ASSUME NEW again \in PCs \ {"copy"}, NEW after \in PCs \ {"copy"}, NextFile(c, again, after),
              UNCHANGED <<slots, answer, tries, ino, mark, copy, total, disk, since>>
       PROVE  TypeInv'
  <2>1. PICK next \in PCs \ {"copy"} : pc' = [pc EXCEPT ![c] = next]
    BY <1>11 DEF NextFile
  <2>2. at' \in [Calls -> Files] /\ \A d \in Calls \ {c} : at'[d] = at[d]
    <3>1. at[c] \in 1 .. NFiles /\ NFiles \in Nat \ {0}
      BY DEF Files
    <3>2. at' = [at EXCEPT ![c] = IF at[c] < NFiles THEN at[c] + 1 ELSE 1]
      BY <1>11, <3>1 DEF NextFile
    <3>3. (IF at[c] < NFiles THEN at[c] + 1 ELSE 1) \in Files
      BY ONLY <3>1 DEF Files
    <3> QED
      BY <3>2, <3>3
  <2> QED
    BY <1>2, <1>11, <1>20, <2>1, <2>2
<1>12. ASSUME Absent(c) \/ EndOfFile(c) PROVE TypeInv'
  BY <1>11, <1>12 DEF Absent, EndOfFile
<1>13. ASSUME Verify(c) PROVE TypeInv'
  BY <1>11, <1>13 DEF Verify
<1>14. ASSUME Open(c) PROVE TypeInv'
  <2>1. path[at[c]] \in Inodes /\ stamp[path[at[c]]] \in Nat /\ at[c] \in Files
    BY <1>14 DEF Open, Present, DiskTyped
  <2>2. /\ ino' = [ino EXCEPT ![c][at[c]] = path[at[c]]]
        /\ mark' = [mark EXCEPT ![c][at[c]] = stamp[path[at[c]]]]
        /\ pc' = [pc EXCEPT ![c] = "copy"]
        /\ UNCHANGED <<slots, answer, tries, at, copy, total, disk, since>>
    BY <1>14 DEF Open
  <2>3. ino' \in [Calls -> [Files -> Inodes \cup {None}]] /\ mark' \in [Calls -> [Files -> Nat]]
    BY <2>1, <2>2
  <2>4. ino'[c][at[c]] \in Inodes /\ \A d \in Calls \ {c} : ino'[d] = ino[d]
    BY <2>1, <2>2
  <2>5. \A d \in Calls : pc'[d] = "copy" => ino'[d][at'[d]] \in Inodes
    BY <2>2, <2>4
  <2>6. pc' \in [Calls -> PCs]
    BY <2>2
  <2> QED
    BY <1>2, <2>2, <2>3, <2>5, <2>6
<1>15. ASSUME ReadBlock(c) PROVE TypeInv'
  <2>1. /\ pc[c] = "copy" /\ Len(copy[c][at[c]]) + 1 <= Len(content[ino[c][at[c]]])
        /\ copy' = [copy EXCEPT ![c][at[c]] =
                      Append(@, content[ino[c][at[c]]][Len(copy[c][at[c]]) + 1])]
        /\ total' = [total EXCEPT ![c] = @ + 1] /\ disk' = [disk EXCEPT ![c] = @ + 1]
        /\ UNCHANGED <<slots, pc, answer, tries, at, ino, mark, since>>
    BY <1>15 DEF ReadBlock
  <2>2. content[ino[c][at[c]]] \in Seq(Nat) /\ copy[c][at[c]] \in Seq(Nat) /\ at[c] \in Files
    BY <2>1 DEF DiskTyped
  <2>3. content[ino[c][at[c]]][Len(copy[c][at[c]]) + 1] \in Nat
    BY <2>1, <2>2, BlockType
  <2>4. Append(copy[c][at[c]], content[ino[c][at[c]]][Len(copy[c][at[c]]) + 1]) \in Seq(Nat)
    BY <2>2, <2>3
  <2>5. copy' \in [Calls -> [Files -> Seq(Nat)]]
    <3>1. PICK blocks \in Seq(Nat) : copy' = [copy EXCEPT ![c][at[c]] = blocks]
      BY <2>1, <2>4
    <3>2. copy \in [Calls -> [Files -> Seq(Nat)]]
      OBVIOUS
    <3>3. [copy EXCEPT ![c][at[c]] = blocks] \in [Calls -> [Files -> Seq(Nat)]]
      BY <2>2, <3>2, CopyType
    <3> QED
      BY <3>1, <3>3
  <2>6. total' \in [Calls -> Nat] /\ disk' \in [Calls -> Nat]
    BY <2>1, CountType
  <2> QED
    BY <1>2, <2>1, <2>5, <2>6 DEF copyVars
<1> QED
  BY <1>3, <1>4, <1>5, <1>6, <1>7, <1>9, <1>10, <1>12, <1>13, <1>14, <1>15 DEF Serve

(* The initial states are typed. *)
LEMMA InitType == Init => TypeInv
<1> SUFFICES ASSUME Init PROVE TypeInv
  OBVIOUS
<1> USE HistoryAssumption DEF Init
<1>1. <<0, 0>> \in Seq(Nat) /\ <<>> \in Seq(Nat)
  OBVIOUS
<1>2. DiskTyped
  BY <1>1 DEF DiskTyped
<1>3. CallsTyped
  BY DEF CallsTyped, PCs, Copying, Answers, Files
<1>4. CopiesTyped
  BY <1>1 DEF CopiesTyped, NoFile, Zeros, Empty
<1> QED
  BY <1>2, <1>3, <1>4 DEF TypeInv

(* Nothing but Chrome's steps and the calls' changes the state. *)
LEMMA TypeStep == TypeInv /\ [Next]_vars => TypeInv'
<1>1. TypeInv /\ UNCHANGED vars => TypeInv'
  BY DEF TypeInv, DiskTyped, CallsTyped, CopiesTyped, vars
<1> QED
  BY <1>1, ChromeType, CallType DEF Next

(* Type correctness. *)
THEOREM HistoryTyped == Spec => []TypeOK
<1>1. TypeInv => TypeOK
  BY DEF TypeInv, TypeOK, DiskTyped, CallsTyped, CopiesTyped
<1> QED
  BY <1>1, InitType, TypeStep, PTL DEF Spec
-----------------------------------------------------------------------------
(* Who holds a slot, and how much its private copies take. *)
Admitted == Copying \cup {"checks", "attempt"}
RoomInv ==
  \A c \in Calls : /\ disk[c] = total[c] /\ total[c] <= MaxBlocks
                   /\ pc[c] \notin Copying => total[c] = 0
SlotsInv ==
  /\ slots = {c \in Calls : pc[c] \in Admitted}
  /\ Cardinality(slots) <= MaxSlots

(* Every step of a call keeps its copies within the limit. *)
LEMMA RoomStep == TypeInv /\ RoomInv /\ [Next]_vars => RoomInv'
<1> SUFFICES ASSUME TypeInv, RoomInv, [Next]_vars PROVE RoomInv'
  OBVIOUS
<1> USE DEF RoomInv, TypeInv, CallsTyped, CopiesTyped
<1>1. ASSUME UNCHANGED <<total, disk>>,
             \A c \in Calls : pc'[c] \notin Copying => pc[c] \notin Copying \/ total[c] = 0
      PROVE  RoomInv'
  BY <1>1
<1>2. CASE Chrome \/ UNCHANGED vars
  <2>1. UNCHANGED <<total, disk, pc>>
    BY <1>2 DEF Chrome, WriteBlock, Create, Remove, vars
  <2> QED
    BY <1>1, <2>1
<1>3. ASSUME NEW c \in Calls, TakeSlot(c) \/ Busy(c) \/ Serve(c) PROVE RoomInv'
  <2>1. CASE TakeSlot(c) \/ Busy(c) \/ Sources(c) \/ Refuse(c) \/ GiveUp(c) \/ Query(c)
    <3>1. UNCHANGED <<total, disk>> /\ pc[c] \notin Copying
          /\ \A d \in Calls \ {c} : pc'[d] = pc[d]
      BY <2>1 DEF TakeSlot, Busy, Sources, Refuse, GiveUp, Query, Answer, Goto, copyVars, Copying
    <3> QED
      BY <1>1, <3>1
  <2>2. CASE Attempt(c)
    <3>1. UNCHANGED <<total, disk>> /\ pc[c] \notin Copying
          /\ \A d \in Calls \ {c} : pc'[d] = pc[d]
      BY <2>2 DEF Attempt, Goto, Copying
    <3> QED
      BY <1>1, <3>1
  <2>3. CASE Fails(c) \/ Rows(c)
    <3>1. /\ total' = [total EXCEPT ![c] = 0] /\ disk' = [disk EXCEPT ![c] = 0]
          /\ \A d \in Calls \ {c} : pc'[d] = pc[d]
      BY <2>3 DEF Fails, Rows, Forget, Answer, Goto
    <3>2. total'[c] = 0 /\ disk'[c] = 0 /\ 0 <= MaxBlocks
      BY <3>1, HistoryAssumption
    <3>3. \A d \in Calls \ {c} : total'[d] = total[d] /\ disk'[d] = disk[d]
      BY <3>1
    <3> QED
      BY <3>1, <3>2, <3>3
  <2>4. CASE Absent(c) \/ EndOfFile(c) \/ Verify(c)
    <3>1. UNCHANGED <<total, disk>> /\ \E next \in Copying : pc' = [pc EXCEPT ![c] = next]
      BY <2>4 DEF Absent, EndOfFile, Verify, NextFile, Goto, Copying
    <3> QED
      BY <1>1, <3>1
  <2>5. CASE Open(c)
    <3>1. UNCHANGED <<total, disk>> /\ pc' = [pc EXCEPT ![c] = "copy"]
      BY <2>5 DEF Open, Goto
    <3> QED
      BY <1>1, <3>1 DEF Copying
  <2>6. CASE ReadBlock(c)
    <3>1. /\ total' = [total EXCEPT ![c] = @ + 1] /\ disk' = [disk EXCEPT ![c] = @ + 1]
          /\ total[c] < MaxBlocks /\ pc' = pc /\ pc[c] \in Copying
      BY <2>6 DEF ReadBlock, Fits, Copying
    <3>2. total[c] \in Nat /\ MaxBlocks \in Nat /\ disk[c] = total[c]
      BY HistoryAssumption
    <3>3. total'[c] = total[c] + 1 /\ disk'[c] = total[c] + 1 /\ total[c] + 1 <= MaxBlocks
      BY <3>1, <3>2
    <3>4. \A d \in Calls \ {c} : total'[d] = total[d] /\ disk'[d] = disk[d]
      BY <3>1
    <3> QED
      BY <3>1, <3>3, <3>4
  <2> QED
    BY <1>3, <2>1, <2>2, <2>3, <2>4, <2>5, <2>6 DEF Serve
<1> QED
  BY <1>2, <1>3 DEF Next

(* A slot is held by exactly the calls that were let in and not answered. *)
LEMMA SlotsStep == TypeInv /\ SlotsInv /\ [Next]_vars => SlotsInv'
<1> SUFFICES ASSUME TypeInv, SlotsInv, [Next]_vars PROVE SlotsInv'
  OBVIOUS
<1> USE DEF SlotsInv, TypeInv, CallsTyped
<1>0. IsFiniteSet(slots)
  BY HistoryAssumption, FS_Subset
<1>1. ASSUME slots' = slots, \A c \in Calls : pc'[c] \in Admitted <=> pc[c] \in Admitted
      PROVE  SlotsInv'
  BY <1>1
<1>2. CASE Chrome \/ UNCHANGED vars
  <2>1. UNCHANGED <<slots, pc>>
    BY <1>2 DEF Chrome, WriteBlock, Create, Remove, vars
  <2> QED
    BY <1>1, <2>1
<1>3. ASSUME NEW c \in Calls, TakeSlot(c) PROVE SlotsInv'
  <2>1. /\ pc[c] = "new" /\ Cardinality(slots) < MaxSlots /\ slots' = slots \cup {c}
        /\ pc' = [pc EXCEPT ![c] = "checks"]
    BY <1>3 DEF TakeSlot, Goto
  <2>2. c \notin slots
    BY <2>1 DEF Admitted, Copying
  <2>3. Cardinality(slots') = Cardinality(slots) + 1 /\ Cardinality(slots) \in Nat
    BY <1>0, <2>1, <2>2, FS_AddElement, FS_CardinalityType
  <2>4. slots' = {d \in Calls : pc'[d] \in Admitted}
    BY <2>1 DEF Admitted
  <2> QED
    BY <2>1, <2>3, <2>4, HistoryAssumption
<1>4. ASSUME NEW c \in Calls, slots' = slots \ {c}, pc' = [pc EXCEPT ![c] = "answered"]
      PROVE  SlotsInv'
  <2>1. Cardinality(slots') <= Cardinality(slots) /\ Cardinality(slots') \in Nat
        /\ Cardinality(slots) \in Nat
    BY <1>0, <1>4, FS_Subset, FS_CardinalityType
  <2>2. slots' = {d \in Calls : pc'[d] \in Admitted}
    BY <1>4 DEF Admitted, Copying
  <2> QED
    BY <2>1, <2>2, HistoryAssumption
<1>5. ASSUME NEW c \in Calls, Busy(c) \/ Serve(c) PROVE SlotsInv'
  <2>1. CASE Sources(c) \/ Refuse(c) \/ GiveUp(c) \/ Rows(c)
    BY <1>4, <2>1 DEF Sources, Refuse, GiveUp, Rows, Answer, Goto
  <2>2. CASE Busy(c)
    <3>1. slots' = slots /\ pc[c] = "new" /\ pc' = [pc EXCEPT ![c] = "answered"]
      BY <2>2 DEF Busy, Goto
    <3> QED
      BY <1>1, <3>1 DEF Admitted, Copying
  <2>3. CASE Query(c) \/ Attempt(c) \/ Fails(c) \/ Absent(c) \/ Open(c) \/ ReadBlock(c)
             \/ EndOfFile(c) \/ Verify(c)
    <3>1. slots' = slots /\ pc[c] \in Admitted
      BY <2>3 DEF Query, Attempt, Fails, Absent, Open, ReadBlock, EndOfFile, Verify,
         Admitted, Copying
    <3>2. pc' = pc \/ \E next \in Admitted : pc' = [pc EXCEPT ![c] = next]
      BY <2>3 DEF Query, Attempt, Fails, Absent, Open, ReadBlock, EndOfFile, Verify,
         NextFile, Goto, Admitted, Copying
    <3> QED
      BY <1>1, <3>1, <3>2
  <2> QED
    BY <1>5, <2>1, <2>2, <2>3 DEF Serve
<1> QED
  BY <1>2, <1>3, <1>5 DEF Next

(* Whatever grows, fails or is interrupted, the private copies take one limit
   for each slot at most, and an answered call has left none. *)
THEOREM SpaceIsBoundedHolds == Spec => []SpaceIsBounded
<1> DEFINE Inv == TypeInv /\ RoomInv /\ SlotsInv
<1>1. Init => Inv
  <2> SUFFICES ASSUME Init PROVE RoomInv /\ SlotsInv
    BY InitType
  <2>1. RoomInv
    BY HistoryAssumption DEF Init, RoomInv
  <2>2. slots = {} /\ {c \in Calls : pc[c] \in Admitted} = {}
    BY DEF Init, Admitted, Copying
  <2> QED
    BY <2>1, <2>2, FS_EmptySet, HistoryAssumption DEF SlotsInv
<1>2. Inv /\ [Next]_vars => Inv'
  BY TypeStep, RoomStep, SlotsStep
<1>3. Inv => SpaceIsBounded
  <2> SUFFICES ASSUME Inv PROVE SpaceIsBounded
    OBVIOUS
  <2> DEFINE copies == {c \in Calls : disk[c] > 0}
  <2>1. copies \subseteq slots /\ \A c \in copies : disk[c] <= MaxBlocks
    <3>1. ASSUME NEW c \in copies PROVE disk[c] <= MaxBlocks /\ pc[c] \in Admitted
      <4>1. c \in Calls /\ disk[c] > 0 /\ disk[c] = total[c] /\ total[c] <= MaxBlocks
        BY DEF RoomInv
      <4>2. pc[c] \in Copying
        BY <4>1 DEF RoomInv
      <4> QED
        BY <4>1, <4>2 DEF Admitted
    <3> QED
      BY <3>1 DEF SlotsInv
  <2>2. IsFiniteSet(slots)
    BY HistoryAssumption, FS_Subset DEF TypeInv, CallsTyped
  <2>3. Cardinality(copies) <= Cardinality(slots) /\ Cardinality(copies) \in Nat
        /\ Cardinality(slots) \in Nat
    BY <2>1, <2>2, FS_Subset, FS_CardinalityType
  <2> QED
    BY <2>1, <2>3, HistoryAssumption DEF SlotsInv, SpaceIsBounded
<1> QED
  BY <1>1, <1>2, <1>3, PTL DEF Spec
-----------------------------------------------------------------------------
(* No two names lead to one inode, a database has one sidecar at most, and no
   stamp is from the future. *)
NamesDiffer == \A f, g \in Files : path[f] = path[g] => f = g \/ path[f] = None
OneSidecar  == \A f, g \in Sidecars : path[f] # None /\ path[g] # None => f = g
OldStamps   == \A i \in Inodes : stamp[i] <= clock
DiskInv     == NamesDiffer /\ OneSidecar /\ OldStamps

(* Chrome's steps keep the directory in order. *)
LEMMA ChromeDisk == TypeInv /\ DiskInv /\ Chrome => DiskInv'
<1> SUFFICES ASSUME TypeInv, DiskInv, NEW f \in Files, WriteBlock(f) \/ Create(f) \/ Remove(f)
             PROVE  DiskInv'
  BY DEF Chrome
<1> USE DEF TypeInv, DiskTyped, DiskInv, NamesDiffer, OneSidecar, OldStamps
<1>1. CASE WriteBlock(f)
  <2>1. path' = path /\ clock' = clock + 1 /\ stamp' = [stamp EXCEPT ![path[f]] = clock + 1]
    BY <1>1 DEF WriteBlock, Stamped
  <2> QED
    BY <2>1
<1>2. CASE Create(f)
  <2>1. PICK i \in Inodes \ InUse :
          /\ clock' = clock + 1 /\ stamp' = [stamp EXCEPT ![i] = clock + 1]
          /\ path' = [path EXCEPT ![f] = i]
    BY <1>2 DEF Create, Stamped
  <2>2. ASSUME NEW g \in Files PROVE path[g] # i
    <3>1. i # None
      BY HistoryAssumption
    <3>2. path[g] # None => path[g] \in InUse
      BY DEF InUse, Present
    <3> QED
      BY <3>1, <3>2
  <2>3. NamesDiffer'
    BY <2>1, <2>2
  <2>4. OldStamps'
    BY <2>1
  <2>5. f \in Sidecars => \A g \in Sidecars : path[g] = None
    <3>1. Sidecars \subseteq Files
      BY HistoryAssumption DEF Sidecars, Files
    <3>2. f \in Sidecars => Present \cap Sidecars = {}
      BY <1>2 DEF Create
    <3> QED
      BY <3>1, <3>2 DEF Present
  <2>6. OneSidecar'
    BY <2>1, <2>5 DEF Sidecars, Files
  <2> QED
    BY <2>3, <2>4, <2>6
<1>3. CASE Remove(f)
  <2>1. path' = [path EXCEPT ![f] = None] /\ UNCHANGED <<clock, stamp>>
    BY <1>3 DEF Remove
  <2> QED
    BY <2>1
<1> QED
  BY <1>1, <1>2, <1>3

(* After a step of Chrome a name leads to an inode with an old stamp only if it
   did before, and then the content is what it was. *)
LEMMA ChromeSpoils ==
  ASSUME TypeInv, DiskInv, Chrome, NEW f \in Files, NEW i \in Inodes, NEW m \in Nat,
         m <= clock, path'[f] = i, stamp'[i] = m
  PROVE  path[f] = i /\ stamp[i] = m /\ content'[i] = content[i]
<1> USE DEF TypeInv, DiskTyped
<1>1. PICK g \in Files : WriteBlock(g) \/ Create(g) \/ Remove(g)
  BY DEF Chrome
<1>2. CASE WriteBlock(g)
  <2>1. path' = path /\ path[g] \in Inodes /\ stamp' = [stamp EXCEPT ![path[g]] = clock + 1]
        /\ \A j \in Inodes \ {path[g]} : content'[j] = content[j]
    BY <1>2 DEF WriteBlock, Stamped, Present
  <2>2. path[g] # i
    BY <2>1
  <2> QED
    BY <2>1, <2>2
<1>3. CASE Create(g)
  <2>1. PICK j \in Inodes :
          /\ stamp' = [stamp EXCEPT ![j] = clock + 1]
          /\ path' = [path EXCEPT ![g] = j] /\ content' = [content EXCEPT ![j] = <<>>]
    BY <1>3 DEF Create, Stamped
  <2>2. j # i
    BY <2>1
  <2> QED
    BY <2>1, <2>2
<1>4. CASE Remove(g)
  BY <1>4, HistoryAssumption DEF Remove
<1> QED
  BY <1>1, <1>2, <1>3, <1>4

-----------------------------------------------------------------------------
(* A copied file is still what was opened. *)
Intact(c, f) == ino[c][f] # None /\ path[f] = ino[c][f] /\ stamp[path[f]] = mark[c][f]

(* History alone, as it is now. *)
Lone == [have |-> {1}, data |-> [f \in Files |-> IF f = 1 THEN content[path[1]] ELSE <<>>]]

Fresh(c)   == pc[c] \notin Copying => ino[c] = NoFile /\ copy[c] = Empty
Watched(c) == pc[c] \in Copying => View \in since[c]
Marked(c)  == \A f \in Files : mark[c][f] <= clock

(* Files ahead are untouched, those behind were taken in order. *)
Ordered(c) ==
  /\ pc[c] = "open" => \A f \in Files : f >= at[c] => ino[c][f] = None
  /\ pc[c] = "copy" => \A f \in Files : f > at[c] => ino[c][f] = None
  /\ pc[c] = "open" /\ at[c] > 1 => ino[c][1] # None
  /\ pc[c] = "copy" => ino[c][1] # None
  /\ \A f \in Files : ino[c][f] = None => copy[c][f] = <<>>

(* What is copied of an intact file is what it is; all of it, but for the file
   under way. *)
Prefix(c, f) ==
  /\ Len(copy[c][f]) <= Len(content[path[f]])
  /\ \A n \in 1 .. Len(copy[c][f]) : copy[c][f][n] = content[path[f]][n]
Copied(c) ==
  \A f \in Files : pc[c] \in {"open", "copy"} /\ Intact(c, f) =>
    IF pc[c] = "copy" /\ f = at[c] THEN Prefix(c, f) ELSE copy[c][f] = content[path[f]]

(* While History is intact and no sidecar was there to copy, either there was
   an instant without one, or one that is there is still ahead. *)
Alone(c) ==
  /\ pc[c] = "copy" \/ (pc[c] = "open" /\ at[c] > 1)
  /\ Intact(c, 1)
  /\ \A s \in Sidecars : ino[c][s] = None
  => \/ Lone \in since[c]
     \/ \E s \in Sidecars : s >= at[c] /\ path[s] # None

(* Once all are copied, the copy existed, or a check that is ahead fails. *)
Settled(c) ==
  /\ pc[c] = "verify" =>
       \/ CopyOf(c) \in since[c]
       \/ \E f \in Files : f >= at[c] /\ ino[c][f] # None /\ ~Intact(c, f)
  /\ pc[c] = "read" => CopyOf(c) \in since[c]

Snap(c) == /\ Fresh(c) /\ Watched(c) /\ Marked(c) /\ Ordered(c)
           /\ Copied(c) /\ Alone(c) /\ Settled(c)
SnapInv == \A c \in Calls : Snap(c)

(* The numbers of the files. *)
LEMMA FileNumbers ==
  /\ 1 \in Files /\ Files \subseteq Nat /\ Sidecars \subseteq Files
  /\ Files = Sidecars \cup {1} /\ \A s \in Sidecars : s > 1
  /\ \A f \in Files : f \in Nat /\ f >= 1 /\ f <= NFiles
  /\ \A s \in Sidecars : s \in Nat
BY HistoryAssumption DEF Files, Sidecars

(* What follows a number. *)
LEMMA NextNumber == \A m, n \in Nat : /\ m > n <=> m >= n + 1
                                     /\ m >= n /\ m # n => m > n
OBVIOUS

(* History without a sidecar is History alone. *)
LEMMA LoneView ==
  ASSUME NEW p \in [Files -> Inodes \cup {None}], NEW k, p[1] # None,
         \A s \in Sidecars : p[s] = None
  PROVE  LET have == {f \in Files : p[f] # None} IN
         [have |-> have, data |-> [f \in Files |-> IF f \in have THEN k[p[f]] ELSE <<>>]]
           = [have |-> {1}, data |-> [f \in Files |-> IF f = 1 THEN k[p[1]] ELSE <<>>]]
<1> DEFINE have == {f \in Files : p[f] # None}
<1>1. Files = Sidecars \cup {1}
  BY HistoryAssumption DEF Files, Sidecars
<1>2. have = {1}
  BY <1>1
<1>3. [f \in Files |-> IF f \in have THEN k[p[f]] ELSE <<>>]
        = [f \in Files |-> IF f = 1 THEN k[p[1]] ELSE <<>>]
  BY <1>2
<1> QED
  BY <1>2, <1>3

(* A step of Chrome. *)
LEMMA ChromeSnap ==
  ASSUME TypeInv, DiskInv, Chrome, NEW c \in Calls, Snap(c)
  PROVE  Snap(c)'
<1> USE DEF TypeInv
<1>1. /\ UNCHANGED <<pc, at, ino, mark, copy>>
      /\ since' = [d \in Calls |-> IF pc[d] \in Copying THEN since[d] \cup {View'} ELSE since[d]]
      /\ clock' = clock \/ clock' = clock + 1
  BY DEF Chrome, WriteBlock, Create, Remove, Witness, Stamped
<1>2. since[c] \subseteq since'[c] /\ (pc[c] \in Copying => View' \in since'[c])
  BY <1>1
<1>3. ASSUME NEW f \in Files, Intact(c, f)'
      PROVE  Intact(c, f) /\ path'[f] = path[f] /\ content'[path[f]] = content[path[f]]
  <2>1. ino[c][f] \in Inodes /\ path'[f] = ino[c][f] /\ stamp'[ino[c][f]] = mark[c][f]
        /\ ino[c][f] # None
    BY <1>1, <1>3 DEF Intact, CopiesTyped
  <2>2. mark[c][f] \in Nat /\ mark[c][f] <= clock
    BY DEF Snap, Marked, CopiesTyped
  <2>3. path[f] = ino[c][f] /\ stamp[ino[c][f]] = mark[c][f]
        /\ content'[ino[c][f]] = content[ino[c][f]]
    BY <2>1, <2>2, ChromeSpoils
  <2> QED
    BY <2>1, <2>3 DEF Intact
<1>4. Fresh(c)' /\ Watched(c)' /\ Ordered(c)'
  BY <1>1, <1>2 DEF Snap, Fresh, Watched, Ordered
<1>5. Marked(c)'
  BY <1>1 DEF Snap, Marked, CopiesTyped, DiskTyped
<1>6. Copied(c)'
  <2> SUFFICES ASSUME NEW f \in Files, pc[c] \in {"open", "copy"}, Intact(c, f)'
               PROVE  IF pc[c] = "copy" /\ f = at[c] THEN Prefix(c, f)'
                      ELSE copy[c][f] = content'[path'[f]]
    BY <1>1 DEF Copied
  <2>1. Intact(c, f) /\ path'[f] = path[f] /\ content'[path[f]] = content[path[f]]
    BY <1>3
  <2>2. Prefix(c, f) => Prefix(c, f)'
    BY <1>1, <2>1 DEF Prefix
  <2> QED
    BY <2>1, <2>2 DEF Snap, Copied
<1>7. Alone(c)'
  <2> SUFFICES ASSUME pc[c] = "copy" \/ (pc[c] = "open" /\ at[c] > 1), Intact(c, 1)',
                      \A s \in Sidecars : ino[c][s] = None,
                      ~\E s \in Sidecars : s >= at[c] /\ path'[s] # None
               PROVE  Lone' \in since'[c]
    BY <1>1 DEF Alone
  <2>0. 1 \in Files /\ Sidecars \subseteq Files
    BY HistoryAssumption DEF Files, Sidecars
  <2>1. Intact(c, 1) /\ path'[1] = path[1] /\ content'[path[1]] = content[path[1]]
    BY <1>3, <2>0
  <2>2. Lone' = Lone
    BY <2>1 DEF Lone
  <2>3. CASE Lone \in since[c]
    BY <1>2, <2>2, <2>3
  <2>4. CASE \E s \in Sidecars : s >= at[c] /\ path[s] # None
    <3>1. PICK s \in Sidecars : s >= at[c] /\ path[s] # None
      BY <2>4
    <3>2. path'[s] = None
      BY <3>1
    <3>3. path' = [path EXCEPT ![s] = None]
      BY <2>0, <3>1, <3>2, HistoryAssumption DEF Chrome, WriteBlock, Create, Remove, DiskTyped,
         Present
    <3>4. \A r \in Sidecars : path'[r] = None
      BY <2>0, <3>1, <3>3 DEF DiskInv, OneSidecar, DiskTyped
    <3>5. path' \in [Files -> Inodes \cup {None}]
      BY ChromeType DEF DiskTyped
    <3>6. View' = Lone'
      BY <2>0, <2>1, <3>4, <3>5, LoneView DEF Intact, View, Present, Lone
    <3> QED
      BY <1>2, <3>6 DEF Copying
  <2> QED
    BY <2>1, <2>3, <2>4 DEF Snap, Alone
<1>8. Settled(c)'
  <2>1. CopyOf(c)' = CopyOf(c)
    BY <1>1 DEF CopyOf
  <2> QED
    BY <1>1, <1>2, <1>3, <2>1 DEF Snap, Settled
<1> QED
  BY <1>4, <1>5, <1>6, <1>7, <1>8 DEF Snap

-----------------------------------------------------------------------------
(* What a call knows depends on the files and on its own variables only. *)
Same(c) == /\ UNCHANGED fileVars
           /\ at'[c] = at[c] /\ ino'[c] = ino[c] /\ mark'[c] = mark[c]
           /\ copy'[c] = copy[c] /\ since'[c] = since[c]

(* What no step of a call or of Chrome touches stays as it is. *)
LEMMA SnapFrame == ASSUME NEW c \in Calls, Same(c), pc'[c] = pc[c], Snap(c) PROVE Snap(c)'
<1> USE DEF Same, fileVars
<1>1. \A f \in Files : Intact(c, f)' <=> Intact(c, f)
  BY DEF Intact
<1>2. View' = View /\ Lone' = Lone /\ CopyOf(c)' = CopyOf(c)
  BY DEF View, Present, Lone, CopyOf
<1>3. Fresh(c)' /\ Watched(c)' /\ Marked(c)' /\ Ordered(c)'
  BY <1>2 DEF Snap, Fresh, Watched, Marked, Ordered
<1>4. Copied(c)'
  BY <1>1 DEF Snap, Copied, Prefix
<1>5. Alone(c)' /\ Settled(c)'
  <2>1. 1 \in Files
    BY HistoryAssumption DEF Files
  <2> QED
    BY <1>1, <1>2, <2>1 DEF Snap, Alone, Settled
<1> QED
  BY <1>3, <1>4, <1>5 DEF Snap

(* Outside an attempt there is nothing to know. *)
LEMMA SnapOutside ==
  ASSUME TypeInv, NEW c \in Calls, UNCHANGED fileVars, pc'[c] \notin Copying,
         ino'[c] = NoFile, copy'[c] = Empty, \A f \in Files : mark'[c][f] <= clock
  PROVE  Snap(c)'
<1>1. \A f \in Files : ino'[c][f] = None /\ copy'[c][f] = <<>>
  BY DEF NoFile, Empty
<1>2. Fresh(c)' /\ Watched(c)' /\ Marked(c)' /\ Ordered(c)'
  BY <1>1 DEF Fresh, Watched, Marked, Ordered, Copying, fileVars
<1>3. Copied(c)' /\ Alone(c)' /\ Settled(c)'
  BY DEF Copied, Alone, Settled, Copying
<1> QED
  BY <1>2, <1>3 DEF Snap

(* An attempt begins. *)
LEMMA AttemptSnap == ASSUME TypeInv, NEW c \in Calls, Attempt(c), Snap(c) PROVE Snap(c)'
<1> USE DEF TypeInv, CallsTyped, CopiesTyped
<1>1. UNCHANGED <<fileVars, ino, mark, copy>> /\ pc[c] = "attempt"
  BY DEF Attempt
<1>2. CASE UNCHANGED <<pc, at, since>>
  BY <1>1, <1>2, SnapFrame DEF Same
<1>3. CASE /\ at' = [at EXCEPT ![c] = 1] /\ since' = [since EXCEPT ![c] = {View}]
           /\ pc' = [pc EXCEPT ![c] = "open"]
  <2>1. pc'[c] = "open" /\ at'[c] = 1 /\ since'[c] = {View}
    BY <1>3
  <2>2. View' = View
    BY <1>1 DEF View, Present, fileVars
  <2>3. \A f \in Files : ino'[c][f] = None /\ copy'[c][f] = <<>>
    BY <1>1 DEF Snap, Fresh, Copying, NoFile, Empty
  <2>4. Fresh(c)' /\ Watched(c)' /\ Ordered(c)'
    BY <2>1, <2>2, <2>3 DEF Fresh, Watched, Ordered, Copying
  <2>5. Marked(c)'
    BY <1>1 DEF Snap, Marked, fileVars
  <2>6. Copied(c)' /\ Alone(c)' /\ Settled(c)'
    BY <2>1, <2>3 DEF Copied, Alone, Settled, Intact
  <2> QED
    BY <2>4, <2>5, <2>6 DEF Snap
<1> QED
  BY <1>2, <1>3 DEF Attempt, Goto

(* A file is opened. *)
LEMMA OpenSnap == ASSUME TypeInv, NEW c \in Calls, Open(c), DiskInv, Snap(c) PROVE Snap(c)'
<1> USE DEF TypeInv, CallsTyped, CopiesTyped, DiskTyped
<1> DEFINE f == at[c]
<1>1. /\ pc[c] = "open" /\ pc'[c] = "copy" /\ f \in Files /\ path[f] \in Inodes
      /\ path[f] # None
      /\ UNCHANGED <<fileVars, at, copy, since>>
  BY DEF Open, Goto, Present
<1>2. /\ ino'[c] = [ino[c] EXCEPT ![f] = path[f]]
      /\ mark'[c] = [mark[c] EXCEPT ![f] = stamp[path[f]]]
  BY DEF Open
<1>3. ino'[c][f] = path[f] /\ \A g \in Files \ {f} : ino'[c][g] = ino[c][g] /\ mark'[c][g] = mark[c][g]
  BY <1>1, <1>2
<1>4. \A g \in Files : g >= f => ino[c][g] = None /\ copy[c][g] = <<>>
  BY <1>1 DEF Snap, Ordered
<1>5. View' = View /\ Lone' = Lone /\ path' = path /\ content' = content /\ stamp' = stamp
  BY <1>1 DEF View, Present, Lone, fileVars
<1>6. \A g \in Files \ {f} : Intact(c, g)' <=> Intact(c, g)
  BY <1>3, <1>5 DEF Intact
<1>7. Fresh(c)' /\ Watched(c)'
  BY <1>1, <1>5 DEF Snap, Fresh, Watched, Copying
<1>8. Marked(c)'
  <2>1. stamp[path[f]] <= clock /\ clock' = clock
    BY <1>1 DEF DiskInv, OldStamps, fileVars
  <2> QED
    BY <1>1, <1>2, <2>1 DEF Snap, Marked
<1>9. Ordered(c)'
  <2>1. f = 1 \/ f > 1
    BY <1>1, HistoryAssumption DEF Files
  <2>2. ino'[c][1] # None
    <3>1. CASE f = 1
      BY <1>1, <1>3, <3>1
    <3>2. CASE f > 1
      <4>1. ino[c][1] # None /\ 1 \in Files \ {f}
        BY <1>1, <3>2, HistoryAssumption DEF Snap, Ordered, Files
      <4> QED
        BY <1>3, <4>1
    <3> QED
      BY <2>1, <3>1, <3>2
  <2>3. \A g \in Files : g > f => ino'[c][g] = None
    <3>1. f \in Nat /\ \A g \in Files : g \in Nat
      BY <1>1, FileNumbers
    <3>2. \A g \in Nat : g > f => g # f /\ g >= f
      BY ONLY <3>1
    <3> QED
      BY <1>3, <1>4, <3>1, <3>2
  <2>4. \A g \in Files : ino'[c][g] = None => copy'[c][g] = <<>>
    <3>1. \A g \in Files : ino[c][g] = None => copy[c][g] = <<>>
      BY DEF Snap, Ordered
    <3> QED
      BY <1>1, <1>3, <1>4, <3>1
  <2> QED
    BY <1>1, <2>2, <2>3, <2>4 DEF Ordered
<1>10. Copied(c)'
  <2> SUFFICES ASSUME NEW g \in Files, Intact(c, g)'
               PROVE  IF g = f THEN Prefix(c, g)' ELSE copy'[c][g] = content'[path'[g]]
    BY <1>1 DEF Copied
  <2>1. CASE g = f
    <3>1. copy'[c][g] = <<>> /\ content[path[g]] \in Seq(Nat) /\ path'[g] = path[g]
      BY <1>1, <1>4, <1>5, <2>1 DEF Files
    <3> QED
      BY <1>5, <2>1, <3>1 DEF Prefix
  <2>2. CASE g # f
    BY <1>1, <1>5, <1>6, <2>2 DEF Snap, Copied
  <2> QED
    BY <2>1, <2>2
<1>11. Alone(c)'
  <2> SUFFICES ASSUME \A s \in Sidecars : ino'[c][s] = None,
                      ~\E s \in Sidecars : s >= f /\ path[s] # None
               PROVE  Lone \in since[c]
    BY <1>1, <1>5 DEF Alone
  <2>1. f = 1
    BY <1>1, <1>3 DEF Files, Sidecars
  <2>2. \A s \in Sidecars : path[s] = None
    BY <2>1, HistoryAssumption DEF Sidecars
  <2>3. View = Lone
    BY <1>1, <2>1, <2>2, LoneView DEF View, Present, Lone
  <2> QED
    BY <1>1, <2>3 DEF Snap, Watched, Copying
<1>12. Settled(c)'
  BY <1>1 DEF Settled
<1> QED
  BY <1>7, <1>8, <1>9, <1>10, <1>11, <1>12 DEF Snap

(* A block more of the file under way. *)
LEMMA ReadSnap == ASSUME TypeInv, NEW c \in Calls, ReadBlock(c), Snap(c) PROVE Snap(c)'
<1> USE DEF TypeInv, CallsTyped, CopiesTyped, DiskTyped
<1> DEFINE f == at[c]
           n == Len(copy[c][f]) + 1
<1>1. /\ pc[c] = "copy" /\ pc'[c] = "copy" /\ n <= Len(content[ino[c][f]])
      /\ UNCHANGED <<fileVars, at, ino, mark, since>>
  BY DEF ReadBlock
<1>2. f \in Files /\ ino[c][f] \in Inodes /\ ino[c][f] # None /\ copy[c][f] \in Seq(Nat)
  BY <1>1, HistoryAssumption
<1>3. copy'[c] = [copy[c] EXCEPT ![f] = Append(copy[c][f], content[ino[c][f]][n])]
  BY DEF ReadBlock
<1>4. View' = View /\ Lone' = Lone /\ path' = path /\ content' = content /\ stamp' = stamp
      /\ clock' = clock
  BY <1>1 DEF View, Present, Lone, fileVars
<1>5. \A g \in Files : Intact(c, g)' <=> Intact(c, g)
  BY <1>1, <1>4 DEF Intact
<1>6. Fresh(c)' /\ Watched(c)' /\ Marked(c)'
  BY <1>1, <1>4 DEF Snap, Fresh, Watched, Marked, Copying
<1>7. \A g \in Files \ {f} : copy'[c][g] = copy[c][g]
  BY <1>3
<1>8. Ordered(c)'
  <2>1. \A g \in Files : ino'[c][g] = None => copy'[c][g] = <<>>
    BY <1>1, <1>2, <1>7 DEF Snap, Ordered
  <2> QED
    BY <1>1, <2>1 DEF Snap, Ordered
<1>9. Copied(c)'
  <2> SUFFICES ASSUME NEW g \in Files, Intact(c, g)
               PROVE  IF g = f THEN Prefix(c, g)' ELSE copy'[c][g] = content[path[g]]
    BY <1>1, <1>4, <1>5 DEF Copied
  <2>1. CASE g # f
    BY <1>1, <1>7, <2>1 DEF Snap, Copied
  <2>2. CASE g = f
    <3>1. Prefix(c, f) /\ path[f] = ino[c][f]
      BY <1>1, <2>2 DEF Snap, Copied, Intact
    <3>2. PICK b \in Nat : b = content[ino[c][f]][n]
      BY <1>1, <1>2, BlockType
    <3>3. copy'[c][f] = Append(copy[c][f], b)
      BY <1>2, <1>3, <3>2
    <3>4. Len(copy'[c][f]) = n /\ copy'[c][f][n] = b
          /\ \A k \in 1 .. Len(copy[c][f]) : copy'[c][f][k] = copy[c][f][k]
      BY <1>2, <3>3
    <3>5. \A k \in 1 .. n : k = n \/ k \in 1 .. Len(copy[c][f])
      BY <1>2
    <3>6. \A k \in 1 .. n : copy'[c][f][k] = content[path[f]][k]
      BY <3>1, <3>2, <3>4, <3>5 DEF Prefix
    <3> QED
      BY <1>1, <1>4, <2>2, <3>1, <3>4, <3>6 DEF Prefix
  <2> QED
    BY <2>1, <2>2
<1>10. Alone(c)'
  <2>1. 1 \in Files
    BY HistoryAssumption DEF Files
  <2> QED
    BY <1>1, <1>4, <1>5, <2>1 DEF Snap, Alone
<1>11. Settled(c)'
  BY <1>1 DEF Settled
<1> QED
  BY <1>6, <1>8, <1>9, <1>10, <1>11 DEF Snap

(* Once the last file is done, what was copied existed, or a check fails. *)
LEMMA AllCopied ==
  ASSUME TypeInv, DiskInv, NEW c \in Calls, Ordered(c), View \in since[c], ino[c][1] # None,
         \A f \in Files : Intact(c, f) => copy[c][f] = content[path[f]],
         Intact(c, 1) /\ (\A s \in Sidecars : ino[c][s] = None) => Lone \in since[c]
  PROVE  \/ CopyOf(c) \in since[c]
         \/ \E f \in Files : ino[c][f] # None /\ ~Intact(c, f)
<1> USE DEF TypeInv, CopiesTyped, DiskTyped
<1> SUFFICES ASSUME \A f \in Files : ino[c][f] # None => Intact(c, f)
             PROVE  CopyOf(c) \in since[c]
  OBVIOUS
<1> DEFINE had == {f \in Files : ino[c][f] # None}
<1>0. Files = Sidecars \cup {1} /\ 1 \in Files
  BY FileNumbers
<1>1. \A f \in Files : copy[c][f] = IF f \in had THEN content[path[f]] ELSE <<>>
  BY DEF Ordered
<1>2. copy[c] = [f \in Files |-> IF f \in had THEN content[path[f]] ELSE <<>>]
  BY <1>1
<1>3. CopyOf(c) = [have |-> had, data |-> [f \in Files |-> IF f \in had THEN content[path[f]] ELSE <<>>]]
  BY <1>2 DEF CopyOf
<1>4. CASE \A s \in Sidecars : ino[c][s] = None
  <2>1. had = {1}
    BY <1>0, <1>4
  <2>2. CopyOf(c) = Lone
    BY <1>3, <2>1 DEF Lone
  <2> QED
    BY <1>0, <1>4, <2>2
<1>5. CASE \E s \in Sidecars : ino[c][s] # None
  <2>1. PICK s \in Sidecars : ino[c][s] # None
    BY <1>5
  <2>2. \A f \in Files : ino[c][f] # None => path[f] # None
    BY DEF Intact
  <2>3. path[s] # None /\ \A r \in Sidecars : path[r] # None => r = s
    BY <1>0, <2>1, <2>2 DEF DiskInv, OneSidecar
  <2>4. had = Present
    <3>1. \A f \in Files : f = 1 \/ f = s => ino[c][f] # None /\ path[f] # None
      BY <1>0, <2>1, <2>2, <2>3
    <3>2. \A f \in Sidecars : f # s => path[f] = None /\ ino[c][f] = None
      BY <1>0, <2>2, <2>3
    <3>3. \A f \in Files : ino[c][f] # None <=> path[f] # None
      BY <1>0, <3>1, <3>2
    <3> QED
      BY <3>3 DEF Present
  <2>5. CopyOf(c) = View
    BY <1>3, <2>4 DEF View
  <2> QED
    BY <2>5
<1> QED
  BY <1>4, <1>5

(* A file is done; the copying goes on to the next file or to the checks. *)
LEMMA NextSnap ==
  ASSUME TypeInv, DiskInv, NEW c \in Calls, Snap(c), UNCHANGED fileVars,
         UNCHANGED <<ino, mark, copy, since>>, NextFile(c, "open", "verify"),
         pc[c] \in {"open", "copy"}, ino[c][1] # None,
         \A f \in Files : f > at[c] => ino[c][f] = None,
         \A f \in Files : Intact(c, f) => copy[c][f] = content[path[f]],
         Intact(c, 1) /\ (\A s \in Sidecars : ino[c][s] = None)
           => Lone \in since[c] \/ \E s \in Sidecars : s > at[c] /\ path[s] # None
  PROVE  Snap(c)'
<1> USE DEF TypeInv, CallsTyped
<1>1. path' = path /\ content' = content /\ stamp' = stamp /\ clock' = clock
      /\ View' = View /\ Lone' = Lone /\ CopyOf(c)' = CopyOf(c)
  BY DEF fileVars, View, Present, Lone, CopyOf
<1>2. \A f \in Files : Intact(c, f)' <=> Intact(c, f)
  BY <1>1 DEF Intact
<1>3. /\ 1 \in Files /\ at[c] \in Files /\ at[c] \in Nat /\ Sidecars \subseteq Files
      /\ \A f \in Files : f \in Nat
      /\ \A s \in Sidecars : s \in Nat
  BY FileNumbers
<1>4. View \in since[c] /\ Marked(c)' /\ \A f \in Files : ino[c][f] = None => copy[c][f] = <<>>
  BY <1>1 DEF Snap, Watched, Copying, Marked, Ordered
<1>5. CASE at[c] < NFiles
  <2>1. at'[c] = at[c] + 1 /\ pc'[c] = "open"
    BY <1>5 DEF NextFile, Goto
  <2>2. Fresh(c)' /\ Watched(c)' /\ Settled(c)'
    BY <1>1, <1>4, <2>1 DEF Fresh, Watched, Settled, Copying
  <2>3. \A f \in Files : f >= at'[c] => f > at[c]
    BY <1>3, <2>1, NextNumber
  <2>4. Ordered(c)'
    BY <1>4, <2>1, <2>3 DEF Ordered
  <2>5. Copied(c)'
    BY <1>1, <1>2, <2>1 DEF Copied
  <2>6. Alone(c)'
    <3>1. \A s \in Sidecars : s > at[c] => s >= at'[c]
      BY <1>3, <2>1, NextNumber
    <3> QED
      BY <1>1, <1>2, <1>3, <2>1, <3>1 DEF Alone
  <2> QED
    BY <1>4, <2>2, <2>4, <2>5, <2>6 DEF Snap
<1>6. CASE ~(at[c] < NFiles)
  <2>1. at'[c] = 1 /\ pc'[c] = "verify"
    BY <1>6 DEF NextFile, Goto
  <2>2. ~\E s \in Sidecars : s > at[c]
    <3>1. at[c] \in Nat /\ NFiles \in Nat /\ \A s \in Sidecars : s \in Nat /\ s <= NFiles
      BY <1>3, FileNumbers, HistoryAssumption
    <3> QED
      BY <1>6, <3>1
  <2>3. Ordered(c)
    BY DEF Snap
  <2>4. CopyOf(c) \in since[c] \/ \E f \in Files : ino[c][f] # None /\ ~Intact(c, f)
    BY <1>4, <2>2, <2>3, AllCopied
  <2>5. \A f \in Files : f >= at'[c]
    BY <2>1, HistoryAssumption DEF Files
  <2>6. Settled(c)'
    BY <1>1, <1>2, <2>1, <2>4, <2>5 DEF Settled
  <2>7. Fresh(c)' /\ Watched(c)' /\ Ordered(c)' /\ Copied(c)' /\ Alone(c)'
    BY <1>1, <1>4, <2>1 DEF Fresh, Watched, Ordered, Copied, Alone, Copying
  <2> QED
    BY <1>4, <2>6, <2>7 DEF Snap
<1> QED
  BY <1>5, <1>6

(* A sidecar is absent. *)
LEMMA AbsentSnap == ASSUME TypeInv, DiskInv, NEW c \in Calls, Absent(c), Snap(c) PROVE Snap(c)'
<1> USE DEF TypeInv, CallsTyped
<1>1. /\ pc[c] = "open" /\ at[c] \in Sidecars /\ path[at[c]] = None
      /\ UNCHANGED fileVars /\ UNCHANGED <<ino, mark, copy, since>>
      /\ NextFile(c, "open", "verify")
  BY DEF Absent, Present
<1>2. /\ 1 \in Files /\ at[c] > 1 /\ at[c] \in Nat
      /\ \A f \in Files : f \in Nat
      /\ \A s \in Sidecars : s \in Nat
  BY <1>1, FileNumbers
<1>3. ino[c][1] # None /\ \A f \in Files : f >= at[c] => ino[c][f] = None
  BY <1>1, <1>2 DEF Snap, Ordered
<1>4. \A f \in Files : f > at[c] => ino[c][f] = None
  <2>1. \A f \in Files : f > at[c] => f >= at[c]
    BY <1>2, NextNumber
  <2> QED
    BY <1>3, <2>1
<1>5. \A f \in Files : Intact(c, f) => copy[c][f] = content[path[f]]
  BY <1>1 DEF Snap, Copied
<1>6. Intact(c, 1) /\ (\A s \in Sidecars : ino[c][s] = None)
        => Lone \in since[c] \/ \E s \in Sidecars : s > at[c] /\ path[s] # None
  <2>1. \A s \in Sidecars : s >= at[c] /\ path[s] # None => s > at[c]
    BY <1>1, <1>2, NextNumber
  <2> QED
    BY <1>1, <1>2, <2>1 DEF Snap, Alone
<1> QED
  BY <1>1, <1>3, <1>4, <1>5, <1>6, NextSnap

(* The end of the file under way. *)
LEMMA EndSnap == ASSUME TypeInv, DiskInv, NEW c \in Calls, EndOfFile(c), Snap(c) PROVE Snap(c)'
<1> USE DEF TypeInv, CallsTyped, CopiesTyped, DiskTyped
<1>1. /\ pc[c] = "copy" /\ Len(copy[c][at[c]]) >= Len(content[ino[c][at[c]]])
      /\ UNCHANGED fileVars /\ UNCHANGED <<ino, mark, copy, since>>
      /\ NextFile(c, "open", "verify")
  BY DEF EndOfFile
<1>2. /\ 1 \in Files /\ at[c] \in Files
      /\ \A f \in Files : f = 1 \/ f \in Sidecars
      /\ \A s \in Sidecars : s > 1
  BY FileNumbers
<1>3. ino[c][at[c]] \in Inodes /\ ino[c][at[c]] # None
  BY <1>1, HistoryAssumption
<1>4. ino[c][1] # None /\ \A f \in Files : f > at[c] => ino[c][f] = None
  BY <1>1 DEF Snap, Ordered
<1>5. ASSUME NEW f \in Files, Intact(c, f) PROVE copy[c][f] = content[path[f]]
  <2>1. CASE f # at[c]
    BY <1>1, <1>5, <2>1 DEF Snap, Copied
  <2>2. CASE f = at[c]
    <3>1. Prefix(c, f) /\ path[f] = ino[c][f]
      BY <1>1, <1>5, <2>2 DEF Snap, Copied, Intact
    <3>2. copy[c][f] \in Seq(Nat) /\ content[path[f]] \in Seq(Nat)
      BY <1>3, <2>2, <3>1
    <3>3. Len(copy[c][f]) = Len(content[path[f]])
      BY <1>1, <2>2, <3>1, <3>2 DEF Prefix
    <3> QED
      BY <3>1, <3>2, <3>3, SeqEqual DEF Prefix
  <2> QED
    BY <2>1, <2>2
<1>6. Intact(c, 1) /\ (\A s \in Sidecars : ino[c][s] = None)
        => Lone \in since[c] \/ \E s \in Sidecars : s > at[c] /\ path[s] # None
  <2> SUFFICES ASSUME Intact(c, 1), \A s \in Sidecars : ino[c][s] = None
               PROVE  Lone \in since[c] \/ \E s \in Sidecars : s > at[c] /\ path[s] # None
    OBVIOUS
  <2>1. at[c] = 1
    BY <1>2, <1>3
  <2> QED
    BY <1>1, <1>2, <2>1 DEF Snap, Alone
<1> QED
  BY <1>1, <1>4, <1>5, <1>6, NextSnap

(* One check has found its file as it was. *)
LEMMA VerifySnap == ASSUME TypeInv, NEW c \in Calls, Verify(c), Snap(c) PROVE Snap(c)'
<1> USE DEF TypeInv, CallsTyped
<1>1. /\ pc[c] = "verify" /\ Unchanged(c, at[c])
      /\ UNCHANGED <<fileVars, ino, mark, copy, since>> /\ NextFile(c, "verify", "read")
  BY DEF Verify
<1>2. path' = path /\ content' = content /\ stamp' = stamp /\ clock' = clock
      /\ View' = View /\ CopyOf(c)' = CopyOf(c)
  BY <1>1 DEF fileVars, View, Present, CopyOf
<1>3. \A f \in Files : Intact(c, f)' <=> Intact(c, f)
  BY <1>1, <1>2 DEF Intact
<1>4. View \in since[c] /\ Marked(c)' /\ \A f \in Files : ino[c][f] = None => copy[c][f] = <<>>
  BY <1>1, <1>2 DEF Snap, Watched, Copying, Marked, Ordered
<1>5. pc'[c] \in {"verify", "read"}
  BY <1>1 DEF NextFile, Goto
<1>6. Fresh(c)' /\ Watched(c)' /\ Ordered(c)' /\ Copied(c)' /\ Alone(c)'
  BY <1>1, <1>2, <1>4, <1>5 DEF Fresh, Watched, Ordered, Copied, Alone, Copying
<1>7. \/ CopyOf(c) \in since[c]
      \/ \E f \in Files : f > at[c] /\ ino[c][f] # None /\ ~Intact(c, f)
  <2>1. \/ CopyOf(c) \in since[c]
        \/ \E f \in Files : f >= at[c] /\ ino[c][f] # None /\ ~Intact(c, f)
    BY <1>1 DEF Snap, Settled
  <2>2. ino[c][at[c]] # None => Intact(c, at[c])
    BY <1>1 DEF Unchanged, Intact
  <2>3. \A f \in Files : f >= at[c] /\ f # at[c] => f > at[c]
    BY HistoryAssumption DEF Files
  <2> QED
    BY <2>1, <2>2, <2>3
<1>8. Settled(c)'
  <2>1. CASE at[c] < NFiles
    <3>1. at'[c] = at[c] + 1 /\ pc'[c] = "verify"
      BY <1>1, <2>1 DEF NextFile, Goto
    <3>2. \A f \in Files : f > at[c] => f >= at'[c]
      BY <3>1, HistoryAssumption DEF Files
    <3> QED
      BY <1>1, <1>2, <1>3, <1>7, <3>1, <3>2 DEF Settled
  <2>2. CASE ~(at[c] < NFiles)
    <3>1. pc'[c] = "read"
      BY <1>1, <2>2 DEF NextFile, Goto
    <3>2. ~\E f \in Files : f > at[c]
      BY <2>2, HistoryAssumption DEF Files
    <3> QED
      BY <1>1, <1>2, <1>7, <3>1, <3>2 DEF Settled
  <2> QED
    BY <2>1, <2>2
<1> QED
  BY <1>4, <1>6, <1>8 DEF Snap

-----------------------------------------------------------------------------
(* A step of a call leaves what the others know alone. *)
LEMMA OthersSame ==
  ASSUME TypeInv, NEW c \in Calls, NEW d \in Calls \ {c},
         TakeSlot(c) \/ Busy(c) \/ Serve(c)
  PROVE  Same(d) /\ pc'[d] = pc[d]
<1> USE DEF Same, Goto, copyVars
<1>0. d # c /\ DOMAIN pc = Calls /\ DOMAIN at = Calls /\ DOMAIN ino = Calls
      /\ DOMAIN mark = Calls /\ DOMAIN copy = Calls /\ DOMAIN since = Calls
  BY DEF TypeInv, CallsTyped, CopiesTyped
<1>1. CASE TakeSlot(c) \/ Busy(c) \/ Sources(c) \/ Refuse(c) \/ Query(c) \/ GiveUp(c)
  BY <1>0, <1>1 DEF TakeSlot, Busy, Sources, Refuse, Query, GiveUp, Answer
<1>2. CASE Attempt(c)
  BY <1>0, <1>2 DEF Attempt
<1>3. CASE Fails(c) \/ Rows(c)
  BY <1>0, <1>3 DEF Fails, Rows, Forget, Answer
<1>4. CASE Absent(c) \/ EndOfFile(c) \/ Verify(c)
  BY <1>0, <1>4 DEF Absent, EndOfFile, Verify, NextFile
<1>5. CASE Open(c)
  BY <1>0, <1>5 DEF Open
<1>6. CASE ReadBlock(c)
  BY <1>0, <1>6 DEF ReadBlock
<1> QED
  BY <1>1, <1>2, <1>3, <1>4, <1>5, <1>6 DEF Serve

(* The steps of a call that do not copy. *)
LEMMA OutsideSnap ==
  ASSUME TypeInv, NEW c \in Calls, Snap(c),
         \/ TakeSlot(c) \/ Busy(c) \/ Sources(c) \/ Refuse(c) \/ Query(c) \/ GiveUp(c)
         \/ Fails(c) \/ Rows(c)
  PROVE  Snap(c)'
<1> USE DEF TypeInv, CallsTyped, CopiesTyped
<1>1. UNCHANGED fileVars /\ pc'[c] \notin Copying
  BY DEF TakeSlot, Busy, Sources, Refuse, Query, GiveUp, Fails, Rows, Answer, Goto, Copying
<1>2. CASE Fails(c) \/ Rows(c)
  <2>1. ino'[c] = NoFile /\ copy'[c] = Empty /\ mark'[c] = Zeros
    BY <1>2 DEF Fails, Rows, Forget
  <2>2. \A f \in Files : mark'[c][f] <= clock
    BY <2>1 DEF Zeros, DiskTyped
  <2> QED
    BY <1>1, <2>1, <2>2, SnapOutside
<1>3. CASE TakeSlot(c) \/ Busy(c) \/ Sources(c) \/ Refuse(c) \/ Query(c) \/ GiveUp(c)
  <2>1. UNCHANGED copyVars /\ pc[c] \notin Copying
    BY <1>3 DEF TakeSlot, Busy, Sources, Refuse, Query, GiveUp, Copying
  <2>2. ino'[c] = NoFile /\ copy'[c] = Empty /\ \A f \in Files : mark'[c][f] <= clock
    BY <2>1 DEF copyVars, Snap, Fresh, Marked
  <2> QED
    BY <1>1, <2>2, SnapOutside
<1> QED
  BY <1>2, <1>3

(* Every step. *)
LEMMA SnapStep == TypeInv /\ DiskInv /\ SnapInv /\ [Next]_vars => DiskInv' /\ SnapInv'
<1> SUFFICES ASSUME TypeInv, DiskInv, SnapInv, [Next]_vars PROVE DiskInv' /\ SnapInv'
  OBVIOUS
<1>0. ASSUME UNCHANGED fileVars PROVE DiskInv'
  BY <1>0 DEF fileVars, DiskInv, NamesDiffer, OneSidecar, OldStamps
<1>1. CASE Chrome
  BY <1>1, ChromeDisk, ChromeSnap DEF SnapInv
<1>2. CASE UNCHANGED vars
  <2>1. \A c \in Calls : Same(c) /\ pc'[c] = pc[c]
    BY <1>2 DEF vars, Same, fileVars
  <2>2. \A c \in Calls : Snap(c)'
    BY <2>1, SnapFrame DEF SnapInv
  <2> QED
    BY <1>0, <1>2, <2>2 DEF vars, fileVars, SnapInv
<1>3. ASSUME NEW c \in Calls, TakeSlot(c) \/ Busy(c) \/ Serve(c) PROVE DiskInv' /\ SnapInv'
  <2>1. UNCHANGED fileVars
    BY <1>3 DEF TakeSlot, Busy, Serve, Sources, Refuse, Query, GiveUp, Attempt, Fails, Absent,
       Open, ReadBlock, EndOfFile, Verify, Rows
  <2>2. Snap(c)'
    <3>1. Snap(c)
      BY DEF SnapInv
    <3> QED
      BY <1>3, <3>1, OutsideSnap, AttemptSnap, OpenSnap, ReadSnap, AbsentSnap, EndSnap,
         VerifySnap DEF Serve
  <2>3. ASSUME NEW d \in Calls \ {c} PROVE Snap(d)'
    BY <1>3, OthersSame, SnapFrame DEF SnapInv
  <2> QED
    BY <1>0, <2>1, <2>2, <2>3 DEF SnapInv
<1> QED
  BY <1>1, <1>2, <1>3 DEF Next

(* A copy that the checks let through is what the files were, all of them, at
   one instant of the attempt. *)
THEOREM CopyExistedHolds == Spec => []CopyExisted
<1> DEFINE Inv == TypeInv /\ DiskInv /\ SnapInv
<1>1. Init => Inv
  <2> SUFFICES ASSUME Init PROVE DiskInv /\ SnapInv
    BY InitType
  <2>1. NamesDiffer /\ OneSidecar
    BY HistoryAssumption DEF Init, NamesDiffer, OneSidecar
  <2>2. OldStamps
    BY DEF Init, OldStamps
  <2>3. ASSUME NEW c \in Calls PROVE Snap(c)
    <3>1. pc[c] = "new" /\ ino[c] = NoFile /\ copy[c] = Empty /\ mark[c] = Zeros /\ clock = 0
      BY DEF Init
    <3>2. \A f \in Files : ino[c][f] = None /\ copy[c][f] = <<>> /\ mark[c][f] <= clock
      BY <3>1 DEF NoFile, Empty, Zeros
    <3> QED
      BY <3>1, <3>2 DEF Snap, Fresh, Watched, Marked, Ordered, Copied, Alone, Settled, Copying
  <2> QED
    BY <2>1, <2>2, <2>3 DEF DiskInv, SnapInv
<1>2. Inv /\ [Next]_vars => Inv'
  BY TypeStep, SnapStep
<1>3. Inv => CopyExisted
  BY DEF SnapInv, Snap, Settled, CopyExisted
<1> QED
  BY <1>1, <1>2, <1>3, PTL DEF Spec

-----------------------------------------------------------------------------
(* POST /fetch: FetchGate. *)
(* The dedupe keys there can be, and what a request can be told. *)
GateKeys == {KeyOf(a) : a \in Ask}
Codes == {"none", "unauthorized", "bad_request", "rejected_url", "challenge", "timeout",
          "chrome_unavailable", "client_gone", "nav_error", "ok", "screenshot_capacity"}

(* The types, part by part; a caller that is on a flight knows whose. *)
FlightsTyped ==
  /\ phase \in [Reqs -> {"idle", "leads", "leaving", "follows", "done"}]
  /\ key \in [Reqs -> GateKeys]
  /\ ctx \in [Reqs -> {"live"} \cup Ends]
  /\ leader \in [Reqs -> Reqs \cup {Nil}]
  /\ flight \in [GateKeys -> Reqs \cup {Nil}]
  /\ out \in [Reqs -> {"none"} \cup Ends \cup Results]
  /\ \A r \in Reqs : phase[r] # "idle" => leader[r] \in Reqs

RequestsTyped ==
  /\ ask \in Asks
  /\ stage \in [Reqs -> {"new", "do", "answering", "answered"}]
  /\ code \in [Reqs -> Codes]

StoreTyped == entries \subseteq Reqs /\ bytes \in Int /\ age \in [Reqs -> 0 .. TTL]

RingTyped ==
  /\ ring \in [buf : [0 .. RingLen - 1 -> Reqs \cup {Nil}], next : 0 .. RingLen - 1,
               count : 0 .. RingLen]
  /\ log \in Seq(Reqs)

(* Type invariant of FetchGate. *)
GateTypeOK == FlightsTyped /\ RequestsTyped /\ StoreTyped /\ RingTyped

(* A ring has a slot at least. *)
LEMMA RingLenType == RingLen \in Nat \ {0}
BY FetchGateAssumption DEF RingLen

(* What a request is, and what it asks for. *)
LEMMA AskType ==
  ASSUME RequestsTyped, NEW r \in Reqs
  PROVE  /\ ask[r] \in Ask /\ Size(r) \in Nat /\ Visual(r) \in BOOLEAN /\ Class(r) \in Classes
         /\ KeyOf(ask[r]) \in GateKeys
<1>1. ask[r] \in Ask
  BY FetchGateAssumption DEF RequestsTyped
<1>2. SizeOf[ask[r].work] \in Nat
  BY <1>1, FetchGateAssumption DEF Ask
<1> QED
  BY <1>1, <1>2 DEF Ask, GateKeys, Size, Visual, Class

(* The steps of Do keep its types. *)
LEMMA DoType ==
  ASSUME FlightsTyped, NEW r \in Reqs, Do!Call(r) \/ Do!Proceed(r) \/ Do!ContextEnds(r)
  PROVE  FlightsTyped'
<1> USE DEF FlightsTyped
<1>1. key[r] \in GateKeys
  OBVIOUS
<1>2. CASE Do!Lead(r)
  BY <1>1, <1>2 DEF Do!Lead
<1>3. CASE Do!Join(r)
  BY <1>1, <1>3 DEF Do!Join
<1>4. CASE Do!Leave(r)
  BY <1>1, <1>4 DEF Do!Leave
<1>5. CASE Do!Return(r)
  <2>1. PICK res \in Results \cup ({ctx[r]} \ {"live"}) : out' = [out EXCEPT ![r] = res]
    BY <1>5 DEF Do!Return
  <2>2. res \in Ends \cup Results
    BY <2>1
  <2> QED
    BY <1>5, <2>1, <2>2 DEF Do!Return
<1>6. CASE Do!TakeResult(r)
  <2>1. out[leader[r]] \in {"none"} \cup Ends \cup Results
    <3>1. phase[r] = "follows"
      BY <1>6 DEF Do!TakeResult
    <3>2. leader[r] \in Reqs
      BY <3>1
    <3> QED
      BY <3>2
  <2> QED
    BY <1>6, <2>1 DEF Do!TakeResult
<1>7. CASE Do!GiveUp(r)
  BY <1>7 DEF Do!GiveUp
<1>8. CASE Do!ContextEnds(r)
  BY <1>8 DEF Do!ContextEnds
<1> QED
  BY <1>2, <1>3, <1>4, <1>5, <1>6, <1>7, <1>8 DEF Do!Call, Do!Proceed

(* Nothing of Do changes without a call of it. *)
LEMMA FlightsFrame ==
  ASSUME FlightsTyped, UNCHANGED flights
  PROVE  FlightsTyped'
BY DEF FlightsTyped, flights

(* What a request asks for is never changed, and its answer not withdrawn. *)
LEMMA AskKept == [GateNext]_gateVars => ask' = ask
BY DEF GateNext, gateVars, ReapStore, Tick, HandleFetch, Unauthorized, TurnDown, Call, Wait,
       Fail, Succeed, AddCapture, RefuseCapture, FinishFetch

(* Only Call and Wait concern Do. *)
LEMMA DoSteps ==
  ASSUME [GateNext]_gateVars
  PROVE  \/ UNCHANGED flights
         \/ \E r \in Reqs : /\ Do!Call(r) \/ Do!Proceed(r) \/ Do!ContextEnds(r)
                           /\ UNCHANGED <<store, ring, log, code>>
                           /\ \/ stage[r] = "new" /\ Do!Call(r) /\ stage' = [stage EXCEPT ![r] = "do"]
                              \/ stage[r] = "do" /\ ~Do!Call(r) /\ stage' = stage
BY DEF GateNext, gateVars, ReapStore, Tick, HandleFetch, Unauthorized, TurnDown, Call, Wait,
       Fail, Succeed, AddCapture, RefuseCapture, FinishFetch, Do!Call, Do!Proceed,
       Do!Lead, Do!Join, Do!Leave, Do!Return, Do!TakeResult, Do!GiveUp, Do!ContextEnds

(* A request is told one of these. *)
LEMMA ClassifyType == \A r \in Reqs : Classify(r) \in Codes \ {"none", "ok", "screenshot_capacity"}
BY DEF Classify, Codes

(* Every step keeps the types of the requests ... *)
LEMMA RequestsStep ==
  ASSUME RequestsTyped, [GateNext]_gateVars
  PROVE  RequestsTyped'
<1> USE DEF RequestsTyped
<1>1. ask' \in Asks
  BY AskKept
<1>2. ASSUME NEW r \in Reqs, NEW c \in Codes, Reply(r, c)
      PROVE  RequestsTyped'
  BY <1>1, <1>2 DEF Reply
<1>3. ASSUME NEW r \in Reqs, HandleFetch(r)
      PROVE  RequestsTyped'
  <2>1. CASE Unauthorized(r)
    BY <1>1, <2>1 DEF Unauthorized, Codes
  <2>2. CASE TurnDown(r)
    <3>1. (IF ask[r].form = "malformed" THEN "bad_request" ELSE "rejected_url") \in Codes
      BY DEF Codes
    <3> QED
      BY <1>2, <2>2, <3>1 DEF TurnDown
  <2>3. CASE Call(r) \/ Wait(r) \/ FinishFetch(r)
    BY <1>1, <2>3 DEF Call, Wait, FinishFetch
  <2>4. CASE Fail(r)
    BY <1>2, <2>4, ClassifyType DEF Fail
  <2>5. CASE Succeed(r) \/ AddCapture(r) \/ RefuseCapture(r)
    BY <1>2, <2>5 DEF Succeed, AddCapture, RefuseCapture, Codes
  <2> QED
    BY <1>3, <2>1, <2>2, <2>3, <2>4, <2>5 DEF HandleFetch
<1>4. CASE ReapStore \/ Tick \/ UNCHANGED gateVars
  BY <1>1, <1>4 DEF ReapStore, Tick, gateVars
<1> QED
  BY <1>3, <1>4 DEF GateNext

(* Tiles are counted in whole numbers. *)
LEMMA TilesFinite ==
  ASSUME RequestsTyped, NEW S \in SUBSET Reqs
  PROVE  IsFiniteSet(Tiles(S)) /\ Bytes(S) \in Nat
<1> DEFINE f == [r \in S |-> {r} \X (1 .. Size(r))]
           T == {{r} \X (1 .. Size(r)) : r \in S}
<1>1. IsFiniteSet(S)
  BY FetchGateAssumption, FS_Subset
<1>2. f \in Surjection(S, T)
  BY DEF Surjection
<1>3. IsFiniteSet(T)
  BY <1>1, <1>2, FS_Surjection
<1>4. ASSUME NEW t \in T PROVE IsFiniteSet(t)
  <2>1. PICK r \in S : t = {r} \X (1 .. Size(r))
    BY <1>4
  <2>2. Size(r) \in Int
    BY AskType
  <2> HIDE DEF T, f
  <2>3. IsFiniteSet(1 .. Size(r))
    BY <2>2, FS_Interval
  <2>4. IsFiniteSet({r})
    BY FS_Singleton
  <2> QED
    BY <2>1, <2>3, <2>4, FS_Product
<1>5. IsFiniteSet(UNION T)
  <2> HIDE DEF T
  <2> QED
    BY <1>3, <1>4, FS_UNION
<1> QED
  BY <1>5, FS_CardinalityType DEF Bytes, Tiles

(* The steps that touch the store keep its types. *)
LEMMA StoreStep ==
  ASSUME RequestsTyped, StoreTyped, [GateNext]_gateVars
  PROVE  StoreTyped'
<1> USE DEF StoreTyped
<1>1. Live \subseteq Reqs /\ LiveBytes \in Int
  BY TilesFinite DEF Live, LiveBytes
<1>2. ASSUME NEW r \in Reqs, HandleFetch(r)
      PROVE  StoreTyped'
  <2>1. CASE AddCapture(r)
    BY <1>1, <2>1, AskType DEF AddCapture
  <2>2. CASE RefuseCapture(r)
    BY <1>1, <2>2 DEF RefuseCapture, Reap
  <2>3. CASE ~AddCapture(r) /\ ~RefuseCapture(r)
    BY <1>2, <2>3 DEF HandleFetch, Unauthorized, TurnDown, Call, Wait, Fail, Succeed,
       FinishFetch, store
  <2> QED
    BY <2>1, <2>2, <2>3
<1>3. CASE ReapStore
  BY <1>1, <1>3 DEF ReapStore, Reap
<1>4. CASE Tick
  <2>1. \A r \in Reqs : (IF r \in entries /\ age[r] < TTL THEN age[r] + 1 ELSE age[r]) \in 0 .. TTL
    BY FetchGateAssumption
  <2> QED
    BY <1>4, <2>1 DEF Tick
<1>5. CASE UNCHANGED gateVars
  BY <1>5 DEF gateVars, store
<1> QED
  BY <1>2, <1>3, <1>4, <1>5 DEF GateNext

(* FinishFetch is the only step that touches the ring. *)
LEMMA RingSteps ==
  ASSUME [GateNext]_gateVars
  PROVE  \/ UNCHANGED <<ring, log>>
         \/ \E r \in Reqs : RingAdd(r) /\ log' = Append(log, r)
BY DEF GateNext, gateVars, ReapStore, Tick, HandleFetch, Unauthorized, TurnDown, Call, Wait,
       Fail, Succeed, AddCapture, RefuseCapture, FinishFetch

(* ... and those of the ring. *)
LEMMA RingStep ==
  ASSUME RingTyped, [GateNext]_gateVars
  PROVE  RingTyped'
<1> USE DEF RingTyped
<1>1. ASSUME NEW r \in Reqs, RingAdd(r), log' = Append(log, r)
      PROVE  RingTyped'
  <2> DEFINE L == RingLen
  <2>1. L \in Nat \ {0}
    BY RingLenType
  <2> HIDE DEF L
  <2>2. ring \in [buf : [0 .. L - 1 -> Reqs \cup {Nil}], next : 0 .. L - 1, count : 0 .. L]
    BY DEF L
  <2>3. /\ [ring.buf EXCEPT ![ring.next] = r] \in [0 .. L - 1 -> Reqs \cup {Nil}]
        /\ (ring.next + 1) % L \in 0 .. L - 1
        /\ (IF ring.count < L THEN ring.count + 1 ELSE ring.count) \in 0 .. L
    BY <2>1, <2>2
  <2>4. ring' = [buf   |-> [ring.buf EXCEPT ![ring.next] = r],
                 next  |-> (ring.next + 1) % L,
                 count |-> IF ring.count < L THEN ring.count + 1 ELSE ring.count]
    BY <1>1 DEF RingAdd, L
  <2>5. ring' \in [buf : [0 .. L - 1 -> Reqs \cup {Nil}], next : 0 .. L - 1, count : 0 .. L]
    BY <2>3, <2>4
  <2>6. RingLen' = RingLen /\ log' \in Seq(Reqs)
    BY <1>1 DEF RingLen
  <2> QED
    BY <2>5, <2>6 DEF L
<1>2. CASE UNCHANGED <<ring, log>>
  BY <1>2 DEF RingLen
<1> QED
  BY <1>1, <1>2, RingSteps

(* The initial states have these types. *)
LEMMA GateInitType == GateInit => GateTypeOK
<1> SUFFICES ASSUME GateInit PROVE GateTypeOK
  OBVIOUS
<1> USE DEF GateInit
<1>1. RequestsTyped
  BY DEF RequestsTyped, Codes
<1>2. FlightsTyped
  <2>1. \A r \in Reqs : KeyOf(ask[r]) \in GateKeys
    BY <1>1, AskType
  <2> QED
    BY <2>1 DEF FlightsTyped, Do!Init, GateKeys
<1>3. StoreTyped
  BY FetchGateAssumption DEF StoreTyped
<1>4. RingTyped
  BY RingLenType DEF RingTyped
<1> QED
  BY <1>1, <1>2, <1>3, <1>4 DEF GateTypeOK

(* Every step keeps the types. *)
LEMMA GateTypeStep == GateTypeOK /\ [GateNext]_gateVars => GateTypeOK'
<1> SUFFICES ASSUME GateTypeOK, [GateNext]_gateVars PROVE GateTypeOK'
  OBVIOUS
<1> USE DEF GateTypeOK
<1>1. FlightsTyped'
  BY DoSteps, DoType, FlightsFrame
<1>2. RequestsTyped' /\ StoreTyped' /\ RingTyped'
  BY RequestsStep, StoreStep, RingStep
<1> QED
  BY <1>1, <1>2

(* FetchGate is type correct: a caller has a leader as soon as it is in Do, a
   capture in the map is a request's, the ring is written within its bounds. *)
THEOREM GateTyped == GateSpec => []GateTypeOK
<1>1. GateInit => GateTypeOK
  BY GateInitType
<1>2. GateTypeOK /\ [GateNext]_gateVars => GateTypeOK'
  BY GateTypeStep
<1> QED
  BY <1>1, <1>2, PTL DEF GateSpec

-----------------------------------------------------------------------------
(* A caller is on the flight of a caller with the same key, open or over ... *)
OnFlight(r) ==
  phase[r] # "idle" =>
    /\ phase[leader[r]] \in {"leads", "leaving", "done"}
    /\ leader[leader[r]] = leader[r] /\ key[leader[r]] = key[r]
    /\ phase[r] \in {"leads", "leaving"} => leader[r] = r

(* ... and has its outcome from there, or from its own context. *)
Outcome(r) ==
  phase[r] = "done" =>
    \/ out[r] = ctx[r] /\ ctx[r] # "live"
    \/ leader[r] = r /\ out[r] \in Results
    \/ leader[r] # r /\ phase[leader[r]] = "done" /\ out[r] = out[leader[r]]

(* A flight that can be joined has a leader that has not returned. *)
OpenFlights ==
  \A k \in GateKeys : flight[k] # Nil =>
     phase[flight[k]] = "leads" /\ key[flight[k]] = k

(* Every caller's flight is one of its key, with the outcome its leader has. *)
CallsInv ==
  /\ OpenFlights
  /\ \A r \in Reqs : /\ OnFlight(r) /\ Outcome(r)
                     /\ key[r] = KeyOf(ask[r])
                     /\ stage[r] = "new" => phase[r] = "idle"

(* A caller that has returned, and one on a flight, stays on it. *)
LEMMA DoKeeps ==
  ASSUME FlightsTyped, CallsInv, NEW r \in Reqs, Do!Call(r) \/ Do!Proceed(r) \/ Do!ContextEnds(r)
  PROVE  /\ key' = key
         /\ \A q \in Reqs \ {r} : /\ phase'[q] = phase[q] /\ leader'[q] = leader[q]
                                 /\ out'[q] = out[q] /\ ctx'[q] = ctx[q]
         /\ phase[r] = "done" => phase'[r] = "done" /\ out'[r] = out[r]
         /\ phase[r] # "idle" => leader'[r] = leader[r]
         /\ phase[r] = "leads" => phase'[r] \in {"leads", "leaving"}
         /\ phase[r] = "leaving" => phase'[r] \in {"leaving", "done"}
         /\ ctx[r] # "live" => ctx'[r] = ctx[r]
BY DEF FlightsTyped, Do!Call, Do!Proceed, Do!Lead, Do!Join, Do!Leave, Do!Return,
       Do!TakeResult, Do!GiveUp, Do!ContextEnds

(* A step of one caller leaves every caller on a flight of its key, with that
   flight's outcome or its own context's. *)
LEMMA FlightsStep ==
  ASSUME FlightsTyped, CallsInv, NEW r \in Reqs, Do!Call(r) \/ Do!Proceed(r) \/ Do!ContextEnds(r)
  PROVE  OpenFlights' /\ \A q \in Reqs : OnFlight(q)' /\ Outcome(q)'
<1>0. key[r] \in GateKeys /\ Nil \notin Reqs
  BY FetchGateAssumption DEF FlightsTyped
<1>1. OpenFlights'
  <2>1. CASE Do!Lead(r)
    BY <1>0, <2>1 DEF Do!Lead, CallsInv, OpenFlights, FlightsTyped
  <2>2. CASE Do!Leave(r)
    BY <1>0, <2>2 DEF Do!Leave, CallsInv, OpenFlights, FlightsTyped
  <2>3. CASE ~Do!Lead(r) /\ ~Do!Leave(r)
    <3>1. flight' = flight /\ key' = key
      BY <2>3 DEF Do!Call, Do!Proceed, Do!Join, Do!Return, Do!TakeResult, Do!GiveUp, Do!ContextEnds
    <3>2. \A q \in Reqs : phase[q] = "leads" => phase'[q] = "leads"
      BY <2>3 DEF FlightsTyped, Do!Call, Do!Proceed, Do!Join, Do!Return, Do!TakeResult, Do!GiveUp,
         Do!ContextEnds
    <3> QED
      BY <3>1, <3>2 DEF CallsInv, OpenFlights, FlightsTyped
  <2> QED
    BY <2>1, <2>2, <2>3
<1>2. ASSUME NEW q \in Reqs PROVE OnFlight(q)'
  <2>1. CASE phase[q] # "idle"
    <3>1. OnFlight(q) /\ leader[q] \in Reqs
      BY <2>1 DEF CallsInv, FlightsTyped
    <3>2. leader'[q] = leader[q] /\ leader'[leader[q]] = leader[q] /\ key' = key
      BY <2>1, <3>1, DoKeeps DEF OnFlight
    <3>3. phase'[leader[q]] \in {"leads", "leaving", "done"}
      BY <2>1, <3>1, DoKeeps DEF OnFlight
    <3>4. phase'[q] \in {"leads", "leaving"} => phase[q] \in {"leads", "leaving"}
      BY <2>1 DEF FlightsTyped, Do!Call, Do!Proceed, Do!Lead, Do!Join, Do!Leave, Do!Return,
         Do!TakeResult, Do!GiveUp, Do!ContextEnds
    <3> QED
      BY <2>1, <3>1, <3>2, <3>3, <3>4 DEF OnFlight
  <2>2. CASE phase[q] = "idle" /\ q # r
    BY <2>2, DoKeeps DEF OnFlight
  <2>3. CASE phase[r] = "idle" /\ q = r
    <3>1. CASE Do!Lead(r)
      BY <2>3, <3>1 DEF Do!Lead, OnFlight, FlightsTyped
    <3>2. CASE Do!Join(r)
      <4>1. flight[key[r]] \in Reqs /\ phase[flight[key[r]]] = "leads" /\ key[flight[key[r]]] = key[r]
        BY <1>0, <3>2 DEF Do!Join, CallsInv, OpenFlights, FlightsTyped
      <4>2. leader[flight[key[r]]] = flight[key[r]] /\ flight[key[r]] # r
        BY <2>3, <4>1 DEF CallsInv, OnFlight
      <4>3. /\ leader'[r] = flight[key[r]] /\ leader'[flight[key[r]]] = flight[key[r]]
            /\ phase'[flight[key[r]]] = "leads" /\ key' = key /\ phase'[r] = "follows"
        BY <3>2, <4>1, <4>2 DEF Do!Join, FlightsTyped
      <4> QED
        BY <2>3, <4>1, <4>2, <4>3 DEF OnFlight
    <3>3. CASE ~Do!Call(r)
      <4>1. phase' = phase
        BY <2>3, <3>3 DEF FlightsTyped, Do!Proceed, Do!Leave, Do!Return, Do!TakeResult, Do!GiveUp,
           Do!ContextEnds
      <4> QED
        BY <2>3, <4>1 DEF OnFlight
    <3> QED
      BY <3>1, <3>2, <3>3 DEF Do!Call
  <2> QED
    BY <2>1, <2>2, <2>3
<1>3. ASSUME NEW q \in Reqs PROVE Outcome(q)'
  <2>1. CASE phase[q] = "done"
    <3>1. Outcome(q) /\ leader[q] \in Reqs
      BY <2>1 DEF CallsInv, FlightsTyped
    <3>2. leader'[q] = leader[q] /\ out'[q] = out[q] /\ (ctx[q] # "live" => ctx'[q] = ctx[q])
      BY <2>1, DoKeeps
    <3>3. phase[leader[q]] = "done" => phase'[leader[q]] = "done" /\ out'[leader[q]] = out[leader[q]]
      BY <3>1, DoKeeps
    <3> QED
      BY <2>1, <3>1, <3>2, <3>3 DEF Outcome
  <2>2. CASE phase[q] # "done" /\ phase'[q] = "done"
    <3>1. q = r
      BY <2>2, DoKeeps
    <3>2. OnFlight(r) /\ phase' = [phase EXCEPT ![r] = "done"] /\ UNCHANGED <<leader, ctx>>
      BY <2>2, <3>1 DEF CallsInv, FlightsTyped, Do!Call, Do!Proceed, Do!Lead, Do!Join, Do!Leave,
         Do!Return, Do!TakeResult, Do!GiveUp, Do!ContextEnds
    <3>3. CASE Do!Return(r)
      <4>1. phase[r] = "leaving" /\ leader[r] = r
        BY <3>2, <3>3 DEF Do!Return, OnFlight
      <4>2. PICK res \in Results \cup ({ctx[r]} \ {"live"}) : out' = [out EXCEPT ![r] = res]
        BY <3>3 DEF Do!Return
      <4>3. out'[r] = res
        BY <4>2 DEF FlightsTyped
      <4> QED
        BY <3>1, <3>2, <4>1, <4>2, <4>3 DEF Outcome
    <3>4. CASE Do!TakeResult(r)
      <4>1. phase[leader[r]] = "done" /\ phase[r] = "follows" /\ leader[r] # r
        BY <3>4 DEF Do!TakeResult
      <4>2. leader[r] \in Reqs
        BY <4>1 DEF FlightsTyped
      <4>3. out'[r] = out[leader[r]] /\ out'[leader[r]] = out[leader[r]] /\ phase'[leader[r]] = "done"
        BY <3>4, <4>1, <4>2 DEF Do!TakeResult, FlightsTyped
      <4> QED
        BY <3>1, <3>2, <4>1, <4>3 DEF Outcome
    <3>5. CASE Do!GiveUp(r)
      <4>1. out'[r] = ctx[r] /\ ctx[r] # "live"
        BY <3>5 DEF Do!GiveUp, FlightsTyped
      <4> QED
        BY <3>1, <3>2, <4>1 DEF Outcome
    <3>6. CASE Do!Call(r) \/ Do!Leave(r) \/ Do!ContextEnds(r)
      BY <2>2, <3>1, <3>6 DEF FlightsTyped, Do!Call, Do!Lead, Do!Join, Do!Leave, Do!ContextEnds
    <3> QED
      BY <3>3, <3>4, <3>5, <3>6 DEF Do!Proceed
  <2>3. CASE phase'[q] # "done"
    BY <2>3 DEF Outcome
  <2> QED
    BY <2>1, <2>2, <2>3
<1> QED
  BY <1>1, <1>2, <1>3

(* So does every step of FetchGate. *)
LEMMA CallsStep == GateTypeOK /\ CallsInv /\ [GateNext]_gateVars => CallsInv'
<1> SUFFICES ASSUME GateTypeOK, CallsInv, [GateNext]_gateVars PROVE CallsInv'
  OBVIOUS
<1>0. FlightsTyped /\ ask' = ask
  BY AskKept DEF GateTypeOK
<1>1. ASSUME NEW r \in Reqs, Do!Call(r) \/ Do!Proceed(r) \/ Do!ContextEnds(r),
             \/ stage[r] = "new" /\ Do!Call(r) /\ stage' = [stage EXCEPT ![r] = "do"]
             \/ stage[r] = "do" /\ ~Do!Call(r) /\ stage' = stage
      PROVE  CallsInv'
  <2>1. OpenFlights' /\ \A q \in Reqs : OnFlight(q)' /\ Outcome(q)'
    BY <1>0, <1>1, FlightsStep
  <2>2. key' = key /\ \A q \in Reqs \ {r} : phase'[q] = phase[q]
    BY <1>0, <1>1, DoKeeps
  <2>3. stage \in [Reqs -> {"new", "do", "answering", "answered"}]
    BY DEF GateTypeOK, RequestsTyped
  <2>4. \A q \in Reqs : KeyOf(ask[q])' = KeyOf(ask[q])
    BY <1>0 DEF KeyOf
  <2>5. \A q \in Reqs : stage'[q] = "new" => stage[q] = "new" /\ q # r
    BY <1>1, <2>3
  <2> QED
    BY <2>1, <2>2, <2>4, <2>5 DEF CallsInv
<1>2. CASE UNCHANGED flights
  <2>1. \A q \in Reqs : stage'[q] = "new" => stage[q] = "new"
    BY DEF GateNext, gateVars, ReapStore, Tick, HandleFetch, Unauthorized, TurnDown, Call, Wait,
       Fail, Succeed, AddCapture, RefuseCapture, FinishFetch, Reply, GateTypeOK, RequestsTyped
  <2> QED
    BY <1>0, <1>2, <2>1 DEF flights, CallsInv, OpenFlights, OnFlight, Outcome, KeyOf
<1> QED
  BY <1>1, <1>2, DoSteps

(* Nobody has called Do at first. *)
LEMMA CallsInit == GateInit => CallsInv
BY DEF GateInit, Do!Init, GateKeys, CallsInv, OpenFlights, OnFlight, Outcome

-----------------------------------------------------------------------------
(* Who is told "ok", 499 or 504 has returned from Do; who is told anything is
   being answered, or was. *)
Told(r) ==
  /\ code[r] = "none" <=> stage[r] \in {"new", "do"}
  /\ code[r] \in {"ok", "client_gone", "timeout"} => phase[r] = "done"
  /\ code[r] = "client_gone" => ctx[r] = "canceled"
  /\ code[r] = "timeout" =>
       \/ "expired" \in {ctx[r], ctx[leader[r]]}
       \/ phase[leader[r]] = "done" /\ out[leader[r]] = "late"
  /\ code[r] = "ok" => phase[leader[r]] = "done" /\ out[leader[r]] = "ok"

ToldInv == \A r \in Reqs : Told(r)

(* Nobody is told twice, and nobody else is told by a request's own steps. *)
LEMMA CodeFrame ==
  ASSUME RequestsTyped, NEW r \in Reqs, HandleFetch(r)
  PROVE  \A q \in Reqs \ {r} : code'[q] = code[q] /\ stage'[q] = stage[q]
BY DEF RequestsTyped, HandleFetch, Unauthorized, TurnDown, Call, Wait, Fail, Succeed, AddCapture,
       RefuseCapture, FinishFetch, Reply

(* A result of Do is the leader's; an error that is a context's own is that of
   the caller or of its leader. *)
LEMMA ReturnedOutcome ==
  ASSUME GateTypeOK, CallsInv, NEW r \in Reqs, phase[r] = "done"
  PROVE  /\ out[r] \in {"canceled", "expired"} \cup Results
         /\ out[r] \in {"ok", "late"} => phase[leader[r]] = "done" /\ out[leader[r]] = out[r]
         /\ out[r] = "expired" => "expired" \in {ctx[r], ctx[leader[r]]}
<1> USE FetchGateAssumption
<1>1. leader[r] \in Reqs /\ Outcome(r) /\ Outcome(leader[r]) /\ leader[leader[r]] = leader[r]
  BY DEF GateTypeOK, FlightsTyped, CallsInv, OnFlight
<1>2. ctx[r] \in {"live", "canceled", "expired"} /\ ctx[leader[r]] \in {"live", "canceled", "expired"}
  BY <1>1 DEF GateTypeOK, FlightsTyped
<1> QED
  BY <1>1, <1>2 DEF Outcome

(* What a caller was told stays true, and what it is told is. *)
LEMMA ToldStep == GateTypeOK /\ CallsInv /\ ToldInv /\ [GateNext]_gateVars => ToldInv'
<1> SUFFICES ASSUME GateTypeOK, CallsInv, ToldInv, [GateNext]_gateVars, NEW q \in Reqs
             PROVE  Told(q)'
  BY DEF ToldInv
<1>0. Told(q) /\ RequestsTyped /\ FlightsTyped
  BY DEF ToldInv, GateTypeOK
<1>1. \A p \in Reqs :
        /\ phase[p] = "done" => phase'[p] = "done" /\ out'[p] = out[p] /\ leader'[p] = leader[p]
        /\ ctx[p] # "live" => ctx'[p] = ctx[p]
  BY <1>0, DoSteps, DoKeeps DEF flights
<1>2. phase[q] = "done" => leader[q] \in Reqs /\ OnFlight(q) /\ Outcome(q)
  BY <1>0 DEF FlightsTyped, CallsInv
<1>3. ASSUME code'[q] = code[q], stage'[q] \in {"new", "do"} <=> stage[q] \in {"new", "do"}
      PROVE  Told(q)'
  BY <1>0, <1>1, <1>2, <1>3 DEF Told
<1>4. CASE ReapStore \/ Tick \/ UNCHANGED gateVars
  BY <1>3, <1>4 DEF ReapStore, Tick, gateVars
<1>5. ASSUME NEW r \in Reqs, HandleFetch(r), r # q PROVE Told(q)'
  BY <1>0, <1>3, <1>5, CodeFrame
<1>6. ASSUME HandleFetch(q) PROVE Told(q)'
  <2>0. stage[q] \in {"new", "do", "answering", "answered"} /\ code[q] \in Codes
    BY <1>0 DEF RequestsTyped
  <2>1. CASE Unauthorized(q) \/ TurnDown(q)
    <3>1. /\ stage'[q] \in {"answering", "answered"}
          /\ code'[q] \in {"unauthorized", "bad_request", "rejected_url"}
      BY <1>0, <2>1 DEF Unauthorized, TurnDown, Reply, RequestsTyped
    <3> QED
      BY <3>1 DEF Told
  <2>2. CASE Call(q) \/ Wait(q) \/ FinishFetch(q)
    <3>1. code'[q] = code[q] /\ (stage'[q] \in {"new", "do"} <=> stage[q] \in {"new", "do"})
      BY <1>0, <2>2 DEF Call, Wait, FinishFetch, RequestsTyped
    <3> QED
      BY <1>3, <3>1
  <2>3. CASE Fail(q)
    <3>1. phase[q] = "done" /\ out[q] # "ok" /\ UNCHANGED flights
      BY <2>3 DEF Fail, Returned
    <3>2. stage'[q] = "answering" /\ code'[q] = Classify(q)
      BY <1>0, <2>3 DEF Fail, Reply, RequestsTyped
    <3>3. ctx[q] \in {"live", "canceled", "expired"}
      BY <1>0, FetchGateAssumption DEF FlightsTyped
    <3>4. /\ out[q] = "expired" => "expired" \in {ctx[q], ctx[leader[q]]}
          /\ out[q] = "late" => phase[leader[q]] = "done" /\ out[leader[q]] = "late"
      BY <3>1, ReturnedOutcome
    <3>5. /\ Classify(q) = "client_gone" => ctx[q] = "canceled"
          /\ Classify(q) = "timeout" =>
               \/ "expired" \in {ctx[q], ctx[leader[q]]}
               \/ phase[leader[q]] = "done" /\ out[leader[q]] = "late"
          /\ Classify(q) \notin {"ok", "none"}
      BY <3>3, <3>4 DEF Classify
    <3> QED
      BY <3>1, <3>2, <3>5 DEF Told, flights
  <2>4. CASE Succeed(q) \/ AddCapture(q) \/ RefuseCapture(q)
    <3>1. phase[q] = "done" /\ out[q] = "ok" /\ UNCHANGED flights
      BY <2>4 DEF Succeed, AddCapture, RefuseCapture, Returned
    <3>2. stage'[q] = "answering" /\ code'[q] \in {"ok", "screenshot_capacity"}
      BY <1>0, <2>4 DEF Succeed, AddCapture, RefuseCapture, Reply, RequestsTyped
    <3>3. phase[leader[q]] = "done" /\ out[leader[q]] = "ok"
      BY <3>1, ReturnedOutcome
    <3> QED
      BY <3>1, <3>2, <3>3 DEF Told, flights
  <2> QED
    BY <1>6, <2>1, <2>2, <2>3, <2>4 DEF HandleFetch
<1> QED
  BY <1>4, <1>5, <1>6 DEF GateNext

(* What holds of the requests, whatever becomes of their captures. *)
GateInv == GateTypeOK /\ CallsInv /\ ToldInv

(* It is inductive. *)
LEMMA GateInvariant ==
  /\ GateInit => GateInv
  /\ GateInv /\ [GateNext]_gateVars => GateInv'
<1>1. GateInit => ToldInv
  BY DEF GateInit, ToldInv, Told
<1> QED
  BY <1>1, GateInitType, CallsInit, GateTypeStep, CallsStep, ToldStep DEF GateInv

(* 499, 504 and "ok" are only said of what happened to the caller, or to the
   one whose navigation it shared: handleFetch and classify. *)
THEOREM ToldWhatHappenedHolds == GateSpec => []ToldWhatHappened
<1>1. GateInv => ToldWhatHappened
  BY DEF GateInv, ToldInv, Told, ToldWhatHappened
<1> QED
  BY <1>1, GateInvariant, PTL DEF GateSpec

-----------------------------------------------------------------------------
(* Requests with one key, one of which is for pictures, are of one class. *)
LEMMA KeyTellsClass ==
  ASSUME NEW a \in Ask, NEW b \in Ask, KeyOf(a) = KeyOf(b), a.visual
  PROVE  a.class = b.class
<1>1. KeyOf(a)[2] = a.visual /\ KeyOf(b)[2] = b.visual
  BY DEF KeyOf, Ask
<1>2. a.visual = b.visual
  BY <1>1
<1>3. b.visual
  BY <1>2
<1>4. KeyOf(a)[3] = a.class /\ KeyOf(b)[3] = b.class
  BY <1>3 DEF KeyOf
<1> QED
  BY <1>4

(* The bytes of captures add up. *)
LEMMA BytesAdd ==
  ASSUME RequestsTyped, NEW S \in SUBSET Reqs, NEW T \in SUBSET Reqs, S \cap T = {}
  PROVE  Bytes(S \cup T) = Bytes(S) + Bytes(T)
<1>1. Tiles(S \cup T) = Tiles(S) \cup Tiles(T) /\ Tiles(S) \cap Tiles(T) = {}
  BY DEF Tiles
<1>2. IsFiniteSet(Tiles(S)) /\ IsFiniteSet(Tiles(T)) /\ Bytes(S) \in Nat /\ Bytes(T) \in Nat
  BY TilesFinite
<1>3. Cardinality(Tiles(S) \cup Tiles(T)) =
        Cardinality(Tiles(S)) + Cardinality(Tiles(T)) - Cardinality({})
  BY <1>1, <1>2, FS_Union
<1>4. Cardinality({}) = 0
  BY FS_EmptySet
<1>5. Bytes(S \cup T) = Bytes(S) + Bytes(T) - 0
  BY <1>1, <1>3, <1>4 DEF Bytes
<1> QED
  BY <1>2, <1>5

(* Those of one capture are its size. *)
LEMMA BytesOfOne ==
  ASSUME RequestsTyped, NEW r \in Reqs
  PROVE  Bytes({r}) = Size(r)
<1>1. Size(r) \in Nat
  BY AskType
<1>2. Tiles({r}) = {r} \X (1 .. Size(r))
  BY DEF Tiles
<1>3. IsFiniteSet({r}) /\ Cardinality({r}) = 1
  BY FS_Singleton
<1>4. IsFiniteSet(1 .. Size(r)) /\ Cardinality(1 .. Size(r)) = Size(r)
  <2>1. 1 \in Int /\ Size(r) \in Int
    BY <1>1
  <2>2. /\ IsFiniteSet(1 .. Size(r))
        /\ Cardinality(1 .. Size(r)) = IF 1 > Size(r) THEN 0 ELSE Size(r) - 1 + 1
    BY ONLY <2>1, FS_Interval
  <2> QED
    BY <1>1, <2>2
<1>5. Cardinality({r} \X (1 .. Size(r))) = Cardinality({r}) * Cardinality(1 .. Size(r))
  BY ONLY <1>3, <1>4, FS_Product
<1>6. Cardinality({r} \X (1 .. Size(r))) = 1 * Size(r)
  BY <1>3, <1>4, <1>5
<1>7. 1 * Size(r) = Size(r)
  BY <1>1
<1> QED
  BY <1>2, <1>6, <1>7 DEF Bytes

(* What reapLocked leaves, and what it counts. *)
LEMMA LiveCounted ==
  ASSUME RequestsTyped, StoreTyped, bytes = Bytes(entries)
  PROVE  LiveBytes = Bytes(Live) /\ Live \subseteq entries /\ Bytes(Live) <= Bytes(entries)
<1>1. Live \subseteq entries /\ entries \subseteq Reqs
  BY DEF Live, StoreTyped
<1>2. Live \cup (entries \ Live) = entries /\ Live \cap (entries \ Live) = {}
  BY <1>1
<1>3. Bytes(entries) = Bytes(Live) + Bytes(entries \ Live)
  BY <1>1, <1>2, BytesAdd
<1>4. Bytes(Live) \in Nat /\ Bytes(entries \ Live) \in Nat
  BY <1>1, TilesFinite
<1> QED
  BY <1>1, <1>3, <1>4 DEF LiveBytes

(* Sizes are the requests', which do not change. *)
LEMMA BytesFrame == ask' = ask => Bytes(entries)' = Bytes(entries')
BY DEF Bytes, Tiles, Size

(* The map holds captures that a caller was told of, those that have not
   expired among them. *)
Held(r) ==
  /\ r \in entries => code[r] = "ok" /\ Visual(r)
  /\ code[r] = "ok" /\ Visual(r) /\ age[r] < TTL => r \in entries

HeldInv == \A r \in Reqs : Held(r)

(* Storing, reading, reaping and the passing of time keep it so. *)
LEMMA HeldStep == GateInv /\ HeldInv /\ [GateNext]_gateVars => HeldInv'
<1> SUFFICES ASSUME GateInv, HeldInv, [GateNext]_gateVars, NEW q \in Reqs PROVE Held(q)'
  BY DEF HeldInv
<1>0. Held(q) /\ Visual(q)' = Visual(q) /\ Told(q)
  BY AskKept DEF HeldInv, Visual, GateInv, ToldInv
<1>1. RequestsTyped /\ age \in [Reqs -> 0 .. TTL]
  BY DEF GateInv, GateTypeOK, StoreTyped
<1>2. ASSUME code'[q] = code[q], q \in entries' <=> q \in entries, age' = age PROVE Held(q)'
  BY <1>0, <1>2 DEF Held
<1>3. ASSUME code'[q] = code[q], entries' = Live, age' = age PROVE Held(q)'
  BY <1>0, <1>3 DEF Held, Live
<1>4. CASE ReapStore \/ UNCHANGED gateVars
  BY <1>2, <1>3, <1>4 DEF ReapStore, Reap, gateVars, store
<1>5. CASE Tick
  <2>1. age'[q] >= age[q] /\ code' = code /\ entries' = entries
    BY <1>1, <1>5 DEF Tick
  <2>2. age[q] \in Int /\ age'[q] \in Int /\ TTL \in Int
    BY <1>1, <1>5, FetchGateAssumption DEF Tick
  <2> QED
    BY <1>0, <2>1, <2>2 DEF Held
<1>6. ASSUME NEW r \in Reqs, HandleFetch(r), r # q PROVE Held(q)'
  <2>1. code'[q] = code[q] /\ age' = age
    <3>1. code'[q] = code[q]
      BY <1>1, <1>6, CodeFrame
    <3>2. age' = age
      BY <1>6 DEF HandleFetch, Unauthorized, TurnDown, Call, Wait, Fail, Succeed, AddCapture,
         RefuseCapture, FinishFetch, store
    <3> QED
      BY <3>1, <3>2
  <2>2. CASE AddCapture(r)
    BY <1>0, <1>6, <2>1, <2>2 DEF AddCapture, Held, Live
  <2>3. CASE RefuseCapture(r)
    BY <1>2, <1>3, <2>1, <2>3 DEF RefuseCapture, Reap
  <2>4. CASE ~AddCapture(r) /\ ~RefuseCapture(r)
    <3>1. entries' = entries
      BY <1>6, <2>4 DEF HandleFetch, Unauthorized, TurnDown, Call, Wait, Fail, Succeed,
         FinishFetch, store
    <3> QED
      BY <1>2, <2>1, <3>1
  <2> QED
    BY <2>2, <2>3, <2>4
<1>7. ASSUME HandleFetch(q) PROVE Held(q)'
  <2>1. CASE Call(q) \/ Wait(q) \/ FinishFetch(q)
    BY <1>2, <2>1 DEF Call, Wait, FinishFetch, store
  <2>2. CASE Unauthorized(q) \/ TurnDown(q) \/ Fail(q)
    <3>1. stage[q] \in {"new", "do"}
      BY <2>2 DEF Unauthorized, TurnDown, Fail, Returned
    <3>2. code[q] = "none" /\ q \notin entries
      BY <1>0, <3>1 DEF Told, Held
    <3>3. code'[q] # "ok" /\ entries' = entries
      BY <1>1, <2>2, ClassifyType DEF Unauthorized, TurnDown, Fail, Reply, store, RequestsTyped
    <3> QED
      BY <3>2, <3>3 DEF Held
  <2>3. CASE Succeed(q)
    <3>1. ~Visual(q) /\ entries' = entries
      BY <2>3 DEF Succeed, store
    <3> QED
      BY <1>0, <3>1 DEF Held
  <2>4. CASE AddCapture(q)
    <3>1. code'[q] = "ok" /\ Visual(q) /\ q \in entries'
      BY <1>1, <2>4 DEF AddCapture, Reply, RequestsTyped
    <3> QED
      BY <1>0, <3>1 DEF Held
  <2>5. CASE RefuseCapture(q)
    <3>1. stage[q] = "do" /\ code'[q] = "screenshot_capacity" /\ entries' \subseteq entries
      BY <1>1, <2>5 DEF RefuseCapture, Reply, Returned, RequestsTyped, Reap, Live
    <3>2. q \notin entries
      BY <1>0, <3>1 DEF Told, Held
    <3> QED
      BY <3>1, <3>2 DEF Held
  <2> QED
    BY <1>7, <2>1, <2>2, <2>3, <2>4, <2>5 DEF HandleFetch
<1> QED
  BY <1>4, <1>5, <1>6, <1>7 DEF GateNext

(* The count follows the map, step by step. *)
LEMMA StoreAccountsStep ==
  GateInv /\ HeldInv /\ StoreAccounts /\ [GateNext]_gateVars => StoreAccounts'
<1> SUFFICES ASSUME GateInv, HeldInv, StoreAccounts, [GateNext]_gateVars
             PROVE  StoreAccounts'
  OBVIOUS
<1>0. RequestsTyped /\ StoreTyped
  BY DEF GateInv, GateTypeOK
<1>1. entries \subseteq Reqs /\ IsFiniteSet(entries) /\ bytes = Bytes(entries)
  BY <1>0, FetchGateAssumption, FS_Subset DEF StoreTyped, StoreAccounts
<1>2. LiveBytes = Bytes(Live) /\ Live \subseteq entries /\ LiveBytes <= Bytes(entries)
  BY <1>0, <1>1, LiveCounted
<1>3. IsFiniteSet(Live) /\ Cardinality(Live) <= Cardinality(entries)
  BY <1>1, <1>2, FS_Subset
<1>4. /\ Bytes(Live) \in Nat /\ Bytes(entries) \in Nat /\ MaxStoreBytes \in Nat
      /\ Cardinality(Live) \in Nat /\ Cardinality(entries) \in Nat /\ MaxCaptures \in Nat
  BY <1>0, <1>1, <1>2, <1>3, TilesFinite, FS_CardinalityType, FetchGateAssumption
<1>5. Bytes(entries)' = Bytes(entries')
  BY AskKept, BytesFrame
<1>6. CASE UNCHANGED <<entries, bytes>>
  BY <1>5, <1>6 DEF StoreAccounts
<1>7. CASE Reap
  <2>1. entries' = Live /\ bytes' = Bytes(Live)
    BY <1>2, <1>7 DEF Reap
  <2>2. Bytes(Live) <= MaxStoreBytes /\ Cardinality(Live) <= MaxCaptures
    BY <1>1, <1>2, <1>3, <1>4 DEF StoreAccounts
  <2> QED
    BY <1>5, <2>1, <2>2 DEF StoreAccounts
<1>8. ASSUME NEW r \in Reqs, AddCapture(r) PROVE StoreAccounts'
  <2>0. r \notin Live
    <3>1. stage[r] = "do"
      BY <1>8 DEF AddCapture, Returned
    <3>2. code[r] = "none"
      BY <3>1 DEF GateInv, ToldInv, Told
    <3> QED
      BY <1>2, <3>2 DEF HeldInv, Held
  <2>1. entries' = Live \cup {r} /\ bytes' = Bytes(Live) + Size(r)
    BY <1>2, <1>8 DEF AddCapture
  <2>2. Bytes(Live \cup {r}) = Bytes(Live) + Size(r)
    <3>1. Live \cap {r} = {} /\ Live \subseteq Reqs /\ {r} \subseteq Reqs
      BY <1>1, <1>2, <2>0
    <3> QED
      BY <1>0, <3>1, BytesAdd, BytesOfOne
  <2>3. Cardinality(Live \cup {r}) = Cardinality(Live) + 1
    BY <1>3, <2>0, FS_AddElement
  <2>4. Cardinality(Live) < MaxCaptures /\ Bytes(Live) + Size(r) <= MaxStoreBytes
    BY <1>2, <1>8 DEF AddCapture, HasRoom
  <2>5. Cardinality(Live) + 1 <= MaxCaptures
    BY <1>4, <2>4
  <2> QED
    BY <1>5, <2>1, <2>2, <2>3, <2>4, <2>5 DEF StoreAccounts
<1>9. CASE Tick \/ ReapStore \/ UNCHANGED gateVars
  BY <1>6, <1>7, <1>9 DEF Tick, ReapStore, gateVars, store
<1>10. ASSUME NEW r \in Reqs, HandleFetch(r), ~AddCapture(r)
       PROVE  StoreAccounts'
  BY <1>6, <1>7, <1>10 DEF HandleFetch, Unauthorized, TurnDown, Call, Wait, Fail, Succeed,
     RefuseCapture, FinishFetch, store
<1> QED
  BY <1>8, <1>9, <1>10 DEF GateNext

(* The inductive invariant of the captures. *)
CaptureInv == GateInv /\ HeldInv /\ StoreAccounts

(* It holds at first, and every step keeps it. *)
LEMMA CaptureInvariant ==
  /\ GateInit => CaptureInv
  /\ CaptureInv /\ [GateNext]_gateVars => CaptureInv'
<1>1. ASSUME GateInit PROVE HeldInv
  BY <1>1 DEF GateInit, HeldInv, Held
<1>2. ASSUME GateInit PROVE StoreAccounts
  <2>1. entries = {} /\ bytes = 0 /\ Tiles({}) = {}
    BY <1>2 DEF GateInit, Tiles
  <2>2. Cardinality({}) = 0 /\ MaxStoreBytes \in Nat /\ MaxCaptures \in Nat
    BY FS_EmptySet, FetchGateAssumption
  <2> QED
    BY <2>1, <2>2 DEF StoreAccounts, Bytes
<1> QED
  BY <1>1, <1>2, GateInvariant, HeldStep, StoreAccountsStep DEF CaptureInv

(* Store.bytes is the sum over the map, within both limits. *)
THEOREM StoreAccountsHolds == GateSpec => []StoreAccounts
<1>1. CaptureInv => StoreAccounts
  BY DEF CaptureInv
<1> QED
  BY <1>1, CaptureInvariant, PTL DEF GateSpec

(* What has not expired is in the map. *)
LEMMA LiveIsUnexpired == CaptureInv => Live = Unexpired
BY DEF CaptureInv, GateInv, GateTypeOK, StoreTyped, HeldInv, Held, Live, Unexpired

(* A capture can be read by its class until it expires, by nobody else, and was
   taken for that class: Store.Get and the key of handleFetch. *)
THEOREM ReadableExactlyHolds == GateSpec => []ReadableExactly
<1>1. CaptureInv => ReadableExactly
  <2> SUFFICES ASSUME CaptureInv, NEW r \in Reqs, NEW k \in Classes \ {"none"}
               PROVE  /\ Get(k, r) = "shot" <=> code[r] = "ok" /\ Visual(r) /\ Class(r) = k /\ age[r] < TTL
                      /\ Get(k, r) = "shot" => Class(leader[r]) = k
    BY DEF ReadableExactly
  <2>1. Get(k, r) = "shot" <=> r \in Live /\ Class(r) = k
    BY DEF Get
  <2>2. r \in Live <=> code[r] = "ok" /\ Visual(r) /\ age[r] < TTL
    BY LiveIsUnexpired DEF Unexpired
  <2>3. ASSUME r \in Live PROVE Class(leader[r]) = Class(r)
    <3>1. code[r] = "ok" /\ Visual(r)
      BY <2>2, <2>3
    <3>2. phase[r] = "done"
      BY <3>1 DEF CaptureInv, GateInv, ToldInv, Told
    <3>3. leader[r] \in Reqs /\ key[leader[r]] = key[r]
      BY <3>2 DEF CaptureInv, GateInv, GateTypeOK, FlightsTyped, CallsInv, OnFlight
    <3>4. KeyOf(ask[r]) = KeyOf(ask[leader[r]])
      BY <3>3 DEF CaptureInv, GateInv, CallsInv
    <3>5. ask[r] \in Ask /\ ask[leader[r]] \in Ask
      BY <3>3, AskType DEF CaptureInv, GateInv, GateTypeOK
    <3> QED
      BY <3>1, <3>4, <3>5, KeyTellsClass DEF Visual, Class
  <2> QED
    BY <2>1, <2>2, <2>3
<1> QED
  BY <1>1, CaptureInvariant, PTL DEF GateSpec

(* Store.Add refuses a usable capture only for those that have not expired. *)
THEOREM FullOnlyOfTheLivingHolds == GateSpec => FullOnlyOfTheLiving
<1>1. ASSUME CaptureInv, [GateNext]_gateVars, NEW r \in Reqs,
             code'[r] = "screenshot_capacity", code[r] = "none", Usable(r)
      PROVE  \/ Cardinality(Unexpired) >= MaxCaptures
             \/ Bytes(Unexpired) + Size(r) > MaxStoreBytes
  <2>0. RequestsTyped /\ StoreTyped
    BY <1>1 DEF CaptureInv, GateInv, GateTypeOK
  <2>1. RefuseCapture(r)
    <3>1. PICK q \in Reqs : HandleFetch(q)
      BY <1>1 DEF GateNext, ReapStore, Tick, gateVars
    <3>2. q = r
      BY <1>1, <2>0, <3>1, CodeFrame
    <3>3. code'[r] # code[r]
      BY <1>1
    <3> QED
      BY <1>1, <2>0, <3>1, <3>2, ClassifyType DEF HandleFetch, Unauthorized, TurnDown, Call, Wait,
         Fail, Succeed, AddCapture, FinishFetch, Reply, RequestsTyped
  <2>2. ~HasRoom(r)
    BY <1>1, <2>1 DEF RefuseCapture
  <2>3. LiveBytes = Bytes(Live) /\ Live \subseteq entries /\ entries \subseteq Reqs
    BY <1>1, <2>0, LiveCounted DEF CaptureInv, StoreAccounts, StoreTyped
  <2>4. IsFiniteSet(Live)
    BY <2>3, FetchGateAssumption, FS_Subset
  <2>5. Cardinality(Live) \in Nat /\ Bytes(Live) \in Nat /\ Size(r) \in Nat
    BY <2>0, <2>3, <2>4, FS_CardinalityType, TilesFinite, AskType
  <2>6. Cardinality(Live) >= MaxCaptures \/ Bytes(Live) + Size(r) > MaxStoreBytes
    BY <2>2, <2>3, <2>5, FetchGateAssumption DEF HasRoom
  <2> QED
    BY <1>1, <2>6, LiveIsUnexpired
<1>2. CaptureInv /\ [GateNext]_gateVars =>
        [\A r \in Reqs :
           code'[r] = "screenshot_capacity" /\ code[r] = "none" /\ Usable(r) =>
             \/ Cardinality(Unexpired) >= MaxCaptures
             \/ Bytes(Unexpired) + Size(r) > MaxStoreBytes]_gateVars
  BY <1>1
<1> QED
  BY <1>2, CaptureInvariant, PTL DEF GateSpec, FullOnlyOfTheLiving

-----------------------------------------------------------------------------
(* The slot of the i-th newest entry, for a ring of n slots written next at x. *)
SlotOf(i, x, n) == IF i <= x THEN x - i ELSE x - i + n

(* What Ring.Recent computes is that slot ... *)
LEMMA RecentSlot ==
  ASSUME NEW n \in Nat \ {0}, NEW x \in 0 .. n - 1, NEW i \in 1 .. n
  PROVE  /\ SlotOf(i, x, n) \in 0 .. n - 1
         /\ (x - 1 - (i - 1) + n * 2) % n = SlotOf(i, x, n)
<1>1. SlotOf(i, x, n) \in 0 .. n - 1
  BY DEF SlotOf
<1>2. ASSUME NEW y \in 0 .. n - 1 PROVE (y + n) % n = y /\ (y + n * 2) % n = y
  OBVIOUS
<1>3. CASE i <= x
  <2>1. SlotOf(i, x, n) = x - i /\ x - 1 - (i - 1) + n * 2 = (x - i) + n * 2
    BY <1>3 DEF SlotOf
  <2> QED
    BY <1>1, <1>2, <2>1
<1>4. CASE i > x
  <2>1. SlotOf(i, x, n) = x - i + n /\ x - 1 - (i - 1) + n * 2 = (x - i + n) + n
    BY <1>4 DEF SlotOf
  <2> QED
    BY <1>1, <1>2, <2>1
<1> QED
  BY <1>1, <1>3, <1>4

(* ... and after the next entry is written, that of the one before. *)
LEMMA NextSlot ==
  ASSUME NEW n \in Nat \ {0}, NEW x \in 0 .. n - 1, NEW i \in 1 .. n
  PROVE  /\ SlotOf(1, (x + 1) % n, n) = x
         /\ i < n => SlotOf(i + 1, (x + 1) % n, n) = SlotOf(i, x, n) /\ SlotOf(i, x, n) # x
<1>1. CASE x + 1 < n
  <2>1. (x + 1) % n = x + 1
    BY <1>1
  <2> QED
    BY <1>1, <2>1 DEF SlotOf
<1>2. CASE x + 1 = n
  <2>1. (x + 1) % n = 0
    BY <1>2
  <2> QED
    BY <1>2, <2>1 DEF SlotOf
<1> QED
  BY <1>1, <1>2

(* The ring holds the last entries recorded, as many as it has slots. *)
RingInv ==
  /\ ring.count = IF Len(log) < RingLen THEN Len(log) ELSE RingLen
  /\ \A i \in 1 .. ring.count :
       ring.buf[SlotOf(i, ring.next, RingLen)] = log[Len(log) + 1 - i]

(* Ring.Add keeps it so. *)
LEMMA RingInvStep == RingTyped /\ RingInv /\ [GateNext]_gateVars => RingInv'
<1> SUFFICES ASSUME RingTyped, RingInv, [GateNext]_gateVars PROVE RingInv'
  OBVIOUS
<1>1. PICK n \in Nat \ {0} : n = RingLen /\ n = RingLen'
  BY RingLenType DEF RingLen
<1>2. CASE UNCHANGED <<ring, log>>
  BY <1>1, <1>2 DEF RingInv
<1>3. ASSUME NEW r \in Reqs, RingAdd(r), log' = Append(log, r) PROVE RingInv'
  <2>0. /\ ring.next \in 0 .. n - 1 /\ ring.count \in 0 .. n /\ log \in Seq(Reqs)
        /\ ring.buf \in [0 .. n - 1 -> Reqs \cup {Nil}]
    BY <1>1 DEF RingTyped
  <2>1. /\ ring'.buf = [ring.buf EXCEPT ![ring.next] = r]
        /\ ring'.next = (ring.next + 1) % n
        /\ ring'.count = IF ring.count < n THEN ring.count + 1 ELSE ring.count
    BY <1>1, <1>3 DEF RingAdd
  <2>2. /\ ring.count = IF Len(log) < n THEN Len(log) ELSE n
        /\ \A i \in 1 .. ring.count : ring.buf[SlotOf(i, ring.next, n)] = log[Len(log) + 1 - i]
    BY <1>1 DEF RingInv
  <2>3. /\ log' \in Seq(Reqs) /\ Len(log') = Len(log) + 1 /\ log'[Len(log) + 1] = r
        /\ \A i \in 1 .. Len(log) : log'[i] = log[i]
    BY <1>3, <2>0
  <2>4. ring'.count = IF Len(log') < n THEN Len(log') ELSE n
    BY <2>0, <2>1, <2>2, <2>3
  <2>5. ASSUME NEW i \in 1 .. ring'.count
        PROVE  ring'.buf[SlotOf(i, ring'.next, n)] = log'[Len(log') + 1 - i]
    <3>1. i \in 1 .. n /\ Len(log) \in Nat /\ ring.count \in Nat
      <4>1. ring'.count \in 0 .. n /\ n \in Nat /\ ring.count \in Nat
        BY <2>0, <2>1
      <4>2. Len(log) \in Nat
        BY <2>0
      <4> QED
        BY <4>1, <4>2
    <3>2. CASE i = 1
      <4>1. SlotOf(1, ring'.next, n) = ring.next
        BY <2>0, <2>1, <3>1, NextSlot
      <4>2. ring'.buf[ring.next] = r
        BY <2>0, <2>1
      <4>3. Len(log') + 1 - 1 = Len(log) + 1
        BY <2>3, <3>1
      <4> QED
        BY <2>3, <3>2, <4>1, <4>2, <4>3
    <3>3. CASE i > 1
      <4>1. PICK j \in 1 .. ring.count : i = j + 1 /\ j < n
        <5>1. i - 1 \in 1 .. ring.count /\ i - 1 < n
          BY <2>0, <2>1, <3>1, <3>3
        <5> QED
          BY <3>1, <5>1
      <4>2. j \in 1 .. n
        BY <3>1, <4>1
      <4>3. /\ SlotOf(i, ring'.next, n) = SlotOf(j, ring.next, n)
            /\ SlotOf(j, ring.next, n) # ring.next
            /\ SlotOf(j, ring.next, n) \in 0 .. n - 1
        <5>1. SlotOf(j + 1, (ring.next + 1) % n, n) = SlotOf(j, ring.next, n)
              /\ SlotOf(j, ring.next, n) # ring.next
          BY <2>0, <4>1, <4>2, NextSlot
        <5>2. SlotOf(j, ring.next, n) \in 0 .. n - 1
          BY <2>0, <4>2, RecentSlot
        <5> QED
          BY <2>1, <4>1, <5>1, <5>2
      <4>4. ring'.buf[SlotOf(j, ring.next, n)] = ring.buf[SlotOf(j, ring.next, n)]
        BY <2>0, <2>1, <4>3
      <4>5. Len(log') + 1 - i = Len(log) + 1 - j /\ Len(log) + 1 - j \in 1 .. Len(log)
        BY <2>2, <2>3, <3>1, <4>1
      <4>6. log'[Len(log') + 1 - i] = log[Len(log) + 1 - j]
        BY <2>3, <4>5
      <4> QED
        BY <2>2, <4>1, <4>3, <4>4, <4>6
    <3> QED
      BY <3>1, <3>2, <3>3
  <2> QED
    BY <1>1, <2>4, <2>5 DEF RingInv
<1> QED
  BY <1>2, <1>3, RingSteps

(* Who got past the route is not turned away there, and who was answered then
   has its one entry. *)
LogInv ==
  /\ \A r \in Reqs : stage[r] \in {"do", "answering"} => Class(r) # "none"
  /\ {log[i] : i \in DOMAIN log} = {r \in Reqs : stage[r] = "answered" /\ Class(r) # "none"}
  /\ \A i, j \in DOMAIN log : log[i] = log[j] => i = j

(* finishFetch comes last, once, on every way through handleFetch. *)
LEMMA LogStep == RequestsTyped /\ RingTyped /\ LogInv /\ [GateNext]_gateVars => LogInv'
<1> SUFFICES ASSUME RequestsTyped, RingTyped, LogInv, [GateNext]_gateVars PROVE LogInv'
  OBVIOUS
<1> DEFINE Entries == {log[i] : i \in DOMAIN log}
<1>0. /\ stage \in [Reqs -> {"new", "do", "answering", "answered"}]
      /\ \A r \in Reqs : Class(r)' = Class(r)
  BY AskKept DEF RequestsTyped, Class
<1>1. CASE UNCHANGED <<stage, log>>
  BY <1>0, <1>1 DEF LogInv
<1>2. ASSUME NEW r \in Reqs, NEW next, log' = log, stage' = [stage EXCEPT ![r] = next],
             \/ next \in {"do", "answering"} /\ Class(r) # "none" /\ stage[r] \in {"new", "do"}
             \/ next = "answered" /\ Class(r) = "none" /\ stage[r] = "new"
      PROVE  LogInv'
  <2>1. \A q \in Reqs : stage'[q] \in {"do", "answering"} => Class(q) # "none"
    BY <1>0, <1>2 DEF LogInv
  <2>2. {q \in Reqs : stage'[q] = "answered" /\ Class(q) # "none"}
          = {q \in Reqs : stage[q] = "answered" /\ Class(q) # "none"}
    BY <1>0, <1>2
  <2> QED
    BY <1>0, <1>2, <2>1, <2>2 DEF LogInv
<1>3. ASSUME NEW r \in Reqs, FinishFetch(r) PROVE LogInv'
  <2>1. /\ stage[r] = "answering" /\ stage' = [stage EXCEPT ![r] = "answered"]
        /\ log' = Append(log, r) /\ log \in Seq(Reqs)
    BY <1>3 DEF FinishFetch, RingTyped
  <2>2. /\ Len(log) \in Nat /\ DOMAIN log = 1 .. Len(log) /\ DOMAIN log' = 1 .. Len(log) + 1
        /\ log'[Len(log) + 1] = r /\ \A i \in 1 .. Len(log) : log'[i] = log[i]
    BY <2>1
  <2>3. Class(r) # "none" /\ \A i \in DOMAIN log : log[i] # r
    BY <2>1 DEF LogInv
  <2>4. {log'[i] : i \in DOMAIN log'} = Entries \cup {r}
    <3>1. \A i \in DOMAIN log' : log'[i] \in Entries \cup {r}
      BY <2>2
    <3>2. \A i \in DOMAIN log : i \in DOMAIN log' /\ log'[i] = log[i]
      BY <2>2
    <3>3. Len(log) + 1 \in DOMAIN log'
      BY <2>2
    <3> QED
      BY <2>2, <3>1, <3>2, <3>3
  <2>5. {q \in Reqs : stage'[q] = "answered" /\ Class(q) # "none"}
          = {q \in Reqs : stage[q] = "answered" /\ Class(q) # "none"} \cup {r}
    BY <1>0, <2>1, <2>3
  <2>6. \A i, j \in DOMAIN log' : log'[i] = log'[j] => i = j
    BY <2>2, <2>3 DEF LogInv
  <2>7. \A q \in Reqs : stage'[q] \in {"do", "answering"} => Class(q) # "none"
    BY <1>0, <2>1 DEF LogInv
  <2>8. Entries = {q \in Reqs : stage[q] = "answered" /\ Class(q) # "none"}
    BY DEF LogInv
  <2> QED
    BY <1>0, <2>4, <2>5, <2>6, <2>7, <2>8 DEF LogInv
<1>4. ASSUME NEW r \in Reqs, HandleFetch(r), ~FinishFetch(r) PROVE LogInv'
  <2>1. CASE Wait(r)
    BY <1>1, <2>1 DEF Wait
  <2>2. CASE Unauthorized(r)
    BY <1>2, <2>2 DEF Unauthorized
  <2>3. CASE TurnDown(r) \/ Call(r)
    BY <1>2, <2>3 DEF TurnDown, Call, Reply
  <2>4. CASE Fail(r) \/ Succeed(r) \/ AddCapture(r) \/ RefuseCapture(r)
    <3>1. stage[r] = "do" /\ stage' = [stage EXCEPT ![r] = "answering"] /\ log' = log
      BY <2>4 DEF Fail, Succeed, AddCapture, RefuseCapture, Returned, Reply
    <3>2. Class(r) # "none"
      BY <3>1 DEF LogInv
    <3> QED
      BY <1>2, <3>1, <3>2
  <2> QED
    BY <1>4, <2>1, <2>2, <2>3, <2>4 DEF HandleFetch
<1>5. CASE ReapStore \/ Tick \/ UNCHANGED gateVars
  BY <1>1, <1>5 DEF ReapStore, Tick, gateVars
<1> QED
  BY <1>3, <1>4, <1>5 DEF GateNext

(* Every request that got past the route has one entry when it is answered, and
   Ring.Recent shows the last of them, newest first, whatever the capacity
   configured and the limit asked for. *)
THEOREM RecentIsTheLastHolds == GateSpec => []RecentIsTheLast
<1>1. GateInit => RingInv /\ LogInv
  <2> SUFFICES ASSUME GateInit PROVE RingInv /\ LogInv
    OBVIOUS
  <2>1. ring.count = 0 /\ Len(log) = 0 /\ DOMAIN log = {}
        /\ \A r \in Reqs : stage[r] = "new"
    BY DEF GateInit
  <2>2. RingInv
    BY <2>1, RingLenType DEF RingInv
  <2>3. LogInv
    BY <2>1 DEF LogInv
  <2> QED
    BY <2>2, <2>3
<1>2. RingTyped /\ RingInv /\ LogInv => RecentIsTheLast
  <2> SUFFICES ASSUME RingTyped, RingInv, LogInv, NEW limit \in 0 .. RingLen + 1, NEW all, NEW n,
                      all = (IF Len(log) < RingLen THEN Len(log) ELSE RingLen),
                      n = (IF limit = 0 \/ limit > all THEN all ELSE limit)
               PROVE  Recent(limit) = [i \in 1 .. n |-> log[Len(log) + 1 - i]]
    BY DEF RecentIsTheLast, LogInv
  <2>1. PICK m \in Nat \ {0} : m = RingLen
    BY RingLenType
  <2>2. ring.next \in 0 .. m - 1 /\ ring.count \in 0 .. m /\ ring.count = all /\ limit \in Nat
    BY <2>1 DEF RingTyped, RingInv
  <2>3. n = (IF limit <= 0 \/ limit > ring.count THEN ring.count ELSE limit) /\ n \in 0 .. ring.count
    BY <2>2
  <2>4. Recent(limit) = [i \in 1 .. n |-> ring.buf[(ring.next - 1 - (i - 1) + m * 2) % m]]
    BY <2>1, <2>3 DEF Recent
  <2>5. ASSUME NEW i \in 1 .. n
        PROVE  ring.buf[(ring.next - 1 - (i - 1) + m * 2) % m] = log[Len(log) + 1 - i]
    <3>1. i \in 1 .. m /\ i \in 1 .. ring.count
      BY <2>2, <2>3
    <3>2. (ring.next - 1 - (i - 1) + m * 2) % m = SlotOf(i, ring.next, m)
      BY <2>2, <3>1, RecentSlot
    <3> QED
      BY <2>1, <3>1, <3>2 DEF RingInv
  <2> QED
    BY <2>4, <2>5
<1>3. GateTypeOK => RingTyped /\ RequestsTyped
  BY DEF GateTypeOK
<1> QED
  BY <1>1, <1>2, <1>3, RingInvStep, LogStep, GateTyped, PTL DEF GateSpec
=============================================================================
