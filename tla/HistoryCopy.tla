---------------------------- MODULE HistoryCopy ----------------------------
(***************************************************************************)
(* internal/history/history.go and internal/server/history.go: answering a *)
(* query from a private copy of a database that Chrome goes on writing.    *)
(*                                                                         *)
(* Every element of Calls is one request to the history endpoints.  The    *)
(* profile's files are numbered in the order copySnapshot takes them: 1 is *)
(* History, the others are its recovery sidecars.  A path leads to an      *)
(* inode; an inode has a content, a sequence of blocks, and a stamp, which *)
(* stands for what the code compares of a FileInfo besides the inode: the  *)
(* size and the modification time.  A block's value is the clock at the    *)
(* time it was written.  Chrome and SQLite are external: they write, empty,*)
(* create and remove the files as long as Writes lasts.                    *)
(***************************************************************************)
EXTENDS Integers, Sequences, FiniteSets

CONSTANTS
  Calls,      \* requests to the history endpoints
  Queries,    \* those that POST a query; the others GET the sources
  Inodes,     \* inodes of the profile directory
  Disks,      \* what the files' names may lead to at first
  NFiles,     \* History and its sidecars: 3
  MaxSlots,   \* cap(s.historySlots): 2
  MaxTries,   \* attempts of Query: 3
  MaxBlocks,  \* MaxSnapshotBytes, in blocks
  Writes,     \* bound on the writes of Chrome
  None        \* no such file

Files    == 1 .. NFiles
Sidecars == 2 .. NFiles

ASSUME HistoryAssumption ==
  /\ IsFiniteSet(Calls) /\ Queries \subseteq Calls /\ None \notin Inodes
  /\ Disks \subseteq [Files -> Inodes \cup {None}]
  /\ \A p \in Disks : \A f, g \in Sidecars : p[f] # None /\ p[g] # None => f = g
  /\ \A p \in Disks : \A f, g \in Files : p[f] = p[g] => f = g \/ p[f] = None
  /\ NFiles \in Nat \ {0} /\ MaxSlots \in Nat /\ MaxTries \in Nat
  /\ MaxBlocks \in Nat /\ Writes \in Nat

VARIABLES
  path,     \* the inode each file's name leads to
  content,  \* the blocks of each inode
  stamp,    \* its size and modification time
  clock,    \* the latest stamp
  slots,    \* the calls that hold an element of historySlots
  pc,       \* where a call is
  answer,   \* what it answered
  tries,    \* attempts Query has begun
  at,       \* the file copySnapshot is at
  ino,      \* before: the inode copied for each file, None if there was none
  mark,     \* before: the stamp of that inode when it was opened
  copy,     \* the blocks written to the private copy of each file
  total,    \* blocks copySnapshot has written
  disk,     \* blocks in the private directories the call has not removed
  since     \* history: the states of the files since the attempt began

fileVars == <<path, content, stamp, clock>>
copyVars == <<at, ino, mark, copy, total, disk, since>>
vars == <<path, content, stamp, clock, slots, pc, answer, tries, at, ino, mark,
          copy, total, disk, since>>

Copying == {"open", "copy", "verify", "read"}
PCs     == Copying \cup {"new", "checks", "attempt", "answered"}
Answers == {"none", "busy", "refused", "sources", "rows", "unavailable"}

(* What the files are at one instant, and what the copy says they are. *)
Present == {f \in Files : path[f] # None}
View ==
  [have |-> Present,
   data |-> [f \in Files |-> IF f \in Present THEN content[path[f]] ELSE <<>>]]
CopyOf(c) == [have |-> {f \in Files : ino[c][f] # None}, data |-> copy[c]]

NoFile == [f \in Files |-> None]
Zeros  == [f \in Files |-> 0]
Empty  == [f \in Files |-> <<>>]

Init ==
  /\ path \in Disks
  /\ content = [i \in Inodes |-> <<0, 0>>]
  /\ stamp = [i \in Inodes |-> 0]
  /\ clock = 0
  /\ slots = {}
  /\ pc = [c \in Calls |-> "new"]
  /\ answer = [c \in Calls |-> "none"]
  /\ tries = [c \in Calls |-> 0]
  /\ at = [c \in Calls |-> 1]
  /\ ino = [c \in Calls |-> NoFile]
  /\ mark = [c \in Calls |-> Zeros]
  /\ copy = [c \in Calls |-> Empty]
  /\ total = [c \in Calls |-> 0]
  /\ disk = [c \in Calls |-> 0]
  /\ since = [c \in Calls |-> {}]

Goto(c, next) == pc' = [pc EXCEPT ![c] = next]

-----------------------------------------------------------------------------
(* Chrome.  Every change of a file gives its inode a stamp of its own, and a
   call that copies notes the state it leads to. *)
Witness ==
  since' = [c \in Calls |-> IF pc[c] \in Copying THEN since[c] \cup {View'} ELSE since[c]]

Stamped(i) ==
  /\ clock < Writes
  /\ clock' = clock + 1
  /\ stamp' = [stamp EXCEPT ![i] = clock + 1]

WriteBlock(f) ==
  /\ f \in Present /\ Stamped(path[f])
  /\ \E b \in 1 .. Len(content[path[f]]) + 1 :
       content' = [content EXCEPT ![path[f]] =
                     [n \in 1 .. (IF b > Len(@) THEN b ELSE Len(@)) |->
                        IF n = b THEN clock + 1 ELSE @[n]]]
  /\ UNCHANGED <<path, slots, pc, answer, tries, at, ino, mark, copy, total, disk>>
  /\ Witness

(* A name gets any inode that no name leads to and no call has open, one that
   was in use before included.  SQLite keeps either a write-ahead log or a
   rollback journal of a database, never both. *)
InUse == {path[f] : f \in Present} \cup {ino[c][at[c]] : c \in {d \in Calls : pc[d] = "copy"}}
Create(f) ==
  /\ f \in Files \ Present
  /\ f \in Sidecars => Present \cap Sidecars = {}
  /\ \E i \in Inodes \ InUse :
       /\ Stamped(i)
       /\ path' = [path EXCEPT ![f] = i]
       /\ content' = [content EXCEPT ![i] = <<>>]
  /\ UNCHANGED <<slots, pc, answer, tries, at, ino, mark, copy, total, disk>>
  /\ Witness

Remove(f) ==
  /\ f \in Present
  /\ path' = [path EXCEPT ![f] = None]
  /\ UNCHANGED <<content, stamp, clock, slots, pc, answer, tries, at, ino, mark,
                 copy, total, disk>>
  /\ Witness

Chrome == \E f \in Files : WriteBlock(f) \/ Create(f) \/ Remove(f)

-----------------------------------------------------------------------------
(* handleHistory: one of the slots, or 429 at once. *)
TakeSlot(c) ==
  /\ pc[c] = "new" /\ Cardinality(slots) < MaxSlots
  /\ slots' = slots \cup {c}
  /\ Goto(c, "checks")
  /\ UNCHANGED <<fileVars, answer, tries, copyVars>>

Busy(c) ==
  /\ pc[c] = "new" /\ Cardinality(slots) >= MaxSlots
  /\ answer' = [answer EXCEPT ![c] = "busy"]
  /\ Goto(c, "answered")
  /\ UNCHANGED <<fileVars, slots, tries, copyVars>>

Answer(c, what) ==
  /\ answer' = [answer EXCEPT ![c] = what]
  /\ slots' = slots \ {c}
  /\ Goto(c, "answered")

(* The list of sources, or the error of an unreadable root; and a query that
   is malformed, invalid or for a source that is not there. *)
Sources(c) ==
  /\ pc[c] = "checks" /\ c \notin Queries
  /\ Answer(c, "sources")
  /\ UNCHANGED <<fileVars, tries, copyVars>>

Refuse(c) ==
  /\ pc[c] = "checks" /\ c \in Queries
  /\ Answer(c, "refused")
  /\ UNCHANGED <<fileVars, tries, copyVars>>

Query(c) ==
  /\ pc[c] = "checks" /\ c \in Queries
  /\ Goto(c, "attempt")
  /\ UNCHANGED <<fileVars, slots, answer, tries, copyVars>>

(* The loop of Query.  The context may be done, by its 15 s or because the
   client has left, whenever the code looks. *)
GiveUp(c) ==
  /\ pc[c] = "attempt"
  /\ Answer(c, "unavailable")
  /\ UNCHANGED <<fileVars, tries, copyVars>>

(* Mutant of Attempt: tries again for as long as it takes. *)
Attempt_unbounded(c) ==
  /\ pc[c] = "attempt"
  /\ \/ /\ at' = [at EXCEPT ![c] = 1]
        /\ since' = [since EXCEPT ![c] = {View}]
        /\ Goto(c, "open")
     \/ UNCHANGED <<pc, at, since>>
  /\ UNCHANGED <<fileVars, slots, answer, tries, ino, mark, copy, total, disk>>

Attempt(c) ==
  /\ pc[c] = "attempt" /\ tries[c] < MaxTries
  /\ tries' = [tries EXCEPT ![c] = @ + 1]
  /\ \/ /\ at' = [at EXCEPT ![c] = 1]           \* a fresh private directory
        /\ since' = [since EXCEPT ![c] = {View}]
        /\ Goto(c, "open")
     \/ UNCHANGED <<pc, at, since>>             \* MkdirTemp fails
  /\ UNCHANGED <<fileVars, slots, answer, ino, mark, copy, total, disk>>

(* What the attempt knew is gone with it, and cleanup removes its directory. *)
Forget(c) ==
  /\ at' = [at EXCEPT ![c] = 1]
  /\ ino' = [ino EXCEPT ![c] = NoFile]
  /\ mark' = [mark EXCEPT ![c] = Zeros]
  /\ copy' = [copy EXCEPT ![c] = Empty]
  /\ total' = [total EXCEPT ![c] = 0]
  /\ disk' = [disk EXCEPT ![c] = 0]
  /\ since' = [since EXCEPT ![c] = {}]

(* copySnapshot fails, or readSnapshot does: the check of the database, the
   query, a full disk, a read or write error, the context. *)
Fails(c) ==
  /\ pc[c] \in Copying
  /\ Forget(c)
  /\ Goto(c, "attempt")
  /\ UNCHANGED <<fileVars, slots, answer, tries>>

(* The file is done; after the last one come the checks, from the first. *)
NextFile(c, again, after) ==
  IF at[c] < NFiles THEN at' = [at EXCEPT ![c] = @ + 1] /\ Goto(c, again)
                    ELSE at' = [at EXCEPT ![c] = 1]     /\ Goto(c, after)

Absent(c) ==
  /\ pc[c] = "open" /\ at[c] \in Sidecars \ Present
  /\ NextFile(c, "open", "verify")
  /\ UNCHANGED <<fileVars, slots, answer, tries, ino, mark, copy, total, disk, since>>

(* Lstat, Open and Stat in one: they must have met the same inode, so the
   first could as well have come right before the second, and Fails is what
   happens if they have not. *)
Open(c) ==
  LET f == at[c] IN
  /\ pc[c] = "open" /\ f \in Present
  /\ ino' = [ino EXCEPT ![c][f] = path[f]]
  /\ mark' = [mark EXCEPT ![c][f] = stamp[path[f]]]
  /\ Goto(c, "copy")
  /\ UNCHANGED <<fileVars, slots, answer, tries, at, copy, total, disk, since>>

(* Mutant of Fits: the limit is one of each file. *)
Fits_perFile(c) == Len(copy[c][at[c]]) < MaxBlocks

(* copyBounded reads from the file that was opened, wherever its name leads
   now, until its end; what it would write past the limit makes it fail. *)
Fits(c) == total[c] < MaxBlocks

ReadBlock(c) ==
  LET f == at[c]
      i == ino[c][f]
      n == Len(copy[c][f]) + 1
  IN
  /\ pc[c] = "copy" /\ n <= Len(content[i]) /\ Fits(c)
  /\ copy' = [copy EXCEPT ![c][f] = Append(@, content[i][n])]
  /\ total' = [total EXCEPT ![c] = @ + 1]
  /\ disk' = [disk EXCEPT ![c] = @ + 1]
  /\ UNCHANGED <<fileVars, slots, pc, answer, tries, at, ino, mark, since>>

EndOfFile(c) ==
  LET f == at[c] IN
  /\ pc[c] = "copy" /\ Len(copy[c][f]) >= Len(content[ino[c][f]])
  /\ NextFile(c, "open", "verify")
  /\ UNCHANGED <<fileVars, slots, answer, tries, ino, mark, copy, total, disk, since>>

(* Mutant of Unchanged: looks at the inode only. *)
Unchanged_inode(c, f) == path[f] = ino[c][f]

(* The second Lstat of every file, once all are copied: still absent, or the
   same inode with the same size and time. *)
Unchanged(c, f) ==
  /\ path[f] = ino[c][f]
  /\ ino[c][f] # None => stamp[path[f]] = mark[c][f]

Verify(c) ==
  /\ pc[c] = "verify" /\ Unchanged(c, at[c])
  /\ NextFile(c, "verify", "read")
  /\ UNCHANGED <<fileVars, slots, answer, tries, ino, mark, copy, total, disk, since>>

(* readSnapshot has its rows, and its directory is removed. *)
Rows(c) ==
  /\ pc[c] = "read"
  /\ Forget(c)
  /\ Answer(c, "rows")
  /\ UNCHANGED <<fileVars, tries>>

-----------------------------------------------------------------------------
Serve(c) ==
  \/ Sources(c) \/ Refuse(c) \/ Query(c) \/ GiveUp(c) \/ Attempt(c) \/ Fails(c)
  \/ Absent(c) \/ Open(c) \/ ReadBlock(c) \/ EndOfFile(c)
  \/ Verify(c) \/ Rows(c)

Next == Chrome \/ \E c \in Calls : TakeSlot(c) \/ Busy(c) \/ Serve(c)

Spec == Init /\ [][Next]_vars

(* A call that was let in goes on; no file operation blocks for ever.  Neither
   the client nor Chrome has to do anything. *)
FairSpec == Spec /\ \A c \in Calls : WF_vars(Serve(c))

-----------------------------------------------------------------------------
(* Type invariant. *)
TypeOK ==
  /\ path \in [Files -> Inodes \cup {None}]
  /\ content \in [Inodes -> Seq(Nat)]
  /\ stamp \in [Inodes -> Nat] /\ clock \in Nat
  /\ slots \subseteq Calls
  /\ pc \in [Calls -> PCs]
  /\ answer \in [Calls -> Answers]
  /\ tries \in [Calls -> 0 .. MaxTries]
  /\ at \in [Calls -> Files]
  /\ ino \in [Calls -> [Files -> Inodes \cup {None}]]
  /\ mark \in [Calls -> [Files -> Nat]]
  /\ copy \in [Calls -> [Files -> Seq(Nat)]]
  /\ total \in [Calls -> Nat] /\ disk \in [Calls -> Nat]

(* "never treat an unreadable/inconsistent copy as an empty history": a copy
   the checks let through is what the profile's files were, all of them, at
   one instant of the attempt, however Chrome wrote, removed and made files
   while they were copied one after the other.  Such a state is one SQLite
   recovers from, as after a kill of Chrome at that instant. *)
CopyExisted == \A c \in Calls : pc[c] = "read" => CopyOf(c) \in since[c]

(* The private copies never take more room than one limit for each slot,
   files that grow and attempts that fail halfway included, and no call
   leaves anything of them behind. *)
SpaceIsBounded ==
  LET copies == {c \in Calls : disk[c] > 0} IN
  /\ copies \subseteq slots /\ Cardinality(copies) <= MaxSlots
  /\ \A c \in copies : disk[c] <= MaxBlocks

(* A call that is let in is answered and gives its slot back, although Chrome
   may spoil every copy and no context has to end. *)
EveryCallAnswered ==
  \A c \in Calls : c \in slots ~> c \notin slots /\ pc[c] = "answered"
=============================================================================
