------------------------ MODULE RocksDBClientProofs ------------------------
(***************************************************************************)
(* The shared database of RocksDBClient, for any number of clients,        *)
(* tables, runs, kills and clients that leave without cleanup(): it is     *)
(* open exactly while somebody holds it, no operation is on a closed       *)
(* database or with an old handle, no column family is created twice, and  *)
(* a directory on which no run was killed can be opened again.             *)
(***************************************************************************)
EXTENDS RocksDBClient, FiniteSetTheorems, TLAPS

-----------------------------------------------------------------------------
(* The inductive invariant                                                 *)

Out == {"new", "failed", "done"}
Closing == {"closed", "truncated"}
Creating == {"check", "create", "put", "unlock"}

\* references counts the holders; only the last one closes.
ReferenceInv ==
  /\ references = Cardinality(Holders)
  /\ open # 0 <=> Holders # {} /\ classLock = NoOne

ClosingInv ==
  \A c \in Clients :
    /\ pc[c] \in Closing <=> classLock = c
    /\ classLock = c => Holders = {c}

TableLockInv ==
  \A c \in Clients, t \in Tables :
    tableLock[t] = c <=> pc[c] \in Creating /\ table[c] = t

\* The handles of an open database are all of this opening.
FamilyInv ==
  /\ open = 0 /\ classLock = NoOne => columnFamilies = NoFamilies
  /\ open # 0 => \A t \in DOMAIN columnFamilies : columnFamilies[t] = open

HandleInv == \A c \in Clients : pc[c] \in {"put", "use"} => handle[c] = open

\* Created, and not yet in columnFamilies.
Unlisted == {t \in Tables : \E c \in Clients : pc[c] = "put" /\ table[c] = t}

\* Between init() and the end of cleanup(), columnFamilies knows the directory.
DirectoryInv ==
  /\ Holders # {} => disk \subseteq DOMAIN columnFamilies \cup {"default"} \cup Unlisted
  /\ \A c \in Clients : pc[c] = "create" => table[c] \notin disk \cup DOMAIN columnFamilies

\* While it is closed, CF_NAMES does, unless there was a fault.
NamesInv ==
  faults = 0 =>
    /\ \A c \in Clients : pc[c] \notin {"failed", "left"}
    /\ Holders = {} => Opens

IInv ==
  /\ TypeOK
  /\ ReferenceInv
  /\ ClosingInv
  /\ TableLockInv
  /\ FamilyInv
  /\ HandleInv
  /\ DirectoryInv
  /\ NamesInv

-----------------------------------------------------------------------------
(* The holders                                                             *)

LEMMA HoldersFinite == IsFiniteSet(Holders) /\ Cardinality(Holders) \in Nat
<1>1. IsFiniteSet(Clients) /\ Holders \subseteq Clients
  BY RocksAssumption DEF Holders
<1> QED
  BY <1>1, FS_Subset, FS_CardinalityType

\* A client that moves between two places inside, or two outside.
LEMMA HoldersStay ==
  ASSUME TypeOK, NEW c \in Clients, NEW x, Goto(c, x), pc[c] \in Out <=> x \in Out
  PROVE  Holders' = Holders
BY DEF TypeOK, Holders, Goto, Out

\* A client that has the database opened, or finds it open.
LEMMA HoldersJoin ==
  ASSUME TypeOK, NEW c \in Clients, NEW x, Goto(c, x), pc[c] \in Out, x \notin Out
  PROVE  /\ Holders' = Holders \cup {c}
         /\ Cardinality(Holders') = Cardinality(Holders) + 1
<1>1. Holders' = Holders \cup {c} /\ c \notin Holders
  BY DEF TypeOK, Holders, Goto, Out
<1> QED
  BY <1>1, HoldersFinite, FS_AddElement

\* A client whose cleanup() ends.
LEMMA HoldersLeave ==
  ASSUME TypeOK, NEW c \in Clients, NEW x, Goto(c, x), pc[c] \notin Out, x \in Out
  PROVE  /\ Holders' = Holders \ {c}
         /\ Cardinality(Holders') = Cardinality(Holders) - 1
<1>1. Holders' = Holders \ {c} /\ c \in Holders
  BY DEF TypeOK, Holders, Goto, Out
<1> QED
  BY <1>1, HoldersFinite, FS_RemoveElement

\* The one reference is that of the client that sees it.
LEMMA LastHolder ==
  ASSUME NEW c \in Holders, Cardinality(Holders) = 1
  PROVE  Holders = {c}
<1>1. \E x : Holders = {x}
  BY HoldersFinite, FS_Singleton
<1> QED
  BY <1>1

LEMMA NoHolder == Cardinality({}) = 0
BY FS_EmptySet

-----------------------------------------------------------------------------
(* The first state, and a new run                                          *)

LEMMA InitInv == Init => IInv
<1> SUFFICES ASSUME Init PROVE IInv
  OBVIOUS
<1>1. TypeOK
  BY RocksAssumption DEF Init, TypeOK, NoFamilies, PCs
<1>2. Holders = {}
  BY DEF Init, Holders
<1>3. ReferenceInv
  BY <1>2, NoHolder DEF Init, ReferenceInv
<1>4. ClosingInv /\ TableLockInv /\ FamilyInv /\ HandleInv
  BY RocksAssumption DEF Init, ClosingInv, TableLockInv, FamilyInv, HandleInv, Closing, Creating,
     NoFamilies
<1>5. DirectoryInv /\ NamesInv
  BY <1>2 DEF Init, DirectoryInv, NamesInv, Opens
<1> QED
  BY <1>1, <1>3, <1>4, <1>5 DEF IInv

\* A new JVM holds nothing.  If the last one ended, and there was no fault, the
\* names are those of the directory.
LEMMA NewRunInv ==
  ASSUME IInv, NextRun \/ Kill
  PROVE  IInv'
<1>1. TypeOK'
  <2>1. /\ disk' = disk /\ cfNames' = cfNames /\ opens' = opens
        /\ run' = run + 1 /\ faults' \in {faults, faults + 1}
    BY DEF NextRun, Kill, disks
  <2>2. FreshJVM
    BY DEF NextRun, Kill
  <2> QED
    BY <2>1, <2>2 DEF IInv, TypeOK, FreshJVM, NoFamilies, PCs
<1>2. Holders' = {}
  BY DEF Holders, NextRun, Kill, FreshJVM
<1>3. ReferenceInv'
  BY <1>2, NoHolder DEF ReferenceInv, NextRun, Kill, FreshJVM
<1>4. ClosingInv' /\ TableLockInv' /\ FamilyInv' /\ HandleInv'
  BY RocksAssumption DEF NextRun, Kill, FreshJVM, ClosingInv, TableLockInv, FamilyInv, HandleInv,
     Closing, Creating, NoFamilies
<1>5. DirectoryInv'
  BY <1>2 DEF DirectoryInv, NextRun, Kill, FreshJVM
<1>6. NamesInv'
  <2>1. CASE Kill
    BY <2>1 DEF Kill, NamesInv, IInv, TypeOK
  <2>2. CASE NextRun
    <3> SUFFICES ASSUME faults = 0 PROVE Opens'
      BY <2>2 DEF NamesInv, NextRun, FreshJVM
    <3>1. Holders = {}
      BY <2>2 DEF NextRun, RunOver, Holders, IInv, NamesInv
    <3> QED
      BY <3>1, <2>2 DEF IInv, NamesInv, NextRun, Opens, disks
  <2> QED
    BY <2>1, <2>2
<1> QED
  BY <1>1, <1>3, <1>4, <1>5, <1>6 DEF IInv

-----------------------------------------------------------------------------
(* init()                                                                  *)

LEMMA InitFirstInv ==
  ASSUME IInv, NEW c \in Clients, InitFirst(c)
  PROVE  IInv'
<1> USE DEF IInv
<1>1. TypeOK'
  <2>1. opens \in Nat /\ opens' = opens + 1 /\ 0 .. opens \subseteq 0 .. opens'
    BY DEF TypeOK, InitFirst
  <2>2. columnFamilies' \in [DOMAIN columnFamilies' -> 0 .. opens']
    BY <2>1 DEF TypeOK, InitFirst
  <2>3. DOMAIN columnFamilies' \subseteq Tables \cup {"default"}
    BY DEF TypeOK, InitFirst
  <2>4. references' \in Nat /\ open' \in 0 .. opens'
    BY <2>1 DEF TypeOK, InitFirst, OneMore
  <2>5. pc' \in [Clients -> PCs]
    BY DEF TypeOK, InitFirst, Goto, PCs
  <2> QED
    BY <2>1, <2>2, <2>3, <2>4, <2>5 DEF TypeOK, InitFirst, locks
<1>2. Holders = {} /\ columnFamilies = NoFamilies
  BY DEF InitFirst, ReferenceInv, FamilyInv
<1>3. Holders' = {c} /\ Cardinality(Holders') = Cardinality(Holders) + 1
  BY <1>2, HoldersJoin DEF InitFirst, Out
<1>4. open' # 0 /\ classLock' = NoOne
  BY DEF InitFirst, TypeOK, locks
<1>5. ReferenceInv'
  BY <1>3, <1>4 DEF ReferenceInv, InitFirst, OneMore
<1>6. \A d \in Clients : pc[d] \in Out
  BY <1>2 DEF Holders, Out
<1>7. \A d \in Clients : pc'[d] \in Out \cup {"inited"}
  BY <1>6 DEF InitFirst, Goto, TypeOK
<1>8. ClosingInv'
  BY <1>7, <1>4, RocksAssumption DEF ClosingInv, Closing, Out
<1>9. TableLockInv'
  BY <1>6, <1>7 DEF TableLockInv, InitFirst, Creating, Out, locks
<1>10. FamilyInv'
  BY <1>2, <1>4 DEF FamilyInv, InitFirst, NoFamilies
<1>11. HandleInv'
  BY <1>7 DEF HandleInv, Out
<1>12. DirectoryInv'
  <2>1. disk' \subseteq cfNames \cup {"default"}
    BY DEF InitFirst, Opens
  <2>2. DOMAIN columnFamilies' = cfNames
    BY <1>2 DEF InitFirst, NoFamilies
  <2> QED
    BY <2>1, <2>2, <1>7 DEF DirectoryInv, Out
<1>13. NamesInv'
  BY <1>3, <1>7 DEF NamesInv, InitFirst, Out, Goto, TypeOK
<1> QED
  BY <1>1, <1>5, <1>8, <1>9, <1>10, <1>11, <1>12, <1>13

\* Without a fault an opening does not fail.
LEMMA InitFailsInv ==
  ASSUME IInv, NEW c \in Clients, InitFails(c)
  PROVE  IInv'
<1> USE DEF IInv, InitFails, disks, counts, shared, locks
<1>1. TypeOK'
  BY DEF TypeOK, Goto, PCs
<1>2. Holders' = Holders
  BY HoldersStay DEF Out
<1>3. ReferenceInv'
  BY <1>2 DEF ReferenceInv
<1>4. ClosingInv' /\ TableLockInv'
  BY <1>2 DEF ClosingInv, TableLockInv, Closing, Creating, Goto, TypeOK
<1>5. FamilyInv' /\ HandleInv'
  BY DEF FamilyInv, HandleInv, Goto, TypeOK
<1>6. Unlisted' = Unlisted
  BY DEF Unlisted, Goto, TypeOK
<1>7. DirectoryInv'
  BY <1>2, <1>6 DEF DirectoryInv, Goto, TypeOK
<1>8. NamesInv'
  <2>1. Holders = {}
    BY DEF ReferenceInv
  <2> QED
    BY <2>1 DEF NamesInv
<1> QED
  BY <1>1, <1>3, <1>4, <1>5, <1>7, <1>8

LEMMA InitOtherInv ==
  ASSUME IInv, NEW c \in Clients, InitOther(c)
  PROVE  IInv'
<1> USE DEF IInv, InitOther, disks, counts, locks
<1>1. TypeOK'
  BY DEF TypeOK, Goto, PCs, OneMore
<1>2. Holders' = Holders \cup {c} /\ Cardinality(Holders') = Cardinality(Holders) + 1
  BY HoldersJoin DEF Out
<1>3. ReferenceInv'
  BY <1>2 DEF ReferenceInv, OneMore
<1>4. ClosingInv'
  BY RocksAssumption DEF ClosingInv, Closing, Goto, TypeOK
<1>5. TableLockInv'
  BY DEF TableLockInv, Creating, Goto, TypeOK
<1>6. FamilyInv' /\ HandleInv'
  BY DEF FamilyInv, HandleInv, Goto, TypeOK
<1>7. Unlisted' = Unlisted
  BY DEF Unlisted, Goto, TypeOK
<1>8. Holders # {}
  BY DEF ReferenceInv
<1>9. DirectoryInv'
  BY <1>7, <1>8 DEF DirectoryInv, Goto, TypeOK
<1>10. NamesInv'
  BY <1>2 DEF NamesInv, Goto, TypeOK
<1> QED
  BY <1>1, <1>3, <1>4, <1>5, <1>6, <1>9, <1>10

\* A client that has init()ed may never come to cleanup().
LEMMA InitThreadInv ==
  ASSUME IInv, NEW c \in Clients, InitThread(c)
  PROVE  IInv'
<1> USE DEF IInv, InitThread, disks, shared, locks
<1>1. TypeOK'
  BY DEF TypeOK, Goto, PCs
<1>2. Holders' = Holders /\ Holders # {}
  BY HoldersStay DEF Out, Holders
<1>3. ReferenceInv'
  BY <1>2 DEF ReferenceInv
<1>4. ClosingInv' /\ TableLockInv'
  BY <1>2 DEF ClosingInv, TableLockInv, Closing, Creating, Goto, TypeOK
<1>5. FamilyInv' /\ HandleInv'
  BY DEF FamilyInv, HandleInv, Goto, TypeOK
<1>6. Unlisted' = Unlisted
  BY DEF Unlisted, Goto, TypeOK
<1>7. DirectoryInv'
  BY <1>2, <1>6 DEF DirectoryInv, Goto, TypeOK
<1>8. NamesInv'
  <2>1. CASE Goto(c, "ready") /\ UNCHANGED faults
    BY <1>2, <2>1 DEF NamesInv, Goto, TypeOK
  <2>2. CASE faults' = faults + 1
    BY <2>2 DEF NamesInv, TypeOK
  <2> QED
    BY <2>1, <2>2
<1> QED
  BY <1>1, <1>3, <1>4, <1>5, <1>7, <1>8

-----------------------------------------------------------------------------
(* The operations                                                          *)

\* An operation keeps the database open, held and without a closing client.
LEMMA OperationHolds ==
  ASSUME IInv, NEW c \in Clients, Operation(c)
  PROVE  /\ Holders' = Holders /\ c \in Holders
         /\ open # 0 /\ classLock = NoOne
         /\ UNCHANGED <<cfNames, counts, open, references, classLock>>
         /\ pc'[c] \notin Out \cup Closing \cup {"left"}
         /\ \A d \in Clients \ {c} : /\ pc'[d] = pc[d] /\ table'[d] = table[d]
                                     /\ handle'[d] = handle[d]
<1> USE DEF IInv, Begin, Lock, Recheck, Create, Put, Unlock, GetHandle, Use, disks, shared, locks
<1>1. PICK x : /\ Goto(c, x) /\ x \notin Out \cup Closing \cup {"left"}
               /\ pc[c] \notin Out \cup Closing
  BY DEF Operation, Out, Closing
<1>2. Holders' = Holders /\ c \in Holders
  BY <1>1, HoldersStay DEF Holders, Out
<1>3. classLock = NoOne
  <2> SUFFICES ASSUME classLock # NoOne PROVE FALSE
    OBVIOUS
  <2>1. PICK d \in Clients : classLock = d
    BY DEF TypeOK
  <2>2. d = c
    BY <2>1, <1>2 DEF ClosingInv
  <2> QED
    BY <2>1, <2>2, <1>1 DEF ClosingInv
<1>4. open # 0
  BY <1>2, <1>3 DEF ReferenceInv
<1>5. UNCHANGED <<cfNames, counts, open, references, classLock>>
  BY DEF Operation
<1>6. pc'[c] = x /\ \A d \in Clients \ {c} : pc'[d] = pc[d]
  BY <1>1 DEF Goto, TypeOK
<1>7. \A d \in Clients \ {c} : table'[d] = table[d] /\ handle'[d] = handle[d]
  BY DEF Operation, TypeOK
<1> QED
  BY <1>1, <1>2, <1>3, <1>4, <1>5, <1>6, <1>7

\* What every operation keeps.
LEMMA OperationKeeps ==
  ASSUME IInv, NEW c \in Clients, Operation(c)
  PROVE  ReferenceInv' /\ ClosingInv' /\ NamesInv'
<1>1. ReferenceInv'
  BY OperationHolds DEF IInv, ReferenceInv
<1>2. ClosingInv'
  <2>1. \A d \in Clients : pc'[d] \in Closing <=> pc[d] \in Closing
    BY OperationHolds, RocksAssumption DEF IInv, ClosingInv
  <2> QED
    BY <2>1, OperationHolds DEF IInv, ClosingInv
<1>3. NamesInv'
  <2> SUFFICES ASSUME faults = 0
               PROVE  \A d \in Clients : pc'[d] \notin {"failed", "left"}
    BY OperationHolds DEF NamesInv, counts
  <2> QED
    BY OperationHolds DEF IInv, NamesInv, Out
<1> QED
  BY <1>1, <1>2, <1>3

LEMMA OperationTypes ==
  ASSUME IInv, NEW c \in Clients, Operation(c)
  PROVE  TypeOK'
<1> USE DEF IInv, disks, counts, shared, locks
<1>1. PICK x \in PCs : Goto(c, x)
  BY DEF Operation, Begin, Lock, Recheck, Create, Put, Unlock, GetHandle, Use, PCs
<1>2. pc' \in [Clients -> PCs]
  BY <1>1 DEF Goto, TypeOK
<1>3. CASE Put(c)
  BY <1>2, <1>3 DEF Put, TypeOK
<1>4. CASE GetHandle(c)
  BY <1>2, <1>4 DEF GetHandle, Known, TypeOK
<1>5. CASE Create(c)
  BY <1>2, <1>5 DEF Create, TypeOK
<1>6. CASE Begin(c) \/ Lock(c) \/ Recheck(c) \/ Unlock(c) \/ Use(c)
  BY <1>2, <1>6 DEF Begin, Lock, Recheck, Unlock, Use, TypeOK
<1> QED
  BY <1>3, <1>4, <1>5, <1>6 DEF Operation

\* The lock of a table is with the client that creates its column family.
LEMMA OperationTableLock ==
  ASSUME IInv, NEW c \in Clients, Operation(c)
  PROVE  TableLockInv'
<1> USE RocksAssumption DEF IInv, TypeOK, TableLockInv, Creating, Goto, disks, counts, shared, locks
<1>1. CASE Begin(c)
  BY <1>1 DEF Begin
<1>2. CASE Lock(c)
  BY <1>2 DEF Lock
<1>3. CASE Unlock(c)
  BY <1>3 DEF Unlock
<1>4. CASE Recheck(c) \/ Create(c) \/ Put(c)
  BY <1>4 DEF Recheck, Create, Put
<1>5. CASE GetHandle(c) \/ Use(c)
  BY <1>5 DEF GetHandle, Use
<1> QED
  BY <1>1, <1>2, <1>3, <1>4, <1>5 DEF Operation

\* Every handle that is made or fetched is of the opening.
LEMMA OperationHandles ==
  ASSUME IInv, NEW c \in Clients, Operation(c)
  PROVE  FamilyInv' /\ HandleInv'
<1> USE OperationHolds DEF IInv, TypeOK, FamilyInv, HandleInv, Goto, disks, counts, shared, locks
<1>1. CASE Put(c)
  BY <1>1 DEF Put
<1>2. CASE GetHandle(c)
  BY <1>2 DEF GetHandle, Known
<1>3. CASE Create(c)
  BY <1>3 DEF Create
<1>4. CASE Begin(c) \/ Lock(c) \/ Recheck(c) \/ Unlock(c) \/ Use(c)
  BY <1>4 DEF Begin, Lock, Recheck, Unlock, Use
<1> QED
  BY <1>1, <1>2, <1>3, <1>4 DEF Operation

\* A column family is created under the lock of its table, by a client that
\* found it neither in columnFamilies nor, therefore, in the directory.
LEMMA OperationDirectory ==
  ASSUME IInv, NEW c \in Clients, Operation(c)
  PROVE  DirectoryInv'
<1> USE DEF IInv, TypeOK, DirectoryInv, Goto, disks, counts, shared, locks
<1>1. Holders # {} /\ Holders' = Holders
  BY OperationHolds
<1>2. CASE Recheck(c)
  <2>1. Unlisted' = Unlisted
    BY <1>2 DEF Recheck, Unlisted
  <2>2. table[c] \notin Unlisted
    <3> SUFFICES ASSUME NEW d \in Clients, pc[d] = "put", table[d] = table[c] PROVE FALSE
      BY DEF Unlisted
    <3>1. tableLock[table[c]] = d /\ tableLock[table[c]] = c
      BY <1>2 DEF Recheck, TableLockInv, Creating
    <3> QED
      BY <3>1, <1>2 DEF Recheck
  <2>3. pc'[c] = "create" => table[c] \notin disk \cup DOMAIN columnFamilies
    BY <2>2, <1>1, <1>2, RocksAssumption DEF Recheck, CreatedMeanwhile, Known
  <2> QED
    BY <1>1, <1>2, <2>1, <2>3 DEF Recheck
<1>3. CASE Create(c)
  <2>1. Unlisted' = Unlisted \cup {table[c]}
    BY <1>3 DEF Create, Unlisted
  <2>2. \A d \in Clients : pc'[d] = "create" => d # c /\ pc[d] = "create" /\ table[d] # table[c]
    BY <1>3 DEF Create, TableLockInv, Creating
  <2> QED
    BY <1>1, <1>3, <2>1, <2>2 DEF Create
<1>4. CASE Put(c)
  <2>1. Unlisted \subseteq Unlisted' \cup {table[c]}
    BY <1>4 DEF Put, Unlisted
  <2>2. \A d \in Clients : pc'[d] = "create" => d # c /\ pc[d] = "create" /\ table[d] # table[c]
    BY <1>4 DEF Put, TableLockInv, Creating
  <2>3. DOMAIN columnFamilies' = DOMAIN columnFamilies \cup {table[c]}
    BY <1>4 DEF Put
  <2> QED
    BY <1>1, <1>4, <2>1, <2>2, <2>3 DEF Put
<1>5. CASE Begin(c) \/ Lock(c) \/ Unlock(c) \/ GetHandle(c) \/ Use(c)
  <2>1. Unlisted' = Unlisted
    BY <1>5 DEF Begin, Lock, Unlock, GetHandle, Use, Unlisted
  <2>2. disk' = disk /\ columnFamilies' = columnFamilies
    BY <1>5 DEF Begin, Lock, Unlock, GetHandle, Use
  <2>3. \A d \in Clients : pc'[d] = "create" => pc[d] = "create" /\ table'[d] = table[d]
    BY <1>5 DEF Begin, Lock, Unlock, GetHandle, Use
  <2> QED
    BY <1>1, <2>1, <2>2, <2>3
<1> QED
  BY <1>2, <1>3, <1>4, <1>5 DEF Operation

LEMMA OperationInv ==
  ASSUME IInv, NEW c \in Clients, Operation(c)
  PROVE  IInv'
BY OperationKeeps, OperationTypes, OperationTableLock, OperationHandles, OperationDirectory DEF IInv

-----------------------------------------------------------------------------
(* cleanup()                                                               *)

LEMMA CleanupOtherInv ==
  ASSUME IInv, NEW c \in Clients, CleanupOther(c)
  PROVE  IInv'
<1> USE DEF IInv, CleanupOther, disks, counts, locks
<1>1. c \in Holders /\ Cardinality(Holders) \in Nat /\ Cardinality(Holders) # 1
  BY HoldersFinite DEF Holders, LastOut, ReferenceInv
<1>2. Holders' = Holders \ {c} /\ Cardinality(Holders') = Cardinality(Holders) - 1
  BY HoldersLeave DEF Out
<1>3. Holders' # {}
  BY <1>1, <1>2, NoHolder
<1>4. references' \in Nat /\ ReferenceInv'
  <2>1. references \in Nat /\ references # 0
    BY <1>1, HoldersFinite, FS_EmptySet DEF ReferenceInv
  <2> QED
    BY <1>1, <1>2, <1>3, <2>1 DEF ReferenceInv
<1>5. TypeOK'
  BY <1>4 DEF TypeOK, Goto, PCs
<1>6. ClosingInv'
  BY RocksAssumption DEF ClosingInv, Closing, Goto, TypeOK
<1>7. TableLockInv'
  BY DEF TableLockInv, Creating, Goto, TypeOK
<1>8. FamilyInv' /\ HandleInv'
  BY DEF FamilyInv, HandleInv, Goto, TypeOK
<1>9. Unlisted' = Unlisted
  BY DEF Unlisted, Goto, TypeOK
<1>10. DirectoryInv'
  BY <1>1, <1>9 DEF DirectoryInv, Goto, TypeOK
<1>11. NamesInv'
  BY <1>3 DEF NamesInv, Goto, TypeOK
<1> QED
  BY <1>4, <1>5, <1>6, <1>7, <1>8, <1>10, <1>11

\* The client that sees one reference is the only holder, and stays it.
LEMMA CleanupCloseInv ==
  ASSUME IInv, NEW c \in Clients, CleanupClose(c)
  PROVE  IInv'
<1> USE DEF IInv, CleanupClose, disks, counts
<1>1. Holders = {c}
  BY LastHolder DEF Holders, LastOut, ReferenceInv
<1>2. Holders' = Holders
  BY HoldersStay DEF Out
<1>3. TypeOK'
  BY DEF TypeOK, Goto, PCs
<1>4. ReferenceInv'
  BY <1>1, <1>2, RocksAssumption DEF ReferenceInv
<1>5. ClosingInv'
  BY <1>1, <1>2, RocksAssumption DEF ClosingInv, Closing, Goto, TypeOK
<1>6. TableLockInv'
  BY DEF TableLockInv, Creating, Goto, TypeOK
<1>7. \A d \in Clients \ {c} : pc[d] \in Out
  BY <1>1 DEF Holders, Out
<1>8. FamilyInv' /\ HandleInv'
  BY <1>7, RocksAssumption DEF FamilyInv, HandleInv, Goto, TypeOK, Out
<1>9. Unlisted' = Unlisted
  BY DEF Unlisted, Goto, TypeOK
<1>10. DirectoryInv'
  BY <1>2, <1>9 DEF DirectoryInv, Goto, TypeOK
<1>11. NamesInv'
  BY <1>1, <1>2 DEF NamesInv, Goto, TypeOK
<1> QED
  BY <1>3, <1>4, <1>5, <1>6, <1>8, <1>10, <1>11

LEMMA CleanupTruncateInv ==
  ASSUME IInv, NEW c \in Clients, CleanupTruncate(c)
  PROVE  IInv'
<1> USE DEF IInv, CleanupTruncate, counts, shared, locks
<1>1. Holders' = Holders /\ Holders # {}
  BY HoldersStay DEF Out, Holders
<1>2. TypeOK'
  BY DEF TypeOK, Goto, PCs
<1>3. ReferenceInv'
  BY <1>1 DEF ReferenceInv
<1>4. ClosingInv' /\ TableLockInv'
  BY <1>1 DEF ClosingInv, TableLockInv, Closing, Creating, Goto, TypeOK
<1>5. FamilyInv' /\ HandleInv'
  BY DEF FamilyInv, HandleInv, Goto, TypeOK
<1>6. Unlisted' = Unlisted
  BY DEF Unlisted, Goto, TypeOK
<1>7. DirectoryInv'
  BY <1>1, <1>6 DEF DirectoryInv, Goto, TypeOK
<1>8. NamesInv'
  BY <1>1 DEF NamesInv, Goto, TypeOK
<1> QED
  BY <1>2, <1>3, <1>4, <1>5, <1>7, <1>8

\* The names saved are those of the whole directory: nobody is creating.
LEMMA CleanupSaveInv ==
  ASSUME IInv, NEW c \in Clients, CleanupSave(c)
  PROVE  IInv'
<1> USE DEF IInv, CleanupSave, counts
<1>1. classLock = c /\ Holders = {c}
  BY DEF ClosingInv, Closing
<1>2. Holders' = {} /\ Cardinality(Holders') = Cardinality(Holders) - 1
  BY <1>1, HoldersLeave DEF Out
<1>3. references' = 0 /\ open' = 0
  BY <1>1, <1>2, NoHolder, HoldersFinite, RocksAssumption DEF ReferenceInv
<1>4. NamesToSave(c) \subseteq Tables \cup {"default"}
  BY DEF NamesToSave, TypeOK
<1>5. TypeOK'
  BY <1>3, <1>4 DEF TypeOK, Goto, PCs, NoFamilies
<1>6. ReferenceInv'
  BY <1>2, <1>3, NoHolder DEF ReferenceInv
<1>7. \A d \in Clients : pc'[d] \in Out
  BY <1>2 DEF Holders, Out
<1>8. \A d \in Clients \ {c} : pc[d] \in Out
  BY <1>1 DEF Holders, Out
<1>9. ClosingInv'
  BY <1>7, RocksAssumption DEF ClosingInv, Closing, Out
<1>10. TableLockInv'
  BY <1>7, <1>8 DEF TableLockInv, Creating, Goto, TypeOK, Out
<1>11. FamilyInv' /\ HandleInv'
  BY <1>3, <1>7 DEF FamilyInv, HandleInv, Out
<1>12. DirectoryInv'
  BY <1>2, <1>7 DEF DirectoryInv, Out
<1>13. NamesInv'
  <2>1. Unlisted = {}
    BY <1>8 DEF Unlisted, Out
  <2>2. disk \subseteq NamesToSave(c)
    BY <1>1, <2>1 DEF DirectoryInv, NamesToSave
  <2> QED
    BY <2>2 DEF NamesInv, Opens, Goto, TypeOK
<1> QED
  BY <1>5, <1>6, <1>9, <1>10, <1>11, <1>12, <1>13

-----------------------------------------------------------------------------
(* The theorems                                                            *)

LEMMA StepInv == IInv /\ [Next]_vars => IInv'
<1>1. ASSUME IInv, Next PROVE IInv'
  BY <1>1, NewRunInv, InitFirstInv, InitFailsInv, InitOtherInv, InitThreadInv, OperationInv,
     CleanupOtherInv, CleanupCloseInv, CleanupTruncateInv, CleanupSaveInv
     DEF Next, InitDB, Cleanup
<1>2. ASSUME IInv, UNCHANGED vars PROVE IInv'
  BY <1>2 DEF vars, disks, counts, shared, locks, locals, IInv, TypeOK, ReferenceInv, ClosingInv,
     TableLockInv, FamilyInv, HandleInv, DirectoryInv, NamesInv, Unlisted, Holders, Opens
<1> QED
  BY <1>1, <1>2

LEMMA Inductive == Spec => []IInv
BY InitInv, StepInv, PTL DEF Spec

\* Every variable keeps its type.
THEOREM TypeCorrect == Spec => []TypeOK
<1>1. IInv => TypeOK
  BY DEF IInv
<1> QED
  BY <1>1, Inductive, PTL

\* The reference count is exact, and the database open as long as it is not 0,
\* but for the time the last client needs to save the names.
THEOREM OpenWhileReferencedAlways == Spec => []OpenWhileReferenced
<1>1. IInv => OpenWhileReferenced
  BY DEF IInv, ReferenceInv, OpenWhileReferenced
<1> QED
  BY <1>1, Inductive, PTL

\* No operation meets a closed database or a handle of an earlier opening.
THEOREM NoUseAfterCloseAlways == Spec => []NoUseAfterClose
<1>1. IInv => NoUseAfterClose
  <2> SUFFICES ASSUME IInv, NEW c \in Clients,
                      pc[c] \in {"inited", "ready", "lock", "check", "create", "put", "unlock",
                                 "get", "use"}
               PROVE  open # 0 /\ (pc[c] = "use" => handle[c] = open)
    BY DEF NoUseAfterClose
  <2>1. c \in Holders
    BY DEF Holders
  <2>2. classLock = NoOne
    <3> SUFFICES ASSUME NEW d \in Clients, classLock = d PROVE FALSE
      BY DEF IInv, TypeOK
    <3>1. d = c /\ pc[d] \in Closing
      BY <2>1 DEF IInv, ClosingInv
    <3> QED
      BY <3>1 DEF Closing
  <2> QED
    BY <2>1, <2>2 DEF IInv, ReferenceInv, HandleInv
<1> QED
  BY <1>1, Inductive, PTL

\* No column family that exists is created.
THEOREM CreatedOnceAlways == Spec => []CreatedOnce
<1>1. IInv => CreatedOnce
  BY DEF IInv, DirectoryInv, CreatedOnce
<1> QED
  BY <1>1, Inductive, PTL

\* Directories of clean runs open again, through any number of runs.
THEOREM CleanRunsReopenAlways == Spec => []CleanRunsReopen
<1>1. IInv => CleanRunsReopen
  BY DEF IInv, NamesInv, CleanRunsReopen
<1> QED
  BY <1>1, Inductive, PTL
=============================================================================
