------------------------- MODULE BackupRestoreProofs -------------------------
(***************************************************************************)
(* The programs that save and restore the directories, for any set of      *)
(* directories and tables and any number of runs, backups, failing calls   *)
(* and kills: no backup is lost, one that was reported is there, and a     *)
(* restore that was reported has brought back what its backup was made of. *)
(* And the script of an experiment, which dumps and restores with          *)
(* MongoDB's own tools, for any number of iterations, starts, failing      *)
(* processes and interruptions: the rows of its results tell how their     *)
(* processes ran, and the phases that it compares can be compared.         *)
(***************************************************************************)
EXTENDS BackupRestore, ExperimentScript, FiniteSetTheorems, TLAPS

-----------------------------------------------------------------------------
(* The inductive invariant                                                 *)

Backing == {"open", "flush", "engine", "create"}

\* What a program holds, where it is.
HoldingInv ==
  /\ pc \in {"idle", "open"} => held = {}
  /\ pc = "flush" => held = {"handles", "db"}
  /\ pc = "create" => held = {"handles", "db", "backup_engine"}
  /\ prog = "backup" /\ pc = "engine" => held = {"handles", "db"}
  /\ prog = "load" /\ pc = "engine" => held = {}
  /\ prog = "load" /\ pc \in {"restore", "restoring", "list", "reopen"} => held = {"backup_engine"}
  /\ prog = "test" => held = {}
  /\ "handles" \in held => "db" \in held

\* Every backup is of what its program found, and that were two column families.
BackupsInv ==
  /\ backups = promised
  /\ \A i \in DOMAIN backups : DOMAIN backups[i] = ColumnFamilies
  /\ \A d \in Dirs : ~whole[d] => backups # <<>>

\* While backup_rocksdb has the database, no run changes it.
SavingInv ==
  /\ prog \in {"backup", "load"} => db_path \in Dirs
  /\ prog = "backup" /\ pc \in Backing => Len(backups) = before /\ Len(promised) < MaxBackups
  /\ prog = "backup" /\ "db" \in held =>
       ycsb # db_path /\ content[db_path] = found /\ DOMAIN found = ColumnFamilies

\* While load_rocksdb is at work, no run has its directory open.
LoadingInv ==
  prog = "load" /\ pc # "idle" =>
    /\ ycsb # db_path
    /\ pc = "restoring" => id \in DOMAIN backups
    /\ pc \in {"list", "reopen"} \/ (pc = "release" /\ exit = 0) =>
         id \in DOMAIN backups /\ whole[db_path] /\ content[db_path] = backups[id]

IInv ==
  /\ TypeOK
  /\ HoldingInv
  /\ BackupsInv
  /\ SavingInv
  /\ SuccessIsSaved
  /\ LoadingInv

-----------------------------------------------------------------------------
(* Contents                                                                *)

LEMMA ContentsFamilies ==
  \A c : c \in Contents <=> DOMAIN c \subseteq Families /\ c \in [DOMAIN c -> 0 .. MaxWrites]
BY DEF Contents

LEMMA NoDbIsContent == NoDb \in Contents /\ DOMAIN NoDb = {}
<1>1. DOMAIN NoDb = {} /\ NoDb \in [{} -> 0 .. MaxWrites]
  BY DEF NoDb
<1> QED
  BY <1>1, ContentsFamilies

\* A run that opens a directory creates the column families that are not there.
LEMMA OpenedContent ==
  ASSUME NEW c \in Contents, NEW N \in SUBSET Families
  PROVE  Opened(c, N) \in Contents
<1>1. c \in [DOMAIN c -> 0 .. MaxWrites] /\ DOMAIN c \subseteq Families /\ MaxWrites \in Nat
  BY ContentsFamilies, BackupAssumption
<1>2. DOMAIN Opened(c, N) = DOMAIN c \cup N /\ Opened(c, N) \in [DOMAIN c \cup N -> 0 .. MaxWrites]
  BY <1>1 DEF Opened
<1> QED
  BY <1>1, <1>2, ContentsFamilies

\* A write is to one column family.
LEMMA WrittenContent ==
  ASSUME NEW c \in Contents, NEW f \in Families, NEW v \in 0 .. MaxWrites
  PROVE  Written(c, f, v) \in Contents
<1>1. c \in [DOMAIN c -> 0 .. MaxWrites] /\ DOMAIN c \subseteq Families
  BY ContentsFamilies
<1>2. /\ DOMAIN Written(c, f, v) = DOMAIN c \cup {f}
      /\ Written(c, f, v) \in [DOMAIN c \cup {f} -> 0 .. MaxWrites]
  BY <1>1 DEF Written
<1> QED
  BY <1>1, <1>2, ContentsFamilies

LEMMA HeldThings == Range(Deleted) = {"handles", "db", "backup_engine"}
<1>1. Deleted \in [1 .. 3 -> {"handles", "db", "backup_engine"}]
  BY DEF Deleted
<1> QED
  BY <1>1 DEF Deleted, Range

\* Which program makes a call that only one of them makes.
LEMMA CallOf ==
  ASSUME TypeOK
  PROVE  /\ pc \in {"open", "flush", "create"} => prog = "backup"
         /\ pc \in {"restore", "restoring", "reopen"} => prog = "load"
<1>1. prog \in {"none", "backup", "load", "test"} /\ pc \in {"idle", "release"} \cup Steps[prog]
  BY DEF TypeOK, Steps
<1>2. CASE prog = "none"
  BY <1>1, <1>2 DEF Steps
<1>3. CASE prog = "backup"
  BY <1>1, <1>3 DEF Steps
<1>4. CASE prog = "load"
  BY <1>1, <1>4 DEF Steps
<1>5. CASE prog = "test"
  BY <1>1, <1>5 DEF Steps
<1> QED
  BY <1>1, <1>2, <1>3, <1>4, <1>5

-----------------------------------------------------------------------------
(* Every step keeps each part of the invariant                             *)

\* Every variable keeps its type.
LEMMA TypeStep == IInv /\ [Next]_vars => TypeOK'
<1> SUFFICES ASSUME IInv, [Next]_vars PROVE TypeOK'
  OBVIOUS
<1> USE DEF disks, environment, arguments, process, history
<1>1. TypeOK /\ SavingInv /\ LoadingInv /\ MaxFaults \in Nat /\ MaxBackups \in Nat
  BY BackupAssumption DEF IInv
<1>2. ASSUME NEW d \in Dirs, RunOpens(d) PROVE TypeOK'
  <2>1. content'[d] = Opened(content[d], names[d] \cup {"default"}) /\ names[d] \cup {"default"} \subseteq Families
    BY <1>1, <1>2 DEF RunOpens, TypeOK, Families
  <2>2. content'[d] \in Contents
    BY <1>1, <2>1, OpenedContent DEF TypeOK
  <2> QED
    BY <1>1, <2>2, <1>2 DEF RunOpens, TypeOK
<1>3. ASSUME NEW t \in Tables, RunWrites(t) PROVE TypeOK'
  <2>1. ycsb \in Dirs /\ t \in Families /\ writes + 1 \in 0 .. MaxWrites /\ MaxWrites \in Nat
    BY <1>1, <1>3, BackupAssumption DEF RunWrites, TypeOK, Families
  <2>2. Written(content[ycsb], t, writes + 1) \in Contents
    BY <1>1, <2>1, WrittenContent DEF TypeOK
  <2> QED
    BY <1>1, <2>1, <2>2, <1>3 DEF RunWrites, TypeOK
<1>4. ASSUME RunEnds PROVE TypeOK'
  BY <1>1, <1>4, ContentsFamilies DEF RunEnds, TypeOK, Steps
<1>5. ASSUME RunKilled PROVE TypeOK'
  BY <1>1, <1>5 DEF RunKilled, TypeOK, Steps
<1>6. ASSUME NEW d \in Dirs, StartBackup(d) PROVE TypeOK'
  BY <1>1, <1>6 DEF StartBackup, Begin, TypeOK, Steps
<1>7. ASSUME NEW d \in Dirs, NEW i \in 0 .. MaxBackups + 1, StartLoad(d, i) PROVE TypeOK'
  BY <1>1, <1>7 DEF StartLoad, Begin, TypeOK, Steps
<1>8. ASSUME StartTest PROVE TypeOK'
  BY <1>1, <1>8, BackupAssumption DEF StartTest, Begin, TypeOK, Steps
<1>9. ASSUME OpenDb PROVE TypeOK'
  <2>1. prog = "backup" /\ content[db_path] \in Contents
    BY <1>1, <1>9 DEF OpenDb, TypeOK, Steps, SavingInv
  <2> QED
    BY <1>1, <2>1, <1>9, HeldThings DEF OpenDb, Continue, Finish, CodeOf, Fault, TypeOK, Steps
<1>10. ASSUME FlushAll PROVE TypeOK'
  BY <1>1, <1>10 DEF FlushAll, Continue, Finish, CodeOf, Fault, TypeOK, Steps
<1>11. ASSUME OpenEngine PROVE TypeOK'
  BY <1>1, <1>11, HeldThings
  DEF OpenEngine, Continue, Finish, CodeOf, Fault, AfterEngine, KeepOldData, TypeOK, Steps
<1>12. ASSUME CreateNewBackup PROVE TypeOK'
  <2>1. prog = "backup" /\ db_path \in Dirs /\ Len(promised) < MaxBackups /\ MaxBackups \in Nat
    BY <1>1, <1>12, BackupAssumption DEF CreateNewBackup, TypeOK, Steps, SavingInv, Backing
  <2>2. /\ Append(backups, content[db_path]) \in Seq(Contents) /\ Append(promised, found) \in Seq(Contents)
        /\ Len(Append(promised, found)) <= MaxBackups
    BY <1>1, <2>1 DEF TypeOK
  <2> QED
    <3>1. backups' \in Seq(Contents) /\ promised' \in Seq(Contents) /\ Len(promised') <= MaxBackups
      BY <1>1, <2>2, <1>12 DEF CreateNewBackup, TypeOK
    <3>2. pc' = "release" /\ exit' \in {0, 1} /\ faults' \in 0 .. MaxFaults /\ held' = held /\ found' = found
      BY <1>1, <1>12 DEF CreateNewBackup, Finish, CodeOf, Fault, TypeOK
    <3> QED
      BY <1>1, <2>1, <3>1, <3>2, <1>12 DEF CreateNewBackup, TypeOK, Steps
<1>13. ASSUME BeginRestore PROVE TypeOK'
  <2>1. prog = "load"
    BY <1>1, <1>13, CallOf DEF BeginRestore
  <2>2. whole' \in [Dirs -> BOOLEAN] /\ pc' \in {"restoring", "release"} /\ exit' \in {0, 1}
    BY <1>1, <1>13 DEF BeginRestore, Continue, Finish, CodeOf, TypeOK
  <2> QED
    BY <1>1, <2>1, <2>2, <1>13 DEF BeginRestore, TypeOK, Steps
<1>14. ASSUME EndRestore PROVE TypeOK'
  <2>1. prog = "load" /\ backups \in Seq(Contents) /\ db_path \in Dirs
    <3>1. pc = "restoring"
      BY <1>14 DEF EndRestore
    <3>2. prog = "load" /\ backups \in Seq(Contents)
      BY <1>1, <3>1 DEF TypeOK, Steps
    <3> QED
      BY <1>1, <3>2 DEF SavingInv
  <2>2. id \in DOMAIN backups /\ backups[id] \in Contents
    BY <1>1, <2>1, <1>14 DEF EndRestore, LoadingInv
  <2>3. content' \in [Dirs -> Contents] /\ whole' \in [Dirs -> BOOLEAN] /\ names' \in [Dirs -> SUBSET Families]
    <3>1. \/ /\ content' = [content EXCEPT ![db_path] = backups[id]]
             /\ whole' = [whole EXCEPT ![db_path] = TRUE]
             /\ \E kept \in {names[db_path], {}} : names' = [names EXCEPT ![db_path] = kept]
          \/ content' = content /\ whole' = whole /\ names' = names
      BY <1>14 DEF EndRestore, BackupToRestore
    <3>2. \A kept \in {names[db_path], {}} : kept \in SUBSET Families
      BY <1>1, <2>1 DEF TypeOK
    <3> QED
      BY <1>1, <2>1, <2>2, <3>1, <3>2 DEF TypeOK
  <2>4. pc' \in {"list", "release"} /\ exit' \in {0, 1} /\ faults' \in 0 .. MaxFaults
    BY <1>1, <1>14 DEF EndRestore, Continue, Finish, CodeOf, Fault, TypeOK
  <2> QED
    BY <1>1, <2>1, <2>3, <2>4, <1>14 DEF EndRestore, TypeOK, Steps
<1>15. ASSUME FindUsertable PROVE TypeOK'
  BY <1>1, <1>15 DEF FindUsertable, Continue, Finish, CodeOf, Fault, TypeOK, Steps
<1>16. ASSUME PrintFamilies PROVE TypeOK'
  BY <1>1, <1>16 DEF PrintFamilies, Finish, CodeOf, Fault, TypeOK, Steps
<1>17. ASSUME Reopen PROVE TypeOK'
  BY <1>1, <1>17, HeldThings DEF Reopen, Continue, Finish, CodeOf, Fault, TypeOK, Steps
<1>18. ASSUME Release PROVE TypeOK'
  BY <1>1, <1>18 DEF Release, TypeOK, Steps
<1>19. ASSUME Kill PROVE TypeOK'
  BY <1>1, <1>19 DEF Kill, Fault, TypeOK, Steps
<1>20. ASSUME UNCHANGED vars PROVE TypeOK'
  BY <1>1, <1>20 DEF vars, TypeOK, Steps
<1> QED
  BY <1>2, <1>3, <1>4, <1>5, <1>6, <1>7, <1>8, <1>9, <1>10, <1>11, <1>12, <1>13,
     <1>14, <1>15, <1>16, <1>17, <1>18, <1>19, <1>20
  DEF Next, Ycsb, Program

\* What is held follows the steps of the programs.
LEMMA HoldingStep == IInv /\ [Next]_vars => HoldingInv'
<1> SUFFICES ASSUME IInv, [Next]_vars PROVE HoldingInv'
  OBVIOUS
<1> USE DEF disks, environment, arguments, process, history
<1>1. TypeOK /\ HoldingInv
  BY DEF IInv
<1>2. ASSUME NEW d \in Dirs, RunOpens(d) PROVE HoldingInv'
  BY <1>1, <1>2 DEF RunOpens, HoldingInv, TypeOK, Steps
<1>3. ASSUME NEW t \in Tables, RunWrites(t) PROVE HoldingInv'
  BY <1>1, <1>3 DEF RunWrites, HoldingInv, TypeOK, Steps
<1>4. ASSUME RunEnds PROVE HoldingInv'
  BY <1>1, <1>4 DEF RunEnds, HoldingInv, TypeOK, Steps
<1>5. ASSUME RunKilled PROVE HoldingInv'
  BY <1>1, <1>5 DEF RunKilled, HoldingInv, TypeOK, Steps
<1>6. ASSUME NEW d \in Dirs, StartBackup(d) PROVE HoldingInv'
  BY <1>1, <1>6 DEF StartBackup, Begin, HoldingInv, TypeOK, Steps
<1>7. ASSUME NEW d \in Dirs, NEW i \in 0 .. MaxBackups + 1, StartLoad(d, i) PROVE HoldingInv'
  BY <1>1, <1>7 DEF StartLoad, Begin, HoldingInv, TypeOK, Steps
<1>8. ASSUME StartTest PROVE HoldingInv'
  BY <1>1, <1>8 DEF StartTest, Begin, HoldingInv, TypeOK, Steps
<1>9. ASSUME OpenDb PROVE HoldingInv'
  BY <1>1, <1>9 DEF OpenDb, Continue, Finish, CodeOf, Fault, HoldingInv, TypeOK, Steps
<1>10. ASSUME FlushAll PROVE HoldingInv'
  BY <1>1, <1>10 DEF FlushAll, Continue, Finish, CodeOf, Fault, HoldingInv, TypeOK, Steps
<1>11. ASSUME OpenEngine PROVE HoldingInv'
  BY <1>1, <1>11
  DEF OpenEngine, Continue, Finish, CodeOf, Fault, AfterEngine, KeepOldData, HoldingInv, TypeOK, Steps
<1>12. ASSUME CreateNewBackup PROVE HoldingInv'
  BY <1>1, <1>12 DEF CreateNewBackup, Finish, CodeOf, Fault, HoldingInv, TypeOK, Steps
<1>13. ASSUME BeginRestore PROVE HoldingInv'
  BY <1>1, <1>13 DEF BeginRestore, Continue, Finish, CodeOf, HoldingInv, TypeOK, Steps
<1>14. ASSUME EndRestore PROVE HoldingInv'
  BY <1>1, <1>14
  DEF EndRestore, Continue, Finish, CodeOf, Fault, BackupToRestore, HoldingInv, TypeOK, Steps
<1>15. ASSUME FindUsertable PROVE HoldingInv'
  BY <1>1, <1>15 DEF FindUsertable, Continue, Finish, CodeOf, Fault, HoldingInv, TypeOK, Steps
<1>16. ASSUME PrintFamilies PROVE HoldingInv'
  BY <1>1, <1>16 DEF PrintFamilies, Finish, CodeOf, Fault, HoldingInv, TypeOK, Steps
<1>17. ASSUME Reopen PROVE HoldingInv'
  BY <1>1, <1>17 DEF Reopen, Continue, Finish, CodeOf, Fault, HoldingInv, TypeOK, Steps
<1>18. ASSUME Release PROVE HoldingInv'
  BY <1>1, <1>18, HeldThings DEF Release, HoldingInv, TypeOK, Steps, Deleted
<1>19. ASSUME Kill PROVE HoldingInv'
  BY <1>1, <1>19 DEF Kill, Fault, HoldingInv, TypeOK, Steps
<1>20. ASSUME UNCHANGED vars PROVE HoldingInv'
  BY <1>1, <1>20 DEF vars, HoldingInv, TypeOK, Steps
<1> QED
  BY <1>2, <1>3, <1>4, <1>5, <1>6, <1>7, <1>8, <1>9, <1>10, <1>11, <1>12, <1>13,
     <1>14, <1>15, <1>16, <1>17, <1>18, <1>19, <1>20
  DEF Next, Ycsb, Program

\* Backups are only added, each with what its program found.
LEMMA BackupsStep == IInv /\ [Next]_vars => BackupsInv'
<1> SUFFICES ASSUME IInv, [Next]_vars PROVE BackupsInv'
  OBVIOUS
<1> USE DEF disks, environment, arguments, process, history
<1>1. TypeOK /\ BackupsInv /\ HoldingInv /\ SavingInv
  BY DEF IInv
<1>2. ASSUME NEW d \in Dirs, RunOpens(d) PROVE BackupsInv'
  BY <1>1, <1>2 DEF RunOpens, HoldingInv, BackupsInv, SavingInv, TypeOK, Steps
<1>3. ASSUME NEW t \in Tables, RunWrites(t) PROVE BackupsInv'
  BY <1>1, <1>3 DEF RunWrites, HoldingInv, BackupsInv, SavingInv, TypeOK, Steps
<1>4. ASSUME RunEnds PROVE BackupsInv'
  BY <1>1, <1>4 DEF RunEnds, HoldingInv, BackupsInv, SavingInv, TypeOK, Steps
<1>5. ASSUME RunKilled PROVE BackupsInv'
  BY <1>1, <1>5 DEF RunKilled, HoldingInv, BackupsInv, SavingInv, TypeOK, Steps
<1>6. ASSUME NEW d \in Dirs, StartBackup(d) PROVE BackupsInv'
  BY <1>1, <1>6 DEF StartBackup, Begin, HoldingInv, BackupsInv, SavingInv, TypeOK, Steps
<1>7. ASSUME NEW d \in Dirs, NEW i \in 0 .. MaxBackups + 1, StartLoad(d, i) PROVE BackupsInv'
  BY <1>1, <1>7 DEF StartLoad, Begin, HoldingInv, BackupsInv, SavingInv, TypeOK, Steps
<1>8. ASSUME StartTest PROVE BackupsInv'
  BY <1>1, <1>8 DEF StartTest, Begin, HoldingInv, BackupsInv, SavingInv, TypeOK, Steps
<1>9. ASSUME OpenDb PROVE BackupsInv'
  BY <1>1, <1>9
  DEF OpenDb, Continue, Finish, CodeOf, Fault, HoldingInv, BackupsInv, SavingInv, TypeOK, Steps
<1>10. ASSUME FlushAll PROVE BackupsInv'
  BY <1>1, <1>10
  DEF FlushAll, Continue, Finish, CodeOf, Fault, HoldingInv, BackupsInv, SavingInv, TypeOK, Steps
<1>11. ASSUME OpenEngine PROVE BackupsInv'
  BY <1>1, <1>11
  DEF OpenEngine, Continue, Finish, CodeOf, Fault, AfterEngine, KeepOldData, HoldingInv, BackupsInv, SavingInv, TypeOK, Steps
<1>12. ASSUME CreateNewBackup PROVE BackupsInv'
  <2>1. CASE backups' = Append(backups, content[db_path]) /\ promised' = Append(promised, found)
    <3>1. prog = "backup" /\ "db" \in held
      BY <1>1, <1>12 DEF CreateNewBackup, HoldingInv, TypeOK, Steps
    <3>2. content[db_path] = found /\ DOMAIN found = ColumnFamilies /\ backups = promised
      BY <1>1, <3>1 DEF SavingInv, BackupsInv
    <3>3. backups \in Seq(Contents) /\ found \in Contents
      BY <1>1 DEF TypeOK
    <3>4. /\ DOMAIN backups' = 1 .. Len(backups) + 1
          /\ \A i \in 1 .. Len(backups) : backups'[i] = backups[i]
          /\ backups'[Len(backups) + 1] = found /\ backups' # <<>>
      BY <2>1, <3>2, <3>3
    <3>5. \A i \in DOMAIN backups' : DOMAIN backups'[i] = ColumnFamilies
      BY <1>1, <3>2, <3>3, <3>4 DEF BackupsInv
    <3>6. backups' = promised' /\ whole' = whole
      BY <2>1, <3>2, <1>12 DEF CreateNewBackup
    <3> QED
      BY <3>4, <3>5, <3>6 DEF BackupsInv
  <2>2. CASE UNCHANGED <<backups, history>>
    BY <1>1, <2>2, <1>12 DEF CreateNewBackup, BackupsInv
  <2> QED
    BY <2>1, <2>2, <1>12 DEF CreateNewBackup
<1>13. ASSUME BeginRestore PROVE BackupsInv'
  BY <1>1, <1>13
  DEF BeginRestore, Continue, Finish, CodeOf, HoldingInv, BackupsInv, SavingInv, TypeOK, Steps
<1>14. ASSUME EndRestore PROVE BackupsInv'
  BY <1>1, <1>14
  DEF EndRestore, Continue, Finish, CodeOf, Fault, BackupToRestore, HoldingInv, BackupsInv, SavingInv, TypeOK, Steps
<1>15. ASSUME FindUsertable PROVE BackupsInv'
  BY <1>1, <1>15
  DEF FindUsertable, Continue, Finish, CodeOf, Fault, HoldingInv, BackupsInv, SavingInv, TypeOK, Steps
<1>16. ASSUME PrintFamilies PROVE BackupsInv'
  BY <1>1, <1>16
  DEF PrintFamilies, Finish, CodeOf, Fault, HoldingInv, BackupsInv, SavingInv, TypeOK, Steps
<1>17. ASSUME Reopen PROVE BackupsInv'
  BY <1>1, <1>17
  DEF Reopen, Continue, Finish, CodeOf, Fault, HoldingInv, BackupsInv, SavingInv, TypeOK, Steps
<1>18. ASSUME Release PROVE BackupsInv'
  BY <1>1, <1>18 DEF Release, HoldingInv, BackupsInv, SavingInv, TypeOK, Steps
<1>19. ASSUME Kill PROVE BackupsInv'
  BY <1>1, <1>19 DEF Kill, Fault, HoldingInv, BackupsInv, SavingInv, TypeOK, Steps
<1>20. ASSUME UNCHANGED vars PROVE BackupsInv'
  BY <1>1, <1>20 DEF vars, HoldingInv, BackupsInv, SavingInv, TypeOK, Steps
<1> QED
  BY <1>2, <1>3, <1>4, <1>5, <1>6, <1>7, <1>8, <1>9, <1>10, <1>11, <1>12, <1>13,
     <1>14, <1>15, <1>16, <1>17, <1>18, <1>19, <1>20
  DEF Next, Ycsb, Program

\* The lock of the directory keeps runs away from what backup_rocksdb saves.
LEMMA SavingStep == IInv /\ [Next]_vars => SavingInv'
<1> SUFFICES ASSUME IInv, [Next]_vars PROVE SavingInv'
  OBVIOUS
<1> USE DEF disks, environment, arguments, process, history
<1>1. TypeOK /\ BackupsInv /\ HoldingInv /\ SavingInv
  BY DEF IInv
<1>2. ASSUME NEW d \in Dirs, RunOpens(d) PROVE SavingInv'
  BY <1>1, <1>2 DEF RunOpens, HoldingInv, SavingInv, TypeOK, Steps, Backing, Locked
<1>3. ASSUME NEW t \in Tables, RunWrites(t) PROVE SavingInv'
  BY <1>1, <1>3 DEF RunWrites, HoldingInv, SavingInv, TypeOK, Steps, Backing, Written
<1>4. ASSUME RunEnds PROVE SavingInv'
  BY <1>1, <1>4, BackupAssumption DEF RunEnds, HoldingInv, SavingInv, TypeOK, Steps, Backing
<1>5. ASSUME RunKilled PROVE SavingInv'
  BY <1>1, <1>5, BackupAssumption DEF RunKilled, HoldingInv, SavingInv, TypeOK, Steps, Backing
<1>6. ASSUME NEW d \in Dirs, StartBackup(d) PROVE SavingInv'
  BY <1>1, <1>6 DEF StartBackup, Begin, HoldingInv, SavingInv, TypeOK, Steps, Backing
<1>7. ASSUME NEW d \in Dirs, NEW i \in 0 .. MaxBackups + 1, StartLoad(d, i) PROVE SavingInv'
  BY <1>1, <1>7 DEF StartLoad, Begin, HoldingInv, SavingInv, TypeOK, Steps, Backing
<1>8. ASSUME StartTest PROVE SavingInv'
  BY <1>1, <1>8 DEF StartTest, Begin, HoldingInv, SavingInv, TypeOK, Steps, Backing
<1>9. ASSUME OpenDb PROVE SavingInv'
  BY <1>1, <1>9
  DEF OpenDb, Continue, Finish, CodeOf, Fault, HoldingInv, SavingInv, TypeOK, Steps, Backing, Locked
<1>10. ASSUME FlushAll PROVE SavingInv'
  BY <1>1, <1>10
  DEF FlushAll, Continue, Finish, CodeOf, Fault, HoldingInv, SavingInv, TypeOK, Steps, Backing
<1>11. ASSUME OpenEngine PROVE SavingInv'
  BY <1>1, <1>11
  DEF OpenEngine, Continue, Finish, CodeOf, Fault, AfterEngine, KeepOldData, HoldingInv, SavingInv, TypeOK, Steps, Backing
<1>12. ASSUME CreateNewBackup PROVE SavingInv'
  BY <1>1, <1>12
  DEF CreateNewBackup, Finish, CodeOf, Fault, HoldingInv, SavingInv, TypeOK, Steps, Backing
<1>13. ASSUME BeginRestore PROVE SavingInv'
  BY <1>1, <1>13
  DEF BeginRestore, Continue, Finish, CodeOf, HoldingInv, SavingInv, TypeOK, Steps, Backing
<1>14. ASSUME EndRestore PROVE SavingInv'
  <2>1. prog = "load" /\ db_path \in Dirs
    BY <1>1, <1>14 DEF EndRestore, TypeOK, Steps, SavingInv
  <2>2. prog' = "load" /\ db_path' = db_path
    BY <2>1, <1>14 DEF EndRestore
  <2> QED
    BY <2>1, <2>2 DEF SavingInv
<1>15. ASSUME FindUsertable PROVE SavingInv'
  BY <1>1, <1>15
  DEF FindUsertable, Continue, Finish, CodeOf, Fault, HoldingInv, SavingInv, TypeOK, Steps, Backing
<1>16. ASSUME PrintFamilies PROVE SavingInv'
  BY <1>1, <1>16
  DEF PrintFamilies, Finish, CodeOf, Fault, HoldingInv, SavingInv, TypeOK, Steps, Backing
<1>17. ASSUME Reopen PROVE SavingInv'
  BY <1>1, <1>17
  DEF Reopen, Continue, Finish, CodeOf, Fault, HoldingInv, SavingInv, TypeOK, Steps, Backing
<1>18. ASSUME Release PROVE SavingInv'
  BY <1>1, <1>18 DEF Release, HoldingInv, SavingInv, TypeOK, Steps, Backing
<1>19. ASSUME Kill PROVE SavingInv'
  BY <1>1, <1>19 DEF Kill, Fault, HoldingInv, SavingInv, TypeOK, Steps, Backing
<1>20. ASSUME UNCHANGED vars PROVE SavingInv'
  BY <1>1, <1>20 DEF vars, HoldingInv, SavingInv, TypeOK, Steps, Backing
<1> QED
  BY <1>2, <1>3, <1>4, <1>5, <1>6, <1>7, <1>8, <1>9, <1>10, <1>11, <1>12, <1>13,
     <1>14, <1>15, <1>16, <1>17, <1>18, <1>19, <1>20
  DEF Next, Ycsb, Program

\* A backup_rocksdb that gets to its end has made its backup, or has failed.
LEMMA SuccessStep == IInv /\ [Next]_vars => SuccessIsSaved'
<1> SUFFICES ASSUME IInv, [Next]_vars PROVE SuccessIsSaved'
  OBVIOUS
<1> USE DEF disks, environment, arguments, process, history
<1>1. TypeOK /\ BackupsInv /\ HoldingInv /\ SavingInv /\ SuccessIsSaved
  BY DEF IInv
<1>2. ASSUME NEW d \in Dirs, RunOpens(d) PROVE SuccessIsSaved'
  BY <1>1, <1>2
  DEF RunOpens, HoldingInv, BackupsInv, SavingInv, SuccessIsSaved, TypeOK, Steps, Backing, Locked
<1>3. ASSUME NEW t \in Tables, RunWrites(t) PROVE SuccessIsSaved'
  BY <1>1, <1>3
  DEF RunWrites, HoldingInv, BackupsInv, SavingInv, SuccessIsSaved, TypeOK, Steps, Backing
<1>4. ASSUME RunEnds PROVE SuccessIsSaved'
  BY <1>1, <1>4
  DEF RunEnds, HoldingInv, BackupsInv, SavingInv, SuccessIsSaved, TypeOK, Steps, Backing
<1>5. ASSUME RunKilled PROVE SuccessIsSaved'
  BY <1>1, <1>5
  DEF RunKilled, HoldingInv, BackupsInv, SavingInv, SuccessIsSaved, TypeOK, Steps, Backing
<1>6. ASSUME NEW d \in Dirs, StartBackup(d) PROVE SuccessIsSaved'
  BY <1>1, <1>6
  DEF StartBackup, Begin, HoldingInv, BackupsInv, SavingInv, SuccessIsSaved, TypeOK, Steps, Backing
<1>7. ASSUME NEW d \in Dirs, NEW i \in 0 .. MaxBackups + 1, StartLoad(d, i) PROVE SuccessIsSaved'
  BY <1>1, <1>7
  DEF StartLoad, Begin, HoldingInv, BackupsInv, SavingInv, SuccessIsSaved, TypeOK, Steps, Backing
<1>8. ASSUME StartTest PROVE SuccessIsSaved'
  BY <1>1, <1>8
  DEF StartTest, Begin, HoldingInv, BackupsInv, SavingInv, SuccessIsSaved, TypeOK, Steps, Backing
<1>9. ASSUME OpenDb PROVE SuccessIsSaved'
  BY <1>1, <1>9
  DEF OpenDb, Continue, Finish, CodeOf, Fault, HoldingInv, BackupsInv, SavingInv, SuccessIsSaved, TypeOK, Steps, Backing
<1>10. ASSUME FlushAll PROVE SuccessIsSaved'
  BY <1>1, <1>10
  DEF FlushAll, Continue, Finish, CodeOf, Fault, HoldingInv, BackupsInv, SavingInv, SuccessIsSaved, TypeOK, Steps, Backing
<1>11. ASSUME OpenEngine PROVE SuccessIsSaved'
  BY <1>1, <1>11
  DEF OpenEngine, Continue, Finish, CodeOf, Fault, AfterEngine, KeepOldData, HoldingInv, BackupsInv, SavingInv, SuccessIsSaved, TypeOK, Steps, Backing
<1>12. ASSUME CreateNewBackup PROVE SuccessIsSaved'
  BY <1>1, <1>12
  DEF CreateNewBackup, Finish, CodeOf, Fault, HoldingInv, BackupsInv, SavingInv, SuccessIsSaved, TypeOK, Steps, Backing
<1>13. ASSUME BeginRestore PROVE SuccessIsSaved'
  BY <1>1, <1>13
  DEF BeginRestore, Continue, Finish, CodeOf, HoldingInv, BackupsInv, SavingInv, SuccessIsSaved, TypeOK, Steps, Backing
<1>14. ASSUME EndRestore PROVE SuccessIsSaved'
  BY <1>1, <1>14
  DEF EndRestore, Continue, Finish, CodeOf, Fault, BackupToRestore, HoldingInv, BackupsInv, SavingInv, SuccessIsSaved, TypeOK, Steps, Backing
<1>15. ASSUME FindUsertable PROVE SuccessIsSaved'
  BY <1>1, <1>15
  DEF FindUsertable, Continue, Finish, CodeOf, Fault, HoldingInv, BackupsInv, SavingInv, SuccessIsSaved, TypeOK, Steps, Backing
<1>16. ASSUME PrintFamilies PROVE SuccessIsSaved'
  BY <1>1, <1>16
  DEF PrintFamilies, Finish, CodeOf, Fault, HoldingInv, BackupsInv, SavingInv, SuccessIsSaved, TypeOK, Steps, Backing
<1>17. ASSUME Reopen PROVE SuccessIsSaved'
  BY <1>1, <1>17
  DEF Reopen, Continue, Finish, CodeOf, Fault, HoldingInv, BackupsInv, SavingInv, SuccessIsSaved, TypeOK, Steps, Backing
<1>18. ASSUME Release PROVE SuccessIsSaved'
  BY <1>1, <1>18
  DEF Release, HoldingInv, BackupsInv, SavingInv, SuccessIsSaved, TypeOK, Steps, Backing
<1>19. ASSUME Kill PROVE SuccessIsSaved'
  BY <1>1, <1>19
  DEF Kill, Fault, HoldingInv, BackupsInv, SavingInv, SuccessIsSaved, TypeOK, Steps, Backing
<1>20. ASSUME UNCHANGED vars PROVE SuccessIsSaved'
  BY <1>1, <1>20
  DEF vars, HoldingInv, BackupsInv, SavingInv, SuccessIsSaved, TypeOK, Steps, Backing
<1> QED
  BY <1>2, <1>3, <1>4, <1>5, <1>6, <1>7, <1>8, <1>9, <1>10, <1>11, <1>12, <1>13,
     <1>14, <1>15, <1>16, <1>17, <1>18, <1>19, <1>20
  DEF Next, Ycsb, Program

\* A load_rocksdb comes to look at its directory only when it has restored it.
LEMMA LoadingStep == IInv /\ [Next]_vars => LoadingInv'
<1> SUFFICES ASSUME IInv, [Next]_vars PROVE LoadingInv'
  OBVIOUS
<1> USE DEF disks, environment, arguments, process, history
<1>1. TypeOK /\ BackupsInv /\ HoldingInv /\ SavingInv /\ LoadingInv
  BY DEF IInv
<1>2. ASSUME NEW d \in Dirs, RunOpens(d) PROVE LoadingInv'
  BY <1>1, <1>2 DEF RunOpens, BackupsInv, SavingInv, LoadingInv, TypeOK, Steps, Restoring
<1>3. ASSUME NEW t \in Tables, RunWrites(t) PROVE LoadingInv'
  BY <1>1, <1>3 DEF RunWrites, BackupsInv, SavingInv, LoadingInv, TypeOK, Steps
<1>4. ASSUME RunEnds PROVE LoadingInv'
  BY <1>1, <1>4, BackupAssumption DEF RunEnds, BackupsInv, SavingInv, LoadingInv, TypeOK, Steps
<1>5. ASSUME RunKilled PROVE LoadingInv'
  BY <1>1, <1>5, BackupAssumption
  DEF RunKilled, BackupsInv, SavingInv, LoadingInv, TypeOK, Steps
<1>6. ASSUME NEW d \in Dirs, StartBackup(d) PROVE LoadingInv'
  BY <1>1, <1>6 DEF StartBackup, Begin, BackupsInv, SavingInv, LoadingInv, TypeOK, Steps
<1>7. ASSUME NEW d \in Dirs, NEW i \in 0 .. MaxBackups + 1, StartLoad(d, i) PROVE LoadingInv'
  BY <1>1, <1>7 DEF StartLoad, Begin, BackupsInv, SavingInv, LoadingInv, TypeOK, Steps
<1>8. ASSUME StartTest PROVE LoadingInv'
  BY <1>1, <1>8 DEF StartTest, Begin, BackupsInv, SavingInv, LoadingInv, TypeOK, Steps
<1>9. ASSUME OpenDb PROVE LoadingInv'
  BY <1>1, <1>9
  DEF OpenDb, Continue, Finish, CodeOf, Fault, BackupsInv, SavingInv, LoadingInv, TypeOK, Steps
<1>10. ASSUME FlushAll PROVE LoadingInv'
  BY <1>1, <1>10
  DEF FlushAll, Continue, Finish, CodeOf, Fault, BackupsInv, SavingInv, LoadingInv, TypeOK, Steps
<1>11. ASSUME OpenEngine PROVE LoadingInv'
  BY <1>1, <1>11
  DEF OpenEngine, Continue, Finish, CodeOf, Fault, AfterEngine, KeepOldData, BackupsInv, SavingInv, LoadingInv, TypeOK, Steps
<1>12. ASSUME CreateNewBackup PROVE LoadingInv'
  BY <1>1, <1>12
  DEF CreateNewBackup, Finish, CodeOf, Fault, BackupsInv, SavingInv, LoadingInv, TypeOK, Steps
<1>13. ASSUME BeginRestore PROVE LoadingInv'
  BY <1>1, <1>13
  DEF BeginRestore, Continue, Finish, CodeOf, BackupsInv, SavingInv, LoadingInv, TypeOK, Steps
<1>14. ASSUME EndRestore PROVE LoadingInv'
  BY <1>1, <1>14
  DEF EndRestore, Continue, Finish, CodeOf, Fault, BackupToRestore, BackupsInv, SavingInv, LoadingInv, TypeOK, Steps
<1>15. ASSUME FindUsertable PROVE LoadingInv'
  BY <1>1, <1>15
  DEF FindUsertable, Continue, Finish, CodeOf, Fault, BackupsInv, SavingInv, LoadingInv, TypeOK, Steps
<1>16. ASSUME PrintFamilies PROVE LoadingInv'
  BY <1>1, <1>16
  DEF PrintFamilies, Finish, CodeOf, Fault, BackupsInv, SavingInv, LoadingInv, TypeOK, Steps
<1>17. ASSUME Reopen PROVE LoadingInv'
  <2>1. prog = "load" /\ pc = "reopen"
    BY <1>1, <1>17 DEF Reopen, TypeOK, Steps
  <2>2. ycsb # db_path /\ id \in DOMAIN backups /\ whole[db_path] /\ content[db_path] = backups[id]
    BY <1>1, <2>1 DEF LoadingInv
  <2>3. pc' = "release" /\ UNCHANGED <<ycsb, db_path, id, backups, whole, content>>
    BY <1>17 DEF Reopen, Finish
  <2> QED
    BY <2>2, <2>3 DEF LoadingInv
<1>18. ASSUME Release PROVE LoadingInv'
  BY <1>1, <1>18 DEF Release, BackupsInv, SavingInv, LoadingInv, TypeOK, Steps
<1>19. ASSUME Kill PROVE LoadingInv'
  BY <1>1, <1>19 DEF Kill, Fault, BackupsInv, SavingInv, LoadingInv, TypeOK, Steps
<1>20. ASSUME UNCHANGED vars PROVE LoadingInv'
  BY <1>1, <1>20 DEF vars, BackupsInv, SavingInv, LoadingInv, TypeOK, Steps
<1> QED
  BY <1>2, <1>3, <1>4, <1>5, <1>6, <1>7, <1>8, <1>9, <1>10, <1>11, <1>12, <1>13,
     <1>14, <1>15, <1>16, <1>17, <1>18, <1>19, <1>20
  DEF Next, Ycsb, Program

\* No step removes or changes a backup.
LEMMA KeptStep ==
  IInv /\ [Next]_vars => \A i \in DOMAIN backups : i \in DOMAIN backups' /\ backups'[i] = backups[i]
<1> SUFFICES ASSUME IInv, [Next]_vars, NEW i \in DOMAIN backups
             PROVE  i \in DOMAIN backups' /\ backups'[i] = backups[i]
  OBVIOUS
<1>1. backups \in Seq(Contents)
  BY DEF IInv, TypeOK
<1>2. CASE OpenEngine
  BY <1>1, <1>2 DEF OpenEngine, KeepOldData
<1>3. CASE CreateNewBackup
  <2>1. CASE backups' = Append(backups, content[db_path])
    BY <1>1, <2>1
  <2> QED
    BY <1>3, <2>1 DEF CreateNewBackup
<1>4. CASE ~(OpenEngine \/ CreateNewBackup)
  <2>1. backups' = backups
    BY <1>4 DEF Next, Ycsb, Program, RunOpens, RunWrites, RunEnds, RunKilled, StartBackup, StartLoad,
      StartTest, Begin, OpenDb, FlushAll, BeginRestore, EndRestore, FindUsertable, PrintFamilies,
      Reopen, Release, Kill, vars
  <2> QED
    BY <2>1
<1> QED
  BY <1>2, <1>3, <1>4

-----------------------------------------------------------------------------
(* The theorems                                                            *)

LEMMA Initial == Init => IInv
<1> SUFFICES ASSUME Init PROVE IInv
  OBVIOUS
<1>1. backups = <<>> /\ promised = <<>> /\ found \in Contents /\ Len(promised) = 0
  BY NoDbIsContent DEF Init
<1>2. TypeOK
  BY <1>1, BackupAssumption, NoDbIsContent DEF Init, TypeOK, Steps
<1> QED
  BY <1>1, <1>2 DEF Init, IInv, HoldingInv, BackupsInv, SavingInv, SuccessIsSaved, LoadingInv

LEMMA Inductive == IInv /\ [Next]_vars => IInv'
BY TypeStep, HoldingStep, BackupsStep, SavingStep, SuccessStep, LoadingStep DEF IInv

LEMMA Invariant == Spec => []IInv
BY Initial, Inductive, PTL DEF Spec

\* Directories, backups and programs keep their types, and each program does its
\* own steps only (TypeOK).
THEOREM TypeCorrect == Spec => []TypeOK
<1>1. IInv => TypeOK
  BY DEF IInv
<1> QED
  BY <1>1, Invariant, PTL

\* What the exit code of backup_rocksdb says of its backup is so (SuccessIsSaved).
THEOREM SuccessIsSavedAlways == Spec => []SuccessIsSaved
<1>1. IInv => SuccessIsSaved
  BY DEF IInv
<1> QED
  BY <1>1, Invariant, PTL

\* A load_rocksdb that ends with 0 has brought back what the program that made the
\* backup had found (RestoredAsSaved).
THEOREM RestoredAsSavedAlways == Spec => []RestoredAsSaved
<1>1. IInv => RestoredAsSaved
  BY DEF IInv, LoadingInv, BackupsInv, RestoredAsSaved
<1> QED
  BY <1>1, Invariant, PTL

\* A restored directory has the column families that both programs ask for
\* (FamiliesFound).
THEOREM FamiliesFoundAlways == Spec => []FamiliesFound
<1>1. IInv => FamiliesFound
  BY DEF IInv, LoadingInv, BackupsInv, FamiliesFound, ColumnFamilies
<1> QED
  BY <1>1, Invariant, PTL

\* A directory that a restore has broken never is without a backup (Recoverable).
THEOREM RecoverableAlways == Spec => []Recoverable
<1>1. IInv => Recoverable
  BY DEF IInv, BackupsInv, Recoverable
<1> QED
  BY <1>1, Invariant, PTL

\* At every return of main() all that it held is deleted, in order (Released).
THEOREM ReleasedAlways == Spec => []Released
<1>1. IInv => Released
  BY DEF IInv, HoldingInv, Released
<1> QED
  BY <1>1, Invariant, PTL

\* No step of a program or of a run, no failure and no kill costs a backup
\* (BackupsKept).
THEOREM BackupsKeptAlways == Spec => BackupsKept
BY KeptStep, Invariant, PTL DEF Spec, BackupsKept

-----------------------------------------------------------------------------
(* The script of an experiment                                             *)

Places == {"load", "load-reference", "count", "extend", "key-sizes", "set-run", "run", "reference",
           "dump", "clean-run", "no-histogram", "average", "load-average", "original", "avg-run",
           "drop-copy", "ended"}

ScriptTyped ==
  /\ file \in Files /\ shell \in Files /\ opscount \in {"given", "extend"}
  /\ histogram \in Iterations /\ iteration \in Iterations
  /\ db \in [Databases -> SUBSET Marks]
  /\ average \in SUBSET Marks /\ at \in Places
  /\ starts \in 0 .. MaxStarts /\ failures \in 0 .. MaxFailures /\ interrupted \in BOOLEAN
  /\ interrupted => failures > 0
  /\ iteration = ExitAt => at \in {"extend", "key-sizes", "ended"}
  /\ iteration = 0 => at \in {"load", "load-reference", "count", "ended"}

\* Between SetRun and the next iteration the file has the parameters of a run, first
\* with the line of the histogram, then without.
WithHistogram == {"run", "reference", "dump", "clean-run", "no-histogram"}
WithoutHistogram == {"average", "load-average", "original", "avg-run", "drop-copy"}

FileInv ==
  /\ at \in {"extend", "key-sizes"} => shell = file /\ file.params = "extend"
  /\ at \in WithHistogram \cup WithoutHistogram =>
       /\ shell.params = file.params /\ shell.operationcount = file.operationcount
       /\ file.params = "postextend" /\ file.operationcount = opscount
  /\ at \in WithHistogram => file.histogram
  /\ at \in WithHistogram \cup {"set-run"} => histogram \in {0, iteration}
  /\ at \in WithoutHistogram => ~file.histogram
  /\ file.histogram => at \in WithHistogram \/ interrupted
  /\ at = "load-average" => file.fieldlength = "average"
  /\ file.fieldlength = "average" => at \in {"load-average", "original"} \/ interrupted

\* In a first start the count that the file was given with is put back.
FirstInv ==
  /\ starts = 0 => at = "ended" /\ file.operationcount = "given"
  /\ starts <= 1 => opscount = "given"
  /\ starts = 1 /\ at \notin {"extend", "key-sizes", "set-run", "ended"} => file.operationcount = "given"

\* The places between the histogram and the run on the copy.
UpToDump == {"set-run", "run", "reference", "dump"}

\* What has been done to each database: the one under test is there when the histogram
\* has records.
DbInv ==
  /\ at = "load" => db["ycsb"] = {} /\ db["ycsb_unchange"] = {}
  /\ at = "load-reference" => db["ycsb_unchange"] = {}
  /\ at = "load-average" => db["copy"] = {}
  /\ at \in UpToDump /\ histogram # 0 => db["ycsb"] # {}
  /\ at = "clean-run" /\ histogram # 0 => db["copy"] = db["ycsb"]
  /\ at \in {"original", "avg-run"} => db["copy"] \subseteq {<<"load", "average">>}
  /\ \A d \in Databases : <<"load", "original">> \notin db[d] \/ <<"load", "average">> \notin db[d]
  /\ \A i \in Iterations : <<"extend", i>> \notin db["ycsb_unchange"]
  /\ \A i \in Iterations : <<"extend", i>> \in db["ycsb"] => i <= iteration
  /\ \A d \in {"ycsb", "ycsb_unchange"} : interrupted \/ <<"load", "average">> \notin db[d]

\* A row is of this start or of one before, and of its current iteration or of one
\* before.
RowInv ==
  \A r \in rows :
    /\ r.phase \in Phases /\ r.start \in 1 .. starts /\ r.iteration \in Nat
    /\ r.start = starts => r.iteration <= iteration
    /\ r.start = starts /\ r.iteration = iteration /\ r.phase # "extend" =>
         r.used.operationcount = opscount /\ at \notin {"extend", "key-sizes", "set-run"}

\* Before the first failure the database under test is loaded, and the histogram has
\* records.
UndisturbedInv ==
  failures = 0 =>
    /\ at \notin {"load", "ended"} => db["ycsb"] # {}
    /\ at \in WithHistogram \cup {"set-run"} => histogram # 0

\* The places up to which a phase is still to come.
ToExtend == {"extend"}
ToRun == ToExtend \cup {"key-sizes", "set-run", "run"}
ToReference == ToRun \cup {"reference"}
ToClean == ToReference \cup {"dump", "clean-run"}
ToAverage == ToClean \cup {"no-histogram", "average", "load-average", "original", "avg-run"}

\* What the later phases of the current iteration find is what the earlier ones left.
LeftInv ==
  \A r \in rows : r.start = starts /\ r.iteration = iteration =>
    /\ r.phase = "run" =>
         /\ at \notin ToRun
         /\ at \in {"reference", "dump", "clean-run"} => AtMostRun(db["ycsb"], r.on, iteration)
    /\ r.phase = "clean-run" =>
         /\ at \notin ToClean
         /\ at \in {"no-histogram", "average"} => AtMostRun(db["copy"], r.on, iteration)
         /\ at \in {"load-average", "original", "avg-run"} => AtMostRun(average, r.on, iteration)
    /\ r.phase = "avg-run" => at \notin ToAverage

HasRow(i, p) == \E r \in rows : r.start = starts /\ r.iteration = i /\ r.phase = p /\ r.results
ReportInv ==
  failures = 0 /\ at # "ended" =>
    \A i \in 1 .. iteration :
      /\ i < iteration \/ at \notin ToExtend => HasRow(i, "extend")
      /\ i < iteration \/ at \notin ToRun => HasRow(i, "run")
      /\ i < iteration \/ at \notin ToReference => HasRow(i, "reference")
      /\ i < iteration \/ at \notin ToClean => HasRow(i, "clean-run")
      /\ i < iteration \/ at \notin ToAverage => HasRow(i, "avg-run")

ScriptInv ==
  /\ ScriptTyped /\ FileInv /\ FirstInv /\ DbInv /\ UndisturbedInv
  /\ RowInv /\ LeftInv /\ ReportInv
  /\ RowsTell /\ PhasesComparable /\ DatabasesAsMeant

-----------------------------------------------------------------------------
(* Its steps                                                               *)

\* What the actions are made of.
LEMMA MarksOf ==
  /\ \A f \in Files : <<"load", f.fieldlength>> \in Marks
  /\ \A i \in Iterations : <<"extend", i>> \in Marks /\ <<"update", i>> \in Marks
BY DEF Files, Marks

LEMMA DoneIsMarks ==
  ASSUME ScriptTyped, NEW on
  PROVE  Done(on) \subseteq Marks
<1>1. 0 \in Iterations
  BY ScriptAssumption DEF Iterations
<1> QED
  BY <1>1, MarksOf DEF Done, ScriptTyped

\* A run extends a database only with the parameters of an extend phase, and never
\* loads it, nor one that is not loaded.
LEMMA DoneIs ==
  ASSUME NEW on
  PROVE  /\ <<"load", "original">> \notin Done(on) /\ <<"load", "average">> \notin Done(on)
         /\ file.params # "extend" => \A i : <<"extend", i>> \notin Done(on)
         /\ \A i : <<"extend", i>> \in Done(on) => i = iteration
         /\ on = {} => Done(on) = {}
         /\ file.params # "extend" /\ file.histogram => Done(on) \subseteq {<<"update", histogram>>}
BY DEF Done, Empty

\* What a YCSB process may do: nothing, or what it is for, and then it was accepted.
LEMMA RunIs ==
  ASSUME NEW phase, NEW d, NEW named, NEW from, NEW to, Run(phase, d, named, from, to)
  PROVE  /\ at = from /\ at' = to
         /\ \/ db' = db
            \/ db' = [db EXCEPT ![d] = @ \cup Done(@)] /\ Accepted(named)
         /\ \E results \in BOOLEAN :
              /\ rows' = rows \cup {Row(phase, d, results)}
              /\ results => Accepted(named) /\ failures' = failures
              /\ ~results => ~Accepted(named) \/ failures' = failures + 1
         /\ file' = file /\ shell' = shell /\ opscount' = opscount /\ histogram' = histogram
         /\ average' = average /\ iteration' = iteration
         /\ starts' = starts /\ interrupted' = interrupted
         /\ failures' = failures \/ (failures < MaxFailures /\ failures' = failures + 1)
<1>1. CASE Accepted(named) /\ UNCHANGED counts /\ rows' = rows \cup {Row(phase, d, TRUE)}
           /\ db' = [db EXCEPT ![d] = @ \cup Done(@)]
  BY <1>1 DEF Run, counts
<1>2. CASE Accepted(named) /\ Fails /\ rows' = rows \cup {Row(phase, d, FALSE)}
           /\ db' = [db EXCEPT ![d] = @ \cup Done(@)]
  BY <1>2 DEF Run, Fails
<1>3. CASE /\ (~Accepted(named) /\ UNCHANGED counts) \/ Fails
           /\ UNCHANGED db /\ rows' = rows \cup {Row(phase, d, FALSE)}
  BY <1>3 DEF Run, Fails, counts
<1> QED
  BY <1>1, <1>2, <1>3 DEF Run

LEMMA ScriptTypedStep ==
  ScriptInv /\ [ScriptNext]_scriptVars => ScriptTyped'
<1> SUFFICES ASSUME ScriptInv, [ScriptNext]_scriptVars PROVE ScriptTyped'
  OBVIOUS
<1> USE DEF state, counts, Step, Fails
<1>1. ScriptTyped /\ ExitAt \in Nat \ {0} /\ MaxStarts \in Nat /\ MaxFailures \in Nat
      /\ Iterations = 0 .. ExitAt
  BY ScriptAssumption DEF ScriptInv, Iterations
<1>2. \A d : db["ycsb"] \in SUBSET Marks /\ {} \in SUBSET Marks
  BY <1>1 DEF ScriptTyped, Databases
<1>3. CASE Start
  BY <1>1, <1>3 DEF Start, ScriptTyped, Places, Empty, Databases
<1>4. ASSUME NEW d \in Databases, NEW from, NEW to \in Places \ {"ended"}, Load(d, from, to),
             iteration < ExitAt, iteration = 0 => to \in {"load-reference", "count"}
      PROVE  ScriptTyped'
  <2>1. db' \in [Databases -> SUBSET Marks]
    BY <1>1, <1>4, MarksOf DEF Load, ScriptTyped
  <2>2. /\ file' = file /\ shell' = shell /\ opscount' = opscount /\ histogram' = histogram
        /\ average' = average /\ iteration' = iteration /\ at' = to
        /\ failures' \in {failures, failures + 1} /\ failures' <= MaxFailures
        /\ starts' = starts /\ interrupted' = interrupted
    <3>1. failures \in Nat /\ failures <= MaxFailures
      BY <1>1 DEF ScriptTyped
    <3> QED
      BY <1>1, <1>4, <3>1 DEF Load, Accepted
  <2> QED
    BY <1>1, <1>4, <2>1, <2>2 DEF ScriptTyped
<1>5. CASE LoadDb \/ LoadReference \/ LoadAverage
  <2>1. at \in {"load", "load-reference", "load-average"}
    BY <1>5 DEF LoadDb, LoadReference, LoadAverage, Load
  <2>2. iteration < ExitAt /\ (at = "load-average" => iteration # 0)
    BY <1>1, <2>1 DEF ScriptTyped
  <2>3. CASE LoadDb
    BY <1>4, <2>2, <2>3 DEF LoadDb, Places, Databases
  <2>4. CASE LoadReference
    BY <1>4, <2>2, <2>4 DEF LoadReference, Places, Databases
  <2>5. CASE LoadAverage
    <3>1. at = "load-average"
      BY <2>5 DEF LoadAverage, Load
    <3> QED
      BY <1>4, <2>2, <2>5, <3>1 DEF LoadAverage, Places, Databases
  <2> QED
    BY <1>5, <2>3, <2>4, <2>5
<1>6. ASSUME NEW phase, NEW d \in Databases, NEW named, NEW from, NEW to \in Places \ {"ended"},
             Run(phase, d, named, from, to), iteration = ExitAt => to = "key-sizes", iteration # 0
      PROVE  ScriptTyped'
  <2>1. db' \in [Databases -> SUBSET Marks]
    <3>1. Done(db[d]) \subseteq Marks /\ db \in [Databases -> SUBSET Marks]
      BY <1>1, DoneIsMarks DEF ScriptTyped
    <3>2. db' = db \/ db' = [db EXCEPT ![d] = @ \cup Done(@)]
      BY <1>6, RunIs
    <3>3. db' = db \/ db' = [db EXCEPT ![d] = db[d] \cup Done(db[d])]
      BY <3>1, <3>2
    <3> QED
      BY <1>6, <3>1, <3>3
  <2>2. /\ file' = file /\ shell' = shell /\ opscount' = opscount /\ histogram' = histogram
        /\ average' = average /\ iteration' = iteration /\ at' = to
        /\ failures' \in {failures, failures + 1} /\ failures' <= MaxFailures
        /\ starts' = starts /\ interrupted' = interrupted
    <3>1. failures \in Nat /\ failures <= MaxFailures
      BY <1>1 DEF ScriptTyped
    <3> QED
      BY <1>1, <1>6, <3>1, RunIs
  <2> QED
    BY <1>1, <1>6, <2>1, <2>2 DEF ScriptTyped
<1>7. CASE Extend
  <2>1. at = "extend"
    BY <1>7, RunIs DEF Extend
  <2>2. iteration # 0
    BY <1>1, <2>1 DEF ScriptTyped
  <2> QED
    BY <1>6, <1>7, <2>2 DEF Extend, Places, Databases
<1>8. CASE RunWorkload \/ RunReference \/ RunCopy \/ RunAverage
  <2>1. iteration # ExitAt /\ iteration # 0
    <3>1. at \in {"run", "reference", "clean-run", "avg-run"}
      BY <1>8, RunIs DEF RunWorkload, RunReference, RunCopy, RunAverage
    <3> QED
      BY <1>1, <3>1 DEF ScriptTyped
  <2> QED
    BY <1>6, <1>8, <2>1 DEF RunWorkload, RunReference, RunCopy, RunAverage, Places, Databases
<1>9. CASE SetExtend
  <2>1. iteration' \in Iterations /\ iteration' # 0 /\ at' = "extend"
    BY <1>1, <1>9 DEF SetExtend, ScriptTyped
  <2>2. file' \in Files /\ shell' = file' /\ opscount' \in {"given", "extend"}
    BY <1>1, <1>9 DEF SetExtend, ExtendParams, CountOf, Sourced, Files, ScriptTyped
  <2> QED
    BY <1>1, <1>9, <2>1, <2>2 DEF SetExtend, ScriptTyped, Places
<1>10. CASE KeySizes
  BY <1>1, <1>10 DEF KeySizes, ScriptTyped, Places
<1>11. CASE SetRun
  BY <1>1, <1>11 DEF SetRun, RunParams, Sourced, Files, ScriptTyped, Places
<1>12. CASE Dump
  BY <1>1, <1>12 DEF Dump, Restored, ScriptTyped, Places, Databases
<1>13. CASE RemoveHistogram
  BY <1>1, <1>13 DEF RemoveHistogram, NoHistogram, Files, ScriptTyped, Places
<1>14. CASE SetAverage
  BY <1>1, <1>14 DEF SetAverage, Sourced, Files, Empty, ScriptTyped, Places, Databases
<1>15. CASE SetOriginal
  BY <1>1, <1>15 DEF SetOriginal, OriginalLength, Sourced, Files, ScriptTyped, Places
<1>16. CASE DropCopy
  BY <1>1, <1>16 DEF DropCopy, Empty, ScriptTyped, Places, Databases
<1>17. CASE Interrupt
  <2>1. interrupted' \in BOOLEAN /\ failures' \in 0 .. MaxFailures /\ failures' > 0 /\ at' = "ended"
    BY <1>1, <1>17 DEF Interrupt, ScriptTyped
  <2> QED
    BY <1>1, <1>17, <2>1 DEF Interrupt, ScriptTyped, Places
<1>18. CASE UNCHANGED scriptVars
  BY <1>1, <1>18 DEF scriptVars, ScriptTyped
<1> QED
  BY <1>3, <1>5, <1>7, <1>8, <1>9, <1>10, <1>11, <1>12, <1>13, <1>14, <1>15, <1>16, <1>17, <1>18 DEF ScriptNext

\* YCSB processes edit neither the file nor the shell's variables.
LEMMA ProcessesEditNothing ==
  ASSUME \/ LoadDb \/ LoadReference \/ LoadAverage \/ Extend
         \/ RunWorkload \/ RunReference \/ RunCopy \/ RunAverage
  PROVE  /\ file' = file /\ shell' = shell /\ opscount' = opscount /\ histogram' = histogram
         /\ average' = average /\ iteration' = iteration /\ starts' = starts
         /\ interrupted' = interrupted
         /\ failures' = failures \/ failures' = failures + 1
         /\ <<at, at'>> \in {<<"load", "load-reference">>, <<"load-reference", "count">>,
              <<"load-average", "original">>, <<"extend", "key-sizes">>, <<"run", "reference">>,
              <<"reference", "dump">>, <<"clean-run", "no-histogram">>, <<"avg-run", "drop-copy">>}
<1>1. CASE LoadDb \/ LoadReference \/ LoadAverage
  BY <1>1 DEF LoadDb, LoadReference, LoadAverage, Load, counts, Fails
<1>2. CASE Extend \/ RunWorkload \/ RunReference \/ RunCopy \/ RunAverage
  BY <1>2, RunIs DEF Extend, RunWorkload, RunReference, RunCopy, RunAverage
<1> QED
  BY <1>1, <1>2

LEMMA FileStep == ScriptInv /\ [ScriptNext]_scriptVars => FileInv' /\ FirstInv'
<1> SUFFICES ASSUME ScriptInv, [ScriptNext]_scriptVars PROVE FileInv' /\ FirstInv'
  OBVIOUS
<1> USE DEF state, counts, Step, WithHistogram, WithoutHistogram, FileInv, FirstInv
<1>1. FileInv /\ FirstInv /\ file \in Files /\ starts \in Nat
  BY DEF ScriptInv, ScriptTyped
<1>2. CASE \/ LoadDb \/ LoadReference \/ LoadAverage \/ Extend
           \/ RunWorkload \/ RunReference \/ RunCopy \/ RunAverage
  BY <1>1, <1>2, ProcessesEditNothing
<1>3. CASE Start
  BY <1>1, <1>3 DEF Start
<1>4. CASE SetExtend
  BY <1>1, <1>4 DEF SetExtend, ExtendParams, CountOf, Sourced, Files
<1>5. CASE KeySizes
  BY <1>1, <1>5 DEF KeySizes
<1>6. CASE SetRun
  BY <1>1, <1>6 DEF SetRun, RunParams, Sourced, Files
<1>7. CASE Dump
  BY <1>1, <1>7 DEF Dump
<1>8. CASE RemoveHistogram
  BY <1>1, <1>8 DEF RemoveHistogram, NoHistogram, Files
<1>9. CASE SetAverage
  BY <1>1, <1>9 DEF SetAverage, Sourced, Files
<1>10. CASE SetOriginal
  BY <1>1, <1>10 DEF SetOriginal, OriginalLength, Sourced, Files
<1>11. CASE DropCopy
  BY <1>1, <1>11 DEF DropCopy
<1>12. CASE Interrupt
  BY <1>1, <1>12 DEF Interrupt
<1>13. CASE UNCHANGED scriptVars
  BY <1>1, <1>13 DEF scriptVars
<1> QED
  BY <1>2, <1>3, <1>4, <1>5, <1>6, <1>7, <1>8, <1>9, <1>10, <1>11, <1>12, <1>13 DEF ScriptNext

\* A database that a process has worked on has got at most the marks of one load, or
\* of one run.
LEMMA DbStep ==
  ScriptInv /\ [ScriptNext]_scriptVars => DbInv'
<1> SUFFICES ASSUME ScriptInv, [ScriptNext]_scriptVars PROVE DbInv'
  OBVIOUS
<1> USE DEF state, counts, Step, Fails, UpToDump
<1>1. /\ DbInv /\ FileInv /\ db \in [Databases -> SUBSET Marks] /\ file \in Files
      /\ iteration \in Iterations /\ Iterations \subseteq Nat
      /\ Databases = {"ycsb", "ycsb_unchange", "copy"}
  BY DEF ScriptInv, ScriptTyped, Databases, Iterations
<1>2. CASE Start
  BY <1>1, <1>2 DEF Start, Empty, DbInv
<1>3. ASSUME NEW d \in Databases, NEW from \in {"load", "load-reference", "load-average"},
             NEW to, Load(d, from, to)
      PROVE  /\ at = from /\ at' = to /\ iteration' = iteration /\ interrupted' = interrupted
             /\ histogram' = histogram
             /\ db' = db \/ db' = [db EXCEPT ![d] = @ \cup {<<"load", file.fieldlength>>}]
  BY <1>1, <1>3 DEF Load
<1>4. file.fieldlength \in {"original", "average"} /\ <<"load", "original">> # <<"load", "average">>
      /\ \A i \in Iterations : <<"load", file.fieldlength>> # <<"extend", i>>
  BY <1>1 DEF Files
<1>5. CASE LoadDb
  BY <1>1, <1>3, <1>4, <1>5 DEF LoadDb, DbInv, FileInv, WithHistogram, WithoutHistogram
<1>6. CASE LoadReference
  BY <1>1, <1>3, <1>4, <1>6 DEF LoadReference, DbInv, FileInv, WithHistogram, WithoutHistogram
<1>7. CASE LoadAverage
  BY <1>1, <1>3, <1>4, <1>7 DEF LoadAverage, DbInv, FileInv, WithHistogram, WithoutHistogram
<1>8. CASE Extend
  <2>1. /\ at = "extend" /\ at' = "key-sizes" /\ iteration' = iteration /\ interrupted' = interrupted
        /\ histogram' = histogram
        /\ db' = db \/ db' = [db EXCEPT !["ycsb"] = db["ycsb"] \cup Done(db["ycsb"])]
    BY <1>1, <1>8, RunIs DEF Extend
  <2> QED
    BY <1>1, <2>1, DoneIs DEF DbInv
<1>9. CASE RunWorkload
  <2>1. /\ at = "run" /\ at' = "reference" /\ iteration' = iteration /\ interrupted' = interrupted
        /\ histogram' = histogram
        /\ db' = db \/ db' = [db EXCEPT !["ycsb"] = db["ycsb"] \cup Done(db["ycsb"])]
    BY <1>1, <1>9, RunIs DEF RunWorkload
  <2> QED
    BY <1>1, <2>1, DoneIs DEF DbInv
<1>10. CASE RunReference
  <2>1. /\ at = "reference" /\ at' = "dump" /\ iteration' = iteration /\ interrupted' = interrupted
        /\ histogram' = histogram
        /\ db' = db \/ db' = [db EXCEPT !["ycsb_unchange"] = db["ycsb_unchange"] \cup Done(db["ycsb_unchange"])]
    BY <1>1, <1>10, RunIs DEF RunReference
  <2>2. file.params # "extend"
    BY <1>1, <2>1 DEF FileInv, WithHistogram
  <2> QED
    BY <1>1, <2>1, <2>2, DoneIs DEF DbInv
<1>11. CASE RunCopy
  <2>1. /\ at = "clean-run" /\ at' = "no-histogram" /\ iteration' = iteration /\ interrupted' = interrupted
        /\ histogram' = histogram
        /\ db' = db \/ db' = [db EXCEPT !["copy"] = db["copy"] \cup Done(db["copy"])]
    BY <1>1, <1>11, RunIs DEF RunCopy
  <2> QED
    BY <1>1, <2>1, DoneIs DEF DbInv
<1>12. CASE RunAverage
  <2>1. /\ at = "avg-run" /\ at' = "drop-copy" /\ iteration' = iteration /\ interrupted' = interrupted
        /\ histogram' = histogram
        /\ db' = db \/ db' = [db EXCEPT !["copy"] = db["copy"] \cup Done(db["copy"])]
    BY <1>1, <1>12, RunIs DEF RunAverage
  <2> QED
    BY <1>1, <2>1, DoneIs DEF DbInv
<1>13. CASE SetExtend
  BY <1>1, <1>13 DEF SetExtend, DbInv
<1>14. CASE KeySizes
  BY <1>1, <1>14 DEF KeySizes, Empty, DbInv
<1>15. CASE SetRun
  BY <1>1, <1>15 DEF SetRun, DbInv
<1>16. CASE Dump
  BY <1>1, <1>16 DEF Dump, Restored, Empty, DbInv
<1>17. CASE RemoveHistogram
  BY <1>1, <1>17 DEF RemoveHistogram, DbInv
<1>18. CASE SetAverage
  BY <1>1, <1>18 DEF SetAverage, Empty, DbInv
<1>19. CASE SetOriginal
  BY <1>1, <1>19 DEF SetOriginal, DbInv
<1>20. CASE DropCopy
  BY <1>1, <1>20 DEF DropCopy, Empty, DbInv
<1>21. CASE Interrupt
  BY <1>1, <1>21 DEF Interrupt, DbInv
<1>22. CASE UNCHANGED scriptVars
  BY <1>1, <1>22 DEF scriptVars, DbInv
<1> QED
  BY <1>2, <1>5, <1>6, <1>7, <1>8, <1>9, <1>10, <1>11, <1>12, <1>13, <1>14, <1>15, <1>16, <1>17,
     <1>18, <1>19, <1>20, <1>21, <1>22 DEF ScriptNext

\* Before the first failure nothing is refused, and a load is not empty.
LEMMA UndisturbedStep ==
  ScriptInv /\ [ScriptNext]_scriptVars => UndisturbedInv'
<1> SUFFICES ASSUME ScriptInv, [ScriptNext]_scriptVars, failures' = 0 PROVE UndisturbedInv'
  BY DEF UndisturbedInv
<1> USE DEF state, counts, Step, WithHistogram
<1>1. /\ UndisturbedInv /\ failures \in Nat /\ db \in [Databases -> SUBSET Marks]
      /\ Databases = {"ycsb", "ycsb_unchange", "copy"}
  BY DEF ScriptInv, ScriptTyped, Databases
<1>2. CASE Start
  BY <1>1, <1>2 DEF Start, UndisturbedInv
<1>3. CASE LoadDb
  <2>1. failures = 0 /\ failures' # failures + 1
    BY <1>1, <1>3, ProcessesEditNothing
  <2>2. at = "load" /\ ~Fails
    BY <1>3, <2>1 DEF LoadDb, Load, Fails
  <2>3. ~file.histogram
    BY <2>1, <2>2 DEF ScriptInv, ScriptTyped, FileInv
  <2>4. Accepted(FALSE)
    BY <2>3 DEF Accepted
  <2>5. at' = "load-reference" /\ db' = [db EXCEPT !["ycsb"] = @ \cup {<<"load", file.fieldlength>>}]
    BY <1>3, <2>2, <2>4 DEF LoadDb, Load
  <2>6. db'["ycsb"] # {}
    BY <1>1, <2>5
  <2> QED
    BY <2>5, <2>6 DEF UndisturbedInv
<1>4. CASE LoadReference \/ LoadAverage
  <2>1. failures = 0
    BY <1>1, <1>4, ProcessesEditNothing
  <2>2. /\ at \in {"load-reference", "load-average"} /\ at' \in {"count", "original"}
        /\ db'["ycsb"] = db["ycsb"]
    BY <1>1, <1>4 DEF LoadReference, LoadAverage, Load
  <2> QED
    BY <1>1, <2>1, <2>2 DEF UndisturbedInv
<1>5. CASE Extend \/ RunWorkload \/ RunReference \/ RunCopy \/ RunAverage
  <2>1. failures = 0 /\ histogram' = histogram
    BY <1>1, <1>5, ProcessesEditNothing
  <2>2. \E d \in Databases : db' = db \/ db' = [db EXCEPT ![d] = @ \cup Done(@)]
    BY <1>1, <1>5, RunIs DEF Extend, RunWorkload, RunReference, RunCopy, RunAverage
  <2>3. db["ycsb"] \subseteq db'["ycsb"]
    BY <1>1, <2>2
  <2>4. <<at, at'>> \in {<<"extend", "key-sizes">>, <<"run", "reference">>, <<"reference", "dump">>,
                         <<"clean-run", "no-histogram">>, <<"avg-run", "drop-copy">>}
    BY <1>5, RunIs DEF Extend, RunWorkload, RunReference, RunCopy, RunAverage
  <2> QED
    BY <1>1, <2>1, <2>3, <2>4 DEF UndisturbedInv
<1>6. CASE SetExtend \/ SetRun \/ RemoveHistogram \/ SetOriginal
  BY <1>1, <1>6 DEF SetExtend, SetRun, RemoveHistogram, SetOriginal, UndisturbedInv
<1>7. CASE KeySizes
  <2>1. failures = 0 /\ at = "key-sizes" /\ iteration # 0 /\ db["ycsb"] # {}
    BY <1>1, <1>7 DEF KeySizes, UndisturbedInv, ScriptInv, ScriptTyped
  <2> QED
    BY <1>7, <2>1 DEF KeySizes, Empty, UndisturbedInv
<1>8. CASE Dump \/ SetAverage \/ DropCopy
  <2>1. db'["ycsb"] = db["ycsb"] /\ failures = 0 /\ at \in {"dump", "average", "drop-copy"}
    BY <1>1, <1>8 DEF Dump, SetAverage, DropCopy
  <2> QED
    BY <1>1, <1>8, <2>1 DEF Dump, SetAverage, DropCopy, UndisturbedInv
<1>9. CASE Interrupt \/ UNCHANGED scriptVars
  BY <1>1, <1>9 DEF Interrupt, scriptVars, UndisturbedInv
<1> QED
  BY <1>2, <1>3, <1>4, <1>5, <1>6, <1>7, <1>8, <1>9 DEF ScriptNext

\* The steps that write a row, and the row: the shell's variables next to the file and
\* the database that the phase's process had.
Reporting == Extend \/ RunWorkload \/ RunReference \/ RunCopy \/ RunAverage
NewRow(r) ==
  /\ rows' = rows \cup {r}
  /\ r.start = starts /\ r.iteration = iteration /\ r.histogram = histogram /\ r.average = average
  /\ r.written = shell /\ r.used = file /\ r.phase = at
  /\ r.results \in BOOLEAN
  /\ r.results => (file.histogram => at \notin {"extend", "avg-run"} /\ histogram # 0)
  /\ ~r.results => \/ failures' = failures + 1
                   \/ file.histogram /\ (at \in {"extend", "avg-run"} \/ histogram = 0)
  /\ at \in {"extend", "run"} => r.on = db["ycsb"]
  /\ at = "reference" => r.on = db["ycsb_unchange"]
  /\ at \in {"clean-run", "avg-run"} => r.on = db["copy"]

LEMMA PhaseWritesRow ==
  ASSUME Reporting
  PROVE  \E r : NewRow(r)
<1>1. ASSUME NEW phase, NEW d, NEW named \in BOOLEAN, NEW to, Run(phase, d, named, phase, to),
             phase \in {"extend", "run"} => d = "ycsb",
             phase = "reference" => d = "ycsb_unchange",
             phase \in {"clean-run", "avg-run"} => d = "copy",
             named <=> phase \notin {"extend", "avg-run"}
      PROVE  \E r : NewRow(r)
  <2>1. PICK results \in BOOLEAN :
          /\ rows' = rows \cup {Row(phase, d, results)}
          /\ results => Accepted(named) /\ failures' = failures
          /\ ~results => ~Accepted(named) \/ failures' = failures + 1
    BY <1>1, RunIs
  <2>2. at = phase
    BY <1>1, RunIs
  <2>3. PICK r : r = Row(phase, d, results)
    OBVIOUS
  <2>4. /\ r.start = starts /\ r.iteration = iteration /\ r.histogram = histogram
        /\ r.average = average /\ r.written = shell /\ r.used = file /\ r.phase = phase
        /\ r.results = results /\ r.on = db[d]
    BY <2>3 DEF Row
  <2>5. Accepted(named) <=> (file.histogram => phase \notin {"extend", "avg-run"} /\ histogram # 0)
    BY <1>1 DEF Accepted
  <2>6. NewRow(r)
    BY <1>1, <2>1, <2>2, <2>3, <2>4, <2>5 DEF NewRow
  <2> QED
    BY <2>6
<1>2. CASE Extend
  BY <1>1, <1>2 DEF Extend
<1>3. CASE RunWorkload
  BY <1>1, <1>3 DEF RunWorkload
<1>4. CASE RunReference
  BY <1>1, <1>4 DEF RunReference
<1>5. CASE RunCopy
  BY <1>1, <1>5 DEF RunCopy
<1>6. CASE RunAverage
  BY <1>1, <1>6 DEF RunAverage
<1> QED
  BY <1>2, <1>3, <1>4, <1>5, <1>6 DEF Reporting

\* No other step writes a row, and each of them leaves the count of the phases alone
\* until the next iteration.
LEMMA OthersWriteNothing ==
  ASSUME [ScriptNext]_scriptVars, ~Reporting
  PROVE  /\ rows' = rows
         /\ \/ Start
            \/ SetExtend
            \/ /\ starts' = starts /\ iteration' = iteration /\ opscount' = opscount
               /\ at' \in {"extend", "key-sizes", "set-run"} => at \in {"extend", "key-sizes", "set-run"}
BY DEF ScriptNext, Reporting, LoadDb, LoadReference, LoadAverage, Load,
  SetExtend, KeySizes, SetRun, Dump, RemoveHistogram,
  SetAverage, SetOriginal, DropCopy, Interrupt, Start, scriptVars,
  state, counts, Step, Fails

LEMMA RowStep == ScriptInv /\ [ScriptNext]_scriptVars => RowInv'
<1> SUFFICES ASSUME ScriptInv, [ScriptNext]_scriptVars PROVE RowInv'
  OBVIOUS
<1>1. RowInv /\ FileInv /\ FirstInv /\ starts \in Nat /\ iteration \in Nat
  BY DEF ScriptInv, ScriptTyped, Iterations
<1>2. CASE Reporting
  <2>1. /\ starts' = starts /\ iteration' = iteration /\ opscount' = opscount
        /\ at \in Phases /\ at' \in {"key-sizes", "reference", "dump", "no-histogram", "drop-copy"}
        /\ at' = "key-sizes" => at = "extend"
    BY <1>2, ProcessesEditNothing DEF Reporting, Extend, RunWorkload, RunReference,
      RunCopy, RunAverage, Run, Phases
  <2>2. CASE rows' = rows
    BY <1>1, <2>1, <2>2 DEF RowInv
  <2>3. ASSUME NEW r, NewRow(r) PROVE RowInv'
    <3>1. r.phase # "extend" => r.used.operationcount = opscount /\ at # "extend"
      BY <1>1, <2>1, <2>3 DEF NewRow, FileInv, WithHistogram, WithoutHistogram, Phases
    <3>2. starts > 0
      BY <1>1, <2>1 DEF FirstInv, Phases
    <3> QED
      BY <1>1, <2>1, <2>3, <3>1, <3>2 DEF NewRow, RowInv
  <2> QED
    BY <1>2, <2>2, <2>3, PhaseWritesRow
<1>3. CASE ~Reporting
  <2>1. CASE Start
    BY <1>1, <1>3, <2>1, OthersWriteNothing DEF Start, RowInv
  <2>2. CASE SetExtend
    BY <1>1, <1>3, <2>2, OthersWriteNothing DEF SetExtend, Step, counts, RowInv
  <2>3. CASE ~Start /\ ~SetExtend
    BY <1>1, <1>3, <2>3, OthersWriteNothing DEF RowInv
  <2> QED
    BY <2>1, <2>2, <2>3
<1> QED
  BY <1>2, <1>3

\* Whenever a phase's process runs, the shell's variables agree with the file.
LEMMA TellStep ==
  ScriptInv /\ [ScriptNext]_scriptVars => RowsTell' /\ PhasesComparable'
<1> SUFFICES ASSUME ScriptInv, [ScriptNext]_scriptVars
             PROVE  RowsTell' /\ PhasesComparable'
  OBVIOUS
<1>1. /\ RowInv /\ FileInv /\ FirstInv /\ RowsTell /\ PhasesComparable
      /\ file \in Files /\ shell \in Files
  BY DEF ScriptInv, ScriptTyped
<1>2. CASE rows' = rows
  BY <1>1, <1>2 DEF RowsTell, PhasesComparable
<1>3. ASSUME NEW r, NewRow(r), Reporting PROVE RowsTell' /\ PhasesComparable'
  <2>1. at \in Phases /\ starts # 0
    BY <1>1, <1>3 DEF Reporting, Extend, RunWorkload, RunReference,
      RunCopy, RunAverage, Run, Phases, FirstInv
  <2>2. CASE at = "extend"
    <3>1. r.phase = "extend" /\ r.used.params = "extend" /\ r.written = r.used
      BY <1>1, <1>3, <2>2 DEF NewRow, FileInv
    <3> QED
      BY <1>1, <1>3, <3>1 DEF NewRow, RowsTell, PhasesComparable
  <2>3. CASE at # "extend"
    <3>1. /\ r.phase = at /\ r.phase # "extend" /\ r.used.params = "postextend"
          /\ r.used.operationcount = opscount
          /\ r.written.params = r.used.params /\ r.written.operationcount = r.used.operationcount
      BY <1>1, <1>3, <2>1, <2>3 DEF NewRow, FileInv, WithHistogram, WithoutHistogram, Phases
    <3>2. r.phase # "avg-run" => r.used.histogram /\ (r.results => r.histogram = r.iteration)
      BY <1>1, <1>3, <2>1, <2>3 DEF NewRow, FileInv, WithHistogram, Phases
    <3>3. r.phase = "avg-run" => ~r.used.histogram
      BY <1>1, <1>3, <2>1, <2>3 DEF NewRow, FileInv, WithoutHistogram
    <3>4. r.start = 1 => r.used.operationcount = "given"
      BY <1>1, <1>3, <2>1, <2>3 DEF NewRow, FirstInv, Phases
    <3>5. \A q \in rows : q.phase # "extend" /\ q.start = r.start /\ q.iteration = r.iteration
                            => q.used.operationcount = opscount
      BY <1>1, <1>3 DEF NewRow, RowInv
    <3>6. \A q \in rows' : q \in rows \/ q = r
      BY <1>3 DEF NewRow
    <3>7. RowsTell'
      BY <1>1, <3>1, <3>6 DEF RowsTell
    <3>8. PhasesComparable'
      BY <1>1, <3>1, <3>2, <3>3, <3>4, <3>5, <3>6 DEF PhasesComparable
    <3> QED
      BY <3>7, <3>8
  <2> QED
    BY <2>2, <2>3
<1> QED
  BY <1>2, <1>3, PhaseWritesRow, OthersWriteNothing

\* A run with the histogram leaves at most its updates on its database.
LEMMA PhaseWorksOn ==
  ASSUME ScriptInv, Reporting
  PROVE  /\ at = "run" => AtMostRun(db'["ycsb"], db["ycsb"], iteration)
         /\ at = "clean-run" => AtMostRun(db'["copy"], db["copy"], iteration)
         /\ at = "reference" => db'["ycsb"] = db["ycsb"]
<1>1. /\ FileInv /\ db \in [Databases -> SUBSET Marks]
      /\ Databases = {"ycsb", "ycsb_unchange", "copy"}
  BY DEF ScriptInv, ScriptTyped, Databases
<1>2. ASSUME NEW d \in Databases, at \in {"run", "clean-run"},
             \/ db' = db
             \/ db' = [db EXCEPT ![d] = @ \cup Done(@)] /\ Accepted(TRUE)
      PROVE  AtMostRun(db'[d], db[d], iteration)
  <2>1. file.params # "extend" /\ file.histogram /\ histogram \in {0, iteration}
    BY <1>1, <1>2 DEF FileInv, WithHistogram
  <2>2. Done(db[d]) \subseteq {<<"update", histogram>>}
    BY <2>1, DoneIs
  <2>3. db'[d] = db[d] \/ (db'[d] = db[d] \cup Done(db[d]) /\ histogram = iteration)
    BY <1>1, <1>2, <2>1 DEF Accepted
  <2>4. Done(db[d]) = {} \/ Done(db[d]) = {<<"update", histogram>>}
    BY <2>2
  <2> QED
    BY <2>3, <2>4 DEF AtMostRun
<1>3. CASE RunWorkload
  <2>1. /\ at = "run"
        /\ db' = db \/ (db' = [db EXCEPT !["ycsb"] = @ \cup Done(@)] /\ Accepted(TRUE))
    BY <1>3, RunIs DEF RunWorkload
  <2> QED
    BY <1>1, <1>2, <2>1
<1>4. CASE RunCopy
  <2>1. /\ at = "clean-run"
        /\ db' = db \/ (db' = [db EXCEPT !["copy"] = @ \cup Done(@)] /\ Accepted(TRUE))
    BY <1>4, RunIs DEF RunCopy
  <2> QED
    BY <1>1, <1>2, <2>1
<1>5. CASE RunReference
  <2>1. /\ at = "reference"
        /\ db' = db \/ db' = [db EXCEPT !["ycsb_unchange"] = @ \cup Done(@)]
    BY <1>5, RunIs DEF RunReference
  <2> QED
    BY <1>1, <2>1
<1>6. CASE Extend \/ RunAverage
  <2>1. at \in {"extend", "avg-run"}
    BY <1>6, RunIs DEF Extend, RunAverage
  <2> QED
    BY <2>1
<1> QED
  BY <1>3, <1>4, <1>5, <1>6 DEF Reporting

\* A later phase finds the database as the earlier one has left it: between them nothing
\* but the earlier one works on it.
LEMMA LeftStep == ScriptInv /\ [ScriptNext]_scriptVars => LeftInv'
<1> SUFFICES ASSUME ScriptInv, [ScriptNext]_scriptVars PROVE LeftInv'
  OBVIOUS
<1> USE DEF ToExtend, ToRun, ToReference, ToClean, ToAverage
<1>1. /\ LeftInv /\ RowInv /\ FileInv /\ DbInv /\ starts \in Nat /\ iteration \in Nat
      /\ db \in [Databases -> SUBSET Marks]
      /\ Databases = {"ycsb", "ycsb_unchange", "copy"}
  BY DEF ScriptInv, ScriptTyped, Iterations, Databases
<1>2. CASE Reporting
  <2>1. PICK r : NewRow(r)
    BY <1>2, PhaseWritesRow
  <2>2. /\ starts' = starts /\ iteration' = iteration /\ average' = average
        /\ <<at, at'>> \in {<<"extend", "key-sizes">>, <<"run", "reference">>, <<"reference", "dump">>,
                            <<"clean-run", "no-histogram">>, <<"avg-run", "drop-copy">>}
    <3>1. starts' = starts /\ iteration' = iteration /\ average' = average
      BY <1>2, ProcessesEditNothing DEF Reporting
    <3>2. Extend => at = "extend" /\ at' = "key-sizes"
      BY RunIs DEF Extend
    <3>3. RunWorkload => at = "run" /\ at' = "reference"
      BY RunIs DEF RunWorkload
    <3>4. RunReference => at = "reference" /\ at' = "dump"
      BY RunIs DEF RunReference
    <3>5. RunCopy => at = "clean-run" /\ at' = "no-histogram"
      BY RunIs DEF RunCopy
    <3>6. RunAverage => at = "avg-run" /\ at' = "drop-copy"
      BY RunIs DEF RunAverage
    <3> QED
      BY <1>2, <3>1, <3>2, <3>3, <3>4, <3>5, <3>6 DEF Reporting
  <2>3. /\ at = "run" => AtMostRun(db'["ycsb"], db["ycsb"], iteration)
        /\ at = "clean-run" => AtMostRun(db'["copy"], db["copy"], iteration)
        /\ at = "reference" => db'["ycsb"] = db["ycsb"]
    BY <1>1, <1>2, PhaseWorksOn
  <2>4. \A q \in rows' : q \in rows \/ q = r
    BY <2>1 DEF NewRow
  <2>5. r.phase = at /\ (at = "run" => r.on = db["ycsb"]) /\ (at = "clean-run" => r.on = db["copy"])
    BY <2>1 DEF NewRow
  <2> QED
    BY <1>1, <2>2, <2>3, <2>4, <2>5 DEF LeftInv
<1>3. CASE Start
  <2>1. rows' = rows /\ starts' = starts + 1
    BY <1>3 DEF Start
  <2> QED
    BY <1>1, <2>1 DEF LeftInv, RowInv
<1>4. CASE SetExtend
  <2>1. rows' = rows /\ starts' = starts /\ iteration' = iteration + 1
    BY <1>4 DEF SetExtend, Step, counts
  <2> QED
    BY <1>1, <2>1 DEF LeftInv, RowInv
<1> USE DEF Step, counts, state
<1>5. CASE LoadDb \/ LoadReference \/ LoadAverage
  <2>1. /\ rows' = rows /\ starts' = starts /\ iteration' = iteration /\ average' = average
        /\ <<at, at'>> \in {<<"load", "load-reference">>, <<"load-reference", "count">>,
                            <<"load-average", "original">>}
    BY <1>5, ProcessesEditNothing DEF LoadDb, LoadReference, LoadAverage, Load
  <2> QED
    BY <1>1, <2>1 DEF LeftInv
<1>6. CASE KeySizes \/ SetRun
  BY <1>1, <1>6 DEF KeySizes, SetRun, LeftInv
<1>7. CASE Dump
  BY <1>1, <1>7 DEF Dump, LeftInv
<1>8. CASE RemoveHistogram
  BY <1>1, <1>8 DEF RemoveHistogram, LeftInv
<1>9. CASE SetAverage
  BY <1>1, <1>9 DEF SetAverage, LeftInv
<1>10. CASE SetOriginal \/ DropCopy
  BY <1>1, <1>10 DEF SetOriginal, DropCopy, LeftInv
<1>11. CASE Interrupt \/ UNCHANGED scriptVars
  BY <1>1, <1>11 DEF Interrupt, scriptVars, LeftInv
<1> QED
  BY <1>2, <1>3, <1>4, <1>5, <1>6, <1>7, <1>8, <1>9, <1>10, <1>11 DEF ScriptNext, Reporting

\* A row stays as it was written, and what it is compared with was written in the same
\* iteration.
LEMMA MeantStep ==
  ScriptInv /\ [ScriptNext]_scriptVars => DatabasesAsMeant'
<1> SUFFICES ASSUME ScriptInv, [ScriptNext]_scriptVars
             PROVE  DatabasesAsMeant'
  OBVIOUS
<1>1. RowInv /\ LeftInv /\ DbInv /\ FileInv /\ DatabasesAsMeant /\ iteration \in Iterations
  BY DEF ScriptInv, ScriptTyped
<1>2. \A d \in {"ycsb", "ycsb_unchange"} : interrupted' \/ <<"load", "average">> \notin db'[d]
  BY DbStep DEF DbInv
<1>3. CASE rows' = rows
  BY <1>1, <1>2, <1>3 DEF DatabasesAsMeant
<1>4. ASSUME NEW r, NewRow(r) PROVE DatabasesAsMeant'
  <2>1. /\ r.phase = at /\ r.start = starts /\ r.iteration = iteration /\ r.average = average
        /\ r.phase = "clean-run" => r.on = db["copy"]
    BY <1>4 DEF NewRow
  <2>2. /\ r.phase = "reference" => \A i \in Iterations : <<"extend", i>> \notin r.on
        /\ r.phase = "run" => \A i \in Iterations : <<"extend", i>> \in r.on => i <= r.iteration
        /\ r.phase = "avg-run" => r.on \subseteq {<<"load", "average">>}
    BY <1>1, <1>4 DEF NewRow, DbInv
  <2>3. \A q \in rows' : q \in rows \/ q = r
    BY <1>4 DEF NewRow
  <2>4. r.phase = "clean-run" /\ r.results => r.on = db["ycsb"]
    BY <1>1, <1>4 DEF NewRow, DbInv, FileInv, WithHistogram
  <2>5. ASSUME NEW q \in rows, q.start = r.start, q.iteration = r.iteration
        PROVE  /\ r.phase = "clean-run" /\ r.results /\ q.phase = "run" => AtMostRun(r.on, q.on, r.iteration)
               /\ r.phase = "avg-run" /\ q.phase = "clean-run" => AtMostRun(r.average, q.on, r.iteration)
               /\ q.phase = "clean-run" => r.phase # "run"
               /\ q.phase = "avg-run" => r.phase # "clean-run"
    BY <1>1, <2>1, <2>4, <2>5 DEF LeftInv, ToExtend, ToRun, ToReference, ToClean, ToAverage
  <2> QED
    BY <1>1, <1>2, <2>2, <2>3, <2>5 DEF DatabasesAsMeant
<1> QED
  BY <1>3, <1>4, PhaseWritesRow, OthersWriteNothing

\* Without failures a phase's process runs: it is given a file that it accepts.
LEMMA PhaseIsReported ==
  ASSUME ScriptInv, Reporting, failures' = 0, failures \in Nat
  PROVE  /\ failures = 0 /\ \E r : NewRow(r) /\ r.results
         /\ <<at, at'>> \in {<<"extend", "key-sizes">>, <<"run", "reference">>, <<"reference", "dump">>,
                             <<"clean-run", "no-histogram">>, <<"avg-run", "drop-copy">>}
<1>1. PICK r : NewRow(r)
  BY PhaseWritesRow
<1>2. failures = 0 /\ failures' # failures + 1
  BY ProcessesEditNothing DEF Reporting
<1>3. <<at, at'>> \in {<<"extend", "key-sizes">>, <<"run", "reference">>, <<"reference", "dump">>,
                       <<"clean-run", "no-histogram">>, <<"avg-run", "drop-copy">>}
  BY RunIs DEF Reporting, Extend, RunWorkload, RunReference, RunCopy, RunAverage
<1>4. /\ at \in {"extend", "avg-run"} => ~file.histogram
      /\ at \notin {"extend", "avg-run"} => histogram # 0
  BY <1>2, <1>3
    DEF ScriptInv, ScriptTyped, FileInv, UndisturbedInv, WithHistogram, WithoutHistogram
<1>5. r.results
  BY <1>1, <1>2, <1>4 DEF NewRow
<1> QED
  BY <1>1, <1>2, <1>3, <1>5

\* The phases of an iteration come one after the other, and none is passed over.
LEMMA ReportStep ==
  ScriptInv /\ [ScriptNext]_scriptVars => ReportInv'
<1> SUFFICES ASSUME ScriptInv, [ScriptNext]_scriptVars, failures' = 0, at' # "ended"
             PROVE  ReportInv'
  BY DEF ReportInv
<1> USE DEF ToExtend, ToRun, ToReference, ToClean, ToAverage
<1>1. ReportInv /\ iteration \in Nat /\ failures \in Nat
  BY DEF ScriptInv, ScriptTyped, Iterations
<1>2. CASE Start
  BY <1>2 DEF Start, ReportInv
<1>3. CASE SetExtend
  <2>1. /\ at = "count" /\ at' = "extend" /\ iteration' = iteration + 1
        /\ rows' = rows /\ starts' = starts /\ failures = 0
    BY <1>3 DEF SetExtend, Step, counts
  <2>2. \A i \in 1 .. iteration' : i < iteration' => i \in 1 .. iteration
    BY <1>1, <2>1
  <2> QED
    BY <1>1, <2>1, <2>2 DEF ReportInv, HasRow
<1>4. CASE Reporting
  <2>1. /\ iteration' = iteration /\ starts' = starts
    BY <1>4, ProcessesEditNothing DEF Reporting
  <2>2. PICK r : NewRow(r) /\ r.results
    BY <1>1, <1>4, PhaseIsReported
  <2>3. /\ failures = 0
        /\ <<at, at'>> \in {<<"extend", "key-sizes">>, <<"run", "reference">>, <<"reference", "dump">>,
                            <<"clean-run", "no-histogram">>, <<"avg-run", "drop-copy">>}
    BY <1>1, <1>4, PhaseIsReported
  <2>4. \A p : p = at => HasRow(iteration, p)'
    BY <2>1, <2>2 DEF NewRow, HasRow
  <2>5. \A i, p : HasRow(i, p) => HasRow(i, p)'
    BY <2>1, <2>2 DEF NewRow, HasRow
  <2>6. \A i \in 1 .. iteration : i < iteration \/ i = iteration
    BY <1>1
  <2> HIDE DEF ToExtend, ToRun, ToReference, ToClean, ToAverage
  <2>7. \A i \in 1 .. iteration : \A p : HasRow(i, p) \/ (i = iteration /\ p = at) => HasRow(i, p)'
    BY <2>1, <2>4, <2>5
  <2>8. \A i \in 1 .. iteration :
          /\ i < iteration \/ at \notin ToExtend => HasRow(i, "extend")
          /\ i < iteration \/ at \notin ToRun => HasRow(i, "run")
          /\ i < iteration \/ at \notin ToReference => HasRow(i, "reference")
          /\ i < iteration \/ at \notin ToClean => HasRow(i, "clean-run")
          /\ i < iteration \/ at \notin ToAverage => HasRow(i, "avg-run")
    BY <1>1, <2>3 DEF ReportInv
  <2> QED
    BY <1>1, <2>1, <2>3, <2>6, <2>7, <2>8
      DEF ReportInv, ToExtend, ToRun, ToReference, ToClean, ToAverage
<1>5. CASE ~Start /\ ~SetExtend /\ ~Reporting
  <2>1. rows' = rows /\ starts' = starts /\ iteration' = iteration
    BY <1>5, OthersWriteNothing
  <2>2. /\ failures = 0
        /\ \/ at' = at
           \/ <<at, at'>> \in {<<"load", "load-reference">>, <<"load-reference", "count">>,
                <<"key-sizes", "set-run">>, <<"set-run", "run">>, <<"dump", "clean-run">>,
                <<"no-histogram", "average">>, <<"average", "load-average">>,
                <<"load-average", "original">>, <<"original", "avg-run">>, <<"drop-copy", "count">>}
    <3> USE DEF counts, Step, Fails
    <3>1. CASE LoadDb \/ LoadReference \/ LoadAverage
      BY <1>1, <3>1 DEF LoadDb, LoadReference, LoadAverage, Load,
        Accepted
    <3>2. CASE KeySizes \/ SetRun \/ Dump \/ RemoveHistogram
      BY <3>2 DEF KeySizes, SetRun, Dump, RemoveHistogram
    <3>3. CASE SetAverage \/ SetOriginal \/ DropCopy
      BY <3>3 DEF SetAverage, SetOriginal, DropCopy
    <3>4. CASE Interrupt \/ UNCHANGED scriptVars
      BY <1>1, <3>4 DEF Interrupt, scriptVars
    <3> QED
      BY <1>5, <3>1, <3>2, <3>3, <3>4 DEF ScriptNext, Reporting
  <2> QED
    BY <1>1, <2>1, <2>2 DEF ReportInv, HasRow
<1> QED
  BY <1>2, <1>3, <1>4, <1>5

LEMMA ScriptInitial == ScriptInit => ScriptInv
<1> SUFFICES ASSUME ScriptInit PROVE ScriptInv
  OBVIOUS
<1> USE DEF ScriptInit
<1>1. ScriptTyped
  <2>1. db \in [Databases -> SUBSET Marks]
    BY DEF Empty
  <2>2. 0 \in Iterations /\ ExitAt # 0 /\ 0 \in 0 .. MaxStarts /\ 0 \in 0 .. MaxFailures
    BY ScriptAssumption DEF Iterations
  <2>3. file \in Files /\ average \in SUBSET Marks
    BY DEF Files, Empty
  <2> QED
    BY <2>1, <2>2, <2>3 DEF ScriptTyped, Places
<1>2. FileInv /\ FirstInv
  BY DEF FileInv, FirstInv, WithHistogram, WithoutHistogram
<1>3. DbInv /\ UndisturbedInv
  BY DEF DbInv, UndisturbedInv, WithHistogram, UpToDump, Databases, Empty
<1>4. DatabasesAsMeant
  BY DEF DatabasesAsMeant, Databases, Empty
<1>5. RowInv /\ LeftInv /\ ReportInv /\ RowsTell /\ PhasesComparable
  BY DEF RowInv, LeftInv, ReportInv, RowsTell, PhasesComparable
<1> QED
  BY <1>1, <1>2, <1>3, <1>4, <1>5 DEF ScriptInv

LEMMA ScriptInvariant == ScriptSpec => []ScriptInv
<1>1. ScriptInv /\ [ScriptNext]_scriptVars => ScriptInv'
  <2> SUFFICES ASSUME ScriptInv, [ScriptNext]_scriptVars PROVE ScriptInv'
    OBVIOUS
  <2>1. ScriptTyped' /\ DbInv' /\ UndisturbedInv' /\ LeftInv' /\ DatabasesAsMeant'
    BY ScriptTypedStep, DbStep, UndisturbedStep, LeftStep, MeantStep
  <2>2. FileInv' /\ FirstInv' /\ RowInv' /\ ReportInv' /\ RowsTell' /\ PhasesComparable'
    BY FileStep, RowStep, TellStep, ReportStep
  <2> QED
    BY <2>1, <2>2 DEF ScriptInv
<1>2. ScriptInit => ScriptInv
  BY ScriptInitial
<1> QED
  BY <1>1, <1>2, PTL DEF ScriptSpec

-----------------------------------------------------------------------------
(* What the script promises                                                *)

\* The variables have the values that the script gives them, and a database is in one
\* piece: what was loaded into it has one length, because the copy is emptied before it
\* is loaded and the others before anything is.
THEOREM ScriptTypeCorrect == ScriptSpec => []ScriptTypeOK
<1>1. ScriptInv => ScriptTypeOK
  <2> SUFFICES ASSUME ScriptInv PROVE ScriptTypeOK
    OBVIOUS
  <2>1. ScriptTyped /\ DbInv /\ RowInv
    BY DEF ScriptInv
  <2>2. ASSUME NEW d \in Databases
        PROVE  /\ db[d] \subseteq Marks
               /\ Cardinality({m \in db[d] : m[1] = "load"}) <= 1
    <3> DEFINE Loads == {m \in db[d] : m[1] = "load"}
    <3>1. db[d] \subseteq Marks
      BY <2>1, <2>2 DEF ScriptTyped
    <3>2. \A m \in Loads : m \in {<<"load", "original">>, <<"load", "average">>}
      BY <3>1 DEF Marks
    <3>3. \/ Loads = {}
          \/ Loads = {<<"load", "original">>}
          \/ Loads = {<<"load", "average">>}
      BY <2>1, <2>2, <3>2 DEF DbInv
    <3> HIDE DEF Loads
    <3>4. Cardinality(Loads) \in {0, 1}
      BY <3>3, FS_EmptySet, FS_Singleton
    <3>5. Cardinality(Loads) <= 1
      BY <3>4
    <3> QED
      BY <3>1, <3>5 DEF Loads
  <2>3. /\ at \in Places /\ \A r \in rows : r.phase \in Phases
        /\ file \in Files /\ shell \in Files /\ average \subseteq Marks
    BY <2>1 DEF ScriptTyped, RowInv
  <2>4. {file, shell} \subseteq Files
    BY <2>3
  <2>5. /\ opscount \in {"given", "extend"} /\ histogram \in Iterations
        /\ iteration \in Iterations /\ starts \in 0 .. MaxStarts
        /\ failures \in 0 .. MaxFailures /\ interrupted \in BOOLEAN
    BY <2>1 DEF ScriptTyped
  <2> QED
    BY <2>2, <2>3, <2>4, <2>5, Zenon DEF ScriptTypeOK, Places
<1> QED
  BY <1>1, ScriptInvariant, PTL

\* A row tells the proportions, the distribution and the count that its YCSB process
\* had: where a phase starts, the shell has sourced the file or the two differ only in
\* the line of the histogram.
THEOREM ScriptRowsTell == ScriptSpec => []RowsTell
<1>1. ScriptInv => RowsTell
  BY DEF ScriptInv
<1> QED
  BY <1>1, ScriptInvariant, PTL

\* The phases that are compared with each other ran with the same parameters, count and
\* histogram, whatever was interrupted or failed before.
THEOREM ScriptPhasesComparable == ScriptSpec => []PhasesComparable
<1>1. ScriptInv => PhasesComparable
  BY DEF ScriptInv
<1> QED
  BY <1>1, ScriptInvariant, PTL

\* Each phase runs on the database it is meant for.  A run on the copy with results has
\* a histogram with records, so there was a dump to replace what the copy held.
THEOREM ScriptDatabasesAsMeant == ScriptSpec => []DatabasesAsMeant
<1>1. ScriptInv => DatabasesAsMeant
  BY DEF ScriptInv
<1> QED
  BY <1>1, ScriptInvariant, PTL

\* Without an interruption or a failing process every phase of an iteration has a row with
\* results.
THEOREM ScriptEveryPhaseReported == ScriptSpec => []EveryPhaseReported
<1>1. ScriptInv => EveryPhaseReported
  <2> SUFFICES ASSUME ScriptInv, failures = 0, at = "count" PROVE EveryPhaseReported
    BY DEF EveryPhaseReported
  <2>1. \A i \in 1 .. iteration : \A p \in Phases : HasRow(i, p)
    BY DEF ScriptInv, ReportInv, Phases, ToExtend, ToRun, ToReference, ToClean, ToAverage
  <2> QED
    BY <2>1 DEF HasRow, EveryPhaseReported
<1> QED
  BY <1>1, ScriptInvariant, PTL
=============================================================================
