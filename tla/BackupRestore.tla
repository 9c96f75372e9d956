---------------------------- MODULE BackupRestore ----------------------------
(***************************************************************************)
(* The programs that save and restore the RocksDB directory of the         *)
(* experiments: backup_rocksdb, load_rocksdb and test, called one after    *)
(* another between runs of YCSB that change the directories.  Calls of     *)
(* RocksDB fail or succeed as the state of directory and backups says, or  *)
(* fail for reasons of their own; a program may be killed in between.      *)
(***************************************************************************)
EXTENDS Integers, Sequences, Functions

CONSTANTS
  Dirs, NoDir,   \* paths of databases; none
  RestorePath,   \* the path that test looks at, "/tmp/rocksdb_restore"
  Tables,        \* the tables that runs write to
  MaxWrites,     \* BOUND: writes of all runs
  MaxBackups,    \* BOUND: backups
  MaxFaults      \* BOUND: calls that fail on their own, and kills

ASSUME BackupAssumption ==
  /\ RestorePath \in Dirs /\ NoDir \notin Dirs
  /\ "usertable" \in Tables /\ "default" \notin Tables
  /\ {MaxWrites, MaxBackups, MaxFaults} \subseteq Nat

VARIABLES
  content,   \* each directory: column family -> its last write; empty when there is none
  whole,     \* FALSE while a restore has not written all of the directory
  names,     \* its file CF_NAMES, which is RocksDBClient's, not RocksDB's
  backups,   \* the backup directory: backup id -> content
  ycsb,      \* the directory that a run of YCSB has open
  writes, faults,   \* writes and faults so far
  prog, db_path, id,  \* the program that runs, and its arguments
  pc, held,  \* where it is, and what it has to delete: handles, db, backup_engine
  exit,      \* its exit code, when it has ended
  found,     \* history: what the program found when it had opened its directory
  promised,  \* history: the same, of each backup_rocksdb that made a backup
  before     \* history: how many backups there were when prog began

disks == <<content, whole, names>>
environment == <<ycsb, writes>>
arguments == <<prog, db_path, id, before>>
process == <<pc, held, exit>>
history == <<found, promised>>
vars == <<disks, backups, environment, faults, arguments, process, history>>

\* The definitions marked (wrong) are variants of the definition after them,
\* with which the properties are tested.

NoDb == [f \in {} |-> 0]

Init ==
  /\ content = [d \in Dirs |-> NoDb]
  /\ whole = [d \in Dirs |-> TRUE]
  /\ names = [d \in Dirs |-> {}]
  /\ backups = <<>> /\ found = NoDb /\ promised = <<>> /\ before = 0
  /\ ycsb = NoDir /\ writes = 0 /\ faults = 0
  /\ prog = "none" /\ db_path = NoDir /\ id = 0
  /\ pc = "idle" /\ held = {} /\ exit = 0

-----------------------------------------------------------------------------
(* Runs of YCSB, of which RocksDBClient has the details                     *)

\* Nothing but the order in which people call them keeps a run away from a
\* directory that load_rocksdb replaces: that they do is assumed.
Restoring(d) == prog = "load" /\ pc # "idle" /\ db_path = d

\* DB::Open and RocksDB.open take the LOCK of the directory.
Locked(d) == ycsb = d \/ (db_path = d /\ "db" \in held)

\* A database in which families N are opened, and one in which v is written to f.
Opened(c, N) == [f \in DOMAIN c \cup N |-> IF f \in DOMAIN c THEN c[f] ELSE 0]
Written(c, f, v) == [g \in DOMAIN c \cup {f} |-> IF g = f THEN v ELSE c[g]]

RunOpens(d) ==
  /\ ycsb = NoDir /\ ~Locked(d) /\ ~Restoring(d) /\ whole[d]
  /\ DOMAIN content[d] \ {"default"} \subseteq names[d]
  /\ ycsb' = d
  /\ content' = [content EXCEPT ![d] = Opened(@, names[d] \cup {"default"})]
  /\ UNCHANGED <<whole, names, backups, writes, faults, arguments, process, history>>

RunWrites(t) ==
  /\ ycsb # NoDir /\ writes < MaxWrites
  /\ writes' = writes + 1
  /\ content' = [content EXCEPT ![ycsb] = Written(@, t, writes + 1)]
  /\ UNCHANGED <<whole, names, backups, ycsb, faults, arguments, process, history>>

RunEnds ==
  /\ ycsb # NoDir
  /\ names' = [names EXCEPT ![ycsb] = DOMAIN content[ycsb]]
  /\ ycsb' = NoDir
  /\ UNCHANGED <<content, whole, backups, writes, faults, arguments, process, history>>

RunKilled ==
  /\ ycsb # NoDir /\ faults < MaxFaults
  /\ faults' = faults + 1 /\ ycsb' = NoDir
  /\ UNCHANGED <<disks, backups, writes, arguments, process, history>>

Ycsb == (\E d \in Dirs : RunOpens(d)) \/ (\E t \in Tables : RunWrites(t)) \/ RunEnds \/ RunKilled

-----------------------------------------------------------------------------
(* What every main() does                                                   *)

Begin(p, d, i, first) ==
  /\ pc = "idle"
  /\ prog' = p /\ db_path' = d /\ id' = i /\ before' = Len(backups)
  /\ pc' = first
  /\ UNCHANGED <<disks, backups, environment, faults, held, exit, history>>

\* The rest of main(): what is held is deleted, and the code is returned.
AlwaysZero(ok) == 0                                                \* (wrong)
CodeOf(ok) == IF ok THEN 0 ELSE 1

Finish(ok) == pc' = "release" /\ exit' = CodeOf(ok)
Continue(to) == pc' = to /\ UNCHANGED exit

\* A call that fails on its own.
Fault == faults < MaxFaults /\ faults' = faults + 1

\* The order of the delete statements at every return
Deleted == <<"handles", "db", "backup_engine">>

Release ==
  /\ pc = "release"
  /\ \/ \E i \in DOMAIN Deleted :
          /\ Deleted[i] \in held /\ \A j \in 1 .. i - 1 : Deleted[j] \notin held
          /\ held' = held \ {Deleted[i]} /\ UNCHANGED pc
     \/ /\ held \cap Range(Deleted) = {}
        /\ pc' = "idle" /\ UNCHANGED held
  /\ UNCHANGED <<disks, backups, environment, faults, arguments, exit, history>>

\* The operating system closes what a killed program held.
Kill ==
  /\ pc # "idle" /\ Fault
  /\ pc' = "idle" /\ held' = {} /\ exit' = 1
  /\ UNCHANGED <<disks, backups, environment, arguments, history>>

\* BackupEngine::Open with the default options leaves what is in backup_path.
DestroyOldData(b) == IF prog = "backup" THEN <<>> ELSE b           \* (wrong)
KeepOldData(b) == b

AfterEngine == IF prog = "backup" THEN "create" ELSE "restore"

OpenEngine ==
  /\ pc = "engine"
  /\ \/ /\ held' = held \cup {"backup_engine"}
        /\ backups' = KeepOldData(backups)
        /\ Continue(AfterEngine)
        /\ UNCHANGED faults
     \/ Fault /\ Finish(FALSE) /\ UNCHANGED <<held, backups>>
  /\ UNCHANGED <<disks, environment, arguments, history>>

-----------------------------------------------------------------------------
(* backup_rocksdb <db_path> <backup_path>                                   *)

\* column_family_names
DefaultOnly == {"default"}                                         \* (wrong)
ColumnFamilies == {"default", "usertable"}

StartBackup(d) == Len(promised) < MaxBackups /\ Begin("backup", d, 0, "open")

\* DB::Open must be given all the column families that there are, creates none, and
\* fails without a database or its lock.
OpenDb ==
  /\ pc = "open"
  /\ \/ /\ DOMAIN content[db_path] = ColumnFamilies /\ whole[db_path] /\ ~Locked(db_path)
        /\ held' = {"handles", "db"} /\ found' = content[db_path]
        /\ Continue("flush") /\ UNCHANGED faults
     \/ /\ ~(DOMAIN content[db_path] = ColumnFamilies /\ whole[db_path] /\ ~Locked(db_path))
        /\ Finish(FALSE) /\ UNCHANGED <<held, found, faults>>
     \/ Fault /\ Finish(FALSE) /\ UNCHANGED <<held, found>>
  /\ UNCHANGED <<disks, backups, environment, arguments, promised>>

\* Each handle in turn; the memtables' data are the directory's in either case.
FlushAll ==
  /\ pc = "flush"
  /\ \/ Continue("engine") /\ UNCHANGED faults
     \/ Fault /\ Finish(FALSE)
  /\ UNCHANGED <<disks, backups, environment, arguments, held, history>>

\* A backup that fails, or is interrupted, has no id.
CreateNewBackup ==
  /\ pc = "create"
  /\ \/ /\ backups' = Append(backups, content[db_path])
        /\ promised' = Append(promised, found)
        /\ Finish(TRUE) /\ UNCHANGED faults
     \/ Fault /\ Finish(FALSE) /\ UNCHANGED <<backups, history>>
  /\ UNCHANGED <<disks, environment, arguments, held, found>>

-----------------------------------------------------------------------------
(* load_rocksdb <db_path> <backup_path> <backup_id_to_restore>, and test    *)

StartLoad(d, i) == ycsb # d /\ Begin("load", d, i, "engine")
StartTest == Begin("test", RestorePath, 0, "list")

\* RestoreDBFromBackup: an id that is not there is refused.
BeginRestore ==
  /\ pc = "restore"
  /\ IF id \in DOMAIN backups
     THEN /\ whole' = [whole EXCEPT ![db_path] = FALSE]
          /\ Continue("restoring")
     ELSE Finish(FALSE) /\ UNCHANGED whole
  /\ UNCHANGED <<content, names, backups, environment, faults, arguments, held, history>>

LatestBackup(i) == Len(backups)                                    \* (wrong)
BackupToRestore(i) == i

\* Whether a file that is not RocksDB's stays is not promised.
EndRestore ==
  /\ pc = "restoring"
  /\ \/ /\ content' = [content EXCEPT ![db_path] = backups[BackupToRestore(id)]]
        /\ whole' = [whole EXCEPT ![db_path] = TRUE]
        /\ \E kept \in {names[db_path], {}} : names' = [names EXCEPT ![db_path] = kept]
        /\ Continue("list") /\ UNCHANGED faults
     \/ Fault /\ Finish(FALSE) /\ UNCHANGED disks
  /\ UNCHANGED <<backups, environment, arguments, held, history>>

\* ListColumnFamilies reads the MANIFEST.
HasFamilies == content[db_path] # NoDb /\ whole[db_path]

FindUsertable ==
  /\ prog = "load" /\ pc = "list"
  /\ \/ /\ HasFamilies /\ "usertable" \in DOMAIN content[db_path]
        /\ Continue("reopen") /\ UNCHANGED faults
     \/ /\ ~(HasFamilies /\ "usertable" \in DOMAIN content[db_path])
        /\ Finish(FALSE) /\ UNCHANGED faults
     \/ Fault /\ Finish(FALSE)
  /\ UNCHANGED <<disks, backups, environment, arguments, held, history>>

\* It prints whether there is a usertable, and ends with 0 in either case.
PrintFamilies ==
  /\ prog = "test" /\ pc = "list"
  /\ \/ Finish(HasFamilies) /\ UNCHANGED faults
     \/ Fault /\ Finish(FALSE)
  /\ UNCHANGED <<disks, backups, environment, arguments, held, history>>

\* DB::Open with all the column families that were found
Reopen ==
  /\ pc = "reopen"
  /\ \/ held' = held \cup {"handles", "db"} /\ Finish(TRUE) /\ UNCHANGED faults
     \/ Fault /\ Finish(FALSE) /\ UNCHANGED held
  /\ UNCHANGED <<disks, backups, environment, arguments, history>>

Program ==
  \/ \E d \in Dirs : StartBackup(d) \/ \E i \in 0 .. MaxBackups + 1 : StartLoad(d, i)
  \/ StartTest
  \/ OpenDb \/ FlushAll \/ OpenEngine \/ CreateNewBackup
  \/ BeginRestore \/ EndRestore \/ FindUsertable \/ PrintFamilies \/ Reopen
  \/ Release \/ Kill

Next == Ycsb \/ Program
Spec == Init /\ [][Next]_vars

-----------------------------------------------------------------------------
(* Properties                                                               *)

Families == Tables \cup {"default"}
Contents == UNION {[F -> 0 .. MaxWrites] : F \in SUBSET Families}
Steps ==
  [none |-> {},
   backup |-> {"open", "flush", "engine", "create"},
   load |-> {"engine", "restore", "restoring", "list", "reopen"},
   test |-> {"list"}]

\* The variables have the values that RocksDB and the programs give them, and each
\* program does its own steps only.
TypeOK ==
  /\ content \in [Dirs -> Contents] /\ whole \in [Dirs -> BOOLEAN]
  /\ names \in [Dirs -> SUBSET Families]
  /\ backups \in Seq(Contents) /\ promised \in Seq(Contents) /\ Len(promised) <= MaxBackups
  /\ ycsb \in Dirs \cup {NoDir} /\ writes \in 0 .. MaxWrites /\ faults \in 0 .. MaxFaults
  /\ prog \in DOMAIN Steps /\ db_path \in Dirs \cup {NoDir}
  /\ id \in 0 .. MaxBackups + 1 /\ before \in Nat
  /\ found \in Contents
  /\ pc \in {"idle", "release"} \cup Steps[prog] /\ held \subseteq Range(Deleted) /\ exit \in {0, 1}

\* A backup_rocksdb that ends with 0 has made a backup, one that finds an error has
\* made none: a script may rely on its exit code.  Until the database is deleted the
\* directory is as the backup has it, then a run may go on (backup_rocksdb.cc:33-89).
SuccessIsSaved ==
  prog = "backup" /\ pc = "release" =>
    IF exit = 0
    THEN /\ Len(backups) = before + 1
         /\ backups[before + 1] = found
         /\ "db" \in held => content[db_path] = found
    ELSE Len(backups) = before

\* A load_rocksdb that ends with 0 has brought back what the backup of that id was
\* made of, whatever runs, backups, failed or killed loads have come in between
\* (load_rocksdb.cc:41).
RestoredAsSaved ==
  prog = "load" /\ pc = "release" /\ exit = 0 =>
    whole[db_path] /\ content[db_path] = promised[id]

\* No program and no failure removes or changes a backup (the options of
\* BackupEngine::Open at backup_rocksdb.cc:55 and load_rocksdb.cc:23).
BackupsKept ==
  [][\A i \in DOMAIN backups : i \in DOMAIN backups' /\ backups'[i] = backups[i]]_vars

\* A restored directory has the column families that load_rocksdb looks for and that
\* backup_rocksdb opens: its search for usertable never fails on a backup that the
\* other program made, and the copy can be saved again (load_rocksdb.cc:66-79).
FamiliesFound ==
  prog = "load" /\ pc \in {"list", "reopen"} => DOMAIN content[db_path] = {"default", "usertable"}

\* A restore that failed or was killed half way has left a broken directory, but
\* never without a backup it can be made whole from (load_rocksdb.cc:41-47).
Recoverable == \A d \in Dirs : ~whole[d] => backups # <<>>

\* The handles are deleted before the database, and at each return of main() nothing
\* is left: no directory stays locked (the delete statements of both programs).
Released ==
  /\ pc = "idle" => held = {}
  /\ "handles" \in held => "db" \in held
=============================================================================
