--------------------------- MODULE MCBackupRestore ---------------------------
(* Small instances of BackupRestore: a live and a restored directory.        *)
EXTENDS BackupRestore
=============================================================================
