--------------------------- MODULE MCJdbcDBClient ---------------------------
(* Small instances of JdbcDBClient.                                          *)
EXTENDS JdbcDBClient
=============================================================================
