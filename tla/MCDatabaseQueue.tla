--------------------------- MODULE MCDatabaseQueue ---------------------------
(* Two processes that share the table, a seed that may be produced again, two *)
(* places of which one has an entry that PostgreSQL refuses.                  *)
EXTENDS DatabaseQueue
=============================================================================
