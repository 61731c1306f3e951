--------------------------- MODULE MCMemoryStore ---------------------------
(* Instance of MemoryStore for TLC: two stores over one database *)
EXTENDS MemoryStore
=============================================================================
