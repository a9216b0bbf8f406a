--------------------------- MODULE MCAsyncEngine ---------------------------
(* Instances of AsyncEngine for TLC. *)
EXTENDS AsyncEngine
=============================================================================
