--------------------------- MODULE MCDebugStream ---------------------------
(* Small values for Mirror and DebugStream: stores that overflow within    *)
(* two calls and pages smaller than the store.                             *)
EXTENDS DebugStream
=============================================================================
