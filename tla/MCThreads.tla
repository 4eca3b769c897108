----------------------------- MODULE MCThreads ------------------------------
(***************************************************************************)
(* Small instances of thread traversal for TLC.                            *)
(***************************************************************************)
EXTENDS ThreadProperties

CONSTANTS main, text, root, next

Nothing == {}
=============================================================================
