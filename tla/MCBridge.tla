------------------------------ MODULE MCBridge ------------------------------
(***************************************************************************)
(* A small instance of the stage bridge for TLC: one client, over the      *)
(* chain of stages of MCHandoff.                                           *)
(***************************************************************************)
EXTENDS BridgeProperties, MCHandoff

CONSTANTS client

OneOwner ==
    [c \in {client} |-> [lane |-> main, lease |-> 2, successor_lanes |-> {main}]]
=============================================================================
