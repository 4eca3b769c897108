----------------------------- MODULE MCService ------------------------------
(***************************************************************************)
(* A small instance of the gRPC service for TLC: seconds of two            *)
(* milliseconds, requests signed at instant 2, and one grant for each that *)
(* holds for the whole run, from its end or to its beginning.              *)
(***************************************************************************)
EXTENDS ServiceProperties

CONSTANT main

Sent(op, ms, nbf, exp) ==
    [op |-> op, lane |-> main, policy |-> "requeue", reap |-> TRUE, ms |-> ms,
     id |-> 1, token |-> 1, iat |-> 2, nbf |-> nbf, exp |-> exp]

SmallRequests ==
    {Sent("take", 1, 1, 4), Sent("peek", 0, 1, 2), Sent("touch", 3, 3, 4)}
=============================================================================
