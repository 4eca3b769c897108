----------------------------- MODULE MCHandoff ------------------------------
(***************************************************************************)
(* Small instances of handoff for TLC.                                     *)
(***************************************************************************)
EXTENDS HandoffProperties

CONSTANTS main, spec, patch, root, next, other

\* A producer may admit the root, and also a key that handoffs publish, with
\* the same content as they do or with another priority.
Task(key, text, n) == [key |-> key, body |-> text, lane |-> main, priority |-> n]

SmallRoots == {Task(root, spec, 1), Task(next, patch, 1), Task(next, patch, 0)}

Manifest(text, evidence, successors) ==
    [input |-> text, evidence |-> evidence, successors |-> successors]

\* Two results for the root, one with a second successor; the end of a chain,
\* or its way back to a key that is settled already.
SmallManifests ==
    {Manifest(spec, 0, <<Task(next, patch, 1)>>),
     Manifest(spec, 1, <<Task(other, patch, 1), Task(next, patch, 1)>>),
     Manifest(patch, 0, <<>>),
     Manifest(patch, 1, <<Task(root, spec, 1)>>)}
=============================================================================
