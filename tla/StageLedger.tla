---------------------------- MODULE StageLedger ----------------------------
(***************************************************************************)
(* What stage admission and handoff promise, without claims, leases, rows  *)
(* or retries: a key means one task for ever; a stage is settled once, by  *)
(* one manifest, and everything its manifest publishes is admitted in that *)
(* very step.                                                              *)
(***************************************************************************)
EXTENDS Functions

CONSTANTS
    Stages,     \* directives that may be settled
    Tasks,      \* records with a field key
    Manifests   \* records with a field successors, a sequence of tasks

VARIABLES
    admitted,   \* key -> the task it was admitted with
    settled     \* stage -> the manifest it was settled by

ledger == <<admitted, settled>>

Init == admitted = <<>> /\ settled = <<>>

Agrees(tasks) ==
    \A t \in tasks : t.key \in DOMAIN admitted => admitted[t.key] = t

WithTasks(tasks) ==
    [k \in DOMAIN admitted \cup {t.key : t \in tasks} |->
        IF k \in DOMAIN admitted THEN admitted[k] ELSE CHOOSE t \in tasks : t.key = k]

Admit(t) ==
    /\ Agrees({t})
    /\ admitted' = WithTasks({t})
    /\ UNCHANGED settled

Settle(i, m) ==
    /\ i \notin DOMAIN settled
    /\ Agrees(Range(m.successors))
    /\ admitted' = WithTasks(Range(m.successors))
    /\ settled' = [j \in DOMAIN settled \cup {i} |-> IF j = i THEN m ELSE settled[j]]

Next ==
    \/ \E t \in Tasks : Admit(t)
    \/ \E i \in Stages, m \in Manifests : Settle(i, m)

Spec == Init /\ [][Next]_ledger
=============================================================================
