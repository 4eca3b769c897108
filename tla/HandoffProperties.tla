------------------------- MODULE HandoffProperties --------------------------
(***************************************************************************)
(* What admission and handoff promise to the consumers that chain stages.  *)
(***************************************************************************)
EXTENDS Handoff

\* Settlement is all or nothing: a protected directive is done exactly when
\* it has a receipt; the receipt seals the very input of the directive, and
\* every successor it lists is admitted, with the content of the manifest, as
\* a protected directive of its own (commit_handoff, admit_in_transaction).
SettledCompletely ==
    /\ \A i \in Ids :
        Protected(directives[i]) =>
            (directives[i].status \in Terminal <=> i \in DOMAIN receipts)
    /\ \A i \in DOMAIN receipts :
        LET m == receipts[i].manifest
        IN  /\ m.input = body[i]
            /\ \A n \in DOMAIN m.successors :
                LET t == m.successors[n]
                    child == receipts[i].successor_ids[n]
                IN  /\ t.key \in DOMAIN admissions
                    /\ admissions[t.key].id = child
                    /\ Recorded(t.key) = Fingerprint(t)
                    /\ Protected(directives[child])

\* A key and a directive name each other for ever: no two keys share a
\* directive, and the row still has the body, the lane and the policy it was
\* admitted with, however many producers and handoffs raced for the key.
KeyNamesOneDirective ==
    \A key \in DOMAIN admissions :
        LET a == admissions[key]
        IN  /\ Protected(directives[a.id])
            /\ body[a.id] = a.body
            /\ directives[a.id].lane = a.lane
            /\ \A other \in DOMAIN admissions \ {key} : admissions[other].id # a.id

\* Whatever a client was told of a handoff is what is sealed: of all the
\* retries, stale workers and conflicting manifests for one directive only the
\* sealed one was ever acknowledged (sealed_receipt).
AcksAreSealed ==
    \A a \in acks :
        /\ a.id \in DOMAIN receipts
        /\ receipts[a.id].token = a.token
        /\ receipts[a.id].manifest = a.manifest

\* A protected directive has one execution: the token of its first claim stays
\* on it through expiry, parking and every forced call until a handoff under
\* that same token seals it; after that neither row nor receipt changes.
SettledByItsOnlyClaim ==
    [][\A i \in Ids :
        /\ Protected(directives[i]) /\ directives[i].token # Null =>
            \/ directives'[i].token = directives[i].token
            \/ /\ i \in DOMAIN receipts' \ DOMAIN receipts
               /\ receipts'[i].token = directives[i].token
        /\ i \in DOMAIN receipts =>
            /\ i \in DOMAIN receipts' /\ receipts'[i] = receipts[i]
            /\ directives'[i].status = "done"
      ]_hvars

Ledger ==
    INSTANCE StageLedger WITH
        Stages <- Ids,
        admitted <- [key \in DOMAIN admissions |->
                        [key |-> key, body |-> admissions[key].body,
                         lane |-> admissions[key].lane,
                         priority |-> admissions[key].priority]],
        settled <- [i \in DOMAIN receipts |-> receipts[i].manifest]

\* Admission and handoff, with all their claims, leases, retries and races,
\* are steps of the ledger: keys keep their tasks, a stage is settled once,
\* and its successors appear in the same step.
ImplementsLedger == Ledger!Spec
=============================================================================
