----------------------- MODULE ReservationProperties ------------------------
(***************************************************************************)
(* What producers, publishers and the stages between them rely on.         *)
(***************************************************************************)
EXTENDS Reservations

\* Writers exclude each other: two reservations that are not released hold
\* different work, and no path of one contains a path of the other in the
\* same namespace, whatever became of the claims of their stages
\* (require_resources; "an expired lease never releases").
WritersExclude ==
    \A key \in Active : \A other \in Active \ {key} :
        LET g == reserved[key].grant
            h == reserved[other].grant
        IN  /\ g.work # h.work
            /\ g.namespace = h.namespace =>
                \A p \in g.paths, q \in h.paths : ~Overlap(p, q) /\ ~Overlap(q, p)

\* Work is reserved only after the delivery it depends on, and that delivery
\* is never taken back (require_dependencies).
DependenciesDelivered ==
    \A key \in DOMAIN reserved : \A d \in reserved[key].grant.dependencies :
        \E k \in DOMAIN delivered : /\ reserved[k].grant.work = d.work
                                    /\ delivered[k].digest = d.digest

\* A set of stages that are all settled, each with one successor in the set,
\* up to a publication with none.
ClosedLineage(S, account, final) ==
    /\ final \in S
    /\ \A i \in S :
        /\ directives[i].status = "done" /\ i \in DOMAIN receipts
        /\ directives[i].lane = <<account, Stage(directives[i].lane)>>
        /\ i = final =>
            Stage(directives[i].lane) = "publication" /\ receipts[i].successor_ids = <<>>
        /\ i # final =>
            /\ Len(receipts[i].successor_ids) = 1
            /\ LET j == receipts[i].successor_ids[1]
               IN  /\ j \in S
                   /\ Stage(directives[i].lane) = Previous[Stage(directives[j].lane)]

\* When paths are released nobody is left to write them: everything the root
\* led to is settled, by one account, with no stage skipped and no sibling
\* pending (require_lineage, previous_stage).
ReleasedIsFinished ==
    \A key \in DOMAIN delivered :
        LET final == admissions[delivered[key].final].id
            account == Account(directives[reserved[key].id].lane)
        IN  \E S \in SUBSET Ids : reserved[key].id \in S /\ ClosedLineage(S, account, final)

\* The stages of S still have the parent and the priority they were published
\* with: none was a root already, and none was given another priority since.
AsPublished(S) ==
    \A i \in S : \A n \in DOMAIN receipts[i].successor_ids :
        LET j == receipts[i].successor_ids[n]
        IN  /\ directives[j].parent = i
            /\ directives[j].priority = receipts[i].manifest.successors[n].priority

\* A reservation is not held for ever: once its stages are all settled in
\* order, as they were published and no more than the loop of require_lineage
\* goes up, the publisher's record_delivery is accepted.
FinishedIsReleasable ==
    \A key \in Active, final \in DOMAIN admissions :
        LET last == admissions[final].id
            account == Account(directives[reserved[key].id].lane)
        IN  (\E S \in SUBSET Ids :
                /\ reserved[key].id \in S /\ ClosedLineage(S, account, last)
                /\ AsPublished(S) /\ Cardinality(S) <= LineageDepth) =>
            RequireLineage(key, final, receipts[last].manifest.evidence)

\* A producer may act on whatever inspect said but "absent": a receipt keeps
\* its directive, its reservation and, once delivered, its delivery digest,
\* and a conflict or an unreserved identity never becomes this grant's
\* (root_inspection: "an absent receipt is only an observation").
InspectionIsFinal ==
    [][\A g \in Grants :
        Inspection(g) # "absent" =>
            /\ Inspection(g)' = Inspection(g)
            /\ Inspection(g) = "receipt" =>
                /\ reserved'[g.task.key] = reserved[g.task.key]
                /\ g.task.key \in DOMAIN delivered =>
                    delivered'[g.task.key] = delivered[g.task.key]
      ]_rvars
=============================================================================
