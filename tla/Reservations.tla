---------------------------- MODULE Reservations ----------------------------
(***************************************************************************)
(* Root reservations (root_reservations.py): a producer admits a root      *)
(* together with the paths its stages may write, and a publisher releases  *)
(* them once the whole lineage of stages is settled.  Both are one         *)
(* transaction over the tables of Handoff and two of their own.            *)
(*                                                                         *)
(* A lane of a stage is a pair <<account, stage>> ("dev:review").  A path  *)
(* is the sequence of its parts, "." the empty one.  A grant is the parsed *)
(* reservation, and stands for its digest.                                 *)
(***************************************************************************)
EXTENDS HandoffProperties

CONSTANTS
    Grants,        \* reservations that producers ask for
    LineageDepth   \* 64 in require_lineage

Account(lane) == lane[1]
Stage(lane) == lane[2]

\* parse_reservation: the root is an implementation stage, at least one path,
\* one dependency per work and none on the reserved work itself.
Parsed(g) ==
    /\ g.task \in Tasks /\ Stage(g.task.lane) = "implementation"
    /\ Cardinality(g.paths) \in 1..64
    /\ \A p \in g.paths : Len(p) \in Nat
    /\ Cardinality(g.dependencies) <= 64
    /\ \A d \in g.dependencies :
        /\ d.work # g.work
        /\ \A e \in g.dependencies : d.work = e.work => d = e

ASSUME ReservationsAssumption ==
    /\ LineageDepth \in Nat
    /\ \A g \in Grants : Parsed(g)

VARIABLES
    reserved,   \* reserved_roots, reserved_paths: key -> grant and directive
    delivered   \* the roots with a delivery_digest: key -> final key and digest

rvars == <<hvars, reserved, delivered>>

Active == DOMAIN reserved \ DOMAIN delivered

ReservationsTypeOK ==
    /\ DOMAIN reserved \subseteq Keys
    /\ \A key \in DOMAIN reserved : reserved[key] \in [grant : Grants, id : Ids]
    /\ DOMAIN delivered \subseteq DOMAIN reserved
    /\ \A key \in DOMAIN delivered : delivered[key] \in [final : Keys, digest : Nat]

ReservationsInit ==
    /\ HandoffInit
    /\ reserved = <<>>
    /\ delivered = <<>>

(***************************************************************************)
(* admit                                                                   *)
(***************************************************************************)
\* Mutant: a path is compared with the parents of the other, one way round.
OverlapOneWay(p, q) == Len(p) <= Len(q) /\ SubSeq(q, 1, Len(p)) = p

\* The SQL of require_resources: equal, or one contains the other.
Overlap(p, q) ==
    LET n == IF Len(p) <= Len(q) THEN Len(p) ELSE Len(q)
    IN  SubSeq(p, 1, n) = SubSeq(q, 1, n)

\* Mutant: any reservation of the work will do, delivered or not.
AnyDependency(g) ==
    \A d \in g.dependencies : \E key \in DOMAIN reserved : reserved[key].grant.work = d.work

\* require_dependencies
DependenciesMet(g) ==
    \A d \in g.dependencies :
        \E key \in DOMAIN delivered :
            /\ reserved[key].grant.work = d.work
            /\ delivered[key].digest = d.digest

\* require_resources
ResourcesFree(g) ==
    \A key \in Active :
        LET held == reserved[key].grant
        IN  /\ held.work # g.work
            /\ held.namespace = g.namespace =>
                \A p \in held.paths, q \in g.paths : ~Overlap(p, q)

\* Mutant: INSERT OR REPLACE.
ReserveOver(g) ==
    /\ DependenciesMet(g)
    /\ ResourcesFree(g)
    /\ Fits(<<g.task>>)
    /\ Commit(DirectivesWith(<<g.task>>, Null))
    /\ InsertTasks(<<g.task>>)
    /\ reserved' = [key \in DOMAIN reserved \cup {g.task.key} |->
            IF key = g.task.key THEN [grant |-> g, id |-> IdOf(<<g.task>>, 1)]
                                ELSE reserved[key]]
    /\ UNCHANGED <<issued, call, granted, receipts, acks, delivered>>

\* insert_root: one transaction with the admission of the task.
Reserve(g) ==
    /\ g.task.key \notin DOMAIN reserved
    /\ g.task.key \notin DOMAIN admissions
    /\ DependenciesMet(g)
    /\ ResourcesFree(g)
    /\ Fits(<<g.task>>)
    /\ Commit(DirectivesWith(<<g.task>>, Null))
    /\ InsertTasks(<<g.task>>)
    /\ reserved' = [key \in DOMAIN reserved \cup {g.task.key} |->
            IF key = g.task.key THEN [grant |-> g, id |-> IdOf(<<g.task>>, 1)]
                                ELSE reserved[key]]
    /\ UNCHANGED <<issued, call, granted, receipts, acks, delivered>>

(***************************************************************************)
(* record_delivery                                                         *)
(***************************************************************************)
\* stage_node and stage_manifest: a settled stage that is what was admitted.
SettledStage(key) ==
    /\ key \in DOMAIN admissions
    /\ LET i == admissions[key].id
       IN  /\ directives[i].status = "done"
           /\ i \in DOMAIN receipts
           /\ Protected(directives[i])
           /\ directives[i].lane = admissions[key].lane
           /\ receipts[i].manifest.input = body[i]
           /\ admissions[key].body = body[i]

Sealing(key) == receipts[admissions[key].id].manifest

Previous ==
    [publication |-> "validation", validation |-> "review",
     review |-> "implementation", implementation |-> "review"]

\* Mutant: a stage may have published others beside this one.
LinkedAmong(above, key) ==
    \E n \in DOMAIN Sealing(above).successors : Sealing(above).successors[n].key = key

\* The one successor sealed by the stage above is this stage, still with the
\* priority it was given.
Linked(above, key) ==
    LET i == admissions[key].id
    IN  Sealing(above).successors =
            <<[key |-> key, body |-> body[i], lane |-> directives[i].lane,
               priority |-> directives[i].priority]>>

\* previous_stage: the keys from which key was legitimately handed over.
StagesAbove(key, account) ==
    {above \in DOMAIN admissions :
        /\ admissions[above].id = directives[admissions[key].id].parent
        /\ SettledStage(above)
        /\ admissions[above].lane =
            <<account, Previous[Stage(directives[admissions[key].id].lane)]>>
        /\ Linked(above, key)}

\* start is found in the first n stages, looking up from final.
ReachedWithin(n, start, final) ==
    LET account == Account(admissions[start].lane)
        reach[m \in 1..n] ==
            IF m = 1 THEN {final}
            ELSE UNION {StagesAbove(key, account) : key \in reach[m - 1] \ {start}}
    IN  \E m \in 1..n : start \in reach[m]

\* Mutant: the loop ends one stage early.
LineageCutShort(start, final) == ReachedWithin(LineageDepth - 1, start, final)

\* The loop of require_lineage: at most LineageDepth stages.
LineageReaches(start, final) == ReachedWithin(LineageDepth, start, final)

RequireLineage(start, final, digest) ==
    /\ SettledStage(start) /\ SettledStage(final)
    /\ admissions[final].lane = <<Account(admissions[start].lane), "publication">>
    /\ Sealing(final).successors = <<>>
    /\ Sealing(final).evidence = digest
    /\ LineageReaches(start, final)

RecordDelivery(key, final, digest) ==
    /\ key \in Active
    /\ RequireLineage(key, final, digest)
    /\ delivered' = [k \in DOMAIN delivered \cup {key} |->
            IF k = key THEN [final |-> final, digest |-> digest] ELSE delivered[k]]
    /\ Commit(directives)
    /\ UNCHANGED <<issued, call, granted, own, reserved>>

\* An exact repetition of admit or record_delivery answers from the tables.
Repeat ==
    /\ DOMAIN reserved # {}
    /\ Commit(directives)
    /\ UNCHANGED <<issued, call, granted, own, reserved, delivered>>

(***************************************************************************)
(* root_inspection.inspect, the other operation of the admission bridge    *)
(* (admission_bridge.py): a snapshot of one read-only transaction.         *)
(***************************************************************************)
Inspection(g) ==
    LET key == g.task.key
    IN  CASE key \notin DOMAIN reserved /\ key \notin DOMAIN admissions -> "absent"
          [] key \notin DOMAIN reserved /\ key \in DOMAIN admissions -> "unreserved"
          [] key \in DOMAIN reserved /\ reserved[key].grant # g -> "conflict"
          [] OTHER -> "receipt"

-----------------------------------------------------------------------------
ReservationsNext ==
    \/ HandoffNext /\ UNCHANGED <<reserved, delivered>>
    \/ \E g \in Grants : Reserve(g)
    \/ \E key, final \in Keys, m \in Manifests : RecordDelivery(key, final, m.evidence)
    \/ Repeat

ReservationsSpec == ReservationsInit /\ [][ReservationsNext]_rvars
=============================================================================
