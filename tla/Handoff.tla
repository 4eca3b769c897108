------------------------------- MODULE Handoff ------------------------------
(***************************************************************************)
(* Stage admission (stage_admission.py) and handoff (handoff.py) over the  *)
(* queue.  Both are one transaction on the tables of the queue and two of  *)
(* their own.  A transaction that raises, or whose process dies, is rolled *)
(* back and is no step; one that commits may lose its reply.               *)
(*                                                                         *)
(* A table of one's own is a function from its primary keys to its rows.   *)
(* Digests stand for what they digest (sha256 does not collide): a body    *)
(* for its digest, a manifest for its digest.                              *)
(***************************************************************************)
EXTENDS QueueProperties, Sequences, FiniteSets

CONSTANTS
    Bodies,     \* texts of directives
    Keys,       \* admission keys
    Roots,      \* tasks that producers admit
    Manifests   \* manifests that workers hand over, as parse_handoff returns them

Tasks == [key : Keys, body : Bodies, lane : Lanes, priority : Priorities]

\* parse_handoff: at most 16 successors, none with the key of another.  The
\* other fields of a manifest (evidence) are stored and tell manifests apart.
Parses(m) ==
    /\ m \in [input : Bodies, evidence : Nat, successors : Seq(Tasks)]
    /\ Len(m.successors) <= 16
    /\ \A a, b \in DOMAIN m.successors :
        m.successors[a].key = m.successors[b].key => a = b

ASSUME HandoffAssumption ==
    /\ Bodies # {}
    /\ Roots \subseteq Tasks
    /\ \A m \in Manifests : Parses(m)

VARIABLES
    body,        \* the column of directives that admission and handoff digest
    admissions,  \* stage_admissions: key -> directive and fingerprint
    receipts,    \* handoff_receipts: directive -> token, manifest, successors
    acks         \* history: the handoffs whose success a client was told of

own == <<body, admissions, receipts, acks>>
hvars == <<vars, own>>

Admission == [id : Ids, body : Bodies, lane : Lanes, priority : Priorities]
Receipt == [token : Tokens, manifest : Manifests, successor_ids : Seq(Ids)]

HandoffTypeOK ==
    /\ body \in [Ids -> Bodies]
    /\ DOMAIN admissions \subseteq Keys
    /\ \A key \in DOMAIN admissions : admissions[key] \in Admission
    /\ DOMAIN receipts \subseteq Ids
    /\ \A i \in DOMAIN receipts : receipts[i] \in Receipt
    /\ acks \subseteq [id : Ids, token : Tokens, manifest : Manifests]

\* A row's body means nothing before the row is inserted.
HandoffInit ==
    /\ Init
    /\ body = [i \in Ids |-> CHOOSE b \in Bodies : TRUE]
    /\ admissions = <<>>
    /\ receipts = <<>>
    /\ acks = {}

(***************************************************************************)
(* admit_in_transaction for each task of a sequence, in order: a key that  *)
(* is there already must have the same fingerprint and keeps its directive *)
(* (and that directive its parent); the others get the next ids.           *)
(***************************************************************************)
Fingerprint(t) == [body |-> t.body, lane |-> t.lane, priority |-> t.priority]

Recorded(key) ==
    [body |-> admissions[key].body, lane |-> admissions[key].lane,
     priority |-> admissions[key].priority]

\* Mutant: a known key is taken on trust.
AgreesOnTrust(s) == TRUE

Agrees(s) ==
    \A n \in DOMAIN s : s[n].key \in DOMAIN admissions =>
        Recorded(s[n].key) = Fingerprint(s[n])

NewTasks(s) == {n \in DOMAIN s : s[n].key \notin DOMAIN admissions}

Rows == Cardinality({i \in Ids : Exists(directives[i])})

\* Mutants: ids counted from zero; one lastrowid for all successors.
IdFromZero(s, n) ==
    IF n \in NewTasks(s)
    THEN Rows + Cardinality({m \in NewTasks(s) : m < n})
    ELSE admissions[s[n].key].id

LastId(s, n) ==
    IF n \in NewTasks(s)
    THEN Rows + Cardinality(NewTasks(s))
    ELSE admissions[s[n].key].id

\* The id of the n-th task: cursor.lastrowid of its INSERT, or the recorded one.
IdOf(s, n) ==
    IF n \in NewTasks(s)
    THEN Rows + Cardinality({m \in NewTasks(s) : m <= n})
    ELSE admissions[s[n].key].id

\* Bound: the ids the model has must suffice.
Fits(s) == Rows + Cardinality(NewTasks(s)) <= MaxId

Inserted(s) == {IdOf(s, n) : n \in NewTasks(s)}
TaskOf(s, i) == s[CHOOSE n \in NewTasks(s) : IdOf(s, n) = i]

DirectivesWith(s, parent) ==
    [i \in Ids |->
        IF i \in Inserted(s)
        THEN Pending("hold", TaskOf(s, i).lane, TaskOf(s, i).priority, parent)
        ELSE directives[i]]

InsertTasks(s) ==
    /\ body' = [i \in Ids |-> IF i \in Inserted(s) THEN TaskOf(s, i).body ELSE body[i]]
    /\ admissions' =
        [key \in DOMAIN admissions \cup {s[n].key : n \in NewTasks(s)} |->
            IF \E n \in NewTasks(s) : s[n].key = key
            THEN LET n == CHOOSE n \in NewTasks(s) : s[n].key = key
                 IN  [id |-> IdOf(s, n), body |-> s[n].body,
                      lane |-> s[n].lane, priority |-> s[n].priority]
            ELSE admissions[key]]

\* stage_admission.admit: an exact repetition changes nothing.
AdmitRoot(t) ==
    /\ Agrees(<<t>>) /\ Fits(<<t>>)
    /\ Commit(DirectivesWith(<<t>>, Null))
    /\ InsertTasks(<<t>>)
    /\ UNCHANGED <<issued, call, granted, receipts, acks>>

(***************************************************************************)
(* handoff.complete                                                        *)
(***************************************************************************)
\* The reply reaches the client, or is lost.
Reply(i, k, m) == acks' \in {acks, acks \cup {[id |-> i, token |-> k, manifest |-> m]}}

\* Mutant: the digest of a repeated handoff is not compared.
SealedUnderToken(i, k, m) == i \in DOMAIN receipts /\ receipts[i].token = k

\* sealed_receipt
Sealed(i, k, m) ==
    /\ i \in DOMAIN receipts
    /\ receipts[i].token = k
    /\ receipts[i].manifest = m

Replay(i, k, m) ==
    /\ Sealed(i, k, m)
    /\ Reply(i, k, m)
    /\ Commit(directives)
    /\ UNCHANGED <<issued, call, granted, body, admissions, receipts>>

\* require_input
ExactInput(i, m) == Protected(directives[i]) /\ body[i] = m.input

\* Mutant: finish_parent does not look at how many rows it updated.
FinishedIfHeld(i, k, u) == TRUE

\* The guard of finish_parent: it raises, and nothing is committed, when the
\* lease ended after require_active.
Finishable(i, k, u) == HoldsClaim(directives[i], k, u)

\* The UPDATE of finish_parent.
Finished(d, i, k, u) ==
    IF HoldsClaim(d[i], k, u) THEN [d EXCEPT ![i] = Completed(@)] ELSE d

\* commit_handoff: require_active reads the clock, and finish_parent again.
Complete(i, k, m) ==
    /\ i \notin DOMAIN receipts
    /\ ExactInput(i, m)
    /\ \E t, u \in LockedReading :
        /\ t <= u
        /\ HoldsClaim(directives[i], k, t)
        /\ Agrees(m.successors) /\ Fits(m.successors)
        /\ InsertTasks(m.successors)
        /\ receipts' = [j \in DOMAIN receipts \cup {i} |->
                IF j = i THEN [token |-> k, manifest |-> m,
                               successor_ids |-> [n \in DOMAIN m.successors |->
                                                    IdOf(m.successors, n)]]
                ELSE receipts[j]]
        /\ Finishable(i, k, u)
        /\ Commit(Finished(DirectivesWith(m.successors, i), i, k, u))
    /\ Reply(i, k, m)
    /\ granted' = [granted EXCEPT ![k] = Null]
    /\ UNCHANGED <<issued, call>>

-----------------------------------------------------------------------------
\* A push gives its row a body; no other operation of the queue touches one.
QueueStep ==
    /\ Next
    /\ LET new == {i \in Ids : ~Exists(directives[i]) /\ Exists(directives'[i])}
       IN  IF new = {} THEN body' = body
           ELSE \E b \in Bodies : body' = [i \in Ids |-> IF i \in new THEN b ELSE body[i]]
    /\ UNCHANGED <<admissions, receipts, acks>>

HandoffNext ==
    \/ QueueStep
    \/ \E t \in Roots : AdmitRoot(t)
    \/ \E i \in Ids, k \in 1..issued, m \in Manifests : Replay(i, k, m)
    \/ \E i \in Ids, k \in 1..issued, m \in Manifests : Complete(i, k, m)

HandoffSpec == HandoffInit /\ [][HandoffNext]_hvars
=============================================================================
