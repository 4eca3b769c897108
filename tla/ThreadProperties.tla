-------------------------- MODULE ThreadProperties --------------------------
(***************************************************************************)
(* What somebody who asks after a thread may conclude from the answer.     *)
(***************************************************************************)
EXTENDS Threads

\* When thread_status says "done", the root and everything below it is
\* finished for good, if directives are pushed only under open ones and none
\* is reopened: no child that appeared between two of the SELECTs was missed
\* (thread_rows, descendants).
DoneIsFinished ==
    Orderly =>
        \A q \in Readers : SaysDone(walk[q]) =>
            \E S \in SUBSET Ids :
                /\ walk[q].root \in S
                /\ directives[walk[q].root].parent = Null
                /\ AllFinished(S, directives)

\* An answer overlooks nothing that was there when the call began, however the
\* table grew or changed under the traversal: it has the item, begins with the
\* root, has every child of a row it has, and no row twice.
NothingOverlooked ==
    \A q \in Readers :
        LET w == walk[q]
            Seen == {w.rows[n].id : n \in DOMAIN w.rows}
        IN  w.at = "answered" =>
            IF w.rows = <<>>
            THEN ChildrenOf(directives, w.item) \cap 1..w.began = {}
            ELSE /\ w.item \in Seen
                 /\ w.rows[1].id = w.root
                 /\ Cardinality(Seen) = Len(w.rows)
                 /\ \A i \in Seen : ChildrenOf(directives, i) \cap 1..w.began \subseteq Seen

\* "done" was true of the thread at some instant of the call: "summarize
\* whether a directive thread still has open work" (README.md:186).
DoneWasDone == \A q \in Readers : SaysDone(walk[q]) => walk[q].closed
=============================================================================
