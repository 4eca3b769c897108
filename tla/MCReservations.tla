--------------------------- MODULE MCReservations ---------------------------
(***************************************************************************)
(* Small instances of reservations for TLC.                                *)
(***************************************************************************)
EXTENDS ReservationProperties

CONSTANTS first, second, review, check, publish, again, sibling

\* Every directive has a body of its own; bodies are named like their keys.
AllKeys == {first, second, review, check, publish, again, sibling}

Dev(stage) == <<"dev", stage>>
DevLanes == {Dev(s) : s \in {"implementation", "review", "validation", "publication"}}

Task(key, stage) == [key |-> key, body |-> key, lane |-> Dev(stage), priority |-> 1]

Manifest(key, evidence, successors) ==
    [input |-> key, evidence |-> evidence, successors |-> successors]

\* The chain of four stages.
ChainManifests ==
    {Manifest(first, 1, <<Task(review, "review")>>),
     Manifest(review, 1, <<Task(check, "validation")>>),
     Manifest(check, 1, <<Task(publish, "publication")>>),
     Manifest(publish, 2, <<>>)}

\* With validation skipped, with a second successor, and with one round of
\* repair before the second review.
SidestepManifests ==
    ChainManifests \cup
    {Manifest(review, 3, <<Task(publish, "publication")>>),
     Manifest(first, 3, <<Task(review, "review"), Task(sibling, "review")>>),
     Manifest(review, 4, <<Task(again, "implementation")>>),
     Manifest(again, 1, <<Task(sibling, "review")>>),
     Manifest(sibling, 1, <<Task(check, "validation")>>)}

Grant(key, work, paths, dependencies) ==
    [task |-> Task(key, "implementation"), work |-> work, namespace |-> "repo",
     paths |-> paths, dependencies |-> dependencies]

\* A directory, a file in it, and work that follows the first delivery.
SmallGrants ==
    {Grant(first, "one", {<<"src">>}, {}),
     Grant(second, "two", {<<"src", "a">>}, {}),
     Grant(second, "three", {<<"doc">>}, {[work |-> "one", digest |-> 2]}),
     Grant(second, "one", {<<"doc">>}, {})}

NoRoots == {}
=============================================================================
