------------------------------ MODULE MCHistory ------------------------------
(* Small instances of History: two programs of one namespace, one of another. *)
EXTENDS History

MCNamespace == <<"legacy", "legacy", "owner">>

Shape(programs, emitters, kind) ==
    [programs |-> programs, emitters |-> emitters, kind |-> kind]

OneRole   == Shape({1, 2}, {2}, "complete")   \* both programs of a namespace
Other     == Shape({3}, {3}, "complete")      \* the other namespace
Foreign   == Shape({2, 3}, {2}, "complete")   \* both namespaces, the events of one
Both      == Shape({1, 3}, {1, 3}, "complete") \* both, and events of both
Truncated == Shape({2}, {}, "truncated")
Failed    == Shape({1, 2}, {}, "failed")

MCShapes == {OneRole, Other, Foreign, Both, Truncated, Failed}

\* Trouble comes first, what it may hold up later.
MCShapesAt == <<{OneRole, Both, Truncated},
                {OneRole, Other, Foreign, Failed},
                {Other}>>
=============================================================================
