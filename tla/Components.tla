---------------------------- MODULE Components -----------------------------
(***************************************************************************)
(* What grouping duplicates promises: a partition of the e-mails that only *)
(* ever gets coarser, by joining the classes of two e-mails that share the *)
(* bytes of an attachment. A partition is represented by its unions of     *)
(* classes, the sets of e-mails that no class straddles.                   *)
(***************************************************************************)
CONSTANT Nodes \* the e-mails

VARIABLES
    pairs,  \* pairs of e-mails that share an attachment
    unions  \* the unions of classes

\* The unions of classes once a and b are in one class.
Joined(U, a, b) == {S \in U : a \in S <=> b \in S}

Init == pairs \in SUBSET (Nodes \X Nodes) /\ unions = SUBSET Nodes

Join ==
    /\ \E s \in pairs : unions' = Joined(unions, s[1], s[2])
    /\ UNCHANGED pairs

Spec == Init /\ [][Join]_<<pairs, unions>>

=============================================================================
