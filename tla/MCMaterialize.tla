---------------------------- MODULE MCMaterialize ----------------------------
(* Small instances of Materialize for TLC. *)
EXTENDS Materialize, TLC

CONSTANTS d1

\* All calls race to one destination component.
MCTarget == [o \in Ops |-> d1]
MCDests == {d1}

\* Both outcomes of directory sync, with and without a retention path, and
\* archives with no corrupt member or some.
MCRequests ==
  [corrupt: SUBSET Members, durability: {"member-sync", "directory-sync"}, record: BOOLEAN]

\* The longest paths: directory sync and a record to discard, of archives
\* that verify and archives that are denied.
MCLongest ==
  [corrupt: SUBSET Members, durability: {"directory-sync"}, record: {TRUE}]

\* Calls are interchangeable, and so are inodes.
Symmetry == Permutations(Ops) \cup Permutations(Inodes)
=============================================================================
