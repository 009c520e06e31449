---------------------------- MODULE MCMemberReads ----------------------------
(* Small instances of MemberReads for TLC. *)
EXTENDS MemberReads

CONSTANTS full, prefix, empty

\* A full read and two prefix reads of a one-chunk member; the prefixes are
\* empty, so all that such a read verifies lies behind what it returns.
MCReaders == {full, prefix, empty}
MCKeep == [r \in MCReaders |-> IF r = full THEN 1 ELSE 0]
=============================================================================
