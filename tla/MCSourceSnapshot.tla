--------------------------- MODULE MCSourceSnapshot ---------------------------
(* Small instance of SourceSnapshot for TLC. *)
EXTENDS SourceSnapshot

\* One output inside the cap and one beyond it.
MCOutputs == {<<1>>, <<0, 1, 1>>}
=============================================================================
