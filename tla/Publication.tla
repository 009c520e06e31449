----------------------------- MODULE Publication -----------------------------
(***************************************************************************)
(* What materialization promises its callers, without stages, audits or    *)
(* records: a destination component goes once from absent to a whole tree, *)
(* nothing replaces it, only an archive all of whose members verify can be *)
(* that tree, and a returned outcome says "committed" exactly when the     *)
(* call's own tree is the one at the destination (docs/architecture.md and *)
(* docs/publication-crash.md state this contract in words).                *)
(***************************************************************************)
CONSTANTS
  Ops,     \* calls with a destination
  Dests,   \* final components
  Target,  \* the destination each call names
  Foreign, \* a directory no call created
  Absent   \* nothing is bound to the final component

VARIABLES
  dest,    \* [Dests -> Ops \cup {Foreign, Absent}]: whose tree is there
  report,  \* [Ops -> {"running", "committed", "refused", "dead"}]
  sound    \* the calls all of whose members verify

absVars == <<dest, report, sound>>

AbsInit ==
  /\ dest = [d \in Dests |-> Absent]
  /\ report = [o \in Ops |-> "running"]
  /\ sound \in SUBSET Ops

Put(o) ==
  /\ report[o] = "running"
  /\ o \in sound
  /\ dest[Target[o]] = Absent
  /\ dest' = [dest EXCEPT ![Target[o]] = o]
  /\ UNCHANGED <<report, sound>>

Answer(o) ==
  /\ report[o] = "running"
  /\ report' = [report EXCEPT ![o] =
                  IF dest[Target[o]] = o THEN "committed" ELSE "refused"]
  /\ UNCHANGED <<dest, sound>>

\* A call that dies answers nothing; its tree may or may not be published.
Die(o) ==
  /\ report[o] = "running"
  /\ report' = [report EXCEPT ![o] = "dead"]
  /\ UNCHANGED <<dest, sound>>

PutForeign(d) ==
  /\ dest[d] = Absent
  /\ dest' = [dest EXCEPT ![d] = Foreign]
  /\ UNCHANGED <<report, sound>>

AbsNext ==
  \/ \E o \in Ops : Put(o) \/ Answer(o) \/ Die(o)
  \/ \E d \in Dests : PutForeign(d)

AbsSpec == AbsInit /\ [][AbsNext]_absVars
=============================================================================
