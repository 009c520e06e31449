------------------------------ MODULE Materialize ------------------------------
(***************************************************************************)
(* The stage lifecycle of crates/sealr/src/materialize.rs as apply.rs      *)
(* (execute_ready_archive) drives it: create a private stage directory     *)
(* beside the destination, write every verified member into it, audit it   *)
(* against the admitted IR, publish it with one no-replace rename, or      *)
(* abort.  Several calls share one destination parent, each may be killed  *)
(* between any two steps, and a later call of recover_abandoned_stage may  *)
(* present the stage-retention record of a finished or killed call.        *)
(*                                                                         *)
(* The file system is modelled by what the code asks of it: names bound to *)
(* directory objects, objects identified by (device, inode).  An inode is  *)
(* free again once its directory is removed, so identities are reused; a   *)
(* stage component (128 random bits) belongs to one call and is written    *)
(* stageAt[o].  The Linux and macOS branch of the code is modelled.        *)
(***************************************************************************)
EXTENDS Naturals, FiniteSets

CONSTANTS
  Ops,           \* apply() calls with a destination; each runs once
  Dests,         \* final components below the shared destination parent
  Target,        \* the destination each call names
  Inodes,        \* directory object identities
  Requests,      \* the requests the calls may carry
  MemberCount,   \* file members of every archive, processed in order 1..MemberCount
  Free,          \* owner of an inode no directory uses
  Foreign,       \* owner of a directory that no modelled call created
  NoDir,         \* no directory object, no open handle, no witness
  NoFile,        \* there is no stage-retention file
  Torn,          \* a stage-retention file whose bytes are incomplete
  SwapAllowed,   \* a neighbour may substitute a stage name (tests inject this)
  TamperAllowed, \* a neighbour may alter a stage before its audit (tests inject this)
  RemoveMayFail  \* removing a directory tree may fail

ASSUME OpsAssumption == Target \in [Ops -> Dests]
ASSUME MemberAssumption == MemberCount \in Nat
ASSUME MarkAssumption ==
  /\ Free \notin Ops /\ Foreign \notin Ops /\ Free # Foreign
  /\ NoDir \notin Inodes \cup Ops
  /\ NoFile \notin Inodes /\ Torn \notin Inodes /\ NoFile # Torn
  /\ NoFile # NoDir
ASSUME SwitchAssumption ==
  /\ SwapAllowed \in BOOLEAN
  /\ TamperAllowed \in BOOLEAN
  /\ RemoveMayFail \in BOOLEAN

VARIABLES
  stageAt,   \* [Ops -> Inodes \cup {NoDir}]: what the call's stage component names
  destAt,    \* [Dests -> Inodes \cup {NoDir}]: what the final component names
  owner,     \* [Inodes -> Ops \cup {Free, Foreign}]: who created the directory object
  tree,      \* [Inodes -> [Paths -> FileState]]: the contents of the directory object
  recFile,   \* the caller-chosen stage-retention file: NoFile, Torn or the witness in it
  pc,        \* where the call is
  root,      \* CapabilityMaterializer::root, the retained stage capability
  witness,   \* CapabilityMaterializer::witness
  next,      \* the member execute_ready_archive processes next
  outcome,   \* CapabilityMaterializer::outcome
  cleanup,   \* CapabilityMaterializer::cleanup
  held,      \* CapabilityMaterializer::retention_file is Some
  notes,     \* findings recorded beside the stopping one
  stop,      \* which SemanticAxes constructor the call ends with
  synced,    \* which directory syncs have returned success
  conf       \* the request: corrupt members, durability, retention path

fsVars == <<stageAt, destAt, owner, tree>>
callVars == <<pc, root, witness, next, outcome, cleanup, held, notes, stop, synced>>
vars == <<stageAt, destAt, owner, tree, recFile, pc, root, witness, next,
          outcome, cleanup, held, notes, stop, synced, conf>>

Members == 1..MemberCount
\* Path 0 stands for any path the admitted IR does not list.
Paths == 0..MemberCount
FileState == {"absent", "partial", "good", "tampered"}
EmptyTree == [k \in Paths |-> "absent"]

Live == {"setup", "mkdir", "open", "unopened", "unopened-retry", "check",
         "setup-abort", "setup-retry", "retain", "record", "members", "audit",
         "commit", "sync", "rename", "renamed", "published", "abort", "retry",
         "discard", "unwind"}
\* The materializer value exists: MaterializationSetupError is behind the call.
Staged == {"retain", "record", "members", "audit", "commit", "sync", "rename"}
Ended == {"done", "dead"}

Durabilities == {"flush-only", "member-sync", "directory-sync"}
Request == [corrupt: SUBSET Members, durability: Durabilities, record: BOOLEAN]

ASSUME RequestAssumption == Requests \subseteq Request

DirectorySync(o) == conf[o].durability = "directory-sync"

(* audit_against: exactly the admitted paths, each with the admitted bytes. *)
MatchesIR(t) == t[0] = "absent" /\ \A k \in Members : t[k] = "good"

-----------------------------------------------------------------------------
Init ==
  /\ stageAt = [o \in Ops |-> NoDir]
  /\ destAt = [d \in Dests |-> NoDir]
  /\ owner = [i \in Inodes |-> Free]
  /\ tree = [i \in Inodes |-> EmptyTree]
  /\ recFile = [o \in Ops |-> NoFile]
  /\ pc = [o \in Ops |-> "setup"]
  /\ root = [o \in Ops |-> NoDir]
  /\ witness = [o \in Ops |-> NoDir]
  /\ next = [o \in Ops |-> 1]
  /\ outcome = [o \in Ops |-> "not-started"]
  /\ cleanup = [o \in Ops |-> "not-created"]
  /\ held = [o \in Ops |-> FALSE]
  /\ notes = [o \in Ops |-> {}]
  /\ stop = [o \in Ops |-> "none"]
  /\ synced = [o \in Ops |-> {}]
  /\ conf \in [Ops -> Requests]

-----------------------------------------------------------------------------
(***************************************************************************)
(* Small steps shared by the actions below.                                *)
(***************************************************************************)
Goto(o, from, to) == pc[o] = from /\ pc' = [pc EXCEPT ![o] = to]

\* Every name that binds directory i is unbound and its inode is free again.
Remove(i) ==
  /\ owner' = [owner EXCEPT ![i] = Free]
  /\ tree' = [tree EXCEPT ![i] = EmptyTree]
  /\ stageAt' = [o \in Ops |-> IF stageAt[o] = i THEN NoDir ELSE stageAt[o]]
  /\ destAt' = [d \in Dests |-> IF destAt[d] = i THEN NoDir ELSE destAt[d]]

\* A removal that stops part way deletes some entries and keeps the directory.
Spoil(i) ==
  /\ RemoveMayFail
  /\ tree' = [tree EXCEPT ![i] = EmptyTree]
  /\ UNCHANGED <<stageAt, destAt, owner>>

FailSetup(o, clean) ==
  /\ outcome' = [outcome EXCEPT ![o] = "setup-failed"]
  /\ cleanup' = [cleanup EXCEPT ![o] = clean]
  /\ stop' = [stop EXCEPT ![o] = "setup"]

\* first_error keeps the first cause: a later cleanup finding does not replace it.
StopWith(o, cause) == stop' = [stop EXCEPT ![o] = cause]

Note(o, code) == notes' = [notes EXCEPT ![o] = @ \cup {code}]

-----------------------------------------------------------------------------
(***************************************************************************)
(* CapabilityMaterializer::create                                          *)
(***************************************************************************)
\* The parent is missing, unsafe or unreadable, or the destination exists.
RefuseSetup(o) ==
  /\ Goto(o, "setup", "done")
  /\ FailSetup(o, "not-created")
  /\ UNCHANGED <<fsVars, recFile, root, witness, next, held, notes, synced, conf>>

\* capability_path_exists answers "no"; nothing is reserved by that answer.
AdmitParent(o) ==
  /\ destAt[Target[o]] = NoDir
  /\ Goto(o, "setup", "mkdir")
  /\ UNCHANGED <<fsVars, recFile, root, witness, next, outcome, cleanup, held,
                 notes, stop, synced, conf>>

MakeStage(o) ==
  /\ Goto(o, "mkdir", "open")
  /\ \E i \in Inodes :
       /\ owner[i] = Free
       /\ owner' = [owner EXCEPT ![i] = o]
       /\ tree' = [tree EXCEPT ![i] = EmptyTree]
       /\ stageAt' = [stageAt EXCEPT ![o] = i]
  /\ UNCHANGED <<destAt, recFile, root, witness, next, outcome, cleanup, held,
                 notes, stop, synced, conf>>

MakeStageFails(o) ==
  /\ Goto(o, "mkdir", "done")
  /\ FailSetup(o, "not-created")
  /\ UNCHANGED <<fsVars, recFile, root, witness, next, held, notes, synced, conf>>

\* create_stage: open_dir_nofollow of the name just created.
OpenStage(o) ==
  /\ \/ /\ Goto(o, "open", "check")
        /\ root' = [root EXCEPT ![o] = stageAt[o]]
     \/ /\ Goto(o, "open", "unopened")
        /\ UNCHANGED root
  /\ UNCHANGED <<fsVars, recFile, witness, next, outcome, cleanup, held, notes,
                 stop, synced, conf>>

\* MaterializationSetupError::after_stage_by_name: two removals by name.
RemoveUnopened(o) ==
  /\ pc[o] \in {"unopened", "unopened-retry"}
  /\ \/ /\ stageAt[o] # NoDir
        /\ Remove(stageAt[o])
        /\ pc' = [pc EXCEPT ![o] = "done"]
        /\ FailSetup(o, "removed")
        /\ UNCHANGED notes
     \/ /\ pc[o] = "unopened"
        /\ stageAt[o] # NoDir /\ Spoil(stageAt[o])
        /\ pc' = [pc EXCEPT ![o] = "unopened-retry"]
        /\ UNCHANGED <<outcome, cleanup, stop, notes>>
     \/ /\ pc[o] = "unopened-retry"
        /\ stageAt[o] # NoDir /\ Spoil(stageAt[o])
        /\ pc' = [pc EXCEPT ![o] = "done"]
        /\ FailSetup(o, "failed")
        /\ Note(o, "cleanup")
  /\ UNCHANGED <<recFile, root, witness, next, held, synced, conf>>

\* ensure_stage_namespace_safe, the reparse check and retained_stage_witness.
AdmitStage(o) ==
  /\ Goto(o, "check", IF conf[o].record THEN "retain" ELSE "members")
  /\ witness' = [witness EXCEPT ![o] = root[o]]
  /\ outcome' = [outcome EXCEPT ![o] = "staged"]
  /\ cleanup' = [cleanup EXCEPT ![o] = "pending"]
  /\ UNCHANGED <<fsVars, recFile, root, next, held, notes, stop, synced, conf>>

RefuseStage(o) ==
  /\ Goto(o, "check", "setup-abort")
  /\ UNCHANGED <<fsVars, recFile, root, witness, next, outcome, cleanup, held,
                 notes, stop, synced, conf>>

\* MaterializationSetupError::after_stage: the handle first, the name once more.
SetupAbort(o) ==
  /\ pc[o] = "setup-abort"
  /\ root' = [root EXCEPT ![o] = NoDir]
  /\ \/ /\ Remove(root[o])
        /\ pc' = [pc EXCEPT ![o] = "done"]
        /\ FailSetup(o, "removed")
     \/ /\ Spoil(root[o])
        /\ pc' = [pc EXCEPT ![o] = "setup-retry"]
        /\ UNCHANGED <<outcome, cleanup, stop>>
  /\ UNCHANGED <<recFile, witness, next, held, notes, synced, conf>>

SetupRetry(o) ==
  /\ Goto(o, "setup-retry", "done")
  /\ \/ /\ stageAt[o] # NoDir /\ Remove(stageAt[o])
        /\ FailSetup(o, "removed")
        /\ UNCHANGED notes
     \/ /\ stageAt[o] # NoDir /\ Spoil(stageAt[o])
        /\ FailSetup(o, "failed")
        /\ Note(o, "cleanup")
  /\ UNCHANGED <<recFile, root, witness, next, held, synced, conf>>

-----------------------------------------------------------------------------
(***************************************************************************)
(* persist_stage_retention: create_new, then write and sync the record.    *)
(***************************************************************************)
CreateRecord(o) ==
  /\ \/ /\ Goto(o, "retain", "record")
        /\ recFile' = [recFile EXCEPT ![o] = Torn]
        /\ UNCHANGED stop
     \/ /\ Goto(o, "retain", "abort")
        /\ StopWith(o, "setup")
        /\ UNCHANGED recFile
  /\ UNCHANGED <<fsVars, root, witness, next, outcome, cleanup, held, notes,
                 synced, conf>>

\* retention_file is set only after the sync returned; a failed write or sync
\* returns before that and leaves the file it created.
WriteRecord(o) ==
  /\ \/ /\ Goto(o, "record", "members")
        /\ recFile' = [recFile EXCEPT ![o] = witness[o]]
        /\ held' = [held EXCEPT ![o] = TRUE]
        /\ UNCHANGED stop
     \/ /\ Goto(o, "record", "abort")
        /\ recFile' = [recFile EXCEPT ![o] = witness[o]]
        /\ StopWith(o, "setup")
        /\ UNCHANGED held
     \/ /\ Goto(o, "record", "abort")
        /\ StopWith(o, "setup")
        /\ UNCHANGED <<recFile, held>>
  /\ UNCHANGED <<fsVars, root, witness, next, outcome, cleanup, notes, synced, conf>>

(***************************************************************************)
(* The member loop of execute_ready_archive.  A file is created with       *)
(* create_new through the retained capability, and its bytes are verified  *)
(* as they are written (process_member_to_file).                           *)
(***************************************************************************)
WriteMember(o) ==
  /\ pc[o] = "members"
  /\ next[o] \in Members
  /\ next[o] \notin conf[o].corrupt
  /\ tree[root[o]][next[o]] = "absent"
  /\ tree' = [tree EXCEPT ![root[o]][next[o]] = "good"]
  /\ next' = [next EXCEPT ![o] = @ + 1]
  /\ UNCHANGED <<stageAt, destAt, owner, recFile, pc, root, witness, outcome,
                 cleanup, held, notes, stop, synced, conf>>

\* A member whose bytes fail their integrity rule is denied.
DenyMember(o) ==
  /\ next[o] \in conf[o].corrupt
  /\ Goto(o, "members", "abort")
  /\ tree[root[o]][next[o]] = "absent"
  /\ tree' = [tree EXCEPT ![root[o]][next[o]] = "partial"]
  /\ StopWith(o, "denied")
  /\ UNCHANGED <<stageAt, destAt, owner, recFile, root, witness, next, outcome,
                 cleanup, held, notes, synced, conf>>

\* The file cannot be created, read, written or synced.
FailMember(o) ==
  /\ next[o] \in Members
  /\ Goto(o, "members", "abort")
  /\ tree' = [tree EXCEPT ![root[o]][next[o]] =
                            IF @ = "absent" THEN "partial" ELSE @]
  /\ StopWith(o, "io")
  /\ UNCHANGED <<stageAt, destAt, owner, recFile, root, witness, next, outcome,
                 cleanup, held, notes, synced, conf>>

\* validate_verified_archive_authority: every member is marked verified.
EndMembers(o) ==
  /\ next[o] = MemberCount + 1
  /\ Goto(o, "members", "audit")
  /\ UNCHANGED <<fsVars, recFile, root, witness, next, outcome, cleanup, held,
                 notes, stop, synced, conf>>

(***************************************************************************)
(* audit_against                                                           *)
(***************************************************************************)
\* Mutant: the audit compares the name and not the contents.
AuditNameOnly(o) == stageAt[o] = root[o]

AuditPasses(o) == stageAt[o] = root[o] /\ MatchesIR(tree[root[o]])

Audit(o) ==
  /\ \/ /\ Goto(o, "audit", "commit")
        /\ AuditPasses(o)
        /\ UNCHANGED stop
     \/ /\ Goto(o, "audit", "abort")    \* a difference, or the audit cannot read
        /\ StopWith(o, "publication")
  /\ UNCHANGED <<fsVars, recFile, root, witness, next, outcome, cleanup, held,
                 notes, synced, conf>>

(***************************************************************************)
(* commit: recheck the name and the witness, sync the staged directories,  *)
(* rename without replacement, sync the parent, discard the record.        *)
(***************************************************************************)
CommitCheckPasses(o) == stageAt[o] = root[o] /\ witness[o] = root[o]

CommitCheck(o) ==
  /\ \/ /\ Goto(o, "commit", IF DirectorySync(o) THEN "sync" ELSE "rename")
        /\ CommitCheckPasses(o)
        /\ UNCHANGED stop
     \/ /\ Goto(o, "commit", "abort")
        /\ StopWith(o, "publication")
  /\ UNCHANGED <<fsVars, recFile, root, witness, next, outcome, cleanup, held,
                 notes, synced, conf>>

SyncStage(o) ==
  /\ \/ /\ Goto(o, "sync", "rename")
        /\ synced' = [synced EXCEPT ![o] = @ \cup {"stage"}]
        /\ UNCHANGED <<outcome, stop>>
     \/ /\ Goto(o, "sync", "abort")
        /\ outcome' = [outcome EXCEPT ![o] = "publication-failed"]
        /\ StopWith(o, "publication")
        /\ UNCHANGED synced
  /\ UNCHANGED <<fsVars, recFile, root, witness, next, cleanup, held, notes, conf>>

\* Mutant: rename with replacement.
PublishReplaces(o) ==
  /\ stageAt[o] # NoDir
  /\ Goto(o, "rename", "renamed")
  /\ destAt' = [destAt EXCEPT ![Target[o]] = stageAt[o]]
  /\ stageAt' = [stageAt EXCEPT ![o] = NoDir]
  /\ UNCHANGED <<owner, tree, recFile, root, witness, next, outcome, cleanup,
                 held, notes, stop, synced, conf>>

\* rename_noreplace: by name, and only onto an absent final component.
Publish(o) ==
  /\ destAt[Target[o]] = NoDir
  /\ stageAt[o] # NoDir
  /\ Goto(o, "rename", "renamed")
  /\ destAt' = [destAt EXCEPT ![Target[o]] = stageAt[o]]
  /\ stageAt' = [stageAt EXCEPT ![o] = NoDir]
  /\ UNCHANGED <<owner, tree, recFile, root, witness, next, outcome, cleanup,
                 held, notes, stop, synced, conf>>

\* Mutant: an existing destination is waited for instead of refused.
PublishWaits(o) ==
  /\ destAt[Target[o]] = NoDir
  /\ Goto(o, "rename", "abort")
  /\ outcome' = [outcome EXCEPT ![o] = "publication-failed"]
  /\ StopWith(o, "publication")
  /\ UNCHANGED <<fsVars, recFile, root, witness, next, cleanup, held, notes,
                 synced, conf>>

PublishFails(o) ==
  /\ Goto(o, "rename", "abort")
  /\ outcome' = [outcome EXCEPT ![o] = "publication-failed"]
  /\ StopWith(o, "publication")
  /\ UNCHANGED <<fsVars, recFile, root, witness, next, cleanup, held, notes,
                 synced, conf>>

\* Mutant: a parent sync failure after the rename fails the publication.
SettleSyncFailureFails(o) ==
  /\ Goto(o, "renamed", "published")
  /\ root' = [root EXCEPT ![o] = NoDir]
  /\ cleanup' = [cleanup EXCEPT ![o] = "not-applicable-after-commit"]
  /\ witness' = [witness EXCEPT ![o] = NoDir]
  /\ \/ /\ DirectorySync(o)
        /\ outcome' = [outcome EXCEPT ![o] = "publication-failed"]
        /\ StopWith(o, "publication")
        /\ UNCHANGED synced
     \/ /\ outcome' = [outcome EXCEPT ![o] = "committed"]
        /\ synced' = [synced EXCEPT ![o] = IF DirectorySync(o) THEN @ \cup {"parent"} ELSE @]
        /\ UNCHANGED stop
  /\ UNCHANGED <<fsVars, recFile, next, held, notes, conf>>

\* A parent sync failure is a note; the call stays committed.
SettleCommit(o) ==
  /\ Goto(o, "renamed", "published")
  /\ root' = [root EXCEPT ![o] = NoDir]
  /\ outcome' = [outcome EXCEPT ![o] = "committed"]
  /\ cleanup' = [cleanup EXCEPT ![o] = "not-applicable-after-commit"]
  /\ witness' = [witness EXCEPT ![o] = NoDir]
  /\ \/ /\ DirectorySync(o)
        /\ synced' = [synced EXCEPT ![o] = @ \cup {"parent"}]
        /\ UNCHANGED notes
     \/ /\ DirectorySync(o)
        /\ Note(o, "parent-sync")
        /\ UNCHANGED synced
     \/ /\ ~DirectorySync(o)
        /\ UNCHANGED <<synced, notes>>
  /\ UNCHANGED <<fsVars, recFile, next, held, stop, conf>>

(***************************************************************************)
(* discard_stage_retention_file, after publication or after removal.  When *)
(* it fails the cleanup state already is terminal, so the second abort()   *)
(* of abort_and_report returns at once.                                    *)
(***************************************************************************)
DiscardRecord(o) ==
  /\ pc[o] \in {"published", "discard"}
  /\ pc' = [pc EXCEPT ![o] = "done"]
  /\ \/ /\ held[o]
        /\ recFile' = [recFile EXCEPT ![o] = NoFile]
        /\ held' = [held EXCEPT ![o] = FALSE]
        /\ UNCHANGED notes
     \/ /\ held[o]
        /\ Note(o, "discard")
        /\ UNCHANGED <<recFile, held>>
     \/ /\ ~held[o]
        /\ UNCHANGED <<recFile, held, notes>>
  /\ UNCHANGED <<fsVars, root, witness, next, outcome, cleanup, stop, synced, conf>>

(***************************************************************************)
(* abort, called at most twice by abort_and_report.  The first call takes  *)
(* the retained capability; a failed removal consumes it, so the second    *)
(* call removes whatever the stage component names.                        *)
(***************************************************************************)
MarkAborted(o) ==
  outcome' = [outcome EXCEPT ![o] = IF @ = "staged" THEN "aborted" ELSE @]

AbortRemoves(o, i) ==
  /\ Remove(i)
  /\ MarkAborted(o)
  /\ cleanup' = [cleanup EXCEPT ![o] = "removed"]
  /\ witness' = [witness EXCEPT ![o] = NoDir]

\* Mutant: the witness is cleared before the removal is known to have worked.
AbortForgetsWitness(o) ==
  /\ pc[o] = "abort"
  /\ root' = [root EXCEPT ![o] = NoDir]
  /\ \/ /\ AbortRemoves(o, root[o])
        /\ pc' = [pc EXCEPT ![o] = "discard"]
        /\ UNCHANGED notes
     \/ /\ Spoil(root[o])
        /\ MarkAborted(o)
        /\ cleanup' = [cleanup EXCEPT ![o] = "failed"]
        /\ Note(o, "cleanup")
        /\ pc' = [pc EXCEPT ![o] = "retry"]
        /\ witness' = [witness EXCEPT ![o] = NoDir]
  /\ UNCHANGED <<recFile, next, held, stop, synced, conf>>

\* Mutant: the stage is removed by its name although the handle is open.
AbortByName(o) ==
  /\ pc[o] = "abort"
  /\ stageAt[o] # NoDir
  /\ root' = [root EXCEPT ![o] = NoDir]
  /\ AbortRemoves(o, stageAt[o])
  /\ pc' = [pc EXCEPT ![o] = "discard"]
  /\ UNCHANGED <<recFile, next, held, notes, stop, synced, conf>>

Abort(o) ==
  /\ pc[o] = "abort"
  /\ root' = [root EXCEPT ![o] = NoDir]
  /\ \/ /\ AbortRemoves(o, root[o])
        /\ pc' = [pc EXCEPT ![o] = "discard"]
        /\ UNCHANGED notes
     \/ /\ Spoil(root[o])
        /\ MarkAborted(o)
        /\ cleanup' = [cleanup EXCEPT ![o] = "failed"]
        /\ Note(o, "cleanup")
        /\ pc' = [pc EXCEPT ![o] = "retry"]
        /\ UNCHANGED witness
  /\ UNCHANGED <<recFile, next, held, stop, synced, conf>>

AbortRetry(o) ==
  /\ pc[o] = "retry"
  /\ \/ /\ stageAt[o] # NoDir
        /\ AbortRemoves(o, stageAt[o])
        /\ pc' = [pc EXCEPT ![o] = "discard"]
     \/ /\ IF stageAt[o] = NoDir THEN UNCHANGED fsVars ELSE Spoil(stageAt[o])
        /\ pc' = [pc EXCEPT ![o] = "done"]
        /\ UNCHANGED <<outcome, cleanup, witness>>
  /\ UNCHANGED <<recFile, root, next, held, notes, stop, synced, conf>>

(***************************************************************************)
(* Drop: a panic unwinds through the materializer while cleanup is         *)
(* pending.  One abort runs and its error, of the removal or of the record *)
(* discard, is ignored; no receipt exists.                                 *)
(***************************************************************************)
Panic(o) ==
  /\ pc[o] \in Staged
  /\ pc' = [pc EXCEPT ![o] = "unwind"]
  /\ UNCHANGED <<fsVars, recFile, root, witness, next, outcome, cleanup, held,
                 notes, stop, synced, conf>>

DropStage(o) ==
  /\ Goto(o, "unwind", "dead")
  /\ root' = [root EXCEPT ![o] = NoDir]
  /\ \/ /\ AbortRemoves(o, root[o])
        /\ \/ recFile' = [recFile EXCEPT ![o] = IF held[o] THEN NoFile ELSE @]
           \/ held[o] /\ UNCHANGED recFile
     \/ /\ Spoil(root[o])
        /\ MarkAborted(o)
        /\ cleanup' = [cleanup EXCEPT ![o] = "failed"]
        /\ UNCHANGED <<recFile, witness>>
  /\ held' = [held EXCEPT ![o] = FALSE]
  /\ UNCHANGED <<next, notes, stop, synced, conf>>

\* The process is killed: handles close, drop does not run, files stay.
Kill(o) ==
  /\ pc[o] \in Live
  /\ pc' = [pc EXCEPT ![o] = "dead"]
  /\ root' = [root EXCEPT ![o] = NoDir]
  /\ held' = [held EXCEPT ![o] = FALSE]
  /\ UNCHANGED <<fsVars, recFile, witness, next, outcome, cleanup, notes, stop,
                 synced, conf>>

-----------------------------------------------------------------------------
(***************************************************************************)
(* failed_stage_retention: the record the outcome returns.                 *)
(***************************************************************************)
Retention(o) ==
  IF pc[o] = "done" /\ cleanup[o] = "failed" THEN witness[o] ELSE NoDir

\* The witnesses a later process can present for call o.
Presented(o) == {recFile[o], Retention(o)} \cap Inodes

(***************************************************************************)
(* recover_abandoned_stage: open the recorded component, compare the       *)
(* witness with the opened directory, and only then remove that directory. *)
(* A refusal changes nothing.  The record of a running call is not         *)
(* presented: the contract speaks of an abandoned stage.                   *)
(***************************************************************************)
WitnessMatches(o, w) == stageAt[o] = w

\* Mutant: without a record, recovery falls back to deleting the name.
RecoverByName(o) ==
  /\ pc[o] \in Ended
  /\ stageAt[o] # NoDir
  /\ Remove(stageAt[o])
  /\ UNCHANGED <<recFile, callVars, conf>>

Recover(o) ==
  /\ pc[o] \in Ended
  /\ \E w \in Presented(o) :
       /\ stageAt[o] # NoDir
       /\ WitnessMatches(o, w)
       /\ Remove(stageAt[o]) \/ Spoil(stageAt[o])
  /\ UNCHANGED <<recFile, callVars, conf>>

-----------------------------------------------------------------------------
(***************************************************************************)
(* Neighbours of the same parent, as the repository's tests inject them:   *)
(* a destination that appears, a substituted stage name (until the commit  *)
(* recheck), and a stage altered before its audit.                         *)
(***************************************************************************)
PlantDestination(d) ==
  /\ destAt[d] = NoDir
  /\ \E i \in Inodes :
       /\ owner[i] = Free
       /\ owner' = [owner EXCEPT ![i] = Foreign]
       /\ destAt' = [destAt EXCEPT ![d] = i]
  /\ UNCHANGED <<stageAt, tree, recFile, callVars, conf>>

SubstituteStageName(o) ==
  /\ SwapAllowed
  /\ pc[o] \in {"members", "audit", "commit"}
  /\ stageAt[o] = root[o]
  /\ \E i \in Inodes :
       /\ owner[i] = Free
       /\ owner' = [owner EXCEPT ![i] = Foreign]
       /\ stageAt' = [stageAt EXCEPT ![o] = i]
  /\ UNCHANGED <<destAt, tree, recFile, callVars, conf>>

Tamper(o) ==
  /\ TamperAllowed
  /\ pc[o] \in {"members", "audit"}
  /\ \E k \in Paths : tree' = [tree EXCEPT ![root[o]][k] = "tampered"]
  /\ UNCHANGED <<stageAt, destAt, owner, recFile, callVars, conf>>

-----------------------------------------------------------------------------
Step(o) ==
  \/ RefuseSetup(o) \/ AdmitParent(o) \/ MakeStage(o) \/ MakeStageFails(o)
  \/ OpenStage(o) \/ RemoveUnopened(o) \/ AdmitStage(o) \/ RefuseStage(o)
  \/ SetupAbort(o) \/ SetupRetry(o)
  \/ CreateRecord(o) \/ WriteRecord(o)
  \/ WriteMember(o) \/ DenyMember(o) \/ FailMember(o) \/ EndMembers(o)
  \/ Audit(o) \/ CommitCheck(o) \/ SyncStage(o)
  \/ Publish(o) \/ PublishFails(o) \/ SettleCommit(o) \/ DiscardRecord(o)
  \/ Abort(o) \/ AbortRetry(o) \/ DropStage(o)

Next ==
  \/ \E o \in Ops : Step(o) \/ Panic(o) \/ Kill(o) \/ Recover(o)
  \/ \E o \in Ops : SubstituteStageName(o) \/ Tamper(o)
  \/ \E d \in Dests : PlantDestination(d)

Spec == Init /\ [][Next]_vars

(* A call that is not killed keeps running: nothing in it waits on another *)
(* call, so weak fairness of each call's own steps is what the code gives. *)
Fairness == \A o \in Ops : WF_vars(Step(o))
FairSpec == Spec /\ Fairness
-----------------------------------------------------------------------------
(***************************************************************************)
(* What the caller is told: the SemanticAxes constructor the call ends     *)
(* with, the exit code cli_exit_code folds it to, whether the outcome      *)
(* carries a VerifiedArchive, and the durability the receipt claims.       *)
(***************************************************************************)
Axes(o) ==
  CASE stop[o] = "none" ->
         [admission |-> "admitted", verification |-> "complete", effect |-> "committed"]
    [] stop[o] = "publication" ->
         [admission |-> "admitted", verification |-> "complete", effect |-> "failed"]
    [] stop[o] = "setup" ->
         [admission |-> "admitted", verification |-> "structure-only", effect |-> "failed"]
    [] stop[o] = "io" ->
         [admission |-> "admitted", verification |-> "partial", effect |-> "failed"]
    [] OTHER ->
         [admission |-> "denied", verification |-> "partial", effect |-> "failed"]

\* Mutant: the effect axis is not consulted.
ExitCodeIgnoresEffect(o) ==
  IF Axes(o).admission = "admitted" /\ Axes(o).verification = "complete" THEN 0
  ELSE IF Axes(o).admission = "admitted" THEN 3 ELSE 2

ExitCode(o) ==
  LET a == Axes(o)
  IN  IF a.admission = "admitted" /\ a.effect = "failed" THEN 3
      ELSE IF a.admission = "admitted" /\ a.verification = "complete" THEN 0
      ELSE 2

\* with_verified_archive or with_ir: later effects read through this capability.
HasCapability(o) == stop[o] \in {"none", "publication"}

ReportedDurability(o) ==
  IF DirectorySync(o) /\ "parent-sync" \notin notes[o] THEN "directory-sync"
  ELSE IF conf[o].durability = "flush-only" THEN "flush-only"
  ELSE "member-sync"

-----------------------------------------------------------------------------
(***************************************************************************)
(* Properties                                                              *)
(***************************************************************************)
FsTypeOK ==
  /\ stageAt \in [Ops -> Inodes \cup {NoDir}]
  /\ destAt \in [Dests -> Inodes \cup {NoDir}]
  /\ owner \in [Inodes -> Ops \cup {Free, Foreign}]
  /\ tree \in [Inodes -> [Paths -> FileState]]

CallTypeOK ==
  /\ recFile \in [Ops -> Inodes \cup {NoFile, Torn}]
  /\ pc \in [Ops -> Live \cup Ended]
  /\ root \in [Ops -> Inodes \cup {NoDir}]
  /\ witness \in [Ops -> Inodes \cup {NoDir}]
  /\ next \in [Ops -> 1..(MemberCount + 1)]
  /\ held \in [Ops -> BOOLEAN]
  /\ conf \in [Ops -> Requests]

ReportTypeOK ==
  /\ outcome \in [Ops -> {"not-started", "setup-failed", "staged", "aborted",
                          "publication-failed", "committed"}]
  /\ cleanup \in [Ops -> {"not-created", "pending", "removed", "failed",
                          "not-applicable-after-commit"}]
  /\ notes \in [Ops -> SUBSET {"cleanup", "discard", "parent-sync"}]
  /\ stop \in [Ops -> {"none", "setup", "denied", "io", "publication"}]
  /\ synced \in [Ops -> SUBSET {"stage", "parent"}]

\* The types of the variables: what materialize.rs and the file system can hold.
TypeOK == FsTypeOK /\ CallTypeOK /\ ReportTypeOK

(* A final component only ever names a directory sealr did not make, or    *)
(* the complete audited tree of a call that named this destination and all *)
(* of whose members verified, whatever other calls, kills, failed removals *)
(* and tampering did before: commit() publishes what audit_against saw.    *)
PublishedIsVerified ==
  \A d \in Dests : destAt[d] # NoDir =>
    LET i == destAt[d]
    IN  \/ owner[i] = Foreign
        \/ \E o \in Ops : /\ owner[i] = o
                          /\ Target[o] = d
                          /\ conf[o].corrupt = {}
                          /\ MatchesIR(tree[i])

(* No step replaces, unbinds or alters what a final component names: not a *)
(* second call racing to it, not its clean-up, not the recovery of another *)
(* stage (rename_noreplace, abort, recover_abandoned_stage).               *)
DestinationIsFinal ==
  [][\A d \in Dests : destAt[d] # NoDir =>
       /\ destAt'[d] = destAt[d]
       /\ owner'[destAt[d]] = owner[destAt[d]]
       /\ tree'[destAt[d]] = tree[destAt[d]]]_vars

(* The exit code a call returns agrees with the file system: 0 exactly     *)
(* when its own tree is at its destination, 2 only when a member of the    *)
(* archive really was denied, so a failed effect is never blamed on the    *)
(* archive (compat_exit_code over the axes apply.rs picks).                *)
ExitCodeTruthful ==
  \A o \in Ops : pc[o] = "done" =>
    /\ ExitCode(o) = 0 <=> /\ destAt[Target[o]] # NoDir
                           /\ owner[destAt[Target[o]]] = o
    /\ ExitCode(o) = 0 <=> outcome[o] = "committed"
    /\ ExitCode(o) = 2 => conf[o].corrupt # {}

(* The receipt's cleanup field agrees with the file system: "removed",     *)
(* "not-created" and "not-applicable-after-commit" each mean that no       *)
(* directory made by the call is left outside its destination.             *)
CleanupTruthful ==
  \A o \in Ops : (pc[o] = "done" /\ cleanup[o] # "failed") =>
    \A i \in Inodes : owner[i] = o => i = destAt[Target[o]]

(* A directory disappears only through its own call or, after that call    *)
(* ended, through a presented record that names it; a directory no call    *)
(* made is never removed or altered.  Inodes are reused, so a stale        *)
(* witness, handle or stage name could break this.                         *)
OnlyOwnObjectsRemoved ==
  [][\A i \in Inodes :
       /\ owner[i] = Foreign => owner'[i] = Foreign /\ tree'[i] = tree[i]
       /\ (owner[i] \in Ops /\ owner'[i] # owner[i]) =>
            LET o == owner[i]
            IN  \/ pc[o] \in Live /\ pc'[o] # pc[o]
                \/ pc[o] \in Ended /\ i \in Presented(o)]_vars

(* After a failed cleanup of a stage whose name was not substituted, the   *)
(* returned record still names the stage that is left, so that             *)
(* recover_abandoned_stage can remove it (failed_stage_retention).         *)
LeftoverIsRecoverable ==
  \A o \in Ops :
    (pc[o] = "done" /\ outcome[o] # "setup-failed" /\ stageAt[o] # NoDir
       /\ owner[stageAt[o]] = o) => stageAt[o] \in Presented(o)

(* A complete record on disk never outlives a clean ending of its call     *)
(* except where a finding says so: the discard failed, or persisting it    *)
(* was itself what stopped the call (discard_stage_retention_file).        *)
RecordDiscarded ==
  \A o \in Ops : (pc[o] = "done" /\ recFile[o] # NoFile) =>
    cleanup[o] = "failed" \/ "discard" \in notes[o] \/ stop[o] = "setup"

(* A receipt that claims directory-sync for a committed tree is right:     *)
(* both the staged directories and the destination parent were synced, and *)
(* the weaker claim is made exactly when the parent sync failed.           *)
DurabilityTruthful ==
  \A o \in Ops : (pc[o] = "done" /\ outcome[o] = "committed") =>
    /\ ReportedDurability(o) = "directory-sync" => synced[o] = {"stage", "parent"}
    /\ DirectorySync(o) => "stage" \in synced[o]

(* A VerifiedArchive capability leaves a call only when every member       *)
(* verified, also when publication failed afterwards.                      *)
CapabilityMeansVerified ==
  \A o \in Ops : (pc[o] = "done" /\ HasCapability(o)) =>
    conf[o].corrupt = {} /\ next[o] = MemberCount + 1

(* Everything a call says when it returns is so: what it cleaned up, what  *)
(* is left and how to recover it, whether its record is gone, how durable  *)
(* the tree is, and whether its members may be read again.                 *)
ReceiptTruthful ==
  /\ CleanupTruthful
  /\ LeftoverIsRecoverable
  /\ RecordDiscarded
  /\ DurabilityTruthful
  /\ CapabilityMeansVerified

(* Every call that is not killed returns, and one that has renamed its     *)
(* stage onto the destination returns as committed: nothing after the      *)
(* rename turns a published call into a failed one.                        *)
EveryCallEnds ==
  \A o \in Ops :
    /\ <>(pc[o] \in Ended)
    /\ pc[o] = "renamed" ~> (pc[o] = "dead" \/ (pc[o] = "done" /\ ExitCode(o) = 0))

(* docs/abandoned-stage.md: "`removed` means the retained object was       *)
(* removed".                                                               *)
RemovedMeansRetainedRemoved ==
  \A o \in Ops : (pc[o] = "done" /\ cleanup[o] = "removed") =>
    \A i \in Inodes : owner[i] # o

(* docs/abandoned-stage.md: "When cleanup fails, Outcome::stage_retention  *)
(* returns sealr.stage-retention.v1".                                      *)
FailedCleanupReturnsRecord ==
  \A o \in Ops : (pc[o] = "done" /\ cleanup[o] = "failed") =>
    Retention(o) # NoDir

-----------------------------------------------------------------------------
(***************************************************************************)
(* The stage lifecycle implements Publication.                             *)
(***************************************************************************)
Report(o) ==
  CASE pc[o] = "dead" -> "dead"
    [] pc[o] = "done" -> IF outcome[o] = "committed" THEN "committed" ELSE "refused"
    [] OTHER -> "running"

Contents(d) == IF destAt[d] = NoDir THEN NoDir ELSE owner[destAt[d]]

P == INSTANCE Publication WITH
       Absent <- NoDir,
       dest <- [d \in Dests |-> Contents(d)],
       report <- [o \in Ops |-> Report(o)],
       sound <- {o \in Ops : conf[o].corrupt = {}}

(* Every behaviour of the stage lifecycle is one of the abstract contract: *)
(* one atomic publication of a sound tree, a truthful answer, no           *)
(* replacement.                                                            *)
ImplementsPublication == P!AbsSpec
=============================================================================
