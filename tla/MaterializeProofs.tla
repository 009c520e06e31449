-------------------------- MODULE MaterializeProofs --------------------------
(***************************************************************************)
(* TLAPS proofs about Materialize, for every set of calls, destinations,   *)
(* inodes and requests, every member count and every switch.  The          *)
(* inductive invariant IInv says who owns the object behind every name and *)
(* every open handle, what has been established at each point of a call,   *)
(* and what a bound destination is.  RInv adds what the call has           *)
(* established for its report: the one directory it made, the record it    *)
(* left, what it removed and what it synced.                               *)
(***************************************************************************)
EXTENDS Materialize, TLAPS

-----------------------------------------------------------------------------
(***************************************************************************)
(* The inductive invariant                                                 *)
(***************************************************************************)
\* The call holds its stage capability.
Holding == Staged \cup {"check", "setup-abort", "abort", "unwind", "renamed"}

\* No finding has stopped the call and it has not published.
NotStopped == {"setup", "mkdir", "open", "unopened", "unopened-retry", "check",
               "setup-abort", "setup-retry", "retain", "record", "members",
               "audit", "commit", "sync", "rename", "unwind"}

\* The member loop is behind the call and no member was denied.
Verified == {"audit", "commit", "sync", "rename", "renamed", "published"}

\* A stage name binds the call's own directory or a substitute, and no
\* directory is bound to a stage name and a destination at once.
NameInv ==
  \A o \in Ops : stageAt[o] # NoDir =>
    /\ owner[stageAt[o]] \in {o, Foreign}
    /\ \A d \in Dests : destAt[d] # stageAt[o]

\* An open capability is the call's own directory: its inode is not reused.
RootInv ==
  \A o \in Ops :
    /\ root[o] # NoDir => owner[root[o]] = o
    /\ pc[o] \in Holding <=> root[o] # NoDir
    /\ pc[o] \in Staged => witness[o] = root[o]
    /\ pc[o] = "open" => stageAt[o] # NoDir /\ owner[stageAt[o]] = o

\* What the audit and the recheck established still holds at the rename.
AuditInv ==
  \A o \in Ops :
    /\ pc[o] \in {"commit", "sync", "rename"} => MatchesIR(tree[root[o]])
    /\ pc[o] \in {"sync", "rename"} => stageAt[o] = root[o]

\* The members the loop has passed are not corrupt.
LoopInv ==
  \A o \in Ops : \A k \in Members : k < next[o] => k \notin conf[o].corrupt

ScanInv ==
  \A o \in Ops :
    /\ pc[o] \in Verified => conf[o].corrupt = {}
    /\ stop[o] = "denied" => conf[o].corrupt # {}

\* The stopping cause and the outcome agree with where the call is.
StopInv ==
  \A o \in Ops :
    /\ pc[o] \in NotStopped => stop[o] = "none" /\ outcome[o] # "committed"
    /\ pc[o] \in {"abort", "retry", "discard"} =>
         stop[o] # "none" /\ outcome[o] # "committed"
    /\ pc[o] \in {"renamed", "published"} => stop[o] = "none"
    /\ pc[o] = "published" => outcome[o] = "committed"
    /\ pc[o] = "done" => (stop[o] = "none" <=> outcome[o] = "committed")

HasPublished(o) ==
  \/ pc[o] \in {"renamed", "published"}
  \/ pc[o] = "done" /\ outcome[o] = "committed"

\* A call that has published is the owner of what its destination names.
BoundInv ==
  \A o \in Ops : HasPublished(o) =>
    destAt[Target[o]] # NoDir /\ owner[destAt[Target[o]]] = o

\* A bound destination is a live directory and, if a call made it, complete.
DestInv ==
  \A d \in Dests : destAt[d] # NoDir =>
    /\ owner[destAt[d]] # Free
    /\ owner[destAt[d]] # Foreign => MatchesIR(tree[destAt[d]])

\* A destination owned by a call is that call's target, after its rename.
OwnedInv ==
  \A o \in Ops, d \in Dests : (destAt[d] # NoDir /\ owner[destAt[d]] = o) =>
    /\ Target[o] = d
    /\ conf[o].corrupt = {}
    /\ pc[o] = "dead" \/ HasPublished(o)

IInv ==
  /\ TypeOK /\ NameInv /\ RootInv /\ AuditInv /\ LoopInv /\ ScanInv /\ StopInv
  /\ BoundInv /\ DestInv /\ OwnedInv

-----------------------------------------------------------------------------
(***************************************************************************)
(* What the removal of a directory leaves alone                            *)
(***************************************************************************)
\* The steps that remove a directory, or try to.
Removal(o) ==
  \/ RemoveUnopened(o) \/ SetupAbort(o) \/ SetupRetry(o) \/ Abort(o)
  \/ AbortRetry(o) \/ DropStage(o) \/ Recover(o)

\* A removal on behalf of call o keeps every destination, every stage of
\* another call that the other call still owns, and every open capability.
FsKept(o) ==
  /\ destAt' = destAt
  /\ \A d \in Dests : destAt[d] # NoDir =>
       owner'[destAt[d]] = owner[destAt[d]] /\ tree'[destAt[d]] = tree[destAt[d]]
  /\ \A p \in Ops : stageAt'[p] # NoDir =>
       stageAt'[p] = stageAt[p] /\ owner'[stageAt[p]] = owner[stageAt[p]]
  /\ \A p \in Ops \ {o} :
       (stageAt[p] # NoDir /\ owner[stageAt[p]] = p) => stageAt'[p] = stageAt[p]
  /\ \A p \in Ops \ {o} : root[p] # NoDir =>
       owner'[root[p]] = owner[root[p]] /\ tree'[root[p]] = tree[root[p]]

(* Removing or emptying a directory that call o or a neighbour owns and no *)
(* destination names is harmless to everyone else.                         *)
LEMMA RemoveKeeps ==
  ASSUME IInv, NEW o \in Ops, NEW i \in Inodes,
         owner[i] \in {o, Foreign}, \A d \in Dests : destAt[d] # i,
         Remove(i) \/ Spoil(i)
  PROVE  FsTypeOK' /\ FsKept(o)
<1>1. EmptyTree \in [Paths -> FileState]
  BY DEF EmptyTree, FileState
<1>2. CASE Remove(i)
  <2>1. FsTypeOK'
    BY <1>1, <1>2 DEF IInv, TypeOK, FsTypeOK, Remove
  <2>2. destAt' = destAt
    BY <1>2 DEF IInv, TypeOK, FsTypeOK, Remove
  <2>3. FsKept(o)
    BY <1>2, <2>2, MarkAssumption
    DEF IInv, TypeOK, FsTypeOK, CallTypeOK, Remove, FsKept, RootInv
  <2> QED BY <2>1, <2>3
<1>3. CASE Spoil(i)
  <2>1. FsTypeOK'
    BY <1>1, <1>3 DEF IInv, TypeOK, FsTypeOK, Spoil
  <2>2. FsKept(o)
    BY <1>3, MarkAssumption
    DEF IInv, TypeOK, FsTypeOK, CallTypeOK, Spoil, FsKept, RootInv
  <2> QED BY <2>1, <2>2
<1> QED BY <1>2, <1>3

(* Until its rename the stage a call holds is its own and unpublished.     *)
LEMMA UnpublishedRoot ==
  ASSUME IInv, NEW o \in Ops,
         pc[o] \in {"members", "audit", "setup-abort", "abort", "unwind"}
  PROVE  /\ root[o] \in Inodes
         /\ owner[root[o]] = o
         /\ \A d \in Dests : destAt[d] # root[o]
<1>1. /\ root[o] \in Inodes
      /\ owner[root[o]] = o
  BY DEF IInv, RootInv, TypeOK, CallTypeOK, Holding, Staged
<1>2. \A d \in Dests : destAt[d] # root[o]
  BY <1>1, MarkAssumption DEF IInv, OwnedInv, HasPublished
<1> QED BY <1>1, <1>2

(* Every removing step of the code removes such a directory: by handle it  *)
(* is the call's own unpublished stage, by name it is what the call's own  *)
(* stage component binds.                                                  *)
LEMMA RemovalKeeps ==
  ASSUME IInv, NEW o \in Ops, Removal(o)
  PROVE  FsTypeOK' /\ FsKept(o)
<1>1. ASSUME stageAt[o] # NoDir, Remove(stageAt[o]) \/ Spoil(stageAt[o])
      PROVE  FsTypeOK' /\ FsKept(o)
  <2>1. /\ stageAt[o] \in Inodes
        /\ owner[stageAt[o]] \in {o, Foreign}
        /\ \A d \in Dests : destAt[d] # stageAt[o]
    BY <1>1 DEF IInv, NameInv, TypeOK, FsTypeOK
  <2> QED BY <1>1, <2>1, RemoveKeeps
<1>2. ASSUME pc[o] \in {"setup-abort", "abort", "unwind"},
             Remove(root[o]) \/ Spoil(root[o])
      PROVE  FsTypeOK' /\ FsKept(o)
  BY <1>2, UnpublishedRoot, RemoveKeeps
<1>3. ASSUME UNCHANGED fsVars
      PROVE  FsTypeOK' /\ FsKept(o)
  BY <1>3 DEF fsVars, FsKept, IInv, TypeOK, FsTypeOK
<1>4. CASE RemoveUnopened(o)
  BY <1>1, <1>4 DEF RemoveUnopened
<1>5. CASE SetupAbort(o)
  BY <1>2, <1>5 DEF SetupAbort
<1>6. CASE SetupRetry(o)
  BY <1>1, <1>6 DEF SetupRetry
<1>7. CASE Abort(o)
  BY <1>2, <1>7 DEF Abort, AbortRemoves
<1>8. CASE AbortRetry(o)
  BY <1>1, <1>3, <1>8 DEF AbortRetry, AbortRemoves
<1>9. CASE DropStage(o)
  BY <1>2, <1>9 DEF DropStage, AbortRemoves, Goto
<1>10. CASE Recover(o)
  BY <1>1, <1>10 DEF Recover
<1> QED BY <1>4, <1>5, <1>6, <1>7, <1>8, <1>9, <1>10 DEF Removal

-----------------------------------------------------------------------------
(***************************************************************************)
(* The shape of a step                                                     *)
(***************************************************************************)
\* The steps of a call that leave the file system alone.
Quiet(o) ==
  \/ RefuseSetup(o) \/ AdmitParent(o) \/ MakeStageFails(o) \/ OpenStage(o)
  \/ AdmitStage(o) \/ RefuseStage(o) \/ CreateRecord(o) \/ WriteRecord(o)
  \/ EndMembers(o) \/ Audit(o) \/ CommitCheck(o) \/ SyncStage(o)
  \/ PublishFails(o) \/ SettleCommit(o) \/ DiscardRecord(o) \/ Panic(o)
  \/ Kill(o)

\* A quiet step of a call touches no directory object and no name.
LEMMA QuietKeeps ==
  ASSUME NEW o \in Ops, Quiet(o)
  PROVE  UNCHANGED fsVars
BY DEF Quiet, fsVars, RefuseSetup, AdmitParent, MakeStageFails, OpenStage, AdmitStage, RefuseStage, CreateRecord, WriteRecord, EndMembers, Audit, CommitCheck, SyncStage, PublishFails, SettleCommit, DiscardRecord, Panic, Kill

(* Requests never change, and only a verified member advances the loop.    *)
LEMMA LoopFrame ==
  ASSUME Next
  PROVE  conf' = conf /\ (next' = next \/ \E o \in Ops : WriteMember(o))
<1>1. ASSUME NEW o \in Ops, RefuseSetup(o)
      PROVE  conf' = conf /\ next' = next
  BY <1>1 DEF RefuseSetup
<1>2. ASSUME NEW o \in Ops, AdmitParent(o)
      PROVE  conf' = conf /\ next' = next
  BY <1>2 DEF AdmitParent
<1>3. ASSUME NEW o \in Ops, MakeStage(o)
      PROVE  conf' = conf /\ next' = next
  BY <1>3 DEF MakeStage
<1>4. ASSUME NEW o \in Ops, MakeStageFails(o)
      PROVE  conf' = conf /\ next' = next
  BY <1>4 DEF MakeStageFails
<1>5. ASSUME NEW o \in Ops, OpenStage(o)
      PROVE  conf' = conf /\ next' = next
  BY <1>5 DEF OpenStage
<1>6. ASSUME NEW o \in Ops, RemoveUnopened(o)
      PROVE  conf' = conf /\ next' = next
  BY <1>6 DEF RemoveUnopened
<1>7. ASSUME NEW o \in Ops, AdmitStage(o)
      PROVE  conf' = conf /\ next' = next
  BY <1>7 DEF AdmitStage
<1>8. ASSUME NEW o \in Ops, RefuseStage(o)
      PROVE  conf' = conf /\ next' = next
  BY <1>8 DEF RefuseStage
<1>9. ASSUME NEW o \in Ops, SetupAbort(o)
      PROVE  conf' = conf /\ next' = next
  BY <1>9 DEF SetupAbort
<1>10. ASSUME NEW o \in Ops, SetupRetry(o)
      PROVE  conf' = conf /\ next' = next
  BY <1>10 DEF SetupRetry
<1>11. ASSUME NEW o \in Ops, CreateRecord(o)
      PROVE  conf' = conf /\ next' = next
  BY <1>11 DEF CreateRecord
<1>12. ASSUME NEW o \in Ops, WriteRecord(o)
      PROVE  conf' = conf /\ next' = next
  BY <1>12 DEF WriteRecord
<1>13. ASSUME NEW o \in Ops, WriteMember(o)
      PROVE  conf' = conf
  BY <1>13 DEF WriteMember
<1>14. ASSUME NEW o \in Ops, DenyMember(o)
      PROVE  conf' = conf /\ next' = next
  BY <1>14 DEF DenyMember
<1>15. ASSUME NEW o \in Ops, FailMember(o)
      PROVE  conf' = conf /\ next' = next
  BY <1>15 DEF FailMember
<1>16. ASSUME NEW o \in Ops, EndMembers(o)
      PROVE  conf' = conf /\ next' = next
  BY <1>16 DEF EndMembers
<1>17. ASSUME NEW o \in Ops, Audit(o)
      PROVE  conf' = conf /\ next' = next
  BY <1>17 DEF Audit
<1>18. ASSUME NEW o \in Ops, CommitCheck(o)
      PROVE  conf' = conf /\ next' = next
  BY <1>18 DEF CommitCheck
<1>19. ASSUME NEW o \in Ops, SyncStage(o)
      PROVE  conf' = conf /\ next' = next
  BY <1>19 DEF SyncStage
<1>20. ASSUME NEW o \in Ops, Publish(o)
      PROVE  conf' = conf /\ next' = next
  BY <1>20 DEF Publish
<1>21. ASSUME NEW o \in Ops, PublishFails(o)
      PROVE  conf' = conf /\ next' = next
  BY <1>21 DEF PublishFails
<1>22. ASSUME NEW o \in Ops, SettleCommit(o)
      PROVE  conf' = conf /\ next' = next
  BY <1>22 DEF SettleCommit
<1>23. ASSUME NEW o \in Ops, DiscardRecord(o)
      PROVE  conf' = conf /\ next' = next
  BY <1>23 DEF DiscardRecord
<1>24. ASSUME NEW o \in Ops, Abort(o)
      PROVE  conf' = conf /\ next' = next
  BY <1>24 DEF Abort
<1>25. ASSUME NEW o \in Ops, AbortRetry(o)
      PROVE  conf' = conf /\ next' = next
  BY <1>25 DEF AbortRetry
<1>26. ASSUME NEW o \in Ops, DropStage(o)
      PROVE  conf' = conf /\ next' = next
  BY <1>26 DEF DropStage
<1>27. ASSUME NEW o \in Ops, Panic(o)
      PROVE  conf' = conf /\ next' = next
  BY <1>27 DEF Panic
<1>28. ASSUME NEW o \in Ops, Kill(o)
      PROVE  conf' = conf /\ next' = next
  BY <1>28 DEF Kill
<1>29. ASSUME NEW o \in Ops, Recover(o)
      PROVE  conf' = conf /\ next' = next
  BY <1>29 DEF Recover, callVars
<1>30. ASSUME NEW o \in Ops, SubstituteStageName(o)
      PROVE  conf' = conf /\ next' = next
  BY <1>30 DEF SubstituteStageName, callVars
<1>31. ASSUME NEW o \in Ops, Tamper(o)
      PROVE  conf' = conf /\ next' = next
  BY <1>31 DEF Tamper, callVars
<1>32. ASSUME NEW d \in Dests, PlantDestination(d)
      PROVE  conf' = conf /\ next' = next
  BY <1>32 DEF PlantDestination, callVars
<1> QED
  BY <1>1, <1>2, <1>3, <1>4, <1>5, <1>6, <1>7, <1>8, <1>9, <1>10, <1>11, <1>12, <1>13, <1>14, <1>15, <1>16, <1>17, <1>18, <1>19, <1>20, <1>21, <1>22, <1>23, <1>24, <1>25, <1>26, <1>27, <1>28, <1>29, <1>30, <1>31, <1>32 DEF Next, Step

-----------------------------------------------------------------------------
(***************************************************************************)
(* Type correctness of a step                                              *)
(***************************************************************************)
LEMMA FsTypeStep ==
  ASSUME IInv, Next
  PROVE  FsTypeOK'
<1> USE DEF IInv, TypeOK, FsTypeOK, CallTypeOK
<1>1. ASSUME NEW o \in Ops, Quiet(o) PROVE FsTypeOK'
  BY <1>1, QuietKeeps DEF fsVars
<1>2. ASSUME NEW o \in Ops, Removal(o) PROVE FsTypeOK'
  BY <1>2, RemovalKeeps
<1>3. ASSUME NEW o \in Ops, MakeStage(o) PROVE FsTypeOK'
  BY <1>3 DEF MakeStage, EmptyTree, FileState
<1>4. ASSUME NEW o \in Ops, WriteMember(o) PROVE FsTypeOK'
  BY <1>4 DEF WriteMember, FileState
<1>5. ASSUME NEW o \in Ops, DenyMember(o) PROVE FsTypeOK'
  BY <1>5 DEF DenyMember, FileState
<1>6. ASSUME NEW o \in Ops, FailMember(o) PROVE FsTypeOK'
  BY <1>6 DEF FailMember, FileState
<1>7. ASSUME NEW o \in Ops, Publish(o) PROVE FsTypeOK'
  BY <1>7 DEF Publish
<1>8. ASSUME NEW o \in Ops, SubstituteStageName(o) PROVE FsTypeOK'
  BY <1>8 DEF SubstituteStageName
<1>9. ASSUME NEW o \in Ops, Tamper(o) PROVE FsTypeOK'
  <2>1. PICK k \in Paths : tree' = [tree EXCEPT ![root[o]][k] = "tampered"]
    BY <1>9 DEF Tamper
  <2>2. tree' \in [Inodes -> [Paths -> FileState]]
    BY <2>1 DEF FileState
  <2> QED BY <1>9, <2>2 DEF Tamper
<1>10. ASSUME NEW d \in Dests, PlantDestination(d) PROVE FsTypeOK'
  BY <1>10 DEF PlantDestination
<1> QED
  BY <1>1, <1>2, <1>3, <1>4, <1>5, <1>6, <1>7, <1>8, <1>9, <1>10
  DEF Next, Step, Quiet, Removal

\* Every step of a call keeps the types of the call's own variables.
LEMMA CallTypeStep ==
  ASSUME IInv, Next
  PROVE  CallTypeOK'
<1> USE MarkAssumption DEF IInv, TypeOK, FsTypeOK, CallTypeOK, Live, Ended, Goto
<1>1. ASSUME NEW o \in Ops, RefuseSetup(o) PROVE CallTypeOK'
  BY <1>1 DEF RefuseSetup
<1>2. ASSUME NEW o \in Ops, AdmitParent(o) PROVE CallTypeOK'
  BY <1>2 DEF AdmitParent
<1>3. ASSUME NEW o \in Ops, MakeStage(o) PROVE CallTypeOK'
  BY <1>3 DEF MakeStage
<1>4. ASSUME NEW o \in Ops, MakeStageFails(o) PROVE CallTypeOK'
  BY <1>4 DEF MakeStageFails
<1>5. ASSUME NEW o \in Ops, OpenStage(o) PROVE CallTypeOK'
  <2>1. pc' \in [Ops -> Live \cup Ended]
    BY <1>5 DEF OpenStage
  <2>2. root' \in [Ops -> Inodes \cup {NoDir}]
    BY <1>5 DEF OpenStage
  <2> QED BY <1>5, <2>1, <2>2 DEF OpenStage
<1>6. ASSUME NEW o \in Ops, RemoveUnopened(o) PROVE CallTypeOK'
  BY <1>6 DEF RemoveUnopened
<1>7. ASSUME NEW o \in Ops, AdmitStage(o) PROVE CallTypeOK'
  BY <1>7 DEF AdmitStage
<1>8. ASSUME NEW o \in Ops, RefuseStage(o) PROVE CallTypeOK'
  BY <1>8 DEF RefuseStage
<1>9. ASSUME NEW o \in Ops, SetupAbort(o) PROVE CallTypeOK'
  <2>1. pc' \in [Ops -> Live \cup Ended]
    BY <1>9 DEF SetupAbort
  <2>2. root' \in [Ops -> Inodes \cup {NoDir}]
    BY <1>9 DEF SetupAbort
  <2> QED BY <1>9, <2>1, <2>2 DEF SetupAbort, AbortRemoves
<1>10. ASSUME NEW o \in Ops, SetupRetry(o) PROVE CallTypeOK'
  BY <1>10 DEF SetupRetry
<1>11. ASSUME NEW o \in Ops, CreateRecord(o) PROVE CallTypeOK'
  BY <1>11 DEF CreateRecord
<1>12. ASSUME NEW o \in Ops, WriteRecord(o) PROVE CallTypeOK'
  <2>1. pc' \in [Ops -> Live \cup Ended]
    BY <1>12 DEF WriteRecord
  <2>2. recFile' \in [Ops -> Inodes \cup {NoFile, Torn}]
    BY <1>12 DEF WriteRecord, RootInv, Staged, Holding
  <2>3. held' \in [Ops -> BOOLEAN]
    BY <1>12 DEF WriteRecord
  <2> QED BY <1>12, <2>1, <2>2, <2>3 DEF WriteRecord
<1>13. ASSUME NEW o \in Ops, WriteMember(o) PROVE CallTypeOK'
  BY <1>13, MemberAssumption DEF WriteMember, Members
<1>14. ASSUME NEW o \in Ops, DenyMember(o) PROVE CallTypeOK'
  BY <1>14 DEF DenyMember
<1>15. ASSUME NEW o \in Ops, FailMember(o) PROVE CallTypeOK'
  BY <1>15 DEF FailMember
<1>16. ASSUME NEW o \in Ops, EndMembers(o) PROVE CallTypeOK'
  BY <1>16 DEF EndMembers
<1>17. ASSUME NEW o \in Ops, Audit(o) PROVE CallTypeOK'
  BY <1>17 DEF Audit
<1>18. ASSUME NEW o \in Ops, CommitCheck(o) PROVE CallTypeOK'
  BY <1>18 DEF CommitCheck
<1>19. ASSUME NEW o \in Ops, SyncStage(o) PROVE CallTypeOK'
  BY <1>19 DEF SyncStage
<1>20. ASSUME NEW o \in Ops, Publish(o) PROVE CallTypeOK'
  BY <1>20 DEF Publish
<1>21. ASSUME NEW o \in Ops, PublishFails(o) PROVE CallTypeOK'
  BY <1>21 DEF PublishFails
<1>22. ASSUME NEW o \in Ops, SettleCommit(o) PROVE CallTypeOK'
  BY <1>22 DEF SettleCommit
<1>23. ASSUME NEW o \in Ops, DiscardRecord(o) PROVE CallTypeOK'
  <2>1. pc' \in [Ops -> Live \cup Ended]
    BY <1>23 DEF DiscardRecord
  <2>2. recFile' \in [Ops -> Inodes \cup {NoFile, Torn}]
    BY <1>23 DEF DiscardRecord
  <2>3. held' \in [Ops -> BOOLEAN]
    BY <1>23 DEF DiscardRecord
  <2> QED BY <1>23, <2>1, <2>2, <2>3 DEF DiscardRecord
<1>24. ASSUME NEW o \in Ops, Abort(o) PROVE CallTypeOK'
  BY <1>24 DEF Abort, AbortRemoves
<1>25. ASSUME NEW o \in Ops, AbortRetry(o) PROVE CallTypeOK'
  <2>1. pc' \in [Ops -> Live \cup Ended]
    BY <1>25 DEF AbortRetry, AbortRemoves
  <2>2. witness' \in [Ops -> Inodes \cup {NoDir}]
    BY <1>25 DEF AbortRetry, AbortRemoves
  <2> QED BY <1>25, <2>1, <2>2 DEF AbortRetry, AbortRemoves
<1>26. ASSUME NEW o \in Ops, DropStage(o) PROVE CallTypeOK'
  <2>1. pc' \in [Ops -> Live \cup Ended]
    BY <1>26 DEF DropStage, AbortRemoves
  <2>2. root' \in [Ops -> Inodes \cup {NoDir}]
    BY <1>26 DEF DropStage, AbortRemoves
  <2>3. witness' \in [Ops -> Inodes \cup {NoDir}]
    BY <1>26 DEF DropStage, AbortRemoves
  <2>4. recFile' \in [Ops -> Inodes \cup {NoFile, Torn}]
    BY <1>26 DEF DropStage, AbortRemoves
  <2>5. held' \in [Ops -> BOOLEAN]
    BY <1>26 DEF DropStage, AbortRemoves
  <2> QED BY <1>26, <2>1, <2>2, <2>3, <2>4, <2>5 DEF DropStage, AbortRemoves
<1>27. ASSUME NEW o \in Ops, Panic(o) PROVE CallTypeOK'
  BY <1>27 DEF Panic
<1>28. ASSUME NEW o \in Ops, Kill(o) PROVE CallTypeOK'
  BY <1>28 DEF Kill
<1>29. ASSUME NEW o \in Ops, Recover(o) PROVE CallTypeOK'
  BY <1>29 DEF Recover, callVars
<1>30. ASSUME NEW o \in Ops, SubstituteStageName(o) PROVE CallTypeOK'
  BY <1>30 DEF SubstituteStageName, callVars
<1>31. ASSUME NEW o \in Ops, Tamper(o) PROVE CallTypeOK'
  BY <1>31 DEF Tamper, callVars
<1>32. ASSUME NEW d \in Dests, PlantDestination(d) PROVE CallTypeOK'
  BY <1>32 DEF PlantDestination, callVars
<1> QED
  BY <1>1, <1>2, <1>3, <1>4, <1>5, <1>6, <1>7, <1>8, <1>9, <1>10, <1>11, <1>12, <1>13, <1>14, <1>15, <1>16, <1>17, <1>18, <1>19, <1>20, <1>21, <1>22, <1>23, <1>24, <1>25, <1>26, <1>27, <1>28, <1>29, <1>30, <1>31, <1>32 DEF Next, Step

\* Every step keeps the types of what a call reports.
LEMMA ReportTypeStep ==
  ASSUME IInv, Next
  PROVE  ReportTypeOK'
<1> USE DEF IInv, TypeOK, ReportTypeOK, Goto
<1>1. ASSUME NEW o \in Ops, RefuseSetup(o) PROVE ReportTypeOK'
  BY <1>1 DEF RefuseSetup, FailSetup
<1>2. ASSUME NEW o \in Ops, AdmitParent(o) PROVE ReportTypeOK'
  BY <1>2 DEF AdmitParent
<1>3. ASSUME NEW o \in Ops, MakeStage(o) PROVE ReportTypeOK'
  BY <1>3 DEF MakeStage
<1>4. ASSUME NEW o \in Ops, MakeStageFails(o) PROVE ReportTypeOK'
  BY <1>4 DEF MakeStageFails, FailSetup
<1>5. ASSUME NEW o \in Ops, OpenStage(o) PROVE ReportTypeOK'
  BY <1>5 DEF OpenStage
<1>6. ASSUME NEW o \in Ops, RemoveUnopened(o) PROVE ReportTypeOK'
  <2>1. outcome' \in [Ops -> {"not-started", "setup-failed", "staged", "aborted",
                              "publication-failed", "committed"}]
    BY <1>6 DEF RemoveUnopened, FailSetup, Note
  <2>2. cleanup' \in [Ops -> {"not-created", "pending", "removed", "failed",
                              "not-applicable-after-commit"}]
    BY <1>6 DEF RemoveUnopened, FailSetup, Note
  <2>3. notes' \in [Ops -> SUBSET {"cleanup", "discard", "parent-sync"}]
    BY <1>6 DEF RemoveUnopened, FailSetup, Note
  <2>4. stop' \in [Ops -> {"none", "setup", "denied", "io", "publication"}]
    BY <1>6 DEF RemoveUnopened, FailSetup, Note
  <2> QED BY <1>6, <2>1, <2>2, <2>3, <2>4 DEF RemoveUnopened, FailSetup, Note
<1>7. ASSUME NEW o \in Ops, AdmitStage(o) PROVE ReportTypeOK'
  BY <1>7 DEF AdmitStage
<1>8. ASSUME NEW o \in Ops, RefuseStage(o) PROVE ReportTypeOK'
  BY <1>8 DEF RefuseStage
<1>9. ASSUME NEW o \in Ops, SetupAbort(o) PROVE ReportTypeOK'
  BY <1>9 DEF SetupAbort, FailSetup
<1>10. ASSUME NEW o \in Ops, SetupRetry(o) PROVE ReportTypeOK'
  <2>1. outcome' \in [Ops -> {"not-started", "setup-failed", "staged", "aborted",
                              "publication-failed", "committed"}]
    BY <1>10 DEF SetupRetry, FailSetup, Note
  <2>2. cleanup' \in [Ops -> {"not-created", "pending", "removed", "failed",
                              "not-applicable-after-commit"}]
    BY <1>10 DEF SetupRetry, FailSetup, Note
  <2>3. notes' \in [Ops -> SUBSET {"cleanup", "discard", "parent-sync"}]
    BY <1>10 DEF SetupRetry, FailSetup, Note
  <2>4. stop' \in [Ops -> {"none", "setup", "denied", "io", "publication"}]
    BY <1>10 DEF SetupRetry, FailSetup, Note
  <2> QED BY <1>10, <2>1, <2>2, <2>3, <2>4 DEF SetupRetry, FailSetup, Note
<1>11. ASSUME NEW o \in Ops, CreateRecord(o) PROVE ReportTypeOK'
  BY <1>11 DEF CreateRecord, StopWith
<1>12. ASSUME NEW o \in Ops, WriteRecord(o) PROVE ReportTypeOK'
  BY <1>12 DEF WriteRecord, StopWith
<1>13. ASSUME NEW o \in Ops, WriteMember(o) PROVE ReportTypeOK'
  BY <1>13 DEF WriteMember
<1>14. ASSUME NEW o \in Ops, DenyMember(o) PROVE ReportTypeOK'
  BY <1>14 DEF DenyMember, StopWith
<1>15. ASSUME NEW o \in Ops, FailMember(o) PROVE ReportTypeOK'
  BY <1>15 DEF FailMember, StopWith
<1>16. ASSUME NEW o \in Ops, EndMembers(o) PROVE ReportTypeOK'
  BY <1>16 DEF EndMembers
<1>17. ASSUME NEW o \in Ops, Audit(o) PROVE ReportTypeOK'
  BY <1>17 DEF Audit, StopWith
<1>18. ASSUME NEW o \in Ops, CommitCheck(o) PROVE ReportTypeOK'
  BY <1>18 DEF CommitCheck, StopWith
<1>19. ASSUME NEW o \in Ops, SyncStage(o) PROVE ReportTypeOK'
  <2>1. outcome' \in [Ops -> {"not-started", "setup-failed", "staged", "aborted",
                              "publication-failed", "committed"}]
    BY <1>19 DEF SyncStage, StopWith
  <2>2. stop' \in [Ops -> {"none", "setup", "denied", "io", "publication"}]
    BY <1>19 DEF SyncStage, StopWith
  <2>3. synced' \in [Ops -> SUBSET {"stage", "parent"}]
    BY <1>19 DEF SyncStage, StopWith
  <2> QED BY <1>19, <2>1, <2>2, <2>3 DEF SyncStage, StopWith
<1>20. ASSUME NEW o \in Ops, Publish(o) PROVE ReportTypeOK'
  BY <1>20 DEF Publish
<1>21. ASSUME NEW o \in Ops, PublishFails(o) PROVE ReportTypeOK'
  BY <1>21 DEF PublishFails, StopWith
<1>22. ASSUME NEW o \in Ops, SettleCommit(o) PROVE ReportTypeOK'
  <2>1. outcome' \in [Ops -> {"not-started", "setup-failed", "staged", "aborted",
                              "publication-failed", "committed"}]
    BY <1>22 DEF SettleCommit, Note
  <2>2. cleanup' \in [Ops -> {"not-created", "pending", "removed", "failed",
                              "not-applicable-after-commit"}]
    BY <1>22 DEF SettleCommit, Note
  <2>3. notes' \in [Ops -> SUBSET {"cleanup", "discard", "parent-sync"}]
    BY <1>22 DEF SettleCommit, Note
  <2>4. synced' \in [Ops -> SUBSET {"stage", "parent"}]
    BY <1>22 DEF SettleCommit, Note
  <2> QED BY <1>22, <2>1, <2>2, <2>3, <2>4 DEF SettleCommit, Note
<1>23. ASSUME NEW o \in Ops, DiscardRecord(o) PROVE ReportTypeOK'
  <2>1. notes' \in [Ops -> SUBSET {"cleanup", "discard", "parent-sync"}]
    BY <1>23 DEF DiscardRecord, Note
  <2> QED BY <1>23, <2>1 DEF DiscardRecord, Note
<1>24. ASSUME NEW o \in Ops, Abort(o) PROVE ReportTypeOK'
  <2>1. outcome' \in [Ops -> {"not-started", "setup-failed", "staged", "aborted",
                              "publication-failed", "committed"}]
    BY <1>24 DEF Abort, AbortRemoves, MarkAborted, Note
  <2>2. cleanup' \in [Ops -> {"not-created", "pending", "removed", "failed",
                              "not-applicable-after-commit"}]
    BY <1>24 DEF Abort, AbortRemoves, MarkAborted, Note
  <2>3. notes' \in [Ops -> SUBSET {"cleanup", "discard", "parent-sync"}]
    BY <1>24 DEF Abort, AbortRemoves, MarkAborted, Note
  <2> QED BY <1>24, <2>1, <2>2, <2>3 DEF Abort, AbortRemoves, MarkAborted, Note
<1>25. ASSUME NEW o \in Ops, AbortRetry(o) PROVE ReportTypeOK'
  BY <1>25 DEF AbortRetry, AbortRemoves, MarkAborted
<1>26. ASSUME NEW o \in Ops, DropStage(o) PROVE ReportTypeOK'
  BY <1>26 DEF DropStage, AbortRemoves, MarkAborted
<1>27. ASSUME NEW o \in Ops, Panic(o) PROVE ReportTypeOK'
  BY <1>27 DEF Panic
<1>28. ASSUME NEW o \in Ops, Kill(o) PROVE ReportTypeOK'
  BY <1>28 DEF Kill
<1>29. ASSUME NEW o \in Ops, Recover(o) PROVE ReportTypeOK'
  BY <1>29 DEF Recover, callVars
<1>30. ASSUME NEW o \in Ops, SubstituteStageName(o) PROVE ReportTypeOK'
  BY <1>30 DEF SubstituteStageName, callVars
<1>31. ASSUME NEW o \in Ops, Tamper(o) PROVE ReportTypeOK'
  BY <1>31 DEF Tamper, callVars
<1>32. ASSUME NEW d \in Dests, PlantDestination(d) PROVE ReportTypeOK'
  BY <1>32 DEF PlantDestination, callVars
<1> QED
  BY <1>1, <1>2, <1>3, <1>4, <1>5, <1>6, <1>7, <1>8, <1>9, <1>10, <1>11, <1>12, <1>13, <1>14, <1>15, <1>16, <1>17, <1>18, <1>19, <1>20, <1>21, <1>22, <1>23, <1>24, <1>25, <1>26, <1>27, <1>28, <1>29, <1>30, <1>31, <1>32 DEF Next, Step

-----------------------------------------------------------------------------
(***************************************************************************)
(* Preservation of the other parts of IInv                                 *)
(***************************************************************************)
(* Stage names: a new binding uses a free inode, a rename moves one, a     *)
(* removal drops one.                                                      *)
LEMMA NameStep ==
  ASSUME IInv, Next
  PROVE  NameInv'
<1> USE MarkAssumption DEF IInv, TypeOK, FsTypeOK, NameInv
<1>1. ASSUME NEW o \in Ops, Quiet(o) PROVE NameInv'
  BY <1>1, QuietKeeps DEF fsVars
<1>2. ASSUME NEW o \in Ops, Removal(o) PROVE NameInv'
  <2>1. FsKept(o)
    BY <1>2, RemovalKeeps
  <2> QED BY <2>1 DEF FsKept
<1>3. ASSUME NEW o \in Ops, MakeStage(o) PROVE NameInv'
  BY <1>3 DEF MakeStage, DestInv
<1>4. ASSUME NEW o \in Ops, WriteMember(o) \/ DenyMember(o) \/ FailMember(o) \/ Tamper(o)
      PROVE  NameInv'
  BY <1>4 DEF WriteMember, DenyMember, FailMember, Tamper
<1>5. ASSUME NEW o \in Ops, Publish(o) PROVE NameInv'
  <2>1. stageAt[o] # NoDir /\ owner[stageAt[o]] = o /\ pc[o] = "rename"
    BY <1>5 DEF Publish, Goto, AuditInv, RootInv
  <2>2. \A p \in Ops : p # o /\ stageAt[p] # NoDir => stageAt[p] # stageAt[o]
    BY <2>1
  <2>3. \A p \in Ops : stageAt'[p] # NoDir => p # o /\ stageAt'[p] = stageAt[p]
    BY <1>5 DEF Publish
  <2>4. \A d \in Dests : destAt'[d] \in {destAt[d], stageAt[o]}
    BY <1>5 DEF Publish
  <2>5. owner' = owner
    BY <1>5 DEF Publish
  <2> QED BY <2>2, <2>3, <2>4, <2>5
<1>6. ASSUME NEW o \in Ops, SubstituteStageName(o) PROVE NameInv'
  BY <1>6 DEF SubstituteStageName, DestInv
<1>7. ASSUME NEW d \in Dests, PlantDestination(d) PROVE NameInv'
  BY <1>7 DEF PlantDestination
<1> QED
  BY <1>1, <1>2, <1>3, <1>4, <1>5, <1>6, <1>7 DEF Next, Step, Quiet, Removal

(* Capabilities: only Kill, a removal and SettleCommit drop one, and no    *)
(* step of another call frees the inode behind it.                         *)
LEMMA RootStep ==
  ASSUME IInv, Next, TypeOK'
  PROVE  RootInv'
<1> USE MarkAssumption DEF IInv, TypeOK, FsTypeOK, CallTypeOK, RootInv, Holding, Staged, Goto, fsVars
<1>1. ASSUME NEW o \in Ops, RefuseSetup(o) PROVE RootInv'
  BY <1>1 DEF RefuseSetup
<1>2. ASSUME NEW o \in Ops, AdmitParent(o) PROVE RootInv'
  BY <1>2 DEF AdmitParent
<1>3. ASSUME NEW o \in Ops, MakeStage(o) PROVE RootInv'
  BY <1>3 DEF MakeStage
<1>4. ASSUME NEW o \in Ops, MakeStageFails(o) PROVE RootInv'
  BY <1>4 DEF MakeStageFails
<1>5. ASSUME NEW o \in Ops, OpenStage(o) PROVE RootInv'
  BY <1>5 DEF OpenStage, NameInv
<1>6. ASSUME NEW o \in Ops, RemoveUnopened(o) PROVE RootInv'
  <2>1. FsKept(o)
    BY <1>6, RemovalKeeps DEF Removal
  <2> QED BY <1>6, <2>1 DEF FsKept, RemoveUnopened
<1>7. ASSUME NEW o \in Ops, AdmitStage(o) PROVE RootInv'
  BY <1>7 DEF AdmitStage
<1>8. ASSUME NEW o \in Ops, RefuseStage(o) PROVE RootInv'
  BY <1>8 DEF RefuseStage
<1>9. ASSUME NEW o \in Ops, SetupAbort(o) PROVE RootInv'
  <2>1. FsKept(o)
    BY <1>9, RemovalKeeps DEF Removal
  <2> QED BY <1>9, <2>1 DEF FsKept, SetupAbort
<1>10. ASSUME NEW o \in Ops, SetupRetry(o) PROVE RootInv'
  <2>1. FsKept(o)
    BY <1>10, RemovalKeeps DEF Removal
  <2> QED BY <1>10, <2>1 DEF FsKept, SetupRetry
<1>11. ASSUME NEW o \in Ops, CreateRecord(o) PROVE RootInv'
  BY <1>11 DEF CreateRecord
<1>12. ASSUME NEW o \in Ops, WriteRecord(o) PROVE RootInv'
  BY <1>12 DEF WriteRecord
<1>13. ASSUME NEW o \in Ops, WriteMember(o) PROVE RootInv'
  BY <1>13 DEF WriteMember
<1>14. ASSUME NEW o \in Ops, DenyMember(o) PROVE RootInv'
  BY <1>14 DEF DenyMember
<1>15. ASSUME NEW o \in Ops, FailMember(o) PROVE RootInv'
  BY <1>15 DEF FailMember
<1>16. ASSUME NEW o \in Ops, EndMembers(o) PROVE RootInv'
  BY <1>16 DEF EndMembers
<1>17. ASSUME NEW o \in Ops, Audit(o) PROVE RootInv'
  BY <1>17 DEF Audit
<1>18. ASSUME NEW o \in Ops, CommitCheck(o) PROVE RootInv'
  BY <1>18 DEF CommitCheck
<1>19. ASSUME NEW o \in Ops, SyncStage(o) PROVE RootInv'
  BY <1>19 DEF SyncStage
<1>20. ASSUME NEW o \in Ops, Publish(o) PROVE RootInv'
  BY <1>20 DEF Publish
<1>21. ASSUME NEW o \in Ops, PublishFails(o) PROVE RootInv'
  BY <1>21 DEF PublishFails
<1>22. ASSUME NEW o \in Ops, SettleCommit(o) PROVE RootInv'
  BY <1>22 DEF SettleCommit
<1>23. ASSUME NEW o \in Ops, DiscardRecord(o) PROVE RootInv'
  BY <1>23 DEF DiscardRecord
<1>24. ASSUME NEW o \in Ops, Abort(o) PROVE RootInv'
  <2>1. FsKept(o)
    BY <1>24, RemovalKeeps DEF Removal
  <2> QED BY <1>24, <2>1 DEF FsKept, Abort, AbortRemoves
<1>25. ASSUME NEW o \in Ops, AbortRetry(o) PROVE RootInv'
  <2>1. FsKept(o)
    BY <1>25, RemovalKeeps DEF Removal
  <2> QED BY <1>25, <2>1 DEF FsKept, AbortRetry, AbortRemoves
<1>26. ASSUME NEW o \in Ops, DropStage(o) PROVE RootInv'
  <2>1. FsKept(o)
    BY <1>26, RemovalKeeps DEF Removal
  <2> QED BY <1>26, <2>1 DEF FsKept, DropStage, AbortRemoves
<1>27. ASSUME NEW o \in Ops, Panic(o) PROVE RootInv'
  BY <1>27 DEF Panic
<1>28. ASSUME NEW o \in Ops, Kill(o) PROVE RootInv'
  BY <1>28 DEF Kill, Live
<1>29. ASSUME NEW o \in Ops, Recover(o) PROVE RootInv'
  <2>1. FsKept(o)
    BY <1>29, RemovalKeeps DEF Removal
  <2> QED BY <1>29, <2>1 DEF FsKept, Recover, callVars, Ended
<1>30. ASSUME NEW o \in Ops, SubstituteStageName(o) PROVE RootInv'
  BY <1>30 DEF SubstituteStageName, callVars
<1>31. ASSUME NEW o \in Ops, Tamper(o) PROVE RootInv'
  BY <1>31 DEF Tamper, callVars
<1>32. ASSUME NEW d \in Dests, PlantDestination(d) PROVE RootInv'
  BY <1>32 DEF PlantDestination, callVars
<1> QED
  BY <1>1, <1>2, <1>3, <1>4, <1>5, <1>6, <1>7, <1>8, <1>9, <1>10, <1>11, <1>12, <1>13, <1>14, <1>15, <1>16, <1>17, <1>18, <1>19, <1>20, <1>21, <1>22, <1>23, <1>24, <1>25, <1>26, <1>27, <1>28, <1>29, <1>30, <1>31, <1>32 DEF Next, Step

(* What audit_against and the recheck of commit established is stable:     *)
(* nothing but the call's own next step changes its audited stage.         *)
LEMMA AuditStep ==
  ASSUME IInv, Next, TypeOK'
  PROVE  AuditInv'
<1> USE MarkAssumption DEF IInv, TypeOK, FsTypeOK, CallTypeOK, RootInv, Holding, Staged, AuditInv, Goto, fsVars
<1>1. ASSUME NEW o \in Ops, RefuseSetup(o) PROVE AuditInv'
  BY <1>1 DEF RefuseSetup
<1>2. ASSUME NEW o \in Ops, AdmitParent(o) PROVE AuditInv'
  BY <1>2 DEF AdmitParent
<1>3. ASSUME NEW o \in Ops, MakeStage(o) PROVE AuditInv'
  BY <1>3 DEF MakeStage
<1>4. ASSUME NEW o \in Ops, MakeStageFails(o) PROVE AuditInv'
  BY <1>4 DEF MakeStageFails
<1>5. ASSUME NEW o \in Ops, OpenStage(o) PROVE AuditInv'
  BY <1>5 DEF OpenStage
<1>6. ASSUME NEW o \in Ops, RemoveUnopened(o) PROVE AuditInv'
  <2>1. FsKept(o)
    BY <1>6, RemovalKeeps DEF Removal
  <2> QED BY <1>6, <2>1, SMTT(40) DEF FsKept, RemoveUnopened
<1>7. ASSUME NEW o \in Ops, AdmitStage(o) PROVE AuditInv'
  BY <1>7 DEF AdmitStage
<1>8. ASSUME NEW o \in Ops, RefuseStage(o) PROVE AuditInv'
  BY <1>8 DEF RefuseStage
<1>9. ASSUME NEW o \in Ops, SetupAbort(o) PROVE AuditInv'
  <2>1. FsKept(o)
    BY <1>9, RemovalKeeps DEF Removal
  <2> QED BY <1>9, <2>1 DEF FsKept, SetupAbort
<1>10. ASSUME NEW o \in Ops, SetupRetry(o) PROVE AuditInv'
  <2>1. FsKept(o)
    BY <1>10, RemovalKeeps DEF Removal
  <2> QED BY <1>10, <2>1 DEF FsKept, SetupRetry
<1>11. ASSUME NEW o \in Ops, CreateRecord(o) PROVE AuditInv'
  BY <1>11 DEF CreateRecord
<1>12. ASSUME NEW o \in Ops, WriteRecord(o) PROVE AuditInv'
  BY <1>12 DEF WriteRecord
<1>13. ASSUME NEW o \in Ops, WriteMember(o) PROVE AuditInv'
  BY <1>13 DEF WriteMember
<1>14. ASSUME NEW o \in Ops, DenyMember(o) PROVE AuditInv'
  BY <1>14 DEF DenyMember
<1>15. ASSUME NEW o \in Ops, FailMember(o) PROVE AuditInv'
  BY <1>15 DEF FailMember
<1>16. ASSUME NEW o \in Ops, EndMembers(o) PROVE AuditInv'
  BY <1>16 DEF EndMembers
<1>17. ASSUME NEW o \in Ops, Audit(o) PROVE AuditInv'
  BY <1>17 DEF Audit, AuditPasses
<1>18. ASSUME NEW o \in Ops, CommitCheck(o) PROVE AuditInv'
  BY <1>18 DEF CommitCheck, CommitCheckPasses
<1>19. ASSUME NEW o \in Ops, SyncStage(o) PROVE AuditInv'
  BY <1>19 DEF SyncStage
<1>20. ASSUME NEW o \in Ops, Publish(o) PROVE AuditInv'
  BY <1>20 DEF Publish
<1>21. ASSUME NEW o \in Ops, PublishFails(o) PROVE AuditInv'
  BY <1>21 DEF PublishFails
<1>22. ASSUME NEW o \in Ops, SettleCommit(o) PROVE AuditInv'
  BY <1>22 DEF SettleCommit
<1>23. ASSUME NEW o \in Ops, DiscardRecord(o) PROVE AuditInv'
  BY <1>23 DEF DiscardRecord
<1>24. ASSUME NEW o \in Ops, Abort(o) PROVE AuditInv'
  <2>1. FsKept(o)
    BY <1>24, RemovalKeeps DEF Removal
  <2> QED BY <1>24, <2>1 DEF FsKept, Abort, AbortRemoves
<1>25. ASSUME NEW o \in Ops, AbortRetry(o) PROVE AuditInv'
  <2>1. FsKept(o)
    BY <1>25, RemovalKeeps DEF Removal
  <2> QED BY <1>25, <2>1 DEF FsKept, AbortRetry, AbortRemoves
<1>26. ASSUME NEW o \in Ops, DropStage(o) PROVE AuditInv'
  <2>1. FsKept(o)
    BY <1>26, RemovalKeeps DEF Removal
  <2> QED BY <1>26, <2>1 DEF FsKept, DropStage, AbortRemoves
<1>27. ASSUME NEW o \in Ops, Panic(o) PROVE AuditInv'
  BY <1>27 DEF Panic
<1>28. ASSUME NEW o \in Ops, Kill(o) PROVE AuditInv'
  BY <1>28 DEF Kill
<1>29. ASSUME NEW o \in Ops, Recover(o) PROVE AuditInv'
  <2>1. FsKept(o)
    BY <1>29, RemovalKeeps DEF Removal
  <2> QED BY <1>29, <2>1, SMTT(40) DEF FsKept, Recover, callVars, Ended
<1>30. ASSUME NEW o \in Ops, SubstituteStageName(o) PROVE AuditInv'
  BY <1>30 DEF SubstituteStageName, callVars
<1>31. ASSUME NEW o \in Ops, Tamper(o) PROVE AuditInv'
  BY <1>31 DEF Tamper, callVars
<1>32. ASSUME NEW d \in Dests, PlantDestination(d) PROVE AuditInv'
  BY <1>32 DEF PlantDestination, callVars
<1> QED
  BY <1>1, <1>2, <1>3, <1>4, <1>5, <1>6, <1>7, <1>8, <1>9, <1>10, <1>11, <1>12, <1>13, <1>14, <1>15, <1>16, <1>17, <1>18, <1>19, <1>20, <1>21, <1>22, <1>23, <1>24, <1>25, <1>26, <1>27, <1>28, <1>29, <1>30, <1>31, <1>32 DEF Next, Step

(* A member is passed only when it is not corrupt.                         *)
LEMMA LoopStep ==
  ASSUME IInv, Next, TypeOK'
  PROVE  LoopInv'
<1>1. conf' = conf /\ (next' = next \/ \E o \in Ops : WriteMember(o))
  BY LoopFrame
<1>2. CASE next' = next
  BY <1>1, <1>2 DEF IInv, LoopInv
<1>3. ASSUME NEW o \in Ops, WriteMember(o) PROVE LoopInv'
  <2>1. /\ next' = [next EXCEPT ![o] = @ + 1]
        /\ next[o] \notin conf[o].corrupt
    BY <1>3 DEF WriteMember
  <2>2. /\ \A p \in Ops : next[p] \in Nat
        /\ next \in [Ops -> 1..(MemberCount + 1)]
    BY MemberAssumption DEF IInv, TypeOK, CallTypeOK
  <2>3. \A p \in Ops : next'[p] = next[p] \/ (p = o /\ next'[p] = next[p] + 1)
    BY <2>1, <2>2
  <2>4. ASSUME NEW p \in Ops, NEW k \in Members, k < next'[p]
        PROVE  k \notin conf[p].corrupt
    <3>1. k \in Nat
      BY MemberAssumption DEF Members
    <3>2. k < next[p] \/ (p = o /\ k = next[p])
      BY <2>2, <2>3, <2>4, <3>1
    <3> QED BY <2>1, <3>2 DEF IInv, LoopInv
  <2> QED BY <1>1, <2>4 DEF LoopInv
<1> QED BY <1>1, <1>2, <1>3

(* The loop ends with no corrupt member, and only a corrupt one is denied. *)
LEMMA ScanStep ==
  ASSUME IInv, Next, TypeOK'
  PROVE  ScanInv'
<1> USE DEF IInv, TypeOK, FsTypeOK, CallTypeOK, ReportTypeOK, ScanInv, Verified, Goto
<1>1. ASSUME NEW o \in Ops, RefuseSetup(o) PROVE ScanInv'
  BY <1>1 DEF RefuseSetup, FailSetup
<1>2. ASSUME NEW o \in Ops, AdmitParent(o) PROVE ScanInv'
  BY <1>2 DEF AdmitParent
<1>3. ASSUME NEW o \in Ops, MakeStage(o) PROVE ScanInv'
  BY <1>3 DEF MakeStage
<1>4. ASSUME NEW o \in Ops, MakeStageFails(o) PROVE ScanInv'
  BY <1>4 DEF MakeStageFails, FailSetup
<1>5. ASSUME NEW o \in Ops, OpenStage(o) PROVE ScanInv'
  <2>1. /\ conf' = conf /\ stop' = stop
        /\ \A p \in Ops : pc'[p] = pc[p] \/ pc'[p] \in {"check", "unopened"}
    BY <1>5 DEF OpenStage
  <2> QED BY <2>1
<1>6. ASSUME NEW o \in Ops, RemoveUnopened(o) PROVE ScanInv'
  BY <1>6 DEF RemoveUnopened, FailSetup
<1>7. ASSUME NEW o \in Ops, AdmitStage(o) PROVE ScanInv'
  BY <1>7 DEF AdmitStage
<1>8. ASSUME NEW o \in Ops, RefuseStage(o) PROVE ScanInv'
  BY <1>8 DEF RefuseStage
<1>9. ASSUME NEW o \in Ops, SetupAbort(o) PROVE ScanInv'
  BY <1>9 DEF SetupAbort, FailSetup
<1>10. ASSUME NEW o \in Ops, SetupRetry(o) PROVE ScanInv'
  BY <1>10 DEF SetupRetry, FailSetup
<1>11. ASSUME NEW o \in Ops, CreateRecord(o) PROVE ScanInv'
  BY <1>11 DEF CreateRecord, StopWith
<1>12. ASSUME NEW o \in Ops, WriteRecord(o) PROVE ScanInv'
  <2>1. /\ conf' = conf
        /\ \A p \in Ops : pc'[p] = pc[p] \/ pc'[p] \in {"members", "abort"}
        /\ \A p \in Ops : stop'[p] = stop[p] \/ stop'[p] = "setup"
    BY <1>12 DEF WriteRecord, StopWith
  <2> QED BY <2>1
<1>13. ASSUME NEW o \in Ops, WriteMember(o) PROVE ScanInv'
  BY <1>13 DEF WriteMember
<1>14. ASSUME NEW o \in Ops, DenyMember(o) PROVE ScanInv'
  BY <1>14 DEF DenyMember, StopWith
<1>15. ASSUME NEW o \in Ops, FailMember(o) PROVE ScanInv'
  BY <1>15 DEF FailMember, StopWith
<1>16. ASSUME NEW o \in Ops, EndMembers(o) PROVE ScanInv'
  <2>1. conf[o].corrupt \subseteq Members
    BY RequestAssumption DEF Request
  <2>2. \A k \in Members : k < next[o]
    BY <1>16, MemberAssumption DEF EndMembers, Members
  <2>3. conf[o].corrupt = {}
    BY <2>1, <2>2 DEF LoopInv
  <2> QED BY <1>16, <2>3 DEF EndMembers
<1>17. ASSUME NEW o \in Ops, Audit(o) PROVE ScanInv'
  BY <1>17 DEF Audit, StopWith
<1>18. ASSUME NEW o \in Ops, CommitCheck(o) PROVE ScanInv'
  BY <1>18 DEF CommitCheck, StopWith
<1>19. ASSUME NEW o \in Ops, SyncStage(o) PROVE ScanInv'
  BY <1>19 DEF SyncStage, StopWith
<1>20. ASSUME NEW o \in Ops, Publish(o) PROVE ScanInv'
  BY <1>20 DEF Publish
<1>21. ASSUME NEW o \in Ops, PublishFails(o) PROVE ScanInv'
  BY <1>21 DEF PublishFails, StopWith
<1>22. ASSUME NEW o \in Ops, SettleCommit(o) PROVE ScanInv'
  BY <1>22 DEF SettleCommit
<1>23. ASSUME NEW o \in Ops, DiscardRecord(o) PROVE ScanInv'
  BY <1>23 DEF DiscardRecord
<1>24. ASSUME NEW o \in Ops, Abort(o) PROVE ScanInv'
  <2>1. /\ conf' = conf /\ stop' = stop
        /\ \A p \in Ops : pc'[p] = pc[p] \/ pc'[p] \in {"discard", "retry"}
    BY <1>24 DEF Abort
  <2> QED BY <2>1
<1>25. ASSUME NEW o \in Ops, AbortRetry(o) PROVE ScanInv'
  BY <1>25 DEF AbortRetry, AbortRemoves
<1>26. ASSUME NEW o \in Ops, DropStage(o) PROVE ScanInv'
  BY <1>26 DEF DropStage, AbortRemoves
<1>27. ASSUME NEW o \in Ops, Panic(o) PROVE ScanInv'
  BY <1>27 DEF Panic, Staged
<1>28. ASSUME NEW o \in Ops, Kill(o) PROVE ScanInv'
  BY <1>28 DEF Kill, Live
<1>29. ASSUME NEW o \in Ops, Recover(o) PROVE ScanInv'
  BY <1>29 DEF Recover, callVars
<1>30. ASSUME NEW o \in Ops, SubstituteStageName(o) PROVE ScanInv'
  BY <1>30 DEF SubstituteStageName, callVars
<1>31. ASSUME NEW o \in Ops, Tamper(o) PROVE ScanInv'
  BY <1>31 DEF Tamper, callVars
<1>32. ASSUME NEW d \in Dests, PlantDestination(d) PROVE ScanInv'
  BY <1>32 DEF PlantDestination, callVars
<1> QED
  BY <1>1, <1>2, <1>3, <1>4, <1>5, <1>6, <1>7, <1>8, <1>9, <1>10, <1>11, <1>12, <1>13, <1>14, <1>15, <1>16, <1>17, <1>18, <1>19, <1>20, <1>21, <1>22, <1>23, <1>24, <1>25, <1>26, <1>27, <1>28, <1>29, <1>30, <1>31, <1>32 DEF Next, Step

(* Every early return names a cause before it aborts.                      *)
LEMMA StopStep ==
  ASSUME IInv, Next, TypeOK'
  PROVE  StopInv'
<1> USE DEF IInv, TypeOK, FsTypeOK, CallTypeOK, ReportTypeOK, StopInv, NotStopped, Goto
<1>1. ASSUME NEW o \in Ops, RefuseSetup(o) PROVE StopInv'
  BY <1>1 DEF RefuseSetup, FailSetup
<1>2. ASSUME NEW o \in Ops, AdmitParent(o) PROVE StopInv'
  BY <1>2 DEF AdmitParent
<1>3. ASSUME NEW o \in Ops, MakeStage(o) PROVE StopInv'
  BY <1>3 DEF MakeStage
<1>4. ASSUME NEW o \in Ops, MakeStageFails(o) PROVE StopInv'
  BY <1>4 DEF MakeStageFails, FailSetup
<1>5. ASSUME NEW o \in Ops, OpenStage(o) PROVE StopInv'
  BY <1>5 DEF OpenStage
<1>6. ASSUME NEW o \in Ops, RemoveUnopened(o) PROVE StopInv'
  BY <1>6 DEF RemoveUnopened, FailSetup
<1>7. ASSUME NEW o \in Ops, AdmitStage(o) PROVE StopInv'
  BY <1>7 DEF AdmitStage
<1>8. ASSUME NEW o \in Ops, RefuseStage(o) PROVE StopInv'
  BY <1>8 DEF RefuseStage
<1>9. ASSUME NEW o \in Ops, SetupAbort(o) PROVE StopInv'
  BY <1>9 DEF SetupAbort, FailSetup
<1>10. ASSUME NEW o \in Ops, SetupRetry(o) PROVE StopInv'
  BY <1>10 DEF SetupRetry, FailSetup
<1>11. ASSUME NEW o \in Ops, CreateRecord(o) PROVE StopInv'
  BY <1>11 DEF CreateRecord, StopWith
<1>12. ASSUME NEW o \in Ops, WriteRecord(o) PROVE StopInv'
  BY <1>12 DEF WriteRecord, StopWith
<1>13. ASSUME NEW o \in Ops, WriteMember(o) PROVE StopInv'
  BY <1>13 DEF WriteMember
<1>14. ASSUME NEW o \in Ops, DenyMember(o) PROVE StopInv'
  BY <1>14 DEF DenyMember, StopWith
<1>15. ASSUME NEW o \in Ops, FailMember(o) PROVE StopInv'
  BY <1>15 DEF FailMember, StopWith
<1>16. ASSUME NEW o \in Ops, EndMembers(o) PROVE StopInv'
  BY <1>16 DEF EndMembers
<1>17. ASSUME NEW o \in Ops, Audit(o) PROVE StopInv'
  BY <1>17 DEF Audit, StopWith
<1>18. ASSUME NEW o \in Ops, CommitCheck(o) PROVE StopInv'
  BY <1>18, SMTT(40) DEF CommitCheck, StopWith
<1>19. ASSUME NEW o \in Ops, SyncStage(o) PROVE StopInv'
  BY <1>19 DEF SyncStage, StopWith
<1>20. ASSUME NEW o \in Ops, Publish(o) PROVE StopInv'
  BY <1>20 DEF Publish
<1>21. ASSUME NEW o \in Ops, PublishFails(o) PROVE StopInv'
  BY <1>21 DEF PublishFails, StopWith
<1>22. ASSUME NEW o \in Ops, SettleCommit(o) PROVE StopInv'
  BY <1>22 DEF SettleCommit
<1>23. ASSUME NEW o \in Ops, DiscardRecord(o) PROVE StopInv'
  BY <1>23 DEF DiscardRecord
<1>24. ASSUME NEW o \in Ops, Abort(o) PROVE StopInv'
  <2>1. /\ conf' = conf /\ stop' = stop /\ pc[o] = "abort"
        /\ \A p \in Ops \ {o} : pc'[p] = pc[p]
        /\ pc'[o] \in {"discard", "retry"}
    BY <1>24 DEF Abort
  <2>2. \A p \in Ops : outcome'[p] = outcome[p] \/ (p = o /\ outcome'[p] = "aborted")
    BY <1>24 DEF Abort, AbortRemoves, MarkAborted
  <2> QED BY <2>1, <2>2, SMTT(40)
<1>25. ASSUME NEW o \in Ops, AbortRetry(o) PROVE StopInv'
  BY <1>25 DEF AbortRetry, AbortRemoves, MarkAborted
<1>26. ASSUME NEW o \in Ops, DropStage(o) PROVE StopInv'
  BY <1>26 DEF DropStage, AbortRemoves, MarkAborted
<1>27. ASSUME NEW o \in Ops, Panic(o) PROVE StopInv'
  BY <1>27 DEF Panic, Staged
<1>28. ASSUME NEW o \in Ops, Kill(o) PROVE StopInv'
  BY <1>28 DEF Kill, Live
<1>29. ASSUME NEW o \in Ops, Recover(o) PROVE StopInv'
  BY <1>29 DEF Recover, callVars
<1>30. ASSUME NEW o \in Ops, SubstituteStageName(o) PROVE StopInv'
  BY <1>30 DEF SubstituteStageName, callVars
<1>31. ASSUME NEW o \in Ops, Tamper(o) PROVE StopInv'
  BY <1>31 DEF Tamper, callVars
<1>32. ASSUME NEW d \in Dests, PlantDestination(d) PROVE StopInv'
  BY <1>32 DEF PlantDestination, callVars
<1> QED
  BY <1>1, <1>2, <1>3, <1>4, <1>5, <1>6, <1>7, <1>8, <1>9, <1>10, <1>11, <1>12, <1>13, <1>14, <1>15, <1>16, <1>17, <1>18, <1>19, <1>20, <1>21, <1>22, <1>23, <1>24, <1>25, <1>26, <1>27, <1>28, <1>29, <1>30, <1>31, <1>32 DEF Next, Step

(* A removal keeps the destinations of the calls that have published.      *)
LEMMA BoundKept ==
  ASSUME IInv, NEW o \in Ops, FsKept(o),
         \A p \in Ops : HasPublished(p)' => HasPublished(p)
  PROVE  BoundInv'
<1> SUFFICES ASSUME NEW p \in Ops, HasPublished(p)'
             PROVE  (destAt[Target[p]] # NoDir /\ owner[destAt[Target[p]]] = p)'
  BY DEF BoundInv
<1>1. destAt[Target[p]] # NoDir /\ owner[destAt[Target[p]]] = p
  BY DEF IInv, BoundInv
<1>2. Target[p] \in Dests
  BY OpsAssumption
<1> QED BY <1>1, <1>2 DEF FsKept

(* A published destination stays the call's own.                           *)
LEMMA BoundStep ==
  ASSUME IInv, Next, TypeOK'
  PROVE  BoundInv'
<1> USE OpsAssumption, MarkAssumption DEF IInv, TypeOK, FsTypeOK, CallTypeOK, ReportTypeOK, Goto, fsVars, BoundInv, HasPublished
<1>1. ASSUME NEW o \in Ops, RefuseSetup(o) PROVE BoundInv'
  BY <1>1 DEF RefuseSetup, FailSetup
<1>2. ASSUME NEW o \in Ops, AdmitParent(o) PROVE BoundInv'
  BY <1>2 DEF AdmitParent
<1>3. ASSUME NEW o \in Ops, MakeStage(o) PROVE BoundInv'
  BY <1>3 DEF MakeStage, DestInv
<1>4. ASSUME NEW o \in Ops, MakeStageFails(o) PROVE BoundInv'
  BY <1>4 DEF MakeStageFails, FailSetup
<1>5. ASSUME NEW o \in Ops, OpenStage(o) PROVE BoundInv'
  BY <1>5 DEF OpenStage
<1>6. ASSUME NEW o \in Ops, RemoveUnopened(o) PROVE BoundInv'
  <2>1. FsKept(o)
    BY <1>6, RemovalKeeps DEF Removal
  <2>2. \A p \in Ops : HasPublished(p)' => HasPublished(p)
    BY <1>6 DEF RemoveUnopened, FailSetup
  <2> QED BY <2>1, <2>2, BoundKept
<1>7. ASSUME NEW o \in Ops, AdmitStage(o) PROVE BoundInv'
  BY <1>7 DEF AdmitStage
<1>8. ASSUME NEW o \in Ops, RefuseStage(o) PROVE BoundInv'
  BY <1>8 DEF RefuseStage
<1>9. ASSUME NEW o \in Ops, SetupAbort(o) PROVE BoundInv'
  <2>1. FsKept(o)
    BY <1>9, RemovalKeeps DEF Removal
  <2>2. \A p \in Ops : HasPublished(p)' => HasPublished(p)
    BY <1>9 DEF SetupAbort, FailSetup
  <2> QED BY <2>1, <2>2, BoundKept
<1>10. ASSUME NEW o \in Ops, SetupRetry(o) PROVE BoundInv'
  <2>1. FsKept(o)
    BY <1>10, RemovalKeeps DEF Removal
  <2>2. \A p \in Ops : HasPublished(p)' => HasPublished(p)
    BY <1>10 DEF SetupRetry, FailSetup
  <2> QED BY <2>1, <2>2, BoundKept
<1>11. ASSUME NEW o \in Ops, CreateRecord(o) PROVE BoundInv'
  BY <1>11 DEF CreateRecord, StopWith
<1>12. ASSUME NEW o \in Ops, WriteRecord(o) PROVE BoundInv'
  BY <1>12 DEF WriteRecord, StopWith
<1>13. ASSUME NEW o \in Ops, WriteMember(o) PROVE BoundInv'
  BY <1>13 DEF WriteMember
<1>14. ASSUME NEW o \in Ops, DenyMember(o) PROVE BoundInv'
  BY <1>14 DEF DenyMember, StopWith
<1>15. ASSUME NEW o \in Ops, FailMember(o) PROVE BoundInv'
  BY <1>15 DEF FailMember, StopWith
<1>16. ASSUME NEW o \in Ops, EndMembers(o) PROVE BoundInv'
  BY <1>16 DEF EndMembers
<1>17. ASSUME NEW o \in Ops, Audit(o) PROVE BoundInv'
  BY <1>17 DEF Audit, StopWith
<1>18. ASSUME NEW o \in Ops, CommitCheck(o) PROVE BoundInv'
  BY <1>18 DEF CommitCheck, StopWith
<1>19. ASSUME NEW o \in Ops, SyncStage(o) PROVE BoundInv'
  BY <1>19 DEF SyncStage, StopWith
<1>20. ASSUME NEW o \in Ops, Publish(o) PROVE BoundInv'
  BY <1>20 DEF Publish, AuditInv, RootInv
<1>21. ASSUME NEW o \in Ops, PublishFails(o) PROVE BoundInv'
  BY <1>21 DEF PublishFails, StopWith
<1>22. ASSUME NEW o \in Ops, SettleCommit(o) PROVE BoundInv'
  BY <1>22 DEF SettleCommit
<1>23. ASSUME NEW o \in Ops, DiscardRecord(o) PROVE BoundInv'
  BY <1>23 DEF DiscardRecord, StopInv, NotStopped
<1>24. ASSUME NEW o \in Ops, Abort(o) PROVE BoundInv'
  <2>1. FsKept(o)
    BY <1>24, RemovalKeeps DEF Removal
  <2>2. \A p \in Ops : HasPublished(p)' => HasPublished(p)
    BY <1>24 DEF Abort, AbortRemoves, MarkAborted
  <2> QED BY <2>1, <2>2, BoundKept
<1>25. ASSUME NEW o \in Ops, AbortRetry(o) PROVE BoundInv'
  <2>1. FsKept(o)
    BY <1>25, RemovalKeeps DEF Removal
  <2>2. \A p \in Ops : HasPublished(p)' => HasPublished(p)
    BY <1>25 DEF AbortRetry, AbortRemoves, MarkAborted, StopInv, NotStopped
  <2> QED BY <2>1, <2>2, BoundKept
<1>26. ASSUME NEW o \in Ops, DropStage(o) PROVE BoundInv'
  <2>1. FsKept(o)
    BY <1>26, RemovalKeeps DEF Removal
  <2>2. \A p \in Ops : HasPublished(p)' => HasPublished(p)
    BY <1>26 DEF DropStage, AbortRemoves, MarkAborted
  <2> QED BY <2>1, <2>2, BoundKept
<1>27. ASSUME NEW o \in Ops, Panic(o) PROVE BoundInv'
  BY <1>27 DEF Panic, Staged
<1>28. ASSUME NEW o \in Ops, Kill(o) PROVE BoundInv'
  BY <1>28 DEF Kill, Live
<1>29. ASSUME NEW o \in Ops, Recover(o) PROVE BoundInv'
  <2>1. FsKept(o)
    BY <1>29, RemovalKeeps DEF Removal
  <2>2. \A p \in Ops : HasPublished(p)' => HasPublished(p)
    BY <1>29 DEF Recover, callVars
  <2> QED BY <2>1, <2>2, BoundKept
<1>30. ASSUME NEW o \in Ops, SubstituteStageName(o) PROVE BoundInv'
  BY <1>30 DEF SubstituteStageName, callVars
<1>31. ASSUME NEW o \in Ops, Tamper(o) PROVE BoundInv'
  BY <1>31 DEF Tamper, callVars
<1>32. ASSUME NEW d \in Dests, PlantDestination(d) PROVE BoundInv'
  BY <1>32 DEF PlantDestination, callVars
<1> QED
  BY <1>1, <1>2, <1>3, <1>4, <1>5, <1>6, <1>7, <1>8, <1>9, <1>10, <1>11, <1>12, <1>13, <1>14, <1>15, <1>16, <1>17, <1>18, <1>19, <1>20, <1>21, <1>22, <1>23, <1>24, <1>25, <1>26, <1>27, <1>28, <1>29, <1>30, <1>31, <1>32 DEF Next, Step

(* A bound destination keeps its object and that object its contents.      *)
LEMMA DestStep ==
  ASSUME IInv, Next, TypeOK'
  PROVE  DestInv'
<1> USE OpsAssumption, MarkAssumption DEF IInv, TypeOK, FsTypeOK, CallTypeOK, ReportTypeOK, Goto, fsVars, DestInv
<1>1. ASSUME NEW o \in Ops, RefuseSetup(o) PROVE DestInv'
  BY <1>1, QuietKeeps DEF Quiet, fsVars
<1>2. ASSUME NEW o \in Ops, AdmitParent(o) PROVE DestInv'
  BY <1>2, QuietKeeps DEF Quiet, fsVars
<1>3. ASSUME NEW o \in Ops, MakeStage(o) PROVE DestInv'
  BY <1>3 DEF MakeStage
<1>4. ASSUME NEW o \in Ops, MakeStageFails(o) PROVE DestInv'
  BY <1>4, QuietKeeps DEF Quiet, fsVars
<1>5. ASSUME NEW o \in Ops, OpenStage(o) PROVE DestInv'
  BY <1>5, QuietKeeps DEF Quiet, fsVars
<1>6. ASSUME NEW o \in Ops, RemoveUnopened(o) PROVE DestInv'
  <2>1. FsKept(o)
    BY <1>6, RemovalKeeps DEF Removal
  <2> QED BY <2>1 DEF FsKept
<1>7. ASSUME NEW o \in Ops, AdmitStage(o) PROVE DestInv'
  BY <1>7, QuietKeeps DEF Quiet, fsVars
<1>8. ASSUME NEW o \in Ops, RefuseStage(o) PROVE DestInv'
  BY <1>8, QuietKeeps DEF Quiet, fsVars
<1>9. ASSUME NEW o \in Ops, SetupAbort(o) PROVE DestInv'
  <2>1. FsKept(o)
    BY <1>9, RemovalKeeps DEF Removal
  <2> QED BY <1>9, <2>1 DEF FsKept, SetupAbort
<1>10. ASSUME NEW o \in Ops, SetupRetry(o) PROVE DestInv'
  <2>1. FsKept(o)
    BY <1>10, RemovalKeeps DEF Removal
  <2> QED BY <1>10, <2>1 DEF FsKept, SetupRetry
<1>11. ASSUME NEW o \in Ops, CreateRecord(o) PROVE DestInv'
  BY <1>11, QuietKeeps DEF Quiet, fsVars
<1>12. ASSUME NEW o \in Ops, WriteRecord(o) PROVE DestInv'
  BY <1>12, QuietKeeps DEF Quiet, fsVars
<1>13. ASSUME NEW o \in Ops, WriteMember(o) PROVE DestInv'
  <2>1. pc[o] \in {"members", "audit"}
    BY <1>13 DEF WriteMember
  <2>2. root[o] \in Inodes /\ \A d \in Dests : destAt[d] # root[o]
    BY <2>1, UnpublishedRoot
  <2>3. \A d \in Dests : destAt[d] # NoDir => tree'[destAt[d]] = tree[destAt[d]]
    BY <1>13, <2>2 DEF WriteMember
  <2> QED BY <1>13, <2>3 DEF WriteMember
<1>14. ASSUME NEW o \in Ops, DenyMember(o) PROVE DestInv'
  <2>1. pc[o] \in {"members", "audit"}
    BY <1>14 DEF DenyMember
  <2>2. root[o] \in Inodes /\ \A d \in Dests : destAt[d] # root[o]
    BY <2>1, UnpublishedRoot
  <2>3. \A d \in Dests : destAt[d] # NoDir => tree'[destAt[d]] = tree[destAt[d]]
    BY <1>14, <2>2 DEF DenyMember
  <2> QED BY <1>14, <2>3 DEF DenyMember
<1>15. ASSUME NEW o \in Ops, FailMember(o) PROVE DestInv'
  <2>1. pc[o] \in {"members", "audit"}
    BY <1>15 DEF FailMember
  <2>2. root[o] \in Inodes /\ \A d \in Dests : destAt[d] # root[o]
    BY <2>1, UnpublishedRoot
  <2>3. \A d \in Dests : destAt[d] # NoDir => tree'[destAt[d]] = tree[destAt[d]]
    BY <1>15, <2>2 DEF FailMember
  <2> QED BY <1>15, <2>3 DEF FailMember
<1>16. ASSUME NEW o \in Ops, EndMembers(o) PROVE DestInv'
  BY <1>16, QuietKeeps DEF Quiet, fsVars
<1>17. ASSUME NEW o \in Ops, Audit(o) PROVE DestInv'
  BY <1>17, QuietKeeps DEF Quiet, fsVars
<1>18. ASSUME NEW o \in Ops, CommitCheck(o) PROVE DestInv'
  BY <1>18, QuietKeeps DEF Quiet, fsVars
<1>19. ASSUME NEW o \in Ops, SyncStage(o) PROVE DestInv'
  BY <1>19, QuietKeeps DEF Quiet, fsVars
<1>20. ASSUME NEW o \in Ops, Publish(o) PROVE DestInv'
  BY <1>20 DEF Publish, AuditInv, RootInv
<1>21. ASSUME NEW o \in Ops, PublishFails(o) PROVE DestInv'
  BY <1>21, QuietKeeps DEF Quiet, fsVars
<1>22. ASSUME NEW o \in Ops, SettleCommit(o) PROVE DestInv'
  BY <1>22, QuietKeeps DEF Quiet, fsVars
<1>23. ASSUME NEW o \in Ops, DiscardRecord(o) PROVE DestInv'
  BY <1>23, QuietKeeps DEF Quiet, fsVars
<1>24. ASSUME NEW o \in Ops, Abort(o) PROVE DestInv'
  <2>1. FsKept(o)
    BY <1>24, RemovalKeeps DEF Removal
  <2> QED BY <1>24, <2>1 DEF FsKept, Abort
<1>25. ASSUME NEW o \in Ops, AbortRetry(o) PROVE DestInv'
  <2>1. FsKept(o)
    BY <1>25, RemovalKeeps DEF Removal
  <2> QED BY <1>25, <2>1 DEF FsKept, AbortRetry
<1>26. ASSUME NEW o \in Ops, DropStage(o) PROVE DestInv'
  <2>1. FsKept(o)
    BY <1>26, RemovalKeeps DEF Removal
  <2> QED BY <1>26, <2>1 DEF FsKept, DropStage
<1>27. ASSUME NEW o \in Ops, Panic(o) PROVE DestInv'
  BY <1>27, QuietKeeps DEF Quiet, fsVars
<1>28. ASSUME NEW o \in Ops, Kill(o) PROVE DestInv'
  BY <1>28, QuietKeeps DEF Quiet, fsVars
<1>29. ASSUME NEW o \in Ops, Recover(o) PROVE DestInv'
  <2>1. FsKept(o)
    BY <1>29, RemovalKeeps DEF Removal
  <2> QED BY <1>29, <2>1 DEF FsKept, Recover
<1>30. ASSUME NEW o \in Ops, SubstituteStageName(o) PROVE DestInv'
  BY <1>30 DEF SubstituteStageName, callVars
<1>31. ASSUME NEW o \in Ops, Tamper(o) PROVE DestInv'
  <2>1. pc[o] \in {"members", "audit"}
    BY <1>31 DEF Tamper
  <2>2. root[o] \in Inodes /\ \A d \in Dests : destAt[d] # root[o]
    BY <2>1, UnpublishedRoot
  <2>3. \A d \in Dests : destAt[d] # NoDir => tree'[destAt[d]] = tree[destAt[d]]
    BY <1>31, <2>2 DEF Tamper
  <2> QED BY <1>31, <2>3 DEF Tamper
<1>32. ASSUME NEW d \in Dests, PlantDestination(d) PROVE DestInv'
  BY <1>32 DEF PlantDestination, callVars
<1> QED
  BY <1>1, <1>2, <1>3, <1>4, <1>5, <1>6, <1>7, <1>8, <1>9, <1>10, <1>11, <1>12, <1>13, <1>14, <1>15, <1>16, <1>17, <1>18, <1>19, <1>20, <1>21, <1>22, <1>23, <1>24, <1>25, <1>26, <1>27, <1>28, <1>29, <1>30, <1>31, <1>32 DEF Next, Step

(* What a call owns at a destination it published there, all verified.     *)
LEMMA OwnedStep ==
  ASSUME IInv, Next, TypeOK'
  PROVE  OwnedInv'
<1> USE OpsAssumption, MarkAssumption DEF IInv, TypeOK, FsTypeOK, CallTypeOK, ReportTypeOK, Goto, fsVars, OwnedInv, HasPublished
<1>1. ASSUME NEW o \in Ops, RefuseSetup(o) PROVE OwnedInv'
  BY <1>1 DEF RefuseSetup, FailSetup
<1>2. ASSUME NEW o \in Ops, AdmitParent(o) PROVE OwnedInv'
  BY <1>2 DEF AdmitParent
<1>3. ASSUME NEW o \in Ops, MakeStage(o) PROVE OwnedInv'
  BY <1>3 DEF MakeStage, DestInv
<1>4. ASSUME NEW o \in Ops, MakeStageFails(o) PROVE OwnedInv'
  BY <1>4 DEF MakeStageFails, FailSetup
<1>5. ASSUME NEW o \in Ops, OpenStage(o) PROVE OwnedInv'
  BY <1>5, SMTT(40) DEF OpenStage
<1>6. ASSUME NEW o \in Ops, RemoveUnopened(o) PROVE OwnedInv'
  <2>1. FsKept(o)
    BY <1>6, RemovalKeeps DEF Removal
  <2> QED BY <1>6, <2>1 DEF FsKept, RemoveUnopened, FailSetup
<1>7. ASSUME NEW o \in Ops, AdmitStage(o) PROVE OwnedInv'
  BY <1>7 DEF AdmitStage
<1>8. ASSUME NEW o \in Ops, RefuseStage(o) PROVE OwnedInv'
  BY <1>8 DEF RefuseStage
<1>9. ASSUME NEW o \in Ops, SetupAbort(o) PROVE OwnedInv'
  <2>1. FsKept(o)
    BY <1>9, RemovalKeeps DEF Removal
  <2> QED BY <1>9, <2>1 DEF FsKept, SetupAbort, FailSetup
<1>10. ASSUME NEW o \in Ops, SetupRetry(o) PROVE OwnedInv'
  <2>1. FsKept(o)
    BY <1>10, RemovalKeeps DEF Removal
  <2> QED BY <1>10, <2>1 DEF FsKept, SetupRetry, FailSetup
<1>11. ASSUME NEW o \in Ops, CreateRecord(o) PROVE OwnedInv'
  BY <1>11 DEF CreateRecord, StopWith
<1>12. ASSUME NEW o \in Ops, WriteRecord(o) PROVE OwnedInv'
  BY <1>12 DEF WriteRecord, StopWith
<1>13. ASSUME NEW o \in Ops, WriteMember(o) PROVE OwnedInv'
  BY <1>13 DEF WriteMember
<1>14. ASSUME NEW o \in Ops, DenyMember(o) PROVE OwnedInv'
  BY <1>14 DEF DenyMember, StopWith
<1>15. ASSUME NEW o \in Ops, FailMember(o) PROVE OwnedInv'
  BY <1>15 DEF FailMember, StopWith
<1>16. ASSUME NEW o \in Ops, EndMembers(o) PROVE OwnedInv'
  BY <1>16 DEF EndMembers
<1>17. ASSUME NEW o \in Ops, Audit(o) PROVE OwnedInv'
  BY <1>17 DEF Audit, StopWith
<1>18. ASSUME NEW o \in Ops, CommitCheck(o) PROVE OwnedInv'
  BY <1>18 DEF CommitCheck, StopWith
<1>19. ASSUME NEW o \in Ops, SyncStage(o) PROVE OwnedInv'
  BY <1>19 DEF SyncStage, StopWith
<1>20. ASSUME NEW o \in Ops, Publish(o) PROVE OwnedInv'
  BY <1>20 DEF Publish, AuditInv, RootInv, ScanInv, Verified
<1>21. ASSUME NEW o \in Ops, PublishFails(o) PROVE OwnedInv'
  BY <1>21 DEF PublishFails, StopWith
<1>22. ASSUME NEW o \in Ops, SettleCommit(o) PROVE OwnedInv'
  BY <1>22 DEF SettleCommit
<1>23. ASSUME NEW o \in Ops, DiscardRecord(o) PROVE OwnedInv'
  BY <1>23 DEF DiscardRecord, StopInv, NotStopped
<1>24. ASSUME NEW o \in Ops, Abort(o) PROVE OwnedInv'
  <2>1. /\ conf' = conf /\ stop' = stop /\ pc[o] = "abort"
        /\ \A p \in Ops \ {o} : pc'[p] = pc[p]
        /\ pc'[o] \in {"discard", "retry"}
    BY <1>24 DEF Abort
  <2>2. \A p \in Ops : outcome'[p] = outcome[p] \/ (p = o /\ outcome'[p] = "aborted")
    BY <1>24 DEF Abort, AbortRemoves, MarkAborted
  <2>3. FsKept(o)
    BY <1>24, RemovalKeeps DEF Removal
  <2> QED BY <2>1, <2>2, <2>3 DEF FsKept
<1>25. ASSUME NEW o \in Ops, AbortRetry(o) PROVE OwnedInv'
  <2>1. FsKept(o)
    BY <1>25, RemovalKeeps DEF Removal
  <2> QED BY <1>25, <2>1 DEF FsKept, AbortRetry, AbortRemoves, MarkAborted, StopInv, NotStopped
<1>26. ASSUME NEW o \in Ops, DropStage(o) PROVE OwnedInv'
  <2>1. FsKept(o)
    BY <1>26, RemovalKeeps DEF Removal
  <2> QED BY <1>26, <2>1 DEF FsKept, DropStage, AbortRemoves, MarkAborted
<1>27. ASSUME NEW o \in Ops, Panic(o) PROVE OwnedInv'
  BY <1>27 DEF Panic, Staged
<1>28. ASSUME NEW o \in Ops, Kill(o) PROVE OwnedInv'
  BY <1>28 DEF Kill, Live
<1>29. ASSUME NEW o \in Ops, Recover(o) PROVE OwnedInv'
  <2>1. FsKept(o)
    BY <1>29, RemovalKeeps DEF Removal
  <2> QED BY <1>29, <2>1 DEF FsKept, Recover, callVars
<1>30. ASSUME NEW o \in Ops, SubstituteStageName(o) PROVE OwnedInv'
  BY <1>30 DEF SubstituteStageName, callVars
<1>31. ASSUME NEW o \in Ops, Tamper(o) PROVE OwnedInv'
  BY <1>31 DEF Tamper, callVars
<1>32. ASSUME NEW d \in Dests, PlantDestination(d) PROVE OwnedInv'
  BY <1>32 DEF PlantDestination, callVars
<1> QED
  BY <1>1, <1>2, <1>3, <1>4, <1>5, <1>6, <1>7, <1>8, <1>9, <1>10, <1>11, <1>12, <1>13, <1>14, <1>15, <1>16, <1>17, <1>18, <1>19, <1>20, <1>21, <1>22, <1>23, <1>24, <1>25, <1>26, <1>27, <1>28, <1>29, <1>30, <1>31, <1>32 DEF Next, Step

-----------------------------------------------------------------------------
(***************************************************************************)
(* The theorems                                                            *)
(***************************************************************************)
LEMMA InitIInv ==
  ASSUME Init
  PROVE  IInv
<1> USE MarkAssumption DEF Init
<1>1. TypeOK
  <2>1. FsTypeOK
    BY DEF FsTypeOK, EmptyTree, FileState
  <2>2. CallTypeOK
    BY MemberAssumption DEF CallTypeOK, Live
  <2>3. ReportTypeOK
    BY DEF ReportTypeOK
  <2> QED BY <2>1, <2>2, <2>3 DEF TypeOK
<1>2. NameInv /\ RootInv /\ AuditInv
  BY DEF NameInv, RootInv, AuditInv, Holding, Staged
<1>3. LoopInv
  BY MemberAssumption DEF LoopInv, Members
<1>4. ScanInv /\ StopInv
  BY DEF ScanInv, StopInv, NotStopped, Verified
<1>5. BoundInv /\ DestInv /\ OwnedInv
  BY DEF BoundInv, DestInv, OwnedInv, HasPublished
<1> QED BY <1>1, <1>2, <1>3, <1>4, <1>5 DEF IInv

\* Every step of the specification keeps the inductive invariant.
LEMMA StepIInv ==
  ASSUME IInv, [Next]_vars
  PROVE  IInv'
<1>1. CASE Next
  <2>1. TypeOK'
    BY <1>1, FsTypeStep, CallTypeStep, ReportTypeStep DEF TypeOK
  <2> QED
    BY <1>1, <2>1, NameStep, RootStep, AuditStep, LoopStep, ScanStep, StopStep,
       BoundStep, DestStep, OwnedStep
    DEF IInv
<1>2. CASE UNCHANGED vars
  BY <1>2
  DEF vars, IInv, TypeOK, FsTypeOK, CallTypeOK, ReportTypeOK, NameInv, RootInv,
      AuditInv, LoopInv, ScanInv, StopInv, BoundInv, DestInv, OwnedInv, HasPublished
<1> QED BY <1>1, <1>2

(* IInv is an invariant: inode reuse, kills, failed removals, substituted  *)
(* names and racing calls never break the ownership of names and handles.  *)
THEOREM Inductive == Spec => []IInv
<1>1. Init => IInv
  BY InitIInv
<1>2. IInv /\ [Next]_vars => IInv'
  BY StepIInv
<1> QED BY <1>1, <1>2, PTL DEF Spec

(* The variables keep their types in every behaviour.                      *)
THEOREM TypeCorrect == Spec => []TypeOK
<1>1. IInv => TypeOK
  BY DEF IInv
<1> QED BY <1>1, Inductive, PTL

(* What a destination names is foreign, or the complete verified tree of a *)
(* call that asked for this destination.                                   *)
THEOREM PublicationSafe == Spec => []PublishedIsVerified
<1>1. IInv => PublishedIsVerified
  <2> SUFFICES ASSUME IInv, NEW d \in Dests, destAt[d] # NoDir,
                      owner[destAt[d]] # Foreign
               PROVE  \E o \in Ops : /\ owner[destAt[d]] = o
                                     /\ Target[o] = d
                                     /\ conf[o].corrupt = {}
                                     /\ MatchesIR(tree[destAt[d]])
    BY DEF PublishedIsVerified
  <2>1. owner[destAt[d]] \in Ops
    BY DEF IInv, DestInv, TypeOK, FsTypeOK
  <2>2. MatchesIR(tree[destAt[d]])
    BY DEF IInv, DestInv
  <2> QED BY <2>1, <2>2 DEF IInv, OwnedInv
<1> QED BY <1>1, Inductive, PTL

(* The exit code a call returns agrees with the file system.               *)
THEOREM ExitCodeCorrect == Spec => []ExitCodeTruthful
<1>1. IInv => ExitCodeTruthful
  <2> SUFFICES ASSUME IInv, NEW o \in Ops, pc[o] = "done"
               PROVE  /\ ExitCode(o) = 0 <=> /\ destAt[Target[o]] # NoDir
                                             /\ owner[destAt[Target[o]]] = o
                      /\ ExitCode(o) = 0 <=> outcome[o] = "committed"
                      /\ ExitCode(o) = 2 => conf[o].corrupt # {}
    BY DEF ExitCodeTruthful
  <2>1. stop[o] \in {"none", "setup", "denied", "io", "publication"}
    BY DEF IInv, TypeOK, ReportTypeOK
  <2>2. /\ ExitCode(o) = 0 <=> stop[o] = "none"
        /\ ExitCode(o) = 2 <=> stop[o] = "denied"
    <3>1. /\ stop[o] = "none" => Axes(o) = [admission |-> "admitted",
              verification |-> "complete", effect |-> "committed"]
          /\ stop[o] = "denied" => Axes(o).admission = "denied"
          /\ stop[o] \in {"setup", "io", "publication"} =>
               Axes(o).admission = "admitted" /\ Axes(o).effect = "failed"
      BY DEF Axes
    <3>2. CASE stop[o] = "none"
      BY <3>1, <3>2 DEF ExitCode
    <3>3. CASE stop[o] = "denied"
      BY <3>1, <3>3 DEF ExitCode
    <3>4. CASE stop[o] \in {"setup", "io", "publication"}
      BY <3>1, <3>4 DEF ExitCode
    <3> QED BY <2>1, <3>2, <3>3, <3>4
  <2>3. stop[o] = "none" <=> outcome[o] = "committed"
    BY DEF IInv, StopInv
  <2>4. outcome[o] = "committed" <=> /\ destAt[Target[o]] # NoDir
                                     /\ owner[destAt[Target[o]]] = o
    BY OpsAssumption DEF IInv, BoundInv, OwnedInv, HasPublished
  <2> QED BY <2>2, <2>3, <2>4 DEF IInv, ScanInv
<1> QED BY <1>1, Inductive, PTL

\* No step changes what a destination names once it names something.
LEMMA FinalStep ==
  ASSUME IInv, Next, NEW d \in Dests, destAt[d] # NoDir
  PROVE  /\ destAt'[d] = destAt[d]
         /\ owner'[destAt[d]] = owner[destAt[d]]
         /\ tree'[destAt[d]] = tree[destAt[d]]
<1> DEFINE Kept == /\ destAt'[d] = destAt[d]
                   /\ owner'[destAt[d]] = owner[destAt[d]]
                   /\ tree'[destAt[d]] = tree[destAt[d]]
<1> USE MarkAssumption DEF TypeOK, FsTypeOK, CallTypeOK
<1>a. TypeOK /\ DestInv
  BY DEF IInv
<1>1. ASSUME NEW o \in Ops, Quiet(o) PROVE Kept
  BY <1>1, QuietKeeps DEF fsVars
<1>2. ASSUME NEW o \in Ops, Removal(o) PROVE Kept
  BY <1>2, RemovalKeeps DEF FsKept
<1>3. ASSUME NEW o \in Ops, MakeStage(o) PROVE Kept
  BY <1>a, <1>3 DEF MakeStage, DestInv
<1>4. ASSUME NEW o \in Ops, WriteMember(o) \/ DenyMember(o) \/ FailMember(o) \/ Tamper(o)
      PROVE  Kept
  <2>1. pc[o] \in {"members", "audit"}
    BY <1>4 DEF WriteMember, DenyMember, FailMember, Tamper, Goto
  <2>2. root[o] \in Inodes /\ destAt[d] # root[o]
    BY <2>1, UnpublishedRoot
  <2> QED BY <1>a, <1>4, <2>2 DEF WriteMember, DenyMember, FailMember, Tamper
<1>5. ASSUME NEW o \in Ops, Publish(o) PROVE Kept
  BY <1>a, <1>5 DEF Publish
<1>6. ASSUME NEW o \in Ops, SubstituteStageName(o) PROVE Kept
  BY <1>a, <1>6 DEF SubstituteStageName, DestInv
<1>7. ASSUME NEW e \in Dests, PlantDestination(e) PROVE Kept
  BY <1>a, <1>7 DEF PlantDestination, DestInv
<1> QED
  BY <1>1, <1>2, <1>3, <1>4, <1>5, <1>6, <1>7 DEF Next, Step, Quiet, Removal

(* A bound destination is never rebound, removed or altered by any step.   *)
THEOREM DestinationsFinal == Spec => DestinationIsFinal
<1> DEFINE Kept == \A d \in Dests : destAt[d] # NoDir =>
                     /\ destAt'[d] = destAt[d]
                     /\ owner'[destAt[d]] = owner[destAt[d]]
                     /\ tree'[destAt[d]] = tree[destAt[d]]
<1>1. IInv /\ [Next]_vars => [Kept]_vars
  BY FinalStep
<1> QED BY <1>1, Inductive, PTL DEF Spec, DestinationIsFinal

-----------------------------------------------------------------------------
(***************************************************************************)
(* The refinement of Publication                                           *)
(***************************************************************************)
\* A step of call o: other calls and ended calls keep their place and outcome.
CallMoves(o) ==
  /\ \A p \in Ops \ {o} : pc'[p] = pc[p] /\ outcome'[p] = outcome[p]
  /\ pc[o] \in Ended => pc'[o] = pc[o] /\ outcome'[o] = outcome[o]

(* Every step but a publication and a planted destination is a step of one *)
(* call that binds no destination.                                         *)
LEMMA CallFrame ==
  ASSUME IInv, NEW o \in Ops,
         Step(o) \/ Panic(o) \/ Kill(o) \/ Recover(o)
           \/ SubstituteStageName(o) \/ Tamper(o)
  PROVE  CallMoves(o) /\ (Publish(o) \/ destAt' = destAt)
<1> USE DEF IInv, TypeOK, CallTypeOK, ReportTypeOK, CallMoves, Goto, Ended
<1>1. CASE RefuseSetup(o)
  BY <1>1 DEF RefuseSetup, FailSetup, fsVars
<1>2. CASE AdmitParent(o)
  BY <1>2 DEF AdmitParent, fsVars
<1>3. CASE MakeStage(o)
  BY <1>3 DEF MakeStage
<1>4. CASE MakeStageFails(o)
  BY <1>4 DEF MakeStageFails, FailSetup, fsVars
<1>5. CASE OpenStage(o)
  BY <1>5 DEF OpenStage, fsVars
<1>6. CASE RemoveUnopened(o)
  <2>1. CallMoves(o)
    BY <1>6 DEF RemoveUnopened, FailSetup
  <2>2. destAt' = destAt
    BY <1>6, RemovalKeeps DEF Removal, FsKept
  <2> QED BY <2>1, <2>2
<1>7. CASE AdmitStage(o)
  BY <1>7 DEF AdmitStage, fsVars
<1>8. CASE RefuseStage(o)
  BY <1>8 DEF RefuseStage, fsVars
<1>9. CASE SetupAbort(o)
  <2>1. CallMoves(o)
    BY <1>9 DEF SetupAbort, FailSetup
  <2>2. destAt' = destAt
    BY <1>9, RemovalKeeps DEF Removal, FsKept
  <2> QED BY <2>1, <2>2
<1>10. CASE SetupRetry(o)
  <2>1. CallMoves(o)
    BY <1>10 DEF SetupRetry, FailSetup
  <2>2. destAt' = destAt
    BY <1>10, RemovalKeeps DEF Removal, FsKept
  <2> QED BY <2>1, <2>2
<1>11. CASE CreateRecord(o)
  BY <1>11 DEF CreateRecord, fsVars
<1>12. CASE WriteRecord(o)
  BY <1>12 DEF WriteRecord, fsVars
<1>13. CASE WriteMember(o)
  BY <1>13 DEF WriteMember
<1>14. CASE DenyMember(o)
  BY <1>14 DEF DenyMember
<1>15. CASE FailMember(o)
  BY <1>15 DEF FailMember
<1>16. CASE EndMembers(o)
  BY <1>16 DEF EndMembers, fsVars
<1>17. CASE Audit(o)
  BY <1>17 DEF Audit, fsVars
<1>18. CASE CommitCheck(o)
  BY <1>18 DEF CommitCheck, fsVars
<1>19. CASE SyncStage(o)
  BY <1>19 DEF SyncStage, fsVars
<1>20. CASE Publish(o)
  BY <1>20 DEF Publish
<1>21. CASE PublishFails(o)
  BY <1>21 DEF PublishFails, fsVars
<1>22. CASE SettleCommit(o)
  BY <1>22 DEF SettleCommit, fsVars
<1>23. CASE DiscardRecord(o)
  BY <1>23 DEF DiscardRecord, fsVars
<1>24. CASE Abort(o)
  <2>1. CallMoves(o)
    BY <1>24 DEF Abort, AbortRemoves, MarkAborted
  <2>2. destAt' = destAt
    BY <1>24, RemovalKeeps DEF Removal, FsKept
  <2> QED BY <2>1, <2>2
<1>25. CASE AbortRetry(o)
  <2>1. CallMoves(o)
    BY <1>25 DEF AbortRetry, AbortRemoves, MarkAborted
  <2>2. destAt' = destAt
    BY <1>25, RemovalKeeps DEF Removal, FsKept
  <2> QED BY <2>1, <2>2
<1>26. CASE DropStage(o)
  <2>1. CallMoves(o)
    BY <1>26 DEF DropStage, AbortRemoves, MarkAborted
  <2>2. destAt' = destAt
    BY <1>26, RemovalKeeps DEF Removal, FsKept
  <2> QED BY <2>1, <2>2
<1>27. CASE Panic(o)
  BY <1>27 DEF Panic, Staged, fsVars
<1>28. CASE Kill(o)
  BY <1>28 DEF Kill, Live, fsVars
<1>29. CASE Recover(o)
  <2>1. CallMoves(o)
    BY <1>29 DEF Recover, callVars
  <2>2. destAt' = destAt
    BY <1>29, RemovalKeeps DEF Removal, FsKept
  <2> QED BY <2>1, <2>2
<1>30. CASE SubstituteStageName(o)
  BY <1>30 DEF SubstituteStageName, callVars
<1>31. CASE Tamper(o)
  BY <1>31 DEF Tamper, callVars
<1> QED
  BY <1>1, <1>2, <1>3, <1>4, <1>5, <1>6, <1>7, <1>8, <1>9, <1>10, <1>11, <1>12, <1>13, <1>14, <1>15, <1>16, <1>17, <1>18, <1>19, <1>20, <1>21, <1>22, <1>23, <1>24, <1>25, <1>26, <1>27, <1>28, <1>29, <1>30, <1>31 DEF Step

(* Each step is a step of Publication or changes nothing it sees.          *)
LEMMA RefineStep ==
  ASSUME IInv, IInv', Next
  PROVE  P!AbsNext \/ UNCHANGED P!absVars
<1> DEFINE D == [d \in Dests |-> Contents(d)]
           R == [o \in Ops |-> Report(o)]
           S == {o \in Ops : conf[o].corrupt = {}}
<1>1. S' = S
  BY LoopFrame
<1>2. ASSUME NEW d \in Dests, destAt'[d] = destAt[d] PROVE Contents(d)' = Contents(d)
  BY <1>2, FinalStep DEF Contents
<1>3. ASSUME NEW o \in Ops, Publish(o) PROVE P!AbsNext
  <2>1. /\ destAt[Target[o]] = NoDir /\ stageAt[o] # NoDir
        /\ destAt' = [destAt EXCEPT ![Target[o]] = stageAt[o]]
        /\ pc[o] = "rename" /\ pc' = [pc EXCEPT ![o] = "renamed"]
        /\ owner' = owner /\ outcome' = outcome
    BY <1>3 DEF Publish, Goto
  <2>2. Target[o] \in Dests
    BY OpsAssumption
  <2>3. owner[stageAt[o]] = o
    BY <2>1 DEF IInv, AuditInv, RootInv
  <2>4. D' = [D EXCEPT ![Target[o]] = o]
    <3>1. destAt'[Target[o]] = stageAt[o]
      BY <2>1, <2>2 DEF IInv, TypeOK, FsTypeOK
    <3>2. Contents(Target[o])' = o
      BY <2>1, <2>3, <3>1 DEF Contents
    <3>3. \A d \in Dests : d # Target[o] => destAt'[d] = destAt[d]
      BY <2>1 DEF IInv, TypeOK, FsTypeOK
    <3>4. \A d \in Dests : d # Target[o] => Contents(d)' = Contents(d)
      BY <1>2, <3>3
    <3> QED BY <2>2, <3>2, <3>4
  <2>5. R' = R
    BY <2>1 DEF Report, IInv, TypeOK, CallTypeOK
  <2>6. D[Target[o]] = NoDir
    BY <2>1, <2>2 DEF Contents
  <2>7. R[o] = "running"
    BY <2>1 DEF Report
  <2>8. o \in S
    BY <2>1 DEF IInv, ScanInv, Verified
  <2>9. P!Put(o)
    BY <1>1, <2>4, <2>5, <2>6, <2>7, <2>8 DEF P!Put
  <2> QED BY <2>9 DEF P!AbsNext
<1>4. ASSUME NEW d \in Dests, PlantDestination(d) PROVE P!AbsNext
  <2>1. PICK i \in Inodes : /\ owner' = [owner EXCEPT ![i] = Foreign]
                            /\ destAt' = [destAt EXCEPT ![d] = i]
    BY <1>4 DEF PlantDestination
  <2>2. destAt[d] = NoDir /\ pc' = pc /\ outcome' = outcome
    BY <1>4 DEF PlantDestination, callVars
  <2>3. destAt'[d] = i /\ owner'[i] = Foreign
    BY <2>1 DEF IInv, TypeOK, FsTypeOK
  <2>4. Contents(d)' = Foreign
    BY <2>3, MarkAssumption DEF Contents
  <2>5. \A e \in Dests : e # d => destAt'[e] = destAt[e]
    BY <2>1 DEF IInv, TypeOK, FsTypeOK
  <2>6. \A e \in Dests : e # d => Contents(e)' = Contents(e)
    BY <1>2, <2>5
  <2>7. D' = [D EXCEPT ![d] = Foreign]
    BY <2>4, <2>6
  <2>8. R' = R
    BY <2>2 DEF Report
  <2>9. D[d] = NoDir
    BY <2>2 DEF Contents
  <2>10. P!PutForeign(d)
    BY <1>1, <2>7, <2>8, <2>9 DEF P!PutForeign
  <2> QED BY <2>10 DEF P!AbsNext
<1>5. ASSUME NEW o \in Ops, CallMoves(o), destAt' = destAt
      PROVE  P!AbsNext \/ UNCHANGED P!absVars
  <2>1. D' = D
    BY <1>2, <1>5
  <2>2. \A p \in Ops : p # o => Report(p)' = Report(p)
    BY <1>5 DEF CallMoves, Report
  <2>3. CASE Report(o)' = Report(o)
    BY <1>1, <2>1, <2>2, <2>3 DEF P!absVars
  <2>4. CASE Report(o)' # Report(o)
    <3>1. R' = [R EXCEPT ![o] = Report(o)']
      BY <2>2
    <3>2. Report(o) = "running" /\ (pc'[o] = "done" \/ pc'[o] = "dead")
      BY <1>5, <2>4 DEF CallMoves, Report, Ended
    <3>3. CASE pc'[o] = "dead"
      <4>1. Report(o)' = "dead"
        BY <3>3 DEF Report
      <4>2. P!Die(o)
        BY <1>1, <2>1, <3>1, <3>2, <4>1 DEF P!Die
      <4> QED BY <4>2 DEF P!AbsNext
    <3>4. CASE pc'[o] = "done"
      <4>1. Target[o] \in Dests
        BY OpsAssumption
      <4>2. outcome'[o] = "committed" <=> /\ destAt'[Target[o]] # NoDir
                                          /\ owner'[destAt'[Target[o]]] = o
        BY <3>4, <4>1 DEF IInv, BoundInv, OwnedInv, HasPublished
      <4>3. outcome'[o] = "committed" <=> Contents(Target[o])' = o
        BY <4>2, MarkAssumption DEF Contents
      <4>4. D[Target[o]] = Contents(Target[o])'
        BY <1>2, <1>5, <4>1
      <4>5. Report(o)' = IF D[Target[o]] = o THEN "committed" ELSE "refused"
        BY <3>4, <4>3, <4>4 DEF Report
      <4>6. P!Answer(o)
        BY <1>1, <2>1, <3>1, <3>2, <4>5 DEF P!Answer
      <4> QED BY <4>6 DEF P!AbsNext
    <3> QED BY <3>2, <3>3, <3>4
  <2> QED BY <2>3, <2>4
<1> QED
  BY <1>3, <1>4, <1>5, CallFrame DEF Next

(* The stage lifecycle implements the abstract publication contract.       *)
THEOREM Refinement == Spec => ImplementsPublication
<1>1. Init => P!AbsInit
  BY DEF Init, P!AbsInit, Contents, Report
<1>2. IInv /\ IInv' /\ [Next]_vars => [P!AbsNext]_P!absVars
  <2>1. CASE UNCHANGED vars
    BY <2>1 DEF vars, P!absVars, Contents, Report
  <2> QED BY <2>1, RefineStep
<1> QED BY <1>1, <1>2, Inductive, PTL DEF Spec, ImplementsPublication, P!AbsSpec


-----------------------------------------------------------------------------
(***************************************************************************)
(* Receipts and removals: the inductive invariant                          *)
(***************************************************************************)
OwnsNothing(o) == \A i \in Inodes : owner[i] # o

\* The stage exists and nobody had the occasion to substitute its name.
Opening == {"open", "unopened", "unopened-retry", "check", "setup-abort",
            "setup-retry", "retain", "record"}

\* persist_stage_retention has not created the record.
Unrecorded == {"setup", "mkdir", "open", "unopened", "unopened-retry", "check",
               "setup-abort", "setup-retry", "retain"}

\* persist_stage_retention is behind the call.
Recorded == {"members", "audit", "commit", "sync", "rename", "renamed",
             "published", "abort", "retry", "discard"}

\* A call makes one directory, and until a substitution its stage component
\* binds that directory.
ObjectInv ==
  \A o \in Ops :
    /\ \A i, j \in Inodes : owner[i] = o /\ owner[j] = o => i = j
    /\ pc[o] \in {"setup", "mkdir"} => OwnsNothing(o)
    /\ pc[o] \in Opening => stageAt[o] # NoDir /\ owner[stageAt[o]] = o
    /\ (~SwapAllowed /\ stageAt[o] # NoDir) => owner[stageAt[o]] = o

\* The record names the call's own directory while the call runs, and never
\* a substitute; a call that passed persist_stage_retention knows its file.
RecordInv ==
  \A o \in Ops :
    /\ pc[o] \in Unrecorded => recFile[o] = NoFile
    /\ (pc[o] \in Recorded /\ recFile[o] # NoFile) => held[o] \/ stop[o] = "setup"
    /\ (pc[o] \in Staged /\ recFile[o] \in Inodes) => recFile[o] = witness[o]
    /\ (recFile[o] \in Inodes /\ stageAt[o] = recFile[o]) => owner[stageAt[o]] = o

\* What the call has synced, and that its loop ended, before it says so.
ReportInv ==
  \A o \in Ops :
    /\ (pc[o] \in Verified \/ stop[o] = "publication" \/ outcome[o] = "committed")
         => next[o] = MemberCount + 1
    /\ (DirectorySync(o) /\ (pc[o] \in {"rename", "renamed"} \/ outcome[o] = "committed"))
         => "stage" \in synced[o]
    /\ (DirectorySync(o) /\ outcome[o] = "committed" /\ "parent-sync" \notin notes[o])
         => "parent" \in synced[o]

\* What the cleanup field stands for at each point.
CleanInv ==
  \A o \in Ops :
    /\ (cleanup[o] = "failed" \/ pc[o] = "retry") => RemoveMayFail
    /\ pc[o] = "retry" => cleanup[o] = "failed"
    /\ pc[o] = "discard" => cleanup[o] = "removed"
    /\ outcome[o] = "committed" => cleanup[o] = "not-applicable-after-commit"

\* The witness must still name what is left of the call's stage.
WitnessDue(o) ==
  \/ pc[o] \in Staged \cup {"abort", "retry"}
  \/ pc[o] = "done" /\ cleanup[o] = "failed" /\ outcome[o] # "setup-failed"

WitnessInv ==
  \A o \in Ops : WitnessDue(o) => \A i \in Inodes : owner[i] = o => i = witness[o]

\* The stage component must no longer bind the call's directory.
LeftDue(o) ==
  \/ pc[o] \in {"renamed", "published", "discard"}
  \/ pc[o] = "done" /\ cleanup[o] # "failed" /\ outcome[o] # "setup-failed"

LeftInv ==
  \A o \in Ops : LeftDue(o) => stageAt[o] = NoDir \/ owner[stageAt[o]] # o

RInv ==
  /\ ObjectInv /\ RecordInv /\ ReportInv /\ CleanInv /\ WitnessInv /\ LeftInv
  /\ RecordDiscarded

\* A removal that is reported left nothing behind.  This part needs that a
\* name is not substituted where a removal may fail.
GoneDue(o) ==
  \/ pc[o] = "discard"
  \/ pc[o] = "done" /\ cleanup[o] # "failed" /\ outcome[o] # "committed"

GoneInv == \A o \in Ops : GoneDue(o) => OwnsNothing(o)

\* The steps that remove the call's stage, by handle or by name.
Removes(o) ==
  \/ pc[o] \in {"setup-abort", "abort"} /\ Remove(root[o])
  \/ /\ pc[o] \in {"unopened", "unopened-retry", "setup-retry", "retry"}
     /\ stageAt[o] # NoDir
     /\ Remove(stageAt[o])

-----------------------------------------------------------------------------
(***************************************************************************)
(* What a step can do to the owner of a directory and to a stage name      *)
(***************************************************************************)
(* A directory gets a call as its owner only when that call makes its      *)
(* stage: removing, recovering, planting and substituting never do that.   *)
LEMMA OwnerFrame ==
  ASSUME IInv, Next, NEW p \in Ops, NEW i \in Inodes, owner'[i] = p
  PROVE  owner[i] = p \/ MakeStage(p)
<1> USE MarkAssumption DEF TypeOK, FsTypeOK
<1>a. TypeOK
  BY DEF IInv
<1>1. ASSUME NEW x, Remove(x) \/ Spoil(x) PROVE owner[i] = p
  BY <1>a, <1>1 DEF Remove, Spoil
<1>2. ASSUME NEW o \in Ops, Quiet(o) PROVE owner[i] = p
  BY <1>2, QuietKeeps DEF fsVars
<1>3. ASSUME NEW o \in Ops, Removal(o) PROVE owner[i] = p
  BY <1>1, <1>3
  DEF Removal, RemoveUnopened, SetupAbort, SetupRetry, Abort, AbortRetry, DropStage,
      Recover, AbortRemoves, fsVars
<1>4. ASSUME NEW o \in Ops, MakeStage(o) PROVE owner[i] = p \/ o = p
  BY <1>a, <1>4 DEF MakeStage
<1>5. ASSUME NEW o \in Ops,
             WriteMember(o) \/ DenyMember(o) \/ FailMember(o) \/ Publish(o) \/ Tamper(o)
      PROVE  owner[i] = p
  BY <1>5 DEF WriteMember, DenyMember, FailMember, Publish, Tamper
<1>6. ASSUME NEW o \in Ops, SubstituteStageName(o) PROVE owner[i] = p
  BY <1>a, <1>6 DEF SubstituteStageName
<1>7. ASSUME NEW d \in Dests, PlantDestination(d) PROVE owner[i] = p
  BY <1>a, <1>7 DEF PlantDestination
<1> QED
  BY <1>2, <1>3, <1>4, <1>5, <1>6, <1>7 DEF Next, Step, Quiet, Removal

(* A stage name that is bound after a step was just made, was substituted, *)
(* or binds what it bound before, with the same owner.                     *)
LEMMA StageFrame ==
  ASSUME IInv, Next, NEW p \in Ops, stageAt'[p] # NoDir
  PROVE  \/ MakeStage(p)
         \/ SubstituteStageName(p)
         \/ stageAt'[p] = stageAt[p] /\ owner'[stageAt[p]] = owner[stageAt[p]]
<1> DEFINE Same == stageAt'[p] = stageAt[p] /\ owner'[stageAt[p]] = owner[stageAt[p]]
<1> USE MarkAssumption DEF TypeOK, FsTypeOK
<1>a. TypeOK /\ NameInv
  BY DEF IInv
<1>1. ASSUME NEW o \in Ops, Quiet(o) PROVE Same
  BY <1>1, QuietKeeps DEF fsVars
<1>2. ASSUME NEW o \in Ops, Removal(o) PROVE Same
  BY <1>2, RemovalKeeps DEF FsKept
<1>3. ASSUME NEW o \in Ops, MakeStage(o) PROVE Same \/ o = p
  BY <1>a, <1>3 DEF MakeStage, NameInv
<1>4. ASSUME NEW o \in Ops, WriteMember(o) \/ DenyMember(o) \/ FailMember(o) \/ Tamper(o)
      PROVE  Same
  BY <1>4 DEF WriteMember, DenyMember, FailMember, Tamper
<1>5. ASSUME NEW o \in Ops, Publish(o) PROVE Same
  BY <1>a, <1>5 DEF Publish
<1>6. ASSUME NEW o \in Ops, SubstituteStageName(o) PROVE Same \/ o = p
  BY <1>a, <1>6 DEF SubstituteStageName, NameInv
<1>7. ASSUME NEW d \in Dests, PlantDestination(d) PROVE Same
  BY <1>a, <1>7 DEF PlantDestination, NameInv
<1> QED
  BY <1>1, <1>2, <1>3, <1>4, <1>5, <1>6, <1>7 DEF Next, Step, Quiet, Removal

-----------------------------------------------------------------------------
(***************************************************************************)
(* Each part of RInv is kept                                               *)
(***************************************************************************)
\* A call syncs and ends its loop before it reports that it did.
LEMMA ReportStep ==
  ASSUME IInv, RInv, Next, IInv'
  PROVE  ReportInv'
<1> USE MemberAssumption DEF RInv, IInv, TypeOK, FsTypeOK, CallTypeOK, ReportTypeOK, Goto, fsVars, ReportInv, DirectorySync, Verified
<1>1. ASSUME NEW o \in Ops, RefuseSetup(o) PROVE ReportInv'
  BY <1>1 DEF RefuseSetup, FailSetup, StopInv, NotStopped
<1>2. ASSUME NEW o \in Ops, AdmitParent(o) PROVE ReportInv'
  BY <1>2 DEF AdmitParent
<1>3. ASSUME NEW o \in Ops, MakeStage(o) PROVE ReportInv'
  BY <1>3 DEF MakeStage
<1>4. ASSUME NEW o \in Ops, MakeStageFails(o) PROVE ReportInv'
  BY <1>4 DEF MakeStageFails, FailSetup
<1>5. ASSUME NEW o \in Ops, OpenStage(o) PROVE ReportInv'
  BY <1>5 DEF OpenStage
<1>6. ASSUME NEW o \in Ops, RemoveUnopened(o) PROVE ReportInv'
  BY <1>6 DEF RemoveUnopened, FailSetup, Note
<1>7. ASSUME NEW o \in Ops, AdmitStage(o) PROVE ReportInv'
  BY <1>7 DEF AdmitStage
<1>8. ASSUME NEW o \in Ops, RefuseStage(o) PROVE ReportInv'
  BY <1>8 DEF RefuseStage
<1>9. ASSUME NEW o \in Ops, SetupAbort(o) PROVE ReportInv'
  BY <1>9 DEF SetupAbort, FailSetup
<1>10. ASSUME NEW o \in Ops, SetupRetry(o) PROVE ReportInv'
  BY <1>10 DEF SetupRetry, FailSetup, Note
<1>11. ASSUME NEW o \in Ops, CreateRecord(o) PROVE ReportInv'
  BY <1>11 DEF CreateRecord, StopWith
<1>12. ASSUME NEW o \in Ops, WriteRecord(o) PROVE ReportInv'
  BY <1>12 DEF WriteRecord, StopWith
<1>13. ASSUME NEW o \in Ops, WriteMember(o) PROVE ReportInv'
  BY <1>13 DEF WriteMember, StopInv, NotStopped
<1>14. ASSUME NEW o \in Ops, DenyMember(o) PROVE ReportInv'
  BY <1>14 DEF DenyMember, StopWith
<1>15. ASSUME NEW o \in Ops, FailMember(o) PROVE ReportInv'
  BY <1>15 DEF FailMember, StopWith
<1>16. ASSUME NEW o \in Ops, EndMembers(o) PROVE ReportInv'
  BY <1>16 DEF EndMembers
<1>17. ASSUME NEW o \in Ops, Audit(o) PROVE ReportInv'
  BY <1>17 DEF Audit, StopWith
<1>18. ASSUME NEW o \in Ops, CommitCheck(o) PROVE ReportInv'
  BY <1>18 DEF CommitCheck, StopWith
<1>19. ASSUME NEW o \in Ops, SyncStage(o) PROVE ReportInv'
  BY <1>19 DEF SyncStage, StopWith
<1>20. ASSUME NEW o \in Ops, Publish(o) PROVE ReportInv'
  BY <1>20 DEF Publish
<1>21. ASSUME NEW o \in Ops, PublishFails(o) PROVE ReportInv'
  BY <1>21 DEF PublishFails, StopWith
<1>22. ASSUME NEW o \in Ops, SettleCommit(o) PROVE ReportInv'
  BY <1>22 DEF SettleCommit, Note
<1>23. ASSUME NEW o \in Ops, DiscardRecord(o) PROVE ReportInv'
  BY <1>23 DEF DiscardRecord, Note
<1>24. ASSUME NEW o \in Ops, Abort(o) PROVE ReportInv'
  BY <1>24 DEF Abort, AbortRemoves, MarkAborted, Note
<1>25. ASSUME NEW o \in Ops, AbortRetry(o) PROVE ReportInv'
  BY <1>25 DEF AbortRetry, AbortRemoves, MarkAborted
<1>26. ASSUME NEW o \in Ops, DropStage(o) PROVE ReportInv'
  BY <1>26 DEF DropStage, AbortRemoves, MarkAborted
<1>27. ASSUME NEW o \in Ops, Panic(o) PROVE ReportInv'
  BY <1>27 DEF Panic, Staged
<1>28. ASSUME NEW o \in Ops, Kill(o) PROVE ReportInv'
  BY <1>28 DEF Kill, Live
<1>29. ASSUME NEW o \in Ops, Recover(o) PROVE ReportInv'
  BY <1>29 DEF Recover, callVars
<1>30. ASSUME NEW o \in Ops, SubstituteStageName(o) PROVE ReportInv'
  BY <1>30 DEF SubstituteStageName, callVars
<1>31. ASSUME NEW o \in Ops, Tamper(o) PROVE ReportInv'
  BY <1>31 DEF Tamper, callVars
<1>32. ASSUME NEW d \in Dests, PlantDestination(d) PROVE ReportInv'
  BY <1>32 DEF PlantDestination, callVars
<1> QED
  BY <1>1, <1>2, <1>3, <1>4, <1>5, <1>6, <1>7, <1>8, <1>9, <1>10, <1>11, <1>12,
     <1>13, <1>14, <1>15, <1>16, <1>17, <1>18, <1>19, <1>20, <1>21, <1>22,
     <1>23, <1>24, <1>25, <1>26, <1>27, <1>28, <1>29, <1>30, <1>31, <1>32
  DEF Next, Step

\* The cleanup field follows the removals.
LEMMA CleanStep ==
  ASSUME IInv, RInv, Next, IInv'
  PROVE  CleanInv'
<1> USE SwitchAssumption DEF RInv, IInv, TypeOK, FsTypeOK, CallTypeOK, ReportTypeOK, Goto, fsVars, CleanInv
<1>1. ASSUME NEW o \in Ops, RefuseSetup(o) PROVE CleanInv'
  BY <1>1 DEF RefuseSetup, FailSetup, StopInv, NotStopped
<1>2. ASSUME NEW o \in Ops, AdmitParent(o) PROVE CleanInv'
  BY <1>2 DEF AdmitParent
<1>3. ASSUME NEW o \in Ops, MakeStage(o) PROVE CleanInv'
  BY <1>3 DEF MakeStage
<1>4. ASSUME NEW o \in Ops, MakeStageFails(o) PROVE CleanInv'
  BY <1>4 DEF MakeStageFails, FailSetup, StopInv, NotStopped
<1>5. ASSUME NEW o \in Ops, OpenStage(o) PROVE CleanInv'
  BY <1>5 DEF OpenStage
<1>6. ASSUME NEW o \in Ops, RemoveUnopened(o) PROVE CleanInv'
  <2>1. /\ pc[o] \in {"unopened", "unopened-retry"} /\ pc'[o] \in {"done", "unopened-retry"}
        /\ \A p \in Ops \ {o} : /\ pc'[p] = pc[p] /\ cleanup'[p] = cleanup[p]
                               /\ outcome'[p] = outcome[p]
    BY <1>6 DEF RemoveUnopened, FailSetup
  <2>2. /\ outcome'[o] # "committed"
        /\ cleanup'[o] = "failed" => cleanup[o] = "failed" \/ RemoveMayFail
    BY <1>6 DEF RemoveUnopened, FailSetup, Spoil, StopInv, NotStopped
  <2> QED BY <2>1, <2>2
<1>7. ASSUME NEW o \in Ops, AdmitStage(o) PROVE CleanInv'
  BY <1>7 DEF AdmitStage, StopInv, NotStopped
<1>8. ASSUME NEW o \in Ops, RefuseStage(o) PROVE CleanInv'
  BY <1>8 DEF RefuseStage
<1>9. ASSUME NEW o \in Ops, SetupAbort(o) PROVE CleanInv'
  BY <1>9 DEF SetupAbort, FailSetup, StopInv, NotStopped
<1>10. ASSUME NEW o \in Ops, SetupRetry(o) PROVE CleanInv'
  BY <1>10 DEF SetupRetry, FailSetup, Note, Spoil, StopInv, NotStopped
<1>11. ASSUME NEW o \in Ops, CreateRecord(o) PROVE CleanInv'
  BY <1>11 DEF CreateRecord, StopWith
<1>12. ASSUME NEW o \in Ops, WriteRecord(o) PROVE CleanInv'
  BY <1>12 DEF WriteRecord, StopWith
<1>13. ASSUME NEW o \in Ops, WriteMember(o) PROVE CleanInv'
  BY <1>13 DEF WriteMember
<1>14. ASSUME NEW o \in Ops, DenyMember(o) PROVE CleanInv'
  BY <1>14 DEF DenyMember, StopWith
<1>15. ASSUME NEW o \in Ops, FailMember(o) PROVE CleanInv'
  BY <1>15 DEF FailMember, StopWith
<1>16. ASSUME NEW o \in Ops, EndMembers(o) PROVE CleanInv'
  BY <1>16 DEF EndMembers
<1>17. ASSUME NEW o \in Ops, Audit(o) PROVE CleanInv'
  BY <1>17 DEF Audit, StopWith
<1>18. ASSUME NEW o \in Ops, CommitCheck(o) PROVE CleanInv'
  BY <1>18 DEF CommitCheck, StopWith
<1>19. ASSUME NEW o \in Ops, SyncStage(o) PROVE CleanInv'
  BY <1>19 DEF SyncStage, StopWith
<1>20. ASSUME NEW o \in Ops, Publish(o) PROVE CleanInv'
  BY <1>20 DEF Publish
<1>21. ASSUME NEW o \in Ops, PublishFails(o) PROVE CleanInv'
  BY <1>21 DEF PublishFails, StopWith
<1>22. ASSUME NEW o \in Ops, SettleCommit(o) PROVE CleanInv'
  BY <1>22 DEF SettleCommit, Note
<1>23. ASSUME NEW o \in Ops, DiscardRecord(o) PROVE CleanInv'
  BY <1>23 DEF DiscardRecord, Note
<1>24. ASSUME NEW o \in Ops, Abort(o) PROVE CleanInv'
  BY <1>24 DEF Abort, AbortRemoves, MarkAborted, Note, Spoil, StopInv, NotStopped
<1>25. ASSUME NEW o \in Ops, AbortRetry(o) PROVE CleanInv'
  BY <1>25 DEF AbortRetry, AbortRemoves, MarkAborted, StopInv, NotStopped
<1>26. ASSUME NEW o \in Ops, DropStage(o) PROVE CleanInv'
  BY <1>26 DEF DropStage, AbortRemoves, MarkAborted, Spoil, StopInv, NotStopped
<1>27. ASSUME NEW o \in Ops, Panic(o) PROVE CleanInv'
  BY <1>27 DEF Panic, Staged
<1>28. ASSUME NEW o \in Ops, Kill(o) PROVE CleanInv'
  BY <1>28 DEF Kill, Live
<1>29. ASSUME NEW o \in Ops, Recover(o) PROVE CleanInv'
  BY <1>29 DEF Recover, callVars
<1>30. ASSUME NEW o \in Ops, SubstituteStageName(o) PROVE CleanInv'
  BY <1>30 DEF SubstituteStageName, callVars
<1>31. ASSUME NEW o \in Ops, Tamper(o) PROVE CleanInv'
  BY <1>31 DEF Tamper, callVars
<1>32. ASSUME NEW d \in Dests, PlantDestination(d) PROVE CleanInv'
  BY <1>32 DEF PlantDestination, callVars
<1> QED
  BY <1>1, <1>2, <1>3, <1>4, <1>5, <1>6, <1>7, <1>8, <1>9, <1>10, <1>11, <1>12,
     <1>13, <1>14, <1>15, <1>16, <1>17, <1>18, <1>19, <1>20, <1>21, <1>22,
     <1>23, <1>24, <1>25, <1>26, <1>27, <1>28, <1>29, <1>30, <1>31, <1>32
  DEF Next, Step

\* A call that ends cleanly has discarded its record or says that it could not.
LEMMA DiscardedStep ==
  ASSUME IInv, RInv, Next, IInv'
  PROVE  RecordDiscarded'
<1> USE MarkAssumption DEF RInv, IInv, TypeOK, FsTypeOK, CallTypeOK, ReportTypeOK, Goto, fsVars, RecordInv, RecordDiscarded, Unrecorded, Recorded, CleanInv
<1>1. ASSUME NEW o \in Ops, RefuseSetup(o) PROVE RecordDiscarded'
  BY <1>1 DEF RefuseSetup, FailSetup
<1>2. ASSUME NEW o \in Ops, AdmitParent(o) PROVE RecordDiscarded'
  BY <1>2 DEF AdmitParent
<1>3. ASSUME NEW o \in Ops, MakeStage(o) PROVE RecordDiscarded'
  BY <1>3 DEF MakeStage
<1>4. ASSUME NEW o \in Ops, MakeStageFails(o) PROVE RecordDiscarded'
  BY <1>4 DEF MakeStageFails, FailSetup
<1>5. ASSUME NEW o \in Ops, OpenStage(o) PROVE RecordDiscarded'
  BY <1>5 DEF OpenStage
<1>6. ASSUME NEW o \in Ops, RemoveUnopened(o) PROVE RecordDiscarded'
  BY <1>6 DEF RemoveUnopened, FailSetup, Note
<1>7. ASSUME NEW o \in Ops, AdmitStage(o) PROVE RecordDiscarded'
  BY <1>7 DEF AdmitStage
<1>8. ASSUME NEW o \in Ops, RefuseStage(o) PROVE RecordDiscarded'
  BY <1>8 DEF RefuseStage
<1>9. ASSUME NEW o \in Ops, SetupAbort(o) PROVE RecordDiscarded'
  BY <1>9 DEF SetupAbort, FailSetup
<1>10. ASSUME NEW o \in Ops, SetupRetry(o) PROVE RecordDiscarded'
  BY <1>10 DEF SetupRetry, FailSetup, Note
<1>11. ASSUME NEW o \in Ops, CreateRecord(o) PROVE RecordDiscarded'
  BY <1>11 DEF CreateRecord, StopWith
<1>12. ASSUME NEW o \in Ops, WriteRecord(o) PROVE RecordDiscarded'
  BY <1>12 DEF WriteRecord, StopWith
<1>13. ASSUME NEW o \in Ops, WriteMember(o) PROVE RecordDiscarded'
  BY <1>13 DEF WriteMember
<1>14. ASSUME NEW o \in Ops, DenyMember(o) PROVE RecordDiscarded'
  BY <1>14 DEF DenyMember, StopWith
<1>15. ASSUME NEW o \in Ops, FailMember(o) PROVE RecordDiscarded'
  BY <1>15 DEF FailMember, StopWith
<1>16. ASSUME NEW o \in Ops, EndMembers(o) PROVE RecordDiscarded'
  BY <1>16 DEF EndMembers
<1>17. ASSUME NEW o \in Ops, Audit(o) PROVE RecordDiscarded'
  BY <1>17 DEF Audit, StopWith
<1>18. ASSUME NEW o \in Ops, CommitCheck(o) PROVE RecordDiscarded'
  BY <1>18 DEF CommitCheck, StopWith
<1>19. ASSUME NEW o \in Ops, SyncStage(o) PROVE RecordDiscarded'
  BY <1>19 DEF SyncStage, StopWith
<1>20. ASSUME NEW o \in Ops, Publish(o) PROVE RecordDiscarded'
  BY <1>20 DEF Publish
<1>21. ASSUME NEW o \in Ops, PublishFails(o) PROVE RecordDiscarded'
  BY <1>21 DEF PublishFails, StopWith
<1>22. ASSUME NEW o \in Ops, SettleCommit(o) PROVE RecordDiscarded'
  BY <1>22 DEF SettleCommit, Note
<1>23. ASSUME NEW o \in Ops, DiscardRecord(o) PROVE RecordDiscarded'
  BY <1>23 DEF DiscardRecord, Note
<1>24. ASSUME NEW o \in Ops, Abort(o) PROVE RecordDiscarded'
  <2>1. /\ pc[o] = "abort" /\ pc'[o] \in {"discard", "retry"}
        /\ \A p \in Ops \ {o} : /\ pc'[p] = pc[p] /\ cleanup'[p] = cleanup[p]
                               /\ notes'[p] = notes[p]
        /\ recFile' = recFile /\ stop' = stop
    BY <1>24 DEF Abort, AbortRemoves, Note
  <2> QED BY <2>1
<1>25. ASSUME NEW o \in Ops, AbortRetry(o) PROVE RecordDiscarded'
  BY <1>25 DEF AbortRetry, AbortRemoves, MarkAborted
<1>26. ASSUME NEW o \in Ops, DropStage(o) PROVE RecordDiscarded'
  BY <1>26 DEF DropStage, AbortRemoves, MarkAborted
<1>27. ASSUME NEW o \in Ops, Panic(o) PROVE RecordDiscarded'
  BY <1>27 DEF Panic, Staged
<1>28. ASSUME NEW o \in Ops, Kill(o) PROVE RecordDiscarded'
  BY <1>28 DEF Kill, Live
<1>29. ASSUME NEW o \in Ops, Recover(o) PROVE RecordDiscarded'
  BY <1>29 DEF Recover, callVars
<1>30. ASSUME NEW o \in Ops, SubstituteStageName(o) PROVE RecordDiscarded'
  BY <1>30 DEF SubstituteStageName, callVars
<1>31. ASSUME NEW o \in Ops, Tamper(o) PROVE RecordDiscarded'
  BY <1>31 DEF Tamper, callVars
<1>32. ASSUME NEW d \in Dests, PlantDestination(d) PROVE RecordDiscarded'
  BY <1>32 DEF PlantDestination, callVars
<1> QED
  BY <1>1, <1>2, <1>3, <1>4, <1>5, <1>6, <1>7, <1>8, <1>9, <1>10, <1>11, <1>12,
     <1>13, <1>14, <1>15, <1>16, <1>17, <1>18, <1>19, <1>20, <1>21, <1>22,
     <1>23, <1>24, <1>25, <1>26, <1>27, <1>28, <1>29, <1>30, <1>31, <1>32
  DEF Next, Step

(* How a call comes to the places the invariant speaks of.                 *)
Placed(p) ==
  /\ pc'[p] \in {"setup", "mkdir"} => pc[p] \in {"setup", "mkdir"}
  /\ pc'[p] \in Opening => pc[p] \in Opening \/ MakeStage(p)
  /\ WitnessDue(p)' => \/ pc[p] = "check" /\ witness'[p] = root[p]
                       \/ WitnessDue(p) /\ witness'[p] = witness[p]
  /\ LeftDue(p)' => LeftDue(p) \/ stageAt'[p] = NoDir \/ Removes(p)
  /\ GoneDue(p)' => GoneDue(p) \/ pc[p] \in {"setup", "mkdir"} \/ Removes(p)

\* Each action, seen from any call p.
LEMMA PlaceFrame ==
  ASSUME IInv, RInv, Next, NEW p \in Ops
  PROVE  Placed(p)
<1> USE DEF RInv, IInv, TypeOK, FsTypeOK, CallTypeOK, ReportTypeOK, Goto, fsVars, Placed, WitnessDue, LeftDue, GoneDue, Staged, Opening
<1>1. ASSUME NEW o \in Ops, RefuseSetup(o) PROVE Placed(p)
  BY <1>1 DEF RefuseSetup, FailSetup
<1>2. ASSUME NEW o \in Ops, AdmitParent(o) PROVE Placed(p)
  BY <1>2 DEF AdmitParent
<1>3. ASSUME NEW o \in Ops, MakeStage(o) PROVE Placed(p)
  BY <1>3 DEF MakeStage
<1>4. ASSUME NEW o \in Ops, MakeStageFails(o) PROVE Placed(p)
  BY <1>4 DEF MakeStageFails, FailSetup
<1>5. ASSUME NEW o \in Ops, OpenStage(o) PROVE Placed(p)
  BY <1>5 DEF OpenStage
<1>6. ASSUME NEW o \in Ops, RemoveUnopened(o) PROVE Placed(p)
  BY <1>6 DEF RemoveUnopened, Removes, FailSetup, Note
<1>7. ASSUME NEW o \in Ops, AdmitStage(o) PROVE Placed(p)
  BY <1>7 DEF AdmitStage
<1>8. ASSUME NEW o \in Ops, RefuseStage(o) PROVE Placed(p)
  BY <1>8 DEF RefuseStage
<1>9. ASSUME NEW o \in Ops, SetupAbort(o) PROVE Placed(p)
  BY <1>9 DEF SetupAbort, Removes, FailSetup
<1>10. ASSUME NEW o \in Ops, SetupRetry(o) PROVE Placed(p)
  BY <1>10 DEF SetupRetry, Removes, FailSetup, Note
<1>11. ASSUME NEW o \in Ops, CreateRecord(o) PROVE Placed(p)
  BY <1>11 DEF CreateRecord, StopWith
<1>12. ASSUME NEW o \in Ops, WriteRecord(o) PROVE Placed(p)
  BY <1>12 DEF WriteRecord, StopWith
<1>13. ASSUME NEW o \in Ops, WriteMember(o) PROVE Placed(p)
  BY <1>13 DEF WriteMember
<1>14. ASSUME NEW o \in Ops, DenyMember(o) PROVE Placed(p)
  BY <1>14 DEF DenyMember, StopWith
<1>15. ASSUME NEW o \in Ops, FailMember(o) PROVE Placed(p)
  BY <1>15 DEF FailMember, StopWith
<1>16. ASSUME NEW o \in Ops, EndMembers(o) PROVE Placed(p)
  BY <1>16 DEF EndMembers
<1>17. ASSUME NEW o \in Ops, Audit(o) PROVE Placed(p)
  BY <1>17 DEF Audit, StopWith
<1>18. ASSUME NEW o \in Ops, CommitCheck(o) PROVE Placed(p)
  BY <1>18 DEF CommitCheck, StopWith
<1>19. ASSUME NEW o \in Ops, SyncStage(o) PROVE Placed(p)
  BY <1>19 DEF SyncStage, StopWith
<1>20. ASSUME NEW o \in Ops, Publish(o) PROVE Placed(p)
  BY <1>20 DEF Publish
<1>21. ASSUME NEW o \in Ops, PublishFails(o) PROVE Placed(p)
  BY <1>21 DEF PublishFails, StopWith
<1>22. ASSUME NEW o \in Ops, SettleCommit(o) PROVE Placed(p)
  BY <1>22 DEF SettleCommit, Note
<1>23. ASSUME NEW o \in Ops, DiscardRecord(o) PROVE Placed(p)
  BY <1>23 DEF DiscardRecord, StopInv, NotStopped, CleanInv, Note
<1>24. ASSUME NEW o \in Ops, Abort(o) PROVE Placed(p)
  BY <1>24 DEF Abort, Removes, AbortRemoves, MarkAborted, Note
<1>25. ASSUME NEW o \in Ops, AbortRetry(o) PROVE Placed(p)
  BY <1>25 DEF AbortRetry, Removes, CleanInv, AbortRemoves, MarkAborted
<1>26. ASSUME NEW o \in Ops, DropStage(o) PROVE Placed(p)
  BY <1>26 DEF DropStage, AbortRemoves, MarkAborted
<1>27. ASSUME NEW o \in Ops, Panic(o) PROVE Placed(p)
  BY <1>27 DEF Panic, Staged
<1>28. ASSUME NEW o \in Ops, Kill(o) PROVE Placed(p)
  BY <1>28 DEF Kill, Live
<1>29. ASSUME NEW o \in Ops, Recover(o) PROVE Placed(p)
  BY <1>29 DEF Recover, callVars
<1>30. ASSUME NEW o \in Ops, SubstituteStageName(o) PROVE Placed(p)
  BY <1>30 DEF SubstituteStageName, callVars
<1>31. ASSUME NEW o \in Ops, Tamper(o) PROVE Placed(p)
  BY <1>31 DEF Tamper, callVars
<1>32. ASSUME NEW d \in Dests, PlantDestination(d) PROVE Placed(p)
  BY <1>32 DEF PlantDestination, callVars
<1> QED
  BY <1>1, <1>2, <1>3, <1>4, <1>5, <1>6, <1>7, <1>8, <1>9, <1>10, <1>11, <1>12,
     <1>13, <1>14, <1>15, <1>16, <1>17, <1>18, <1>19, <1>20, <1>21, <1>22,
     <1>23, <1>24, <1>25, <1>26, <1>27, <1>28, <1>29, <1>30, <1>31, <1>32
  DEF Next, Step

(* A directory that is removed for the call that made it was its only one. *)
LEMMA RemovesAll ==
  ASSUME IInv, ObjectInv, NEW p \in Ops, NEW x \in Inodes, owner[x] = p, Remove(x)
  PROVE  OwnsNothing(p)'
BY MarkAssumption DEF IInv, TypeOK, FsTypeOK, ObjectInv, Remove, OwnsNothing

(* A call that is still opening its stage keeps the name it made: only the *)
(* call itself removes it, and then it leaves these places.                *)
LEMMA OpeningKept ==
  ASSUME IInv, RInv, Next, NEW p \in Ops, pc[p] \in Opening, pc'[p] \in Opening
  PROVE  stageAt'[p] = stageAt[p] /\ owner'[stageAt[p]] = p
<1> DEFINE Kept == stageAt'[p] = stageAt[p] /\ owner'[stageAt[p]] = p
<1> USE MarkAssumption DEF TypeOK, FsTypeOK, CallTypeOK, Opening
<1>a. TypeOK /\ stageAt[p] \in Inodes /\ owner[stageAt[p]] = p
  BY DEF IInv, RInv, ObjectInv
<1>1. ASSUME NEW o \in Ops, Quiet(o) PROVE Kept
  BY <1>a, <1>1, QuietKeeps DEF fsVars
<1>2. ASSUME NEW o \in Ops, o # p, Removal(o) PROVE Kept
  BY <1>a, <1>2, RemovalKeeps DEF FsKept
<1>3. ASSUME Removal(p) PROVE Kept
  <2>1. ASSUME NEW x, Spoil(x) PROVE Kept
    BY <1>a, <2>1 DEF Spoil
  <2> QED
    BY <1>a, <1>3, <2>1
    DEF Removal, RemoveUnopened, SetupAbort, SetupRetry, Abort, AbortRetry,
        DropStage, Recover, Goto, Ended
<1>4. ASSUME NEW o \in Ops, MakeStage(o) PROVE Kept
  BY <1>a, <1>4 DEF MakeStage, Goto
<1>5. ASSUME NEW o \in Ops, WriteMember(o) \/ DenyMember(o) \/ FailMember(o) \/ Tamper(o)
      PROVE  Kept
  BY <1>a, <1>5 DEF WriteMember, DenyMember, FailMember, Tamper
<1>6. ASSUME NEW o \in Ops, Publish(o) PROVE Kept
  BY <1>a, <1>6 DEF Publish, Goto
<1>7. ASSUME NEW o \in Ops, SubstituteStageName(o) PROVE Kept
  BY <1>a, <1>7 DEF SubstituteStageName
<1>8. ASSUME NEW d \in Dests, PlantDestination(d) PROVE Kept
  BY <1>a, <1>8 DEF PlantDestination
<1> QED
  BY <1>1, <1>2, <1>3, <1>4, <1>5, <1>6, <1>7, <1>8 DEF Next, Step, Quiet, Removal

(* The call's one directory: made once, bound by its stage name until a    *)
(* substitution or a removal for the call.                                 *)
LEMMA ObjectStep ==
  ASSUME IInv, RInv, Next
  PROVE  ObjectInv'
<1> USE MarkAssumption DEF TypeOK, FsTypeOK, CallTypeOK
<1>a. TypeOK /\ NameInv /\ ObjectInv
  BY DEF IInv, RInv
<1>b. ASSUME NEW p \in Ops, MakeStage(p)
      PROVE  /\ pc[p] = "mkdir" /\ pc'[p] = "open" /\ OwnsNothing(p)
             /\ \E i \in Inodes : /\ owner[i] = Free
                                  /\ owner' = [owner EXCEPT ![i] = p]
                                  /\ stageAt'[p] = i
  BY <1>a, <1>b DEF MakeStage, Goto, ObjectInv
<1>1. ASSUME NEW p \in Ops, NEW i \in Inodes, NEW j \in Inodes, owner'[i] = p, owner'[j] = p
      PROVE  i = j
  <2>1. CASE MakeStage(p)
    BY <1>a, <1>b, <1>1, <2>1 DEF OwnsNothing
  <2>2. CASE ~MakeStage(p)
    BY <1>a, <1>1, <2>2, OwnerFrame DEF ObjectInv
  <2> QED BY <2>1, <2>2
<1>2. ASSUME NEW p \in Ops, pc'[p] \in {"setup", "mkdir"}
      PROVE  OwnsNothing(p)'
  <2>1. pc[p] \in {"setup", "mkdir"} /\ ~MakeStage(p)
    BY <1>2, <1>b, PlaceFrame DEF Placed
  <2>2. OwnsNothing(p)
    BY <1>a, <2>1 DEF ObjectInv
  <2> QED BY <2>1, <2>2, OwnerFrame DEF OwnsNothing
<1>3. ASSUME NEW p \in Ops, pc'[p] \in Opening
      PROVE  stageAt'[p] # NoDir /\ owner'[stageAt'[p]] = p
  <2>1. CASE MakeStage(p)
    BY <1>a, <1>b, <2>1
  <2>2. CASE pc[p] \in Opening
    BY <1>a, <1>3, <2>2, OpeningKept DEF ObjectInv
  <2> QED BY <1>3, <2>1, <2>2, PlaceFrame DEF Placed
<1>4. ASSUME NEW p \in Ops, ~SwapAllowed, stageAt'[p] # NoDir
      PROVE  owner'[stageAt'[p]] = p
  <2>1. CASE MakeStage(p)
    BY <1>a, <1>b, <2>1
  <2>2. CASE ~MakeStage(p)
    BY <1>a, <1>4, <2>2, StageFrame DEF ObjectInv, SubstituteStageName
  <2> QED BY <2>1, <2>2
<1> QED BY <1>1, <1>2, <1>3, <1>4 DEF ObjectInv

(* What a step does to the record of call p.                               *)
Filed(p) ==
  /\ pc'[p] \in Unrecorded => recFile'[p] = NoFile
  /\ (pc'[p] \in Recorded /\ recFile'[p] # NoFile) => held'[p] \/ stop'[p] = "setup"
  /\ (pc'[p] \in Staged /\ recFile'[p] \in Inodes) => recFile'[p] = witness'[p]
  /\ recFile'[p] \in Inodes =>
       recFile'[p] = recFile[p] \/ (pc[p] = "record" /\ recFile'[p] = witness[p])

\* Each action, seen from any call p.
LEMMA RecordFrame ==
  ASSUME IInv, RInv, Next, NEW p \in Ops
  PROVE  Filed(p)
<1> USE MarkAssumption DEF RInv, IInv, TypeOK, FsTypeOK, CallTypeOK, ReportTypeOK, Goto, fsVars, Filed, RecordInv, Unrecorded, Recorded, Staged
<1>1. ASSUME NEW o \in Ops, RefuseSetup(o) PROVE Filed(p)
  BY <1>1 DEF RefuseSetup, FailSetup
<1>2. ASSUME NEW o \in Ops, AdmitParent(o) PROVE Filed(p)
  BY <1>2 DEF AdmitParent
<1>3. ASSUME NEW o \in Ops, MakeStage(o) PROVE Filed(p)
  BY <1>3 DEF MakeStage
<1>4. ASSUME NEW o \in Ops, MakeStageFails(o) PROVE Filed(p)
  BY <1>4 DEF MakeStageFails, FailSetup
<1>5. ASSUME NEW o \in Ops, OpenStage(o) PROVE Filed(p)
  BY <1>5 DEF OpenStage
<1>6. ASSUME NEW o \in Ops, RemoveUnopened(o) PROVE Filed(p)
  BY <1>6 DEF RemoveUnopened, FailSetup, Note
<1>7. ASSUME NEW o \in Ops, AdmitStage(o) PROVE Filed(p)
  BY <1>7 DEF AdmitStage
<1>8. ASSUME NEW o \in Ops, RefuseStage(o) PROVE Filed(p)
  BY <1>8 DEF RefuseStage
<1>9. ASSUME NEW o \in Ops, SetupAbort(o) PROVE Filed(p)
  BY <1>9 DEF SetupAbort, FailSetup
<1>10. ASSUME NEW o \in Ops, SetupRetry(o) PROVE Filed(p)
  BY <1>10 DEF SetupRetry, FailSetup, Note
<1>11. ASSUME NEW o \in Ops, CreateRecord(o) PROVE Filed(p)
  BY <1>11 DEF CreateRecord, StopWith
<1>12. ASSUME NEW o \in Ops, WriteRecord(o) PROVE Filed(p)
  BY <1>12 DEF WriteRecord, StopWith
<1>13. ASSUME NEW o \in Ops, WriteMember(o) PROVE Filed(p)
  BY <1>13 DEF WriteMember
<1>14. ASSUME NEW o \in Ops, DenyMember(o) PROVE Filed(p)
  BY <1>14 DEF DenyMember, StopWith, StopInv, NotStopped
<1>15. ASSUME NEW o \in Ops, FailMember(o) PROVE Filed(p)
  BY <1>15 DEF FailMember, StopWith, StopInv, NotStopped
<1>16. ASSUME NEW o \in Ops, EndMembers(o) PROVE Filed(p)
  BY <1>16 DEF EndMembers
<1>17. ASSUME NEW o \in Ops, Audit(o) PROVE Filed(p)
  BY <1>17 DEF Audit, StopWith, StopInv, NotStopped
<1>18. ASSUME NEW o \in Ops, CommitCheck(o) PROVE Filed(p)
  BY <1>18 DEF CommitCheck, StopWith, StopInv, NotStopped
<1>19. ASSUME NEW o \in Ops, SyncStage(o) PROVE Filed(p)
  BY <1>19 DEF SyncStage, StopWith, StopInv, NotStopped
<1>20. ASSUME NEW o \in Ops, Publish(o) PROVE Filed(p)
  BY <1>20 DEF Publish
<1>21. ASSUME NEW o \in Ops, PublishFails(o) PROVE Filed(p)
  BY <1>21 DEF PublishFails, StopWith, StopInv, NotStopped
<1>22. ASSUME NEW o \in Ops, SettleCommit(o) PROVE Filed(p)
  BY <1>22 DEF SettleCommit, Note
<1>23. ASSUME NEW o \in Ops, DiscardRecord(o) PROVE Filed(p)
  BY <1>23 DEF DiscardRecord, Note
<1>24. ASSUME NEW o \in Ops, Abort(o) PROVE Filed(p)
  BY <1>24 DEF Abort, AbortRemoves, MarkAborted, Note
<1>25. ASSUME NEW o \in Ops, AbortRetry(o) PROVE Filed(p)
  BY <1>25 DEF AbortRetry, AbortRemoves, MarkAborted
<1>26. ASSUME NEW o \in Ops, DropStage(o) PROVE Filed(p)
  BY <1>26 DEF DropStage, AbortRemoves, MarkAborted
<1>27. ASSUME NEW o \in Ops, Panic(o) PROVE Filed(p)
  BY <1>27 DEF Panic, Staged
<1>28. ASSUME NEW o \in Ops, Kill(o) PROVE Filed(p)
  BY <1>28 DEF Kill, Live
<1>29. ASSUME NEW o \in Ops, Recover(o) PROVE Filed(p)
  BY <1>29 DEF Recover, callVars
<1>30. ASSUME NEW o \in Ops, SubstituteStageName(o) PROVE Filed(p)
  BY <1>30 DEF SubstituteStageName, callVars
<1>31. ASSUME NEW o \in Ops, Tamper(o) PROVE Filed(p)
  BY <1>31 DEF Tamper, callVars
<1>32. ASSUME NEW d \in Dests, PlantDestination(d) PROVE Filed(p)
  BY <1>32 DEF PlantDestination, callVars
<1> QED
  BY <1>1, <1>2, <1>3, <1>4, <1>5, <1>6, <1>7, <1>8, <1>9, <1>10, <1>11, <1>12,
     <1>13, <1>14, <1>15, <1>16, <1>17, <1>18, <1>19, <1>20, <1>21, <1>22,
     <1>23, <1>24, <1>25, <1>26, <1>27, <1>28, <1>29, <1>30, <1>31, <1>32
  DEF Next, Step

(* A record that names what the stage component binds names the directory  *)
(* the call made, so that recover_abandoned_stage never matches a          *)
(* substitute or a reused inode.                                           *)
LEMMA RecordStep ==
  ASSUME IInv, RInv, Next
  PROVE  RecordInv'
<1> USE MarkAssumption DEF TypeOK, FsTypeOK, CallTypeOK
<1>a. TypeOK /\ RootInv /\ ObjectInv /\ RecordInv
  BY DEF IInv, RInv
<1>1. ASSUME NEW p \in Ops, recFile'[p] \in Inodes, stageAt'[p] = recFile'[p]
      PROVE  owner'[stageAt'[p]] = p
  <2>1. \/ recFile'[p] = recFile[p]
        \/ pc[p] = "record" /\ recFile'[p] = witness[p]
    BY <1>1, RecordFrame DEF Filed
  <2>2. CASE pc[p] = "record"
    <3>1. stageAt[p] # NoDir /\ owner[stageAt[p]] = p
      BY <1>a, <2>2 DEF ObjectInv, Opening
    <3>2. ~MakeStage(p) /\ ~SubstituteStageName(p)
      BY <2>2 DEF MakeStage, SubstituteStageName, Goto
    <3> QED BY <1>1, <3>1, <3>2, StageFrame
  <2>3. CASE pc[p] # "record"
    <3>1. recFile'[p] = recFile[p]
      BY <2>1, <2>3
    <3>2. CASE MakeStage(p)
      BY <1>a, <1>1, <3>1, <3>2 DEF MakeStage, Goto, RecordInv, Unrecorded
    <3>3. CASE SubstituteStageName(p)
      <4>1. pc[p] \in Staged
        BY <3>3 DEF SubstituteStageName, Staged
      <4>2. recFile[p] = root[p] /\ owner[root[p]] = p
        BY <1>a, <1>1, <3>1, <4>1 DEF RecordInv, RootInv
      <4>3. owner[stageAt'[p]] = Free
        BY <1>a, <3>3 DEF SubstituteStageName
      <4> QED BY <1>1, <3>1, <4>2, <4>3
    <3>4. CASE stageAt'[p] = stageAt[p] /\ owner'[stageAt[p]] = owner[stageAt[p]]
      BY <1>a, <1>1, <3>1, <3>4 DEF RecordInv
    <3> QED BY <1>1, <3>2, <3>3, <3>4, StageFrame
  <2> QED BY <2>2, <2>3
<1> QED BY <1>1, RecordFrame DEF Filed, RecordInv

(* What is left of a stage after a failed removal is what the witness names. *)
LEMMA WitnessStep ==
  ASSUME IInv, RInv, Next
  PROVE  WitnessInv'
<1> SUFFICES ASSUME NEW p \in Ops, WitnessDue(p)', NEW i \in Inodes, owner'[i] = p
             PROVE  i = witness'[p]
  BY DEF WitnessInv
<1>1. owner[i] = p
  <2>1. ~MakeStage(p)
    BY DEF MakeStage, Goto, WitnessDue, Staged, IInv, TypeOK, CallTypeOK
  <2> QED BY <2>1, OwnerFrame
<1>2. CASE pc[p] = "check" /\ witness'[p] = root[p]
  <2>1. root[p] \in Inodes /\ owner[root[p]] = p
    BY <1>2 DEF IInv, RootInv, Holding, TypeOK, CallTypeOK
  <2> QED BY <1>1, <1>2, <2>1 DEF RInv, ObjectInv
<1>3. CASE WitnessDue(p) /\ witness'[p] = witness[p]
  BY <1>1, <1>3 DEF RInv, WitnessInv
<1> QED BY <1>2, <1>3, PlaceFrame DEF Placed

(* Once a call has published or removed its stage, its stage component no  *)
(* longer binds its directory.                                             *)
LEMMA LeftStep ==
  ASSUME IInv, RInv, Next
  PROVE  LeftInv'
<1> SUFFICES ASSUME NEW p \in Ops, LeftDue(p)', stageAt'[p] # NoDir
             PROVE  owner'[stageAt'[p]] # p
  BY DEF LeftInv
<1> USE MarkAssumption DEF TypeOK, FsTypeOK, CallTypeOK
<1>a. TypeOK /\ NameInv /\ RootInv /\ ObjectInv
  BY DEF IInv, RInv
<1>1. ~MakeStage(p) /\ ~SubstituteStageName(p)
  BY <1>a DEF MakeStage, SubstituteStageName, callVars, Goto, LeftDue
<1>2. stageAt'[p] = stageAt[p] /\ owner'[stageAt[p]] = owner[stageAt[p]]
  BY <1>1, StageFrame
<1>3. CASE LeftDue(p)
  BY <1>2, <1>3 DEF RInv, LeftInv
<1>4. CASE Removes(p)
  <2>1. CASE pc[p] \in {"setup-abort", "abort"} /\ Remove(root[p])
    <3>1. root[p] \in Inodes /\ owner[root[p]] = p
      BY <1>a, <2>1 DEF RootInv, Holding
    <3>2. OwnsNothing(p)'
      BY <2>1, <3>1, <1>a, RemovesAll
    <3>3. stageAt'[p] \in Inodes
      BY <1>a, <1>2
    <3> QED BY <3>2, <3>3 DEF OwnsNothing
  <2>2. CASE stageAt[p] # NoDir /\ Remove(stageAt[p])
    BY <1>a, <2>2 DEF Remove
  <2> QED BY <1>4, <2>1, <2>2 DEF Removes
<1> QED BY <1>3, <1>4, PlaceFrame DEF Placed

-----------------------------------------------------------------------------
(***************************************************************************)
(* The theorems                                                            *)
(***************************************************************************)
\* A call that has not started has nothing to report.
LEMMA InitRInv ==
  ASSUME Init
  PROVE  RInv
<1> USE MarkAssumption DEF Init
<1>1. ObjectInv
  BY DEF ObjectInv, OwnsNothing, Opening
<1>2. RecordInv /\ RecordDiscarded
  BY DEF RecordInv, Recorded, RecordDiscarded
<1>3. ReportInv
  BY DEF ReportInv, Verified
<1>4. CleanInv
  BY DEF CleanInv
<1>5. WitnessInv /\ LeftInv
  BY DEF WitnessInv, LeftInv, WitnessDue, LeftDue, Staged
<1> QED BY <1>1, <1>2, <1>3, <1>4, <1>5 DEF RInv

\* Every step keeps RInv; IInv says what the names and handles reach.
LEMMA StepRInv ==
  ASSUME IInv, IInv', RInv, [Next]_vars
  PROVE  RInv'
<1>1. CASE Next
  BY <1>1, ObjectStep, RecordStep, ReportStep, CleanStep, WitnessStep, LeftStep,
     DiscardedStep
  DEF RInv
<1>2. CASE UNCHANGED vars
  <2> USE <1>2 DEF vars, RInv
  <2>1. ObjectInv'
    BY DEF ObjectInv, OwnsNothing
  <2>2. RecordInv' /\ RecordDiscarded'
    BY DEF RecordInv, RecordDiscarded
  <2>3. ReportInv' /\ CleanInv'
    BY DEF ReportInv, CleanInv, DirectorySync
  <2>4. WitnessInv' /\ LeftInv'
    BY DEF WitnessInv, LeftInv, WitnessDue, LeftDue
  <2> QED BY <2>1, <2>2, <2>3, <2>4
<1> QED BY <1>1, <1>2

(* RInv is an invariant of the stage lifecycle, whatever may fail, be      *)
(* killed, be tampered with or be substituted.                             *)
THEOREM ReceiptInductive == Spec => []RInv
<1>1. Init => RInv
  BY InitRInv
<1>2. IInv /\ IInv' /\ RInv /\ [Next]_vars => RInv'
  BY StepRInv
<1> QED BY <1>1, <1>2, Inductive, PTL DEF Spec

(* Four of the five things a receipt says, with names substituted and      *)
(* removals failing at once: the returned record names the stage that is   *)
(* left (failed_stage_retention), no record outlives a clean ending        *)
(* unreported (discard_stage_retention_file), a claim of directory-sync is *)
(* earned by both syncs (commit), and a VerifiedArchive leaves the call    *)
(* only when every member verified.                                        *)
THEOREM RecordsAreTruthful ==
  Spec => [](LeftoverIsRecoverable /\ RecordDiscarded
               /\ DurabilityTruthful /\ CapabilityMeansVerified)
<1>1. ASSUME IInv, RInv PROVE LeftoverIsRecoverable
  <2> SUFFICES ASSUME NEW o \in Ops, pc[o] = "done", outcome[o] # "setup-failed",
                      stageAt[o] # NoDir, owner[stageAt[o]] = o
               PROVE  stageAt[o] \in Presented(o)
    BY DEF LeftoverIsRecoverable
  <2>1. stageAt[o] \in Inodes
    BY <1>1 DEF IInv, TypeOK, FsTypeOK
  <2>2. cleanup[o] = "failed"
    BY <1>1 DEF RInv, LeftInv, LeftDue
  <2>3. stageAt[o] = witness[o]
    BY <1>1, <2>1, <2>2 DEF RInv, WitnessInv, WitnessDue
  <2> QED BY <2>1, <2>2, <2>3 DEF Presented, Retention
<1>2. ASSUME IInv, RInv PROVE DurabilityTruthful
  <2> SUFFICES ASSUME NEW o \in Ops, pc[o] = "done", outcome[o] = "committed"
               PROVE  /\ ReportedDurability(o) = "directory-sync" =>
                           synced[o] = {"stage", "parent"}
                      /\ DirectorySync(o) => "stage" \in synced[o]
    BY DEF DurabilityTruthful
  <2>1. synced[o] \subseteq {"stage", "parent"}
    BY <1>2 DEF IInv, TypeOK, ReportTypeOK
  <2>2. DirectorySync(o) => "stage" \in synced[o]
    BY <1>2 DEF RInv, ReportInv
  <2>3. ReportedDurability(o) = "directory-sync" =>
          DirectorySync(o) /\ "parent-sync" \notin notes[o]
    BY DEF ReportedDurability
  <2>4. ReportedDurability(o) = "directory-sync" => "parent" \in synced[o]
    BY <1>2, <2>3 DEF RInv, ReportInv
  <2> QED BY <2>1, <2>2, <2>3, <2>4
<1>3. ASSUME IInv, RInv PROVE CapabilityMeansVerified
  <2> SUFFICES ASSUME NEW o \in Ops, pc[o] = "done", HasCapability(o)
               PROVE  conf[o].corrupt = {} /\ next[o] = MemberCount + 1
    BY DEF CapabilityMeansVerified
  <2>1. next[o] = MemberCount + 1
    BY <1>3 DEF IInv, StopInv, RInv, ReportInv, HasCapability
  <2>2. conf[o].corrupt \subseteq Members
    BY <1>3, RequestAssumption DEF IInv, TypeOK, CallTypeOK, Request
  <2>3. \A k \in Members : k \notin conf[o].corrupt
    BY <1>3, <2>1, MemberAssumption DEF IInv, LoopInv, Members
  <2> QED BY <2>1, <2>2, <2>3
<1>4. IInv /\ RInv => LeftoverIsRecoverable /\ RecordDiscarded
                        /\ DurabilityTruthful /\ CapabilityMeansVerified
  BY <1>1, <1>2, <1>3 DEF RInv
<1> QED BY <1>4, Inductive, ReceiptInductive, PTL

-----------------------------------------------------------------------------
(***************************************************************************)
(* What a removal reaches.  abort() consumes the retained capability, so a *)
(* retry after a failed removal goes by name: where names may be           *)
(* substituted and removals may fail at once, the statements below are     *)
(* false (run "retry").  Separate excludes exactly that combination.       *)
(***************************************************************************)
Separate == ~(SwapAllowed /\ RemoveMayFail)

(* A removal for a running call reaches the directory that call made, by   *)
(* handle and by name.                                                     *)
LEMMA RemovesOwn ==
  ASSUME Separate, IInv, RInv, NEW p \in Ops, Removes(p)
  PROVE  \E x \in Inodes : owner[x] = p /\ Remove(x)
<1>a. TypeOK /\ RootInv /\ ObjectInv /\ CleanInv
  BY DEF IInv, RInv
<1>1. CASE pc[p] \in {"setup-abort", "abort"} /\ Remove(root[p])
  BY <1>a, <1>1 DEF RootInv, Holding, TypeOK, CallTypeOK
<1>2. CASE /\ pc[p] \in {"unopened", "unopened-retry", "setup-retry"}
           /\ Remove(stageAt[p])
  BY <1>a, <1>2 DEF ObjectInv, Opening, TypeOK, FsTypeOK
<1>3. CASE pc[p] = "retry" /\ stageAt[p] # NoDir /\ Remove(stageAt[p])
  BY <1>a, <1>3 DEF ObjectInv, CleanInv, Separate, TypeOK, FsTypeOK
<1> QED BY <1>1, <1>2, <1>3 DEF Removes

(* A call that reports a removal, or that it made nothing, owns nothing.   *)
LEMMA GoneStep ==
  ASSUME Separate, IInv, RInv, GoneInv, Next
  PROVE  GoneInv'
<1> SUFFICES ASSUME NEW p \in Ops, GoneDue(p)'
             PROVE  OwnsNothing(p)'
  BY DEF GoneInv
<1>1. ~MakeStage(p)
  BY DEF MakeStage, Goto, GoneDue, IInv, TypeOK, CallTypeOK
<1>2. ASSUME OwnsNothing(p) PROVE OwnsNothing(p)'
  BY <1>1, <1>2, OwnerFrame DEF OwnsNothing
<1>3. CASE GoneDue(p)
  BY <1>2, <1>3 DEF GoneInv
<1>4. CASE pc[p] \in {"setup", "mkdir"}
  BY <1>2, <1>4 DEF RInv, ObjectInv
<1>5. CASE Removes(p)
  BY <1>5, RemovesOwn, RemovesAll DEF RInv
<1> QED BY <1>3, <1>4, <1>5, PlaceFrame DEF Placed

\* GoneInv is an invariant where the two hazards do not meet.
LEMMA Gone ==
  ASSUME Separate
  PROVE  Spec => []GoneInv
<1>1. Init => GoneInv
  BY DEF Init, GoneInv, GoneDue
<1>2. IInv /\ RInv /\ GoneInv /\ [Next]_vars => GoneInv'
  <2>1. ASSUME GoneInv, UNCHANGED vars PROVE GoneInv'
    BY <2>1 DEF vars, GoneInv, GoneDue, OwnsNothing
  <2> QED BY <2>1, GoneStep
<1> QED BY <1>1, <1>2, Inductive, ReceiptInductive, PTL DEF Spec

(* Everything a receipt says is so.  CleanupTruthful is the part that      *)
(* needs Separate: no directory of the call is left outside its            *)
(* destination unless cleanup is reported as failed.                       *)
THEOREM ReceiptsAreTruthful ==
  ASSUME Separate
  PROVE  Spec => []ReceiptTruthful
<1>1. ASSUME IInv, RInv, GoneInv PROVE CleanupTruthful
  <2> SUFFICES ASSUME NEW o \in Ops, pc[o] = "done", cleanup[o] # "failed",
                      NEW i \in Inodes, owner[i] = o
               PROVE  i = destAt[Target[o]]
    BY DEF CleanupTruthful
  <2>1. outcome[o] = "committed"
    BY <1>1 DEF GoneInv, GoneDue, OwnsNothing
  <2>2. destAt[Target[o]] \in Inodes /\ owner[destAt[Target[o]]] = o
    BY <1>1, <2>1, OpsAssumption DEF IInv, BoundInv, HasPublished, TypeOK, FsTypeOK
  <2> QED BY <1>1, <2>2 DEF RInv, ObjectInv
<1>2. IInv /\ RInv /\ GoneInv => CleanupTruthful
  BY <1>1
<1>3. /\ CleanupTruthful
      /\ LeftoverIsRecoverable /\ RecordDiscarded
      /\ DurabilityTruthful /\ CapabilityMeansVerified
      => ReceiptTruthful
  BY DEF ReceiptTruthful
<1> QED
  BY <1>2, <1>3, Inductive, ReceiptInductive, Gone, RecordsAreTruthful, PTL

(* A receipt that says "removed" speaks of the directory the call made.    *)
THEOREM RemovedIsRemoved ==
  ASSUME Separate
  PROVE  Spec => []RemovedMeansRetainedRemoved
<1>1. ASSUME RInv, GoneInv PROVE RemovedMeansRetainedRemoved
  BY <1>1 DEF RInv, CleanInv, GoneInv, GoneDue, OwnsNothing, RemovedMeansRetainedRemoved
<1>2. RInv /\ GoneInv => RemovedMeansRetainedRemoved
  BY <1>1
<1> QED BY <1>2, ReceiptInductive, Gone, PTL

\* What one step may do to directory i.
OwnStep(i) ==
  /\ owner[i] = Foreign => owner'[i] = Foreign /\ tree'[i] = tree[i]
  /\ (owner[i] \in Ops /\ owner'[i] # owner[i]) =>
       LET o == owner[i]
       IN  \/ pc[o] \in Live /\ pc'[o] # pc[o]
           \/ pc[o] \in Ended /\ i \in Presented(o)

(* Removing or emptying the directory x of call o touches nothing else.    *)
LEMMA TouchesOwn ==
  ASSUME IInv, NEW o \in Ops, NEW x \in Inodes, owner[x] = o,
         Remove(x) \/ Spoil(x),
         \/ pc[o] \in Live /\ pc'[o] # pc[o]
         \/ pc[o] \in Ended /\ x \in Presented(o),
         NEW i \in Inodes
  PROVE  OwnStep(i)
<1>1. \/ owner' = [owner EXCEPT ![x] = Free]
      \/ owner' = owner
  BY DEF Remove, Spoil
<1>2. tree' = [tree EXCEPT ![x] = EmptyTree]
  BY DEF Remove, Spoil
<1>3. CASE i = x
  BY <1>1, <1>3, MarkAssumption DEF OwnStep
<1>4. CASE i # x
  BY <1>1, <1>2, <1>4 DEF OwnStep, IInv, TypeOK, FsTypeOK
<1> QED BY <1>3, <1>4

(* The directory a presented record matches is the one its call made: the  *)
(* record's inode is not reused behind the recorded stage component.       *)
LEMMA RecoverReachesOwn ==
  ASSUME Separate, IInv, RInv, NEW o \in Ops,
         stageAt[o] # NoDir, stageAt[o] \in Presented(o)
  PROVE  owner[stageAt[o]] = o
<1>1. CASE ~SwapAllowed
  BY <1>1 DEF RInv, ObjectInv
<1>2. CASE SwapAllowed
  <2>1. cleanup[o] # "failed"
    BY <1>2 DEF Separate, RInv, CleanInv
  <2>2. Retention(o) = NoDir
    BY <2>1 DEF Retention
  <2>3. stageAt[o] = recFile[o] /\ recFile[o] \in Inodes
    BY <2>2 DEF Presented
  <2> QED BY <2>3 DEF RInv, RecordInv
<1> QED BY <1>1, <1>2

\* Each action, seen from any directory i.
LEMMA OwnObjectStep ==
  ASSUME Separate, IInv, RInv, Next, NEW i \in Inodes
  PROVE  OwnStep(i)
<1> USE MarkAssumption DEF TypeOK, FsTypeOK, CallTypeOK
<1>a. TypeOK /\ RootInv /\ ObjectInv /\ CleanInv
  BY DEF IInv, RInv
<1>b. ASSUME owner'[i] = owner[i], tree'[i] = tree[i] PROVE OwnStep(i)
  BY <1>b DEF OwnStep
<1>1. ASSUME NEW o \in Ops, Quiet(o) PROVE OwnStep(i)
  BY <1>1, <1>b, QuietKeeps DEF fsVars
<1>2. ASSUME NEW o \in Ops,
             pc[o] \in {"unopened", "unopened-retry", "setup-retry", "retry"},
             pc'[o] # pc[o], stageAt[o] # NoDir,
             Remove(stageAt[o]) \/ Spoil(stageAt[o])
      PROVE  OwnStep(i)
  <2>1. owner[stageAt[o]] = o
    BY <1>a, <1>2 DEF ObjectInv, Opening, CleanInv, Separate
  <2>2. stageAt[o] \in Inodes /\ pc[o] \in Live
    BY <1>a, <1>2 DEF Live
  <2> QED BY <1>2, <2>1, <2>2, TouchesOwn
<1>3. ASSUME NEW o \in Ops, pc[o] \in {"setup-abort", "abort", "unwind"},
             pc'[o] # pc[o], Remove(root[o]) \/ Spoil(root[o])
      PROVE  OwnStep(i)
  <2>1. root[o] \in Inodes /\ owner[root[o]] = o /\ pc[o] \in Live
    BY <1>a, <1>3, UnpublishedRoot DEF Live
  <2> QED BY <1>3, <2>1, TouchesOwn
<1>4. ASSUME NEW o \in Ops, RemoveUnopened(o) PROVE OwnStep(i)
  BY <1>a, <1>2, <1>4 DEF RemoveUnopened
<1>5. ASSUME NEW o \in Ops, SetupAbort(o) PROVE OwnStep(i)
  BY <1>a, <1>3, <1>5 DEF SetupAbort
<1>6. ASSUME NEW o \in Ops, SetupRetry(o) PROVE OwnStep(i)
  BY <1>a, <1>2, <1>6 DEF SetupRetry, Goto
<1>7. ASSUME NEW o \in Ops, Abort(o) PROVE OwnStep(i)
  BY <1>a, <1>3, <1>7 DEF Abort, AbortRemoves
<1>8. ASSUME NEW o \in Ops, AbortRetry(o) PROVE OwnStep(i)
  BY <1>a, <1>b, <1>2, <1>8 DEF AbortRetry, AbortRemoves, fsVars
<1>9. ASSUME NEW o \in Ops, DropStage(o) PROVE OwnStep(i)
  BY <1>a, <1>3, <1>9 DEF DropStage, AbortRemoves, Goto
<1>10. ASSUME NEW o \in Ops, Recover(o) PROVE OwnStep(i)
  <2>1. /\ pc[o] \in Ended /\ stageAt[o] # NoDir /\ stageAt[o] \in Presented(o)
        /\ Remove(stageAt[o]) \/ Spoil(stageAt[o])
    BY <1>10 DEF Recover, WitnessMatches
  <2>2. stageAt[o] \in Inodes /\ owner[stageAt[o]] = o
    BY <1>a, <2>1, RecoverReachesOwn
  <2> QED BY <2>1, <2>2, TouchesOwn
<1>11. ASSUME NEW o \in Ops, MakeStage(o) PROVE OwnStep(i)
  BY <1>a, <1>11 DEF MakeStage, OwnStep
<1>12. ASSUME NEW o \in Ops, WriteMember(o) \/ DenyMember(o) \/ FailMember(o) \/ Tamper(o)
       PROVE  OwnStep(i)
  <2>1. pc[o] \in {"members", "audit"} /\ owner' = owner
    BY <1>12 DEF WriteMember, DenyMember, FailMember, Tamper, Goto
  <2>2. root[o] \in Inodes /\ owner[root[o]] = o
    BY <2>1, UnpublishedRoot
  <2>3. i # root[o] => tree'[i] = tree[i]
    BY <1>a, <1>12, <2>2 DEF WriteMember, DenyMember, FailMember, Tamper
  <2> QED BY <2>1, <2>2, <2>3 DEF OwnStep
<1>13. ASSUME NEW o \in Ops, Publish(o) PROVE OwnStep(i)
  BY <1>b, <1>13 DEF Publish
<1>14. ASSUME NEW o \in Ops, SubstituteStageName(o) PROVE OwnStep(i)
  BY <1>a, <1>14 DEF SubstituteStageName, OwnStep
<1>15. ASSUME NEW d \in Dests, PlantDestination(d) PROVE OwnStep(i)
  BY <1>a, <1>15 DEF PlantDestination, OwnStep
<1> QED
  BY <1>1, <1>4, <1>5, <1>6, <1>7, <1>8, <1>9, <1>10, <1>11, <1>12, <1>13, <1>14, <1>15
  DEF Next, Step, Quiet

(* Handles, witnesses and stage names that outlive their directory never   *)
(* reach another one: every directory disappears through its own call or   *)
(* through a record that names it.                                         *)
THEOREM RemovalsStayInside ==
  ASSUME Separate
  PROVE  Spec => OnlyOwnObjectsRemoved
<1> DEFINE Inside == \A i \in Inodes :
             /\ owner[i] = Foreign => owner'[i] = Foreign /\ tree'[i] = tree[i]
             /\ (owner[i] \in Ops /\ owner'[i] # owner[i]) =>
                  LET o == owner[i]
                  IN  \/ pc[o] \in Live /\ pc'[o] # pc[o]
                      \/ pc[o] \in Ended /\ i \in Presented(o)
<1>1. IInv /\ RInv /\ [Next]_vars => [Inside]_vars
  BY OwnObjectStep DEF OwnStep
<1> QED BY <1>1, Inductive, ReceiptInductive, PTL DEF Spec, OnlyOwnObjectsRemoved

=============================================================================
