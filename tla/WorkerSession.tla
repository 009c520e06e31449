---------------------------- MODULE WorkerSession ----------------------------
(***************************************************************************)
(* One supervised operation on Linux (crates/sealr/src/supervised/linux.rs *)
(* and linux/materialize.rs): the supervisor spawns an authenticated       *)
(* helper, hands it authority in lock-step rounds over a SEQPACKET socket, *)
(* takes two sealed proposals back, requires a clean exit and a reap,      *)
(* replays the plan itself, audits the stage and alone publishes it.       *)
(*                                                                         *)
(* The worker (tools/worker-bootstrap/src/worker.rs) follows its code, and *)
(* may crash or stall anywhere.  With Untrusted it may also answer, write  *)
(* to its stage and exit as it likes: the supervisor treats every frame as *)
(* a proposal.  A frame is abstracted to its round and to whether its      *)
(* kind, operation id, flags, values and descriptor count are the expected *)
(* ones; a deadline may expire at any poll.                                *)
(***************************************************************************)
EXTENDS Naturals, Sequences

CONSTANTS
  Untrusted,   \* the worker need not follow worker.rs
  SpareFrames  \* it adds a frame only while fewer than this many are unread

ASSUME UntrustedAssumption == Untrusted \in BOOLEAN
ASSUME SpareFramesAssumption == SpareFrames \in Nat

(***************************************************************************)
(* The rounds.  In each the supervisor sends one frame and awaits one.     *)
(*   1 HelperChallenge / HelperHello       2 Bootstrap / RestrictedReady   *)
(*   3 Source / Accepted                   4 Plan / PlanAccepted           *)
(*   5 Proceed / Result                    6 ExitAck / process exit        *)
(* Bootstrap carries the stage descriptor, Source the source descriptor.   *)
(***************************************************************************)
Rounds == 1..6
Authenticate == 1
Bootstrap == 2
Source == 3
Execute == 5
ExitAck == 6

VARIABLES
  kind,      \* OperationKind
  verdict,   \* what replaying the plan against the source yields
  pc,        \* where the supervisor is
  round,     \* the round it is in
  toWorker,  \* frames the worker has not received
  toSup,     \* frames the supervisor has not received
  proc,      \* the child process: "none", "running", "zombie" or "reaped"
  exit,      \* its exit status
  got,       \* rounds whose frame the worker received
  work,      \* it is handling that frame
  jailed,    \* no_new_privs, Landlock and seccomp are installed
  proposal,  \* completion and retained content the supervisor holds
  tree,      \* what the stage directory object contains
  place,     \* what names that directory: nothing, the stage name, the destination
  taken,     \* another process created the destination
  error,     \* the SupervisionErrorKind to return
  answer,    \* the outcome to return
  noted      \* a cleanup finding is part of the outcome

supVars == <<pc, round, proposal, error, answer, noted>>
workVars == <<got, work, jailed>>
vars == <<kind, verdict, pc, round, toWorker, toSup, proc, exit, got, work,
          jailed, proposal, tree, place, taken, error, answer, noted>>

Polls == {"send", "recv", "exit"}
Kills == {"expire-kill", "finish-kill"}
Reaps == {"expire-reap", "finish-reap"}
Trees == {"empty", "exact", "other"}   \* "other": anything but what the plan writes
Bodies == {"none", "replay", "forged"}
Frame == [round: Rounds, ok: BOOLEAN, body: Bodies]

ErrorKinds == {"none", "Spawn", "Authentication", "RestrictionUnavailable",
               "Protocol", "TimedOut", "WorkerExit", "Reap", "Cleanup",
               "Source", "IntegrityMismatch", "Internal"}

Init ==
  /\ kind \in {"inspect", "materialize"}
  /\ verdict \in {"complete", "stopped"}
  /\ pc = "stage" /\ round = 1
  /\ toWorker = <<>> /\ toSup = <<>>
  /\ proc = "none" /\ exit = "none"
  /\ got = 0 /\ work = FALSE /\ jailed = FALSE
  /\ proposal = "none"
  /\ tree = "empty" /\ place = "none" /\ taken = FALSE
  /\ error = "none" /\ answer = "none" /\ noted = FALSE

-----------------------------------------------------------------------------
(***************************************************************************)
(* Leaving the session.  A materialization that stops aborts its stage, an *)
(* inspection returns at once.                                             *)
(***************************************************************************)
Leave == IF kind = "materialize" THEN "abort" ELSE "done"

\* A `?` inside execute_initial_active: finish_active_result is next, and no
\* frame is read any more.
Stop(e) == error' = e /\ pc' = "finish-kill" /\ toSup' = <<>>

StageAndWorker == <<toWorker, toSup, proc, exit, got, work, jailed, tree, place>>

-----------------------------------------------------------------------------
(***************************************************************************)
(* Before the worker.                                                      *)
(***************************************************************************)
\* CapabilityMaterializer::create and persist_stage_retention.  A setup that
\* stops removes what it made, or says that it could not.
CreateStage ==
  /\ pc = "stage"
  /\ \/ kind = "inspect" /\ pc' = "spawn" /\ UNCHANGED <<place, answer, noted>>
     \/ kind = "materialize" /\ pc' = "spawn" /\ place' = "stage" /\ UNCHANGED <<answer, noted>>
     \/ /\ kind = "materialize" /\ answer' = "setup-failed"
        /\ \/ pc' = "abort" /\ place' = "stage" /\ UNCHANGED noted
           \/ pc' = "done" /\ UNCHANGED <<place, noted>>
           \/ pc' = "done" /\ place' = "stage" /\ noted' = TRUE
  /\ UNCHANGED <<kind, verdict, round, toWorker, toSup, proc, exit, workVars,
                 proposal, tree, taken, error>>

\* The operation id, plan, socket pair or spawn fails: there is no child.
SpawnFails ==
  /\ pc = "spawn"
  /\ error' \in {"Internal", "RestrictionUnavailable", "Spawn", "Protocol"}
  /\ pc' = Leave
  /\ UNCHANGED <<kind, verdict, round, StageAndWorker, proposal, taken, answer, noted>>

SpawnChild ==
  /\ pc = "spawn"
  /\ proc' = "running"
  /\ pc' = "bind"
  /\ UNCHANGED <<kind, verdict, round, toWorker, toSup, exit, workVars, proposal,
                 tree, place, taken, error, answer, noted>>

\* ChildBoundary::bind: without a pidfd the child is killed through its pid.
BindPidfd ==
  /\ pc = "bind"
  /\ pc' \in {"send", "unbound"}
  /\ UNCHANGED <<kind, verdict, round, StageAndWorker, proposal, taken, error,
                 answer, noted>>

\* terminate_unbound_child_bounded
TerminateUnbound ==
  /\ pc = "unbound"
  /\ \/ proc = "zombie" /\ proc' = "reaped" /\ error' = "Spawn"
     \/ UNCHANGED proc /\ error' = "Reap"
  /\ pc' = Leave
  /\ UNCHANGED <<kind, verdict, round, toWorker, toSup, exit, workVars, proposal,
                 tree, place, taken, answer, noted>>

-----------------------------------------------------------------------------
(***************************************************************************)
(* The rounds, as the supervisor runs them.                                *)
(***************************************************************************)
\* Mutant: a send that would block is repeated after it went through.
SendFrameTwice ==
  /\ pc = "send" /\ proc = "running"
  /\ toWorker' = toWorker \o <<round, round>>
  /\ pc' = IF round = ExitAck THEN "exit" ELSE "recv"
  /\ UNCHANGED <<kind, verdict, round, toSup, proc, exit, workVars, proposal,
                 tree, place, taken, error, answer, noted>>

SendFrame ==
  /\ pc = "send" /\ proc = "running"
  /\ toWorker' = Append(toWorker, round)
  /\ pc' = IF round = ExitAck THEN "exit" ELSE "recv"
  /\ UNCHANGED <<kind, verdict, round, toSup, proc, exit, workVars, proposal,
                 tree, place, taken, error, answer, noted>>

\* The peer is gone: sendmsg and recvmsg fail once the queue is drained.
PeerGone ==
  /\ pc = "send" \/ (pc = "recv" /\ toSup = <<>>)
  /\ proc = "zombie"
  /\ Stop("Protocol")
  /\ UNCHANGED <<kind, verdict, round, toWorker, proc, exit, workVars, proposal, tree,
                 place, taken, answer, noted>>

\* wait_for_control: only the pidfd is ready, so the child is reaped here, or
\* the reap fails.
SeeExit ==
  /\ pc \in {"send", "recv"}
  /\ proc = "zombie"
  /\ \/ proc' = "reaped" /\ Stop("WorkerExit")
     \/ UNCHANGED proc /\ Stop("Reap")
  /\ UNCHANGED <<kind, verdict, round, toWorker, exit, workVars, proposal, tree,
                 place, taken, answer, noted>>

\* receive_until and the field checks that follow it in every round.
ReceiveFrame ==
  /\ pc = "recv" /\ toSup # <<>>
  /\ LET f == Head(toSup)
     IN  IF f.ok /\ f.round = round
         THEN /\ pc' = "check"
              /\ proposal' = IF round = Execute THEN f.body ELSE proposal
              /\ toSup' = Tail(toSup)
              /\ UNCHANGED error
         ELSE /\ \E e \in {"Protocol", "RestrictionUnavailable"} : Stop(e)
              /\ UNCHANGED proposal
  /\ UNCHANGED <<kind, verdict, round, toWorker, proc, exit, workVars, tree,
                 place, taken, answer, noted>>

\* Mutant: the readiness frame is believed.
ObservedReadyOnly == TRUE

\* observe_restricted_child reads /proc of the child itself.
ObservedRestricted == round = Bootstrap => jailed /\ proc = "running"

\* verify_process_executable, observe_restricted_child, sealed::validate.
CheckPasses ==
  /\ pc = "check"
  /\ ObservedRestricted
  /\ round' = round + 1
  /\ pc' = "send"
  /\ UNCHANGED <<kind, verdict, StageAndWorker, proposal, taken, error, answer, noted>>

\* The check fails, or preparing the next frame (clone_source, sealed::create).
CheckFails ==
  /\ pc = "check"
  /\ \E e \in {"Authentication", "RestrictionUnavailable", "Protocol", "Source"} : Stop(e)
  /\ UNCHANGED <<kind, verdict, round, toWorker, proc, exit, workVars, proposal, tree,
                 place, taken, answer, noted>>

\* Mutant: a sealed result is enough, the exit is not waited for.
WaitForExitSkipped ==
  /\ pc = "exit"
  /\ pc' = "replay"
  /\ UNCHANGED <<kind, verdict, round, StageAndWorker, proposal, taken, error, answer, noted>>

\* wait_for_exit: the status is read by the reap itself.
WaitForExit ==
  /\ pc = "exit" /\ proc = "zombie"
  /\ proc' = "reaped"
  /\ IF exit = "success"
     THEN pc' = "replay" /\ UNCHANGED <<error, toSup>>
     ELSE Stop("WorkerExit")
  /\ UNCHANGED <<kind, verdict, round, toWorker, exit, workVars, proposal, tree,
                 place, taken, answer, noted>>

\* wait_for_exit: try_wait, poll and the reap may fail at any time.
ExitWaitFails ==
  /\ pc = "exit"
  /\ Stop("Reap")
  /\ UNCHANGED <<kind, verdict, round, toWorker, proc, exit, workVars, proposal, tree,
                 place, taken, answer, noted>>

\* Mutant: the exit wait has no deadline.
ExpireOnlyTransport ==
  /\ pc \in {"send", "recv"}
  /\ pc' = "expire-kill"
  /\ UNCHANGED <<kind, verdict, round, StageAndWorker, proposal, taken, error, answer, noted>>

\* poll_timeout_ms returns None: expire_epoch.
Expire ==
  /\ pc \in Polls
  /\ pc' = "expire-kill"
  /\ UNCHANGED <<kind, verdict, round, StageAndWorker, proposal, taken, error, answer, noted>>

-----------------------------------------------------------------------------
(***************************************************************************)
(* Termination.  terminate_and_reap_bounded runs inside expire_epoch, and  *)
(* again in finish_active_result or reject_authentication while the child  *)
(* is not reaped; ChildBoundary::drop makes one last attempt.              *)
(***************************************************************************)
AfterReap ==
  \/ pc \in {"expire-kill", "expire-reap"} /\ Stop("TimedOut")
  \/ /\ pc \in {"finish-kill", "finish-reap"}
     /\ error' = IF round = Authenticate THEN "Authentication" ELSE error
     /\ pc' = "drop" /\ UNCHANGED toSup

\* Mutant: the original error is returned although the reap was not proved.
AfterReapFailureHidden ==
  \/ pc \in {"expire-kill", "expire-reap"} /\ Stop("TimedOut")
  \/ pc \in {"finish-kill", "finish-reap"} /\ pc' = "drop" /\ UNCHANGED <<error, toSup>>

AfterReapFailure ==
  \/ pc \in {"expire-kill", "expire-reap"} /\ Stop("Reap")
  \/ pc \in {"finish-kill", "finish-reap"} /\ error' = "Reap" /\ pc' = "drop"
     /\ UNCHANGED toSup

\* try_wait first, then SIGKILL through the pidfd; either may fail.
Terminate ==
  /\ pc \in Kills
  /\ \/ proc \in {"zombie", "reaped"} /\ proc' = "reaped" /\ AfterReap
     \/ /\ proc = "running" /\ UNCHANGED <<proc, error, toSup>>
        /\ pc' = IF pc = "expire-kill" THEN "expire-reap" ELSE "finish-reap"
     \/ proc # "reaped" /\ UNCHANGED proc /\ AfterReapFailure
  /\ UNCHANGED <<kind, verdict, round, toWorker, exit, workVars, proposal,
                 tree, place, taken, answer, noted>>

\* reap_until: a killed process may stay in the kernel past KILL_REAP_TIMEOUT.
ReapUntil ==
  /\ pc \in Reaps
  /\ \/ proc = "zombie" /\ proc' = "reaped" /\ AfterReap
     \/ UNCHANGED proc /\ AfterReapFailure
  /\ UNCHANGED <<kind, verdict, round, toWorker, exit, workVars, proposal,
                 tree, place, taken, answer, noted>>

DropBoundary ==
  /\ pc = "drop"
  /\ \/ proc \in {"zombie", "reaped"} /\ proc' = "reaped"
     \/ UNCHANGED proc
  /\ pc' = Leave
  /\ UNCHANGED <<kind, verdict, round, toWorker, toSup, exit, workVars, proposal,
                 tree, place, taken, error, answer, noted>>

-----------------------------------------------------------------------------
(***************************************************************************)
(* After the worker: linux/materialize.rs run, linux.rs inspect.           *)
(***************************************************************************)
\* Mutant: the proposal is decoded and taken at its word.
ReplayTrustsWorker ==
  /\ pc = "replay"
  /\ answer' = "verified"
  /\ pc' = IF kind = "materialize" THEN "audit" ELSE "done"
  /\ UNCHANGED <<kind, verdict, round, StageAndWorker, proposal, taken, error, noted>>

(* authorize_execution and the evidence checks: only outputs equal to the  *)
(* supervisor's own replay count; then the verification status decides.    *)
Replay ==
  /\ pc = "replay"
  /\ \/ /\ proposal # "replay"
        /\ pc' = Leave /\ error' = "IntegrityMismatch" /\ UNCHANGED answer
     \/ \* clone_source fails
        pc' = Leave /\ error' = "Source" /\ UNCHANGED answer
     \/ /\ proposal = "replay" /\ verdict = "stopped"
        /\ pc' = Leave /\ answer' = "stopped" /\ UNCHANGED error
     \/ /\ proposal = "replay" /\ verdict = "complete"
        /\ pc' = IF kind = "materialize" THEN "audit" ELSE "done"
        /\ answer' = "verified" /\ UNCHANGED error
  /\ UNCHANGED <<kind, verdict, round, StageAndWorker, proposal, taken, noted>>

\* audit_against the authorized IR
Audit ==
  /\ pc = "audit"
  /\ pc' \in (IF tree = "exact" THEN {"commit", "abort"} ELSE {"abort"})
  /\ UNCHANGED <<kind, verdict, round, StageAndWorker, proposal, taken, error,
                 answer, noted>>

\* Mutant: the rename replaces what it finds.
CommitReplaces ==
  /\ pc = "commit"
  /\ place' = "dest" /\ answer' = "committed" /\ pc' = "report"
  /\ UNCHANGED <<kind, verdict, round, toWorker, toSup, proc, exit, workVars,
                 proposal, tree, taken, error, noted>>

\* commit(): one no-replace rename, or a publication failure.
Commit ==
  /\ pc = "commit"
  /\ \/ ~taken /\ place' = "dest" /\ answer' = "committed" /\ pc' = "report"
     \/ pc' = "abort" /\ UNCHANGED <<place, answer>>
  /\ UNCHANGED <<kind, verdict, round, toWorker, toSup, proc, exit, workVars,
                 proposal, tree, taken, error, noted>>

\* The discard and parent-sync findings are collected; neither undoes the commit.
Report ==
  /\ pc = "report"
  /\ pc' = "done"
  /\ UNCHANGED <<kind, verdict, round, StageAndWorker, proposal, taken, error, answer, noted>>

\* abort_semantic and abort_infrastructure call abort() at most twice.
Abort ==
  /\ pc = "abort"
  /\ \/ place' = "none" /\ pc' = "done" /\ UNCHANGED <<tree, noted>>
     \/ /\ tree' \in {tree, "other"} /\ pc' = "abort-again"
        /\ noted' = (error = "none")
        /\ UNCHANGED place
  /\ UNCHANGED <<kind, verdict, round, toWorker, toSup, proc, exit, workVars,
                 proposal, taken, error, answer>>

\* Mutant: the second failure is dropped like the first.
AbortAgainSilent ==
  /\ pc = "abort-again"
  /\ \/ place' = "none" /\ UNCHANGED tree
     \/ tree' \in {tree, "other"} /\ UNCHANGED place
  /\ pc' = "done"
  /\ UNCHANGED <<kind, verdict, round, toWorker, toSup, proc, exit, workVars,
                 proposal, taken, error, answer, noted>>

AbortAgain ==
  /\ pc = "abort-again"
  /\ \/ place' = "none" /\ UNCHANGED <<tree, error>>
     \/ /\ tree' \in {tree, "other"} /\ UNCHANGED place
        /\ error' = IF error = "none" THEN error ELSE "Cleanup"
  /\ pc' = "done"
  /\ UNCHANGED <<kind, verdict, round, toWorker, toSup, proc, exit, workVars,
                 proposal, taken, answer, noted>>

-----------------------------------------------------------------------------
(***************************************************************************)
(* The worker (worker.rs).                                                 *)
(***************************************************************************)
HoldsStage == kind = "materialize" /\ got >= Bootstrap

\* receive_packet and the checks of that round's frame.
WorkerReceives ==
  /\ proc = "running" /\ ~work /\ toWorker # <<>>
  /\ got' = Head(toWorker)
  /\ toWorker' = Tail(toWorker)
  /\ work' = TRUE
  /\ UNCHANGED <<kind, verdict, supVars, toSup, proc, exit, jailed, tree, place, taken>>

\* no_new_privs, restrict_self, seccomp::install_and_verify
WorkerRestricts ==
  /\ proc = "running" /\ work /\ got = Bootstrap /\ ~jailed
  /\ jailed' = TRUE
  /\ UNCHANGED <<kind, verdict, supVars, toWorker, toSup, proc, exit, got, work,
                 tree, place, taken>>

\* ValidatedOperation::execute, part way through the stage files.
WorkerWrites ==
  /\ proc = "running" /\ work /\ got = Execute /\ HoldsStage
  /\ place = "stage" /\ tree = "empty"
  /\ tree' = "other"
  /\ UNCHANGED <<kind, verdict, supVars, toWorker, toSup, proc, exit, workVars,
                 place, taken>>

WorkerAnswers ==
  /\ proc = "running" /\ work /\ got # ExitAck
  /\ got = Bootstrap => jailed
  /\ (got = Execute /\ HoldsStage) => tree = "other"
  /\ toSup' = Append(toSup, [round |-> got, ok |-> TRUE,
                             body |-> IF got = Execute THEN "replay" ELSE "none"])
  /\ tree' = IF got = Execute /\ HoldsStage /\ verdict = "complete" THEN "exact" ELSE tree
  /\ work' = FALSE
  /\ UNCHANGED <<kind, verdict, supVars, toWorker, proc, exit, got, jailed, place, taken>>

WorkerExits ==
  /\ proc = "running" /\ work /\ got = ExitAck
  /\ proc' = "zombie" /\ exit' = "success"
  /\ UNCHANGED <<kind, verdict, supVars, toWorker, toSup, workVars, tree, place, taken>>

\* run() fails: receive_and_run sends an Error frame and the process exits.
WorkerFails ==
  /\ proc = "running" /\ got >= Bootstrap
  /\ toSup' = Append(toSup, [round |-> got, ok |-> FALSE, body |-> "none"])
  /\ proc' = "zombie" /\ exit' = "failure"
  /\ UNCHANGED <<kind, verdict, supVars, toWorker, workVars, tree, place, taken>>

\* A crash, a failed handshake, the supervisor's SIGKILL.
WorkerDies ==
  /\ proc = "running"
  /\ proc' = "zombie" /\ exit' = "failure"
  /\ UNCHANGED <<kind, verdict, supVars, toWorker, toSup, workVars, tree, place, taken>>

-----------------------------------------------------------------------------
(***************************************************************************)
(* A worker that does not follow worker.rs.  It can name a round only once *)
(* it has seen that round's frame; a Result needs only the operation id.   *)
(***************************************************************************)
Reads == {"send", "recv", "check"}   \* the supervisor will read another frame

ForgeFrame ==
  /\ Untrusted /\ proc = "running" /\ pc \in Reads /\ Len(toSup) < SpareFrames
  /\ \/ toSup' = Append(toSup, [round |-> 1, ok |-> FALSE, body |-> "none"])
     \/ \E r \in 1..(Execute - 1) :
          r <= got /\ toSup' = Append(toSup, [round |-> r, ok |-> TRUE, body |-> "none"])
     \/ \E b \in {"replay", "forged"} :
          /\ got >= Bootstrap
          /\ toSup' = Append(toSup, [round |-> Execute, ok |-> TRUE, body |-> b])
  /\ UNCHANGED <<kind, verdict, supVars, toWorker, proc, exit, workVars, tree, place, taken>>

\* Its stage descriptor reaches the directory wherever it is named.
Scribble ==
  /\ Untrusted /\ proc = "running" /\ HoldsStage /\ place # "none"
  /\ tree' \in Trees \ {tree}
  /\ UNCHANGED <<kind, verdict, supVars, toWorker, toSup, proc, exit, workVars, place, taken>>

ExitEarly ==
  /\ Untrusted /\ proc = "running"
  /\ proc' = "zombie" /\ exit' = "success"
  /\ UNCHANGED <<kind, verdict, supVars, toWorker, toSup, workVars, tree, place, taken>>

\* Another process creates the destination first.
TakeDestination ==
  /\ place # "dest" /\ ~taken
  /\ taken' = TRUE
  /\ UNCHANGED <<kind, verdict, supVars, toWorker, toSup, proc, exit, workVars, tree, place>>

-----------------------------------------------------------------------------
Supervisor ==
  \/ CreateStage \/ SpawnFails \/ SpawnChild \/ BindPidfd \/ TerminateUnbound
  \/ SendFrame \/ PeerGone \/ SeeExit \/ ReceiveFrame
  \/ CheckPasses \/ CheckFails \/ WaitForExit \/ Expire
  \/ Terminate \/ ReapUntil \/ DropBoundary
  \/ Replay \/ Audit \/ Commit \/ Report \/ Abort \/ AbortAgain

Worker ==
  \/ WorkerReceives \/ WorkerRestricts \/ WorkerWrites \/ WorkerAnswers
  \/ WorkerExits \/ WorkerFails \/ WorkerDies

Next ==
  \/ Supervisor \/ ExitWaitFails \/ Worker
  \/ ForgeFrame \/ Scribble \/ ExitEarly \/ TakeDestination

Spec == Init /\ [][Next]_vars

(* Every wait of the supervisor is a poll with a deadline, so its own next *)
(* step is always eventually taken.  No wait is owed a failure, and        *)
(* nothing is assumed of the worker.                                       *)
FairSpec == Spec /\ WF_vars(Supervisor)

-----------------------------------------------------------------------------
(***************************************************************************)
(* Properties                                                              *)
(***************************************************************************)
\* The types of the variables; never more than the last two frames
\* are in flight.
TypeOK ==
  /\ kind \in {"inspect", "materialize"}
  /\ verdict \in {"complete", "stopped"}
  /\ pc \in {"stage", "spawn", "bind", "unbound", "check", "drop", "replay", "audit",
             "commit", "report", "abort", "abort-again", "done"} \cup Polls \cup Kills \cup Reaps
  /\ round \in Rounds
  /\ toWorker \in Seq(Rounds) /\ Len(toWorker) <= 2
  /\ toSup \in Seq(Frame)
  /\ proc \in {"none", "running", "zombie", "reaped"}
  /\ exit \in {"none", "success", "failure"}
  /\ got \in 0..6 /\ work \in BOOLEAN /\ jailed \in BOOLEAN
  /\ proposal \in Bodies
  /\ tree \in Trees /\ place \in {"none", "stage", "dest"} /\ taken \in BOOLEAN
  /\ error \in ErrorKinds
  /\ answer \in {"none", "setup-failed", "stopped", "verified", "committed"}
  /\ noted \in BOOLEAN

(* What is at the destination is, and stays, exactly the tree the          *)
(* supervisor's own replay authorized: a worker that lies in its result or *)
(* keeps writing through its stage descriptor after the audit or after the *)
(* rename cannot change it (reap before replay, audit and commit).         *)
PublishedIsAuthorized ==
  place = "dest" => tree = "exact" /\ verdict = "complete" /\ proposal = "replay"

(* The source descriptor leaves the supervisor only for a process that is  *)
(* really restricted, whatever its readiness frame said                    *)
(* (observe_restricted_child before the Source frame).                     *)
SourceOnlyToRestricted ==
  ((\E n \in DOMAIN toWorker : toWorker[n] = Source) \/ got >= Source) => jailed

(* An operation that returns while its child is not reaped says so: a      *)
(* worker never outlives a call that reports anything else                 *)
(* (finish_active_result, reject_authentication, ChildBoundary::drop).     *)
NoSilentOrphan ==
  (pc = "done" /\ proc \in {"running", "zombie"}) => error \in {"Reap", "Cleanup"}

(* A stage that outlives the call is reported: as a cleanup finding of the *)
(* outcome, or as the Cleanup error kind (abort_infrastructure).           *)
LeftStageReported ==
  (pc = "done" /\ place = "stage") => noted \/ error = "Cleanup"

(* A VerifiedArchive is returned only when the supervisor's replay agreed  *)
(* with the worker and every member verified; an infrastructure error and  *)
(* an archive outcome exclude each other.                                  *)
AnswerIsReplayed ==
  pc = "done" =>
    /\ answer \in {"verified", "committed"} => proposal = "replay" /\ verdict = "complete"
    /\ (error = "none") <=> (answer # "none")

(* Every operation returns, although the worker may stall at any point and *)
(* ignore every frame (EpochDeadline on every poll).                       *)
SessionEnds == <>(pc = "done")

(* docs/semantic-record.md: "If termination and reap cannot be proved, the *)
(* active writer wrapper deliberately abandons the stage owner instead of  *)
(* running recursive cleanup", and "the supported supervisor reuses the    *)
(* proven lifecycle": the stage is removed only once no live worker holds  *)
(* a descriptor of it.                                                     *)
CleanupOnlyAfterReap ==
  pc \in {"abort", "abort-again"} => ~(proc = "running" /\ HoldsStage)

-----------------------------------------------------------------------------
(***************************************************************************)
(* The supervised operation implements the same contract as the stage      *)
(* lifecycle in one process.                                               *)
(***************************************************************************)
SupReport ==
  IF pc # "done" THEN "running"
  ELSE IF answer = "committed" THEN "committed" ELSE "refused"

SupDest ==
  IF place = "dest" /\ ~taken THEN "call" ELSE IF taken THEN "foreign" ELSE "absent"

P == INSTANCE Publication WITH
       Ops <- {"call"}, Dests <- {"d"}, Target <- [o \in {"call"} |-> "d"],
       Foreign <- "foreign", Absent <- "absent",
       dest <- [d \in {"d"} |-> SupDest],
       report <- [o \in {"call"} |-> SupReport],
       sound <- IF verdict = "complete" THEN {"call"} ELSE {}

(* Supervised materialization publishes as Publication says: once, without *)
(* replacing, only a sound archive, and it answers truthfully.             *)
ImplementsPublication == P!AbsSpec
=============================================================================
