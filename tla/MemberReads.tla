----------------------------- MODULE MemberReads -----------------------------
(***************************************************************************)
(* Reading members through a supervised VerifiedArchive                    *)
(* (WorkerReadAuthority in crates/sealr/src/supervised/linux.rs).  Threads *)
(* that share the capability queue on one ReadCoordinator, a mutex and a   *)
(* condition variable; the holder of the permit runs a fresh worker, which *)
(* streams the whole member through a pipe while the supervisor polls the  *)
(* pipe, the control socket and the pidfd under one absolute deadline.     *)
(*                                                                         *)
(* The rounds that precede the stream are those of WorkerSession and are   *)
(* one step here.  The member is a sequence of Chunks chunks, of which a   *)
(* prefix read keeps the first ones.  A worker may crash, stall or, with   *)
(* Untrusted, write and announce what it likes.  SupervisionErrorKind is   *)
(* told apart as far as the properties do: "TimedOut", "Reap", and         *)
(* "Failed" for every other kind.                                          *)
(***************************************************************************)
EXTENDS Naturals, Sequences

CONSTANTS
  Readers,    \* read_member and read_member_prefix calls
  Chunks,     \* expected.actual_bytes, in chunks
  Keep,       \* [Readers -> 0..Chunks]: expected.retained_bytes of each call
  PipeRoom,   \* chunks the pipe holds
  Untrusted   \* a worker need not follow worker.rs

ASSUME ChunksAssumption == Chunks \in Nat /\ PipeRoom \in Nat \ {0}
ASSUME KeepAssumption == Keep \in [Readers -> 0..Chunks]
ASSUME UntrustedAssumption == Untrusted \in BOOLEAN

VARIABLES
  active,    \* ReadCoordinator::active
  pc,        \* where each call is
  timed,     \* its last wait_timeout reported a timeout
  result,    \* what the call returns: an error, or "ok" with the output
  drain,     \* the locals of drain_member_read, output included
  proc,      \* the child: "none", "running", "zombie" or "reaped"
  link       \* what the supervisor can observe of it

queueVars == <<active, timed>>
vars == <<active, pc, timed, result, drain, proc, link>>

Chunk == {"good", "bad"}

\* output, actual_bytes, whether the running CRC and SHA-256 are those of the
\* member's start, eof and result_observed.
Locals == [out : Seq(Chunk), count : 0..Chunks, clean : BOOLEAN,
           eof : BOOLEAN, seen : BOOLEAN]
FreshLocals == [out |-> <<>>, count |-> 0, clean |-> TRUE, eof |-> FALSE, seen |-> FALSE]

\* Chunks in the pipe, how many were ever written, whether no writer is left,
\* the control frames not yet received, and the exit status.
Links == [pipe : Seq(Chunk), sent : 0..(Chunks + 1), closed : BOOLEAN,
          frames : Seq({"result", "error"}), exit : {"none", "success", "failure"}]
FreshLink == [pipe |-> <<>>, sent |-> 0, closed |-> FALSE, frames |-> <<>>, exit |-> "none"]

\* The calls between acquire's success and the permit's drop.
Holding == {"reserve", "spawn", "handshake", "drain", "ack", "exit", "expire-kill",
            "expire-reap", "finish-kill", "finish-reap", "drop", "release", "validate"}

Init ==
  /\ active = FALSE
  /\ pc = [r \in Readers |-> "request"]
  /\ timed = [r \in Readers |-> FALSE]
  /\ result = [r \in Readers |-> "none"]
  /\ drain = [r \in Readers |-> FreshLocals]
  /\ proc = [r \in Readers |-> "none"]
  /\ link = [r \in Readers |-> FreshLink]

Goto(r, to) == pc' = [pc EXCEPT ![r] = to]
Return(r, e) == result' = [result EXCEPT ![r] = e]

\* A `?` in the active part of the read: the locals and the supervisor's end
\* of the pipe are gone, and finish_active_result follows.
Stop(r, e) ==
  /\ Goto(r, "finish-kill") /\ Return(r, e)
  /\ drain' = [drain EXCEPT ![r] = FreshLocals]
  /\ link' = [link EXCEPT ![r] = FreshLink]

\* The read goes on without an error.
Continue(r, to) == Goto(r, to) /\ UNCHANGED <<result, drain, link>>

-----------------------------------------------------------------------------
(***************************************************************************)
(* The queue.                                                              *)
(***************************************************************************)
\* create_member_read_request and its validation run before the permit.
BuildRequest(r) ==
  /\ pc[r] = "request"
  /\ \/ Goto(r, "acquire") /\ UNCHANGED result
     \/ Goto(r, "done") /\ Return(r, "Failed")
  /\ UNCHANGED <<queueVars, drain, proc, link>>

\* Mutant: the permit is taken without looking again after the wake-up.
AcquireIfNotified(r) ==
  /\ pc[r] \in {"acquire", "woken"}
  /\ \/ /\ pc[r] = "woken" \/ ~active
        /\ active' = TRUE /\ Goto(r, "reserve") /\ UNCHANGED result
     \/ /\ pc[r] = "acquire" /\ active
        /\ Goto(r, "wait") /\ UNCHANGED <<active, result>>
  /\ UNCHANGED <<timed, drain, proc, link>>

(* ReadCoordinator::acquire: one pass of its loop with the mutex held.  A  *)
(* call whose wait timed out still takes a permit that is free; one that   *)
(* may wait again can find the time over first.                            *)
Acquire(r) ==
  /\ pc[r] \in {"acquire", "woken"}
  /\ timed' = [timed EXCEPT ![r] = FALSE]
  /\ \/ ~active /\ active' = TRUE /\ Goto(r, "reserve") /\ UNCHANGED result
     \/ /\ active /\ ~timed[r]
        /\ Goto(r, "wait") /\ UNCHANGED <<active, result>>
     \/ active /\ Goto(r, "done") /\ Return(r, "TimedOut") /\ UNCHANGED active
  /\ UNCHANGED <<drain, proc, link>>

\* wait_timeout returns without a notification: its time is over, or spuriously.
WakeUp(r) ==
  /\ pc[r] = "wait"
  /\ Goto(r, "woken")
  /\ timed' = [timed EXCEPT ![r] = TRUE]
  /\ UNCHANGED <<active, result, drain, proc, link>>

WakeSpuriously(r) ==
  /\ pc[r] = "wait"
  /\ Goto(r, "woken")
  /\ UNCHANGED <<queueVars, result, drain, proc, link>>

\* Mutant: the permit is freed and nobody is told.
ReleaseSilently(r) ==
  /\ pc[r] = "release"
  /\ active' = FALSE
  /\ Goto(r, "done")
  /\ UNCHANGED <<timed, result, drain, proc, link>>

\* ReadPermit::drop: notify_one wakes one call that waits, if any.
Release(r) ==
  /\ pc[r] = "release"
  /\ active' = FALSE
  /\ LET waiting == {q \in Readers : pc[q] = "wait"}
     IN  IF waiting = {} THEN Goto(r, "done")
         ELSE \E q \in waiting :
                pc' = [pc EXCEPT ![r] = "done", ![q] = "woken"]
  /\ UNCHANGED <<timed, result, drain, proc, link>>

-----------------------------------------------------------------------------
(***************************************************************************)
(* The worker process and the handshake.                                   *)
(***************************************************************************)
\* try_reserve_exact of the authorized size.
Reserve(r) ==
  /\ pc[r] = "reserve"
  /\ \/ Goto(r, "spawn") /\ UNCHANGED result
     \/ Goto(r, "release") /\ Return(r, "Failed")
  /\ UNCHANGED <<queueVars, drain, proc, link>>

\* The child runs under a pidfd; or nothing was started; or it has no pidfd
\* and terminate_unbound_child_bounded could not reap it.
Spawn(r) ==
  /\ pc[r] = "spawn"
  /\ \/ /\ proc' = [proc EXCEPT ![r] = "running"]
        /\ Goto(r, "handshake") /\ UNCHANGED result
     \/ Goto(r, "release") /\ Return(r, "Failed") /\ UNCHANGED proc
     \/ /\ proc' = [proc EXCEPT ![r] = "running"]
        /\ Goto(r, "release") /\ Return(r, "Reap")
  /\ UNCHANGED <<queueVars, drain, link>>

(* The rounds of WorkerSession and the MemberRead round; they end with the *)
(* Proceed frame, which carries the write end of the pipe.                 *)
Handshake(r) ==
  /\ pc[r] = "handshake"
  /\ \/ proc[r] = "running" /\ Continue(r, "drain")
     \/ \E e \in {"Failed", "TimedOut"} : Stop(r, e)
  /\ UNCHANGED <<queueVars, proc>>

-----------------------------------------------------------------------------
(***************************************************************************)
(* drain_member_read                                                       *)
(***************************************************************************)
\* The next chunk leaves the pipe; the first Keep chunks are kept.
TakeChunk(r) ==
  LET c == Head(link[r].pipe)
      d == drain[r]
  IN  /\ drain' = [drain EXCEPT ![r] =
                     [out |-> IF Len(d.out) < Keep[r] THEN Append(d.out, c) ELSE d.out,
                      count |-> d.count + 1,
                      clean |-> d.clean /\ c = "good",
                      eof |-> d.eof, seen |-> d.seen]]
      /\ link' = [link EXCEPT ![r].pipe = Tail(@)]
      /\ UNCHANGED <<pc, result>>

\* Mutant: the stream may be longer than the authorized size.
DrainChunkUnbounded(r) ==
  /\ pc[r] = "drain" /\ link[r].pipe # <<>>
  /\ TakeChunk(r)
  /\ UNCHANGED <<queueVars, proc>>

DrainChunk(r) ==
  /\ pc[r] = "drain" /\ link[r].pipe # <<>>
  /\ IF drain[r].count + 1 > Chunks THEN Stop(r, "Failed") ELSE TakeChunk(r)
  /\ UNCHANGED <<queueVars, proc>>

DrainEof(r) ==
  /\ pc[r] = "drain" /\ link[r].pipe = <<>> /\ link[r].closed /\ ~drain[r].eof
  /\ drain' = [drain EXCEPT ![r].eof = TRUE]
  /\ UNCHANGED <<queueVars, pc, result, proc, link>>

\* One correlated MemberReadResult; anything else, a second one too, is refused.
DrainFrame(r) ==
  /\ pc[r] = "drain" /\ link[r].frames # <<>> /\ ~(drain[r].eof /\ drain[r].seen)
  /\ IF Head(link[r].frames) = "result" /\ ~drain[r].seen
     THEN /\ drain' = [drain EXCEPT ![r].seen = TRUE]
          /\ link' = [link EXCEPT ![r].frames = Tail(@)]
          /\ UNCHANGED <<pc, result>>
     ELSE Stop(r, "Failed")
  /\ UNCHANGED <<queueVars, proc>>

\* The pidfd is ready before both ends were seen; the reap may fail.
DrainExit(r) ==
  /\ pc[r] = "drain" /\ ~(drain[r].eof /\ drain[r].seen)
  /\ proc[r] = "zombie"
  /\ \/ proc' = [proc EXCEPT ![r] = "reaped"] /\ Stop(r, "Failed")
     \/ UNCHANGED proc /\ Stop(r, "Reap")
  /\ UNCHANGED queueVars

\* Mutant: the drain loop waits without a deadline.
DrainExpiresNever(r) == FALSE /\ UNCHANGED vars

\* The absolute deadline, or a socket or pipe that fails.
DrainExpires(r) ==
  /\ pc[r] = "drain" /\ ~(drain[r].eof /\ drain[r].seen)
  /\ \E e \in {"TimedOut", "Failed"} : Stop(r, e)
  /\ UNCHANGED <<queueVars, proc>>

DrainEnds(r) ==
  /\ pc[r] = "drain" /\ drain[r].eof /\ drain[r].seen
  /\ IF drain[r].count = Chunks /\ Len(drain[r].out) = Keep[r]
     THEN Continue(r, "ack") ELSE Stop(r, "Failed")
  /\ UNCHANGED <<queueVars, proc>>

-----------------------------------------------------------------------------
(***************************************************************************)
(* The exit, the last validation, and every way to stop.                   *)
(***************************************************************************)
SendAck(r) ==
  /\ pc[r] = "ack"
  /\ IF proc[r] = "running" THEN Continue(r, "exit") ELSE Stop(r, "Failed")
  /\ UNCHANGED <<queueVars, proc>>

\* wait_for_exit: the status is read by the reap itself.
WaitForExit(r) ==
  /\ pc[r] = "exit" /\ proc[r] = "zombie"
  /\ proc' = [proc EXCEPT ![r] = "reaped"]
  /\ IF link[r].exit = "success" THEN Continue(r, "validate") ELSE Stop(r, "Failed")
  /\ UNCHANGED queueVars

\* wait_for_exit: try_wait, poll and the reap may fail at any time.
ExitWaitFails(r) ==
  /\ pc[r] = "exit"
  /\ Stop(r, "Reap")
  /\ UNCHANGED <<queueVars, proc>>

\* The deadline of the last frame or of the exit: expire_epoch.
Expire(r) ==
  /\ pc[r] \in {"ack", "exit"}
  /\ Continue(r, "expire-kill")
  /\ UNCHANGED <<queueVars, proc>>

\* Mutant: the retained bytes alone are compared.
ValidateRetainedOnly(r) ==
  /\ pc[r] = "validate"
  /\ IF \A n \in DOMAIN drain[r].out : drain[r].out[n] = "good"
     THEN Goto(r, "drop") /\ Return(r, "ok") /\ UNCHANGED <<drain, link>>
     ELSE Stop(r, "Failed")
  /\ UNCHANGED <<queueVars, proc>>

\* validate_member_read_stream_result: the length, CRC and SHA-256 that the
\* source determines; reading the source again may fail.
Validate(r) ==
  /\ pc[r] = "validate"
  /\ \/ /\ drain[r].count = Chunks /\ drain[r].clean
        /\ Goto(r, "drop") /\ Return(r, "ok") /\ UNCHANGED <<drain, link>>
     \/ Stop(r, "Failed")
  /\ UNCHANGED <<queueVars, proc>>

\* expire_epoch reports the timeout to its caller, which finishes the read.
AfterReap(r) ==
  \/ pc[r] \in {"expire-kill", "expire-reap"} /\ Stop(r, "TimedOut")
  \/ pc[r] \in {"finish-kill", "finish-reap"} /\ Continue(r, "drop")

\* Mutant: the original error is returned although the reap was not proved.
AfterReapFailureHidden(r) == Continue(r, "drop")

AfterReapFailure(r) ==
  \/ pc[r] \in {"expire-kill", "expire-reap"} /\ Stop(r, "Reap")
  \/ /\ pc[r] \in {"finish-kill", "finish-reap"}
     /\ Goto(r, "drop") /\ Return(r, "Reap") /\ UNCHANGED <<drain, link>>

\* terminate_and_reap_bounded up to the signal; try_wait and the signal may fail.
Terminate(r) ==
  /\ pc[r] \in {"expire-kill", "finish-kill"}
  /\ \/ /\ proc[r] \in {"zombie", "reaped"}
        /\ proc' = [proc EXCEPT ![r] = "reaped"] /\ AfterReap(r)
     \/ /\ proc[r] = "running" /\ UNCHANGED proc
        /\ Continue(r, IF pc[r] = "expire-kill" THEN "expire-reap" ELSE "finish-reap")
     \/ proc[r] # "reaped" /\ UNCHANGED proc /\ AfterReapFailure(r)
  /\ UNCHANGED queueVars

ReapUntil(r) ==
  /\ pc[r] \in {"expire-reap", "finish-reap"}
  /\ \/ /\ proc[r] = "zombie"
        /\ proc' = [proc EXCEPT ![r] = "reaped"] /\ AfterReap(r)
     \/ UNCHANGED proc /\ AfterReapFailure(r)
  /\ UNCHANGED queueVars

\* ChildBoundary::drop; the permit is dropped after it.
DropBoundary(r) ==
  /\ pc[r] = "drop"
  /\ \/ proc[r] \in {"zombie", "reaped"} /\ proc' = [proc EXCEPT ![r] = "reaped"]
     \/ UNCHANGED proc
  /\ Continue(r, "release")
  /\ UNCHANGED queueVars

-----------------------------------------------------------------------------
(***************************************************************************)
(* The worker (run_member_read in worker.rs).  What it writes matters      *)
(* while the supervisor drains; later only its exit does.                  *)
(***************************************************************************)
Streams(r) == proc[r] = "running" /\ pc[r] = "drain"

Put(r, c) ==
  /\ ~link[r].closed /\ Len(link[r].pipe) < PipeRoom
  /\ link' = [link EXCEPT ![r].pipe = Append(@, c), ![r].sent = @ + 1]

\* execute_into writes the verified member and nothing else.
WorkerWrites(r) ==
  /\ Streams(r) /\ link[r].sent < Chunks
  /\ Put(r, "good")
  /\ UNCHANGED <<queueVars, pc, result, drain, proc>>

\* The pipe is closed before the result is sent.
WorkerReports(r) ==
  /\ Streams(r) /\ ~link[r].closed /\ link[r].sent = Chunks
  /\ link' = [link EXCEPT ![r].closed = TRUE, ![r].frames = Append(@, "result")]
  /\ UNCHANGED <<queueVars, pc, result, drain, proc>>

\* The process is over and its descriptors are closed.  A read that neither
\* drains nor waits for the exit looks at none of it.
EndWith(r, status, last) ==
  /\ proc' = [proc EXCEPT ![r] = "zombie"]
  /\ link' = IF pc[r] \notin {"drain", "ack", "exit"} THEN link
             ELSE [link EXCEPT ![r].closed = TRUE, ![r].frames = @ \o last,
                               ![r].exit = status]

\* Cleanly after the acknowledgement; or killed; or with an Error frame.
WorkerEnds(r) ==
  /\ proc[r] = "running"
  /\ \/ pc[r] = "exit" /\ EndWith(r, "success", <<>>)
     \/ \E last \in {<<>>, <<"error">>} : EndWith(r, "failure", last)
  /\ UNCHANGED <<queueVars, pc, result, drain>>

(***************************************************************************)
(* A worker that does not follow worker.rs: other bytes, too many bytes,   *)
(* results at any time, an early clean exit.                               *)
(***************************************************************************)
Deviates(r) ==
  /\ Untrusted /\ Streams(r)
  /\ \/ /\ link[r].sent <= Chunks
        /\ \E c \in Chunk : Put(r, c)
        /\ UNCHANGED proc
     \/ link' = [link EXCEPT ![r].closed = TRUE] /\ UNCHANGED proc
     \/ /\ Len(link[r].frames) < 2
        /\ link' = [link EXCEPT ![r].frames = Append(@, "result")]
        /\ UNCHANGED proc
     \/ EndWith(r, "success", <<>>)
  /\ UNCHANGED <<queueVars, pc, result, drain>>

-----------------------------------------------------------------------------
ReadStep(r) ==
  \/ BuildRequest(r) \/ Acquire(r) \/ WakeUp(r) \/ Reserve(r) \/ Spawn(r)
  \/ Handshake(r) \/ DrainChunk(r) \/ DrainEof(r) \/ DrainFrame(r)
  \/ DrainExit(r) \/ DrainExpires(r) \/ DrainEnds(r) \/ SendAck(r)
  \/ WaitForExit(r) \/ Expire(r) \/ Validate(r) \/ Terminate(r)
  \/ ReapUntil(r) \/ DropBoundary(r) \/ Release(r)

Next ==
  \E r \in Readers :
    \/ ReadStep(r) \/ ExitWaitFails(r) \/ WakeSpuriously(r)
    \/ WorkerWrites(r) \/ WorkerReports(r) \/ WorkerEnds(r) \/ Deviates(r)

Spec == Init /\ [][Next]_vars

(* A thread that can run does run, and its timers fire: wait_timeout, the  *)
(* poll deadlines and reap_until all end.  No wait is owed a failure, and  *)
(* nothing is assumed of a worker.                                         *)
FairSpec == Spec /\ \A r \in Readers : WF_vars(ReadStep(r))

-----------------------------------------------------------------------------
(***************************************************************************)
(* Properties                                                              *)
(***************************************************************************)
\* The types of the variables; a call never holds more than it was authorized
\* to keep, nor counts more than the authorized size.
TypeOK ==
  /\ active \in BOOLEAN
  /\ pc \in [Readers -> Holding \cup {"request", "acquire", "wait", "woken", "done"}]
  /\ timed \in [Readers -> BOOLEAN]
  /\ result \in [Readers -> {"none", "ok", "TimedOut", "Reap", "Failed"}]
  /\ \A r \in Readers : drain[r] \in Locals /\ Len(drain[r].out) <= Keep[r]
  /\ proc \in [Readers -> {"none", "running", "zombie", "reaped"}]
  /\ \A r \in Readers : link[r] \in Links /\ Len(link[r].pipe) <= PipeRoom

(* Bytes leave a read only when the worker closed the pipe at the exact    *)
(* length, sent one result, exited cleanly and was reaped, and the whole   *)
(* member had the authorized digest: a prefix read returns nothing when    *)
(* only the part it does not keep was wrong.                               *)
OkMeansWholeMember ==
  \A r \in Readers : result[r] = "ok" =>
    /\ drain[r].eof /\ drain[r].seen /\ drain[r].clean /\ drain[r].count = Chunks
    /\ Len(drain[r].out) = Keep[r]
    /\ \A n \in 1..Keep[r] : drain[r].out[n] = "good"
    /\ proc[r] = "reaped" /\ link[r].exit = "success"

(* At most one call holds the permit, and the flag says whether one does,  *)
(* through every timeout, wake-up and error path (ReadCoordinator).        *)
OnePermit ==
  /\ \A q, r \in Readers : (pc[q] \in Holding /\ pc[r] \in Holding) => q = r
  /\ active <=> \E r \in Readers : pc[r] \in Holding

(* No wake-up is lost: while the permit is free, a call that waits for it  *)
(* is never alone, another call is awake and about to look (notify_one,    *)
(* and timed_out() && *active).                                            *)
NoLostWakeup ==
  (~active /\ \E r \in Readers : pc[r] = "wait") =>
    \E r \in Readers : pc[r] \in {"woken", "acquire"}

(* A read that gives up the permit beside a worker it has not reaped       *)
(* returns the reap failure, whichever of its failures came first: no      *)
(* caller gets bytes, a timeout or another error while that worker may     *)
(* still run beside the next read (finish_active_result,                   *)
(* ChildBoundary::drop before ReadPermit::drop).                           *)
UnreapedIsReported ==
  \A r \in Readers :
    (pc[r] \in {"release", "done"} /\ proc[r] \in {"running", "zombie"}) => result[r] = "Reap"

(* docs/semantic-record.md: "Error paths terminate and reap the child      *)
(* before releasing the permit."                                           *)
PermitAfterReap ==
  \A r \in Readers : pc[r] \in {"release", "done"} => proc[r] \notin {"running", "zombie"}

(* Every read returns, although workers stall and the queue is contended.  *)
EveryReadEnds == \A r \in Readers : <>(pc[r] = "done")
=============================================================================
