------------------------- MODULE WorkerSessionProofs -------------------------
(***************************************************************************)
(* Proofs about the supervised session.  SessionInv says what each place   *)
(* in the supervisor's code has established; it is inductive, and the      *)
(* safety properties of WorkerSession follow from it.                      *)
(***************************************************************************)
EXTENDS WorkerSession, TLAPS

AfterWorker == {"replay", "audit", "commit", "report"}
Aborting == {"abort", "abort-again"}
Stopping == {"finish-kill", "finish-reap", "drop"}
Working == {"stage", "spawn", "bind", "unbound", "send", "recv", "check", "exit",
            "expire-kill", "expire-reap", "replay"}

\* The child exists from spawn on, and is reaped before its work is used.
ChildInv ==
  /\ pc \in {"stage", "spawn"} => proc = "none"
  /\ pc \in AfterWorker => proc = "reaped"
  /\ (pc = "drop" /\ proc # "reaped") => error = "Reap"
  /\ (pc \in Aborting \cup {"done"} /\ proc \in {"running", "zombie"})
       => error \in {"Reap", "Cleanup"}

\* Nothing is answered before the replay, and an error excludes an answer.
AnswerInv ==
  /\ pc \in Working => error = "none" /\ answer = "none"
  /\ pc \in Stopping => error # "none" /\ answer = "none"
  /\ pc \in {"audit", "commit", "report"} => error = "none" /\ answer # "none"
  /\ pc \in Aborting \cup {"done"} => (error = "none" <=> answer # "none")
  /\ answer \in {"verified", "committed"} => proposal = "replay" /\ verdict = "complete"
  /\ pc \in {"audit", "commit", "report"} => answer \in {"verified", "committed"}

\* The tree does not change between its audit, its rename and ever after.
TreeInv ==
  /\ pc \in {"commit", "report"} => tree = "exact"
  /\ place = "dest" =>
       /\ pc \in {"report", "done"}
       /\ proc = "reaped" /\ tree = "exact"
       /\ answer = "committed"

\* Frames run at most one round ahead of the checks.
RoundInv ==
  /\ round > Bootstrap => jailed
  /\ pc \in {"recv", "check"} => round # ExitAck
  /\ got <= round
  /\ \A n \in DOMAIN toWorker : toWorker[n] <= round

SessionTypes ==
  /\ pc \in {"stage", "spawn", "bind", "unbound", "check", "drop", "replay", "audit",
             "commit", "report", "abort", "abort-again", "done"} \cup Polls \cup Kills \cup Reaps
  /\ round \in Rounds
  /\ toWorker \in Seq(Rounds)
  /\ got \in 0..6
  /\ jailed \in BOOLEAN
  /\ proc \in {"none", "running", "zombie", "reaped"}

SessionInv == SessionTypes /\ ChildInv /\ AnswerInv /\ TreeInv /\ RoundInv

-----------------------------------------------------------------------------
(***************************************************************************)
(* Inductiveness                                                           *)
(***************************************************************************)
\* The frames still in flight after a send and after a receive.
LEMMA FlightAppend ==
  ASSUME NEW s \in Seq(Rounds), NEW r \in Rounds, \A n \in DOMAIN s : s[n] <= r
  PROVE  /\ Append(s, r) \in Seq(Rounds)
         /\ \A n \in DOMAIN Append(s, r) : Append(s, r)[n] <= r
  BY DEF Rounds

\* Receiving the oldest frame puts no new frame in flight (WorkerReceives).
LEMMA FlightTail ==
  ASSUME NEW s \in Seq(Rounds), s # <<>>, NEW r \in Rounds, \A n \in DOMAIN s : s[n] <= r
  PROVE  /\ Tail(s) \in Seq(Rounds)
         /\ Head(s) \in Rounds /\ Head(s) <= r
         /\ \A n \in DOMAIN Tail(s) : Tail(s)[n] <= r
  BY DEF Rounds

\* Before the worker is spawned nothing of the invariant is at stake.
THEOREM SessionInvInit == Init => SessionInv
<1> SUFFICES ASSUME Init PROVE SessionInv
  OBVIOUS
<1>1. SessionTypes
  <2>1. toWorker \in Seq(Rounds)
    BY DEF Init
  <2>2. jailed \in BOOLEAN
    BY DEF Init
  <2> QED BY <2>1, <2>2 DEF Init, SessionTypes, Rounds
<1>2. ChildInv /\ AnswerInv /\ TreeInv
  BY DEF Init, ChildInv, AnswerInv, TreeInv, AfterWorker, Aborting, Stopping, Working
<1>3. RoundInv
  BY DEF Init, RoundInv, Bootstrap, ExitAck
<1> QED BY <1>1, <1>2, <1>3 DEF SessionInv

USE DEF SessionInv, SessionTypes, ChildInv, AnswerInv, TreeInv, RoundInv, Rounds,
        AfterWorker, Aborting, Stopping, Working, Polls, Kills, Reaps,
        Authenticate, Bootstrap, Source, Execute, ExitAck, workVars, supVars

\* Every step of linux.rs and linux/materialize.rs keeps the invariant.
LEMMA SupervisorKeeps ==
  ASSUME SessionInv, Supervisor
  PROVE  SessionInv'
<1>1. CASE CreateStage
  BY <1>1 DEF CreateStage
<1>2. CASE SpawnFails
  BY <1>2 DEF SpawnFails, Leave, StageAndWorker
<1>3. CASE SpawnChild
  BY <1>3 DEF SpawnChild
<1>4. CASE BindPidfd
  BY <1>4 DEF BindPidfd, StageAndWorker
<1>5. CASE TerminateUnbound
  BY <1>5 DEF TerminateUnbound, Leave
<1>6. CASE SendFrame
  BY FlightAppend, <1>6 DEF SendFrame
<1>7. CASE PeerGone
  BY <1>7 DEF PeerGone, Stop
<1>8. CASE SeeExit
  BY <1>8 DEF SeeExit, Stop
<1>9. CASE ReceiveFrame
  BY <1>9 DEF ReceiveFrame, Stop
<1>10. CASE CheckPasses
  BY <1>10 DEF CheckPasses, ObservedRestricted, StageAndWorker
<1>11. CASE CheckFails
  BY <1>11 DEF CheckFails, Stop
<1>12. CASE WaitForExit
  BY <1>12 DEF WaitForExit, Stop
<1>13. CASE Expire
  BY <1>13 DEF Expire, StageAndWorker
<1>14. CASE Terminate
  BY <1>14 DEF Terminate, AfterReap, AfterReapFailure, Stop
<1>15. CASE ReapUntil
  BY <1>15 DEF ReapUntil, AfterReap, AfterReapFailure, Stop
<1>16. CASE DropBoundary
  BY <1>16 DEF DropBoundary, Leave
<1>17. CASE Replay
  BY <1>17 DEF Replay, Leave, StageAndWorker
<1>18. CASE Audit
  BY <1>18 DEF Audit, StageAndWorker
<1>19. CASE Commit
  BY <1>19 DEF Commit
<1>20. CASE Report
  BY <1>20 DEF Report, StageAndWorker
<1>21. CASE Abort
  BY <1>21 DEF Abort
<1>22. CASE AbortAgain
  BY <1>22 DEF AbortAgain
<1> QED BY <1>1, <1>2, <1>3, <1>4, <1>5, <1>6, <1>7, <1>8, <1>9, <1>10, <1>11, <1>12, <1>13, <1>14, <1>15, <1>16, <1>17, <1>18, <1>19, <1>20, <1>21, <1>22 DEF Supervisor

\* Every step of worker.rs keeps it.
LEMMA WorkerKeeps ==
  ASSUME SessionInv, Worker
  PROVE  SessionInv'
<1>1. CASE WorkerReceives
  BY FlightTail, <1>1 DEF WorkerReceives
<1>2. CASE WorkerRestricts
  BY <1>2 DEF WorkerRestricts
<1>3. CASE WorkerWrites
  BY <1>3 DEF WorkerWrites, HoldsStage
<1>4. CASE WorkerAnswers
  BY <1>4 DEF WorkerAnswers, HoldsStage
<1>5. CASE WorkerExits
  BY <1>5 DEF WorkerExits
<1>6. CASE WorkerFails
  BY <1>6 DEF WorkerFails
<1>7. CASE WorkerDies
  BY <1>7 DEF WorkerDies
<1> QED BY <1>1, <1>2, <1>3, <1>4, <1>5, <1>6, <1>7 DEF Worker

\* A wait that fails, a worker that deviates from worker.rs, and other
\* processes keep it.
LEMMA OthersKeep ==
  ASSUME SessionInv, ExitWaitFails \/ ForgeFrame \/ Scribble \/ ExitEarly \/ TakeDestination
  PROVE  SessionInv'
<1>1. CASE ForgeFrame
  BY <1>1 DEF ForgeFrame
<1>2. CASE Scribble
  BY <1>2 DEF Scribble, HoldsStage
<1>3. CASE ExitEarly
  BY <1>3 DEF ExitEarly
<1>4. CASE TakeDestination
  BY <1>4 DEF TakeDestination
<1>5. CASE ExitWaitFails
  BY <1>5 DEF ExitWaitFails, Stop
<1> QED BY <1>1, <1>2, <1>3, <1>4, <1>5

HIDE DEF SessionInv, SessionTypes, ChildInv, AnswerInv, TreeInv, RoundInv, Rounds,
         AfterWorker, Aborting, Stopping, Working, Polls, Kills, Reaps,
         Authenticate, Bootstrap, Source, Execute, ExitAck, workVars, supVars

\* What each place in the supervisor has established is established in every
\* reachable state, for every worker.
THEOREM SessionInductive == Spec => []SessionInv
<1>1. SessionInv /\ [Next]_vars => SessionInv'
  <2> SUFFICES ASSUME SessionInv, [Next]_vars PROVE SessionInv'
    OBVIOUS
  <2>1. CASE UNCHANGED vars
    BY <2>1 DEF vars, SessionInv, SessionTypes, ChildInv, AnswerInv, TreeInv, RoundInv
  <2> QED BY <2>1, SupervisorKeeps, WorkerKeeps, OthersKeep DEF Next
<1> QED BY <1>1, SessionInvInit, PTL DEF Spec

(* What the supervisor publishes is and stays the tree its own replay      *)
(* authorized, whatever the worker proposes and writes.                    *)
THEOREM PublicationIsAuthorized == Spec => []PublishedIsAuthorized
<1>1. SessionInv => PublishedIsAuthorized
  BY DEF PublishedIsAuthorized, SessionInv, TreeInv, AnswerInv
<1> QED BY <1>1, SessionInductive, PTL

(* The source descriptor is sent only to a restricted process.             *)
THEOREM SourceIsGuarded == Spec => []SourceOnlyToRestricted
<1>1. SessionInv => SourceOnlyToRestricted
  BY DEF SourceOnlyToRestricted, SessionInv, SessionTypes, RoundInv, Rounds, Source, Bootstrap
<1> QED BY <1>1, SessionInductive, PTL

(* A call that returns while its child is not reaped reports that.         *)
THEOREM OrphanIsReported == Spec => []NoSilentOrphan
<1>1. SessionInv => NoSilentOrphan
  BY DEF NoSilentOrphan, SessionInv, ChildInv, Aborting
<1> QED BY <1>1, SessionInductive, PTL

(* A VerifiedArchive rests on the supervisor's replay, and an outcome and  *)
(* a supervision error exclude each other.                                 *)
THEOREM AnswerIsAuthorized == Spec => []AnswerIsReplayed
<1>1. SessionInv => AnswerIsReplayed
  BY DEF AnswerIsReplayed, SessionInv, AnswerInv, Aborting
<1> QED BY <1>1, SessionInductive, PTL
-----------------------------------------------------------------------------
(***************************************************************************)
(* The frames in flight                                                    *)
(***************************************************************************)
\* Until the worker is bound nothing was sent.
Unsent == {"stage", "spawn", "bind", "unbound"}

(* The supervisor sends the frame of a round once, and only a Result can   *)
(* be answered before its frame was received: the worker names an earlier  *)
(* round only after it saw it.  So two frames can be unread, no more.      *)
FlightInv ==
  /\ \A n \in DOMAIN toWorker : toWorker[n] = got + n
  /\ pc \in Unsent => round = 1 /\ got = 0 /\ toWorker = <<>>
  /\ pc = "send" => /\ got + Len(toWorker) = round - 1
                    /\ round # ExitAck => toWorker = <<>>
                    /\ Len(toWorker) <= 1
  /\ pc \in {"recv", "check"} => got + Len(toWorker) = round /\ Len(toWorker) <= 1
  /\ (pc = "check" /\ round < Execute) => toWorker = <<>>
  /\ Len(toWorker) <= 2
  /\ \A n \in DOMAIN toSup : (toSup[n].ok /\ toSup[n].round < Execute) => toSup[n].round <= got
  /\ work => got >= 1

\* The variables TypeOK bounds, apart from the frames.
PlainTypes ==
  /\ kind \in {"inspect", "materialize"}
  /\ verdict \in {"complete", "stopped"}
  /\ exit \in {"none", "success", "failure"}
  /\ work \in BOOLEAN
  /\ proposal \in Bodies
  /\ tree \in Trees /\ place \in {"none", "stage", "dest"} /\ taken \in BOOLEAN
  /\ error \in ErrorKinds
  /\ answer \in {"none", "setup-failed", "stopped", "verified", "committed"}
  /\ noted \in BOOLEAN
  /\ toSup \in Seq(Frame)

\* A stage exists only for a materialization, and leaves with the call or
\* with a finding; a commit is what puts it at the destination.
StageInv ==
  /\ kind = "inspect" => place = "none" /\ pc \notin {"audit", "commit", "report"} \cup Aborting
  /\ pc = "stage" => place = "none"
  /\ (pc = "abort-again" /\ error = "none") => noted
  /\ (pc = "done" /\ place = "stage") => noted \/ error = "Cleanup"
  /\ answer = "committed" <=> place = "dest"
  /\ pc = "report" => place = "dest"
  /\ place = "dest" => ~taken

DetailInv == PlainTypes /\ FlightInv /\ StageInv

\* Nothing is in flight and no stage exists at the start.
LEMMA DetailInit == Init => DetailInv
<1> SUFFICES ASSUME Init PROVE DetailInv
  OBVIOUS
<1>1. PlainTypes
  <2>1. toSup \in Seq(Frame)
    BY DEF Init
  <2>2. work \in BOOLEAN /\ taken \in BOOLEAN /\ noted \in BOOLEAN
    BY Zenon DEF Init
  <2> QED BY <2>1, <2>2 DEF Init, PlainTypes, Bodies, Trees, ErrorKinds
<1>2. FlightInv
  BY DEF Init, FlightInv, Unsent, Execute
<1>3. StageInv
  BY DEF Init, StageInv, Aborting
<1> QED BY <1>1, <1>2, <1>3 DEF DetailInv

\* Frames come and go one at a time at the ends of a queue.
LEMMA FrameQueue ==
  ASSUME NEW s \in Seq(Frame)
  PROVE  /\ <<>> \in Seq(Frame)
         /\ \A f \in Frame : /\ Append(s, f) \in Seq(Frame)
                              /\ Len(Append(s, f)) = Len(s) + 1
                              /\ \A n \in DOMAIN s : Append(s, f)[n] = s[n]
                              /\ Append(s, f)[Len(s) + 1] = f
                              /\ DOMAIN Append(s, f) = 1..(Len(s) + 1)
         /\ s # <<>> => /\ Head(s) \in Frame /\ Head(s) = s[1] /\ 1 \in DOMAIN s
                        /\ Tail(s) \in Seq(Frame)
                        /\ \A n \in DOMAIN Tail(s) : n + 1 \in DOMAIN s /\ Tail(s)[n] = s[n + 1]
  OBVIOUS

\* What a frame holds.
LEMMA FrameFields ==
  ASSUME NEW f \in Frame
  PROVE  f.round \in 1..6 /\ f.ok \in BOOLEAN /\ f.body \in Bodies
  BY DEF Frame, Rounds

\* The frames a worker can send, following worker.rs or not.
LEMMA SentFrames ==
  ASSUME NEW r \in 1..6, NEW b \in {"none", "replay", "forged"}
  PROVE  /\ [round |-> r, ok |-> TRUE, body |-> b] \in Frame
         /\ [round |-> r, ok |-> FALSE, body |-> b] \in Frame
  BY DEF Frame, Rounds, Bodies

\* Every step keeps the types of what the supervisor and the worker hold.
LEMMA TypesStep ==
  ASSUME SessionInv, DetailInv, Next
  PROVE  PlainTypes'
<1> USE DEF SessionInv, SessionTypes, DetailInv, Polls, Kills, Reaps, Authenticate,
        Bootstrap, Source, Execute, ExitAck, Rounds, workVars, supVars,
        PlainTypes, Bodies, Trees, ErrorKinds
<1>1. CASE CreateStage
  <2>1. noted' \in BOOLEAN
    BY <1>1, Zenon DEF CreateStage
  <2> QED BY <1>1, <2>1 DEF CreateStage
<1>2. CASE SpawnFails
  BY <1>2 DEF SpawnFails, Leave, StageAndWorker
<1>3. CASE SpawnChild
  BY <1>3 DEF SpawnChild
<1>4. CASE BindPidfd
  BY <1>4 DEF BindPidfd, StageAndWorker
<1>5. CASE TerminateUnbound
  BY <1>5 DEF TerminateUnbound, Leave
<1>6. CASE SendFrame
  BY <1>6 DEF SendFrame
<1>7. CASE PeerGone
  BY <1>7 DEF PeerGone, Stop
<1>8. CASE SeeExit
  <2>1. toSup' = <<>> /\ error' \in {"WorkerExit", "Reap"} /\ proc' \in {proc, "reaped"}
    BY <1>8 DEF SeeExit, Stop
  <2>2. toSup' \in Seq(Frame)
    BY <2>1
  <2> QED BY <1>8, <2>1, <2>2 DEF SeeExit
<1>9. CASE ReceiveFrame
  <2>1. Head(toSup) \in Frame /\ Tail(toSup) \in Seq(Frame) /\ <<>> \in Seq(Frame)
    BY <1>9, FrameQueue DEF ReceiveFrame
  <2>2. Head(toSup).body \in Bodies
    BY <2>1, FrameFields
  <2>3. toSup' \in Seq(Frame)
    BY <1>9, <2>1 DEF ReceiveFrame, Stop
  <2>4. error' \in ErrorKinds /\ proposal' \in Bodies
    BY <1>9, <2>2 DEF ReceiveFrame, Stop
  <2> QED BY <1>9, <2>3, <2>4 DEF ReceiveFrame
<1>10. CASE CheckPasses
  BY <1>10 DEF CheckPasses, StageAndWorker
<1>11. CASE CheckFails
  BY <1>11 DEF CheckFails, Stop
<1>12. CASE WaitForExit
  <2>1. toSup' \in Seq(Frame)
    BY <1>12, FrameQueue DEF WaitForExit, Stop
  <2>2. error' \in ErrorKinds
    BY <1>12 DEF WaitForExit, Stop
  <2> QED BY <1>12, <2>1, <2>2 DEF WaitForExit, Stop
<1>13. CASE Expire
  BY <1>13 DEF Expire, StageAndWorker
<1>14. CASE Terminate
  <2>1. toSup' \in Seq(Frame)
    BY <1>14, FrameQueue DEF Terminate, AfterReap, AfterReapFailure, Stop
  <2>2. error' \in ErrorKinds
    BY <1>14 DEF Terminate, AfterReap, AfterReapFailure, Stop
  <2> QED BY <1>14, <2>1, <2>2 DEF Terminate, AfterReap, AfterReapFailure, Stop
<1>15. CASE ReapUntil
  <2>1. toSup' \in Seq(Frame)
    BY <1>15, FrameQueue DEF ReapUntil, AfterReap, AfterReapFailure, Stop
  <2>2. error' \in ErrorKinds
    BY <1>15 DEF ReapUntil, AfterReap, AfterReapFailure, Stop
  <2> QED BY <1>15, <2>1, <2>2 DEF ReapUntil, AfterReap, AfterReapFailure, Stop
<1>16. CASE DropBoundary
  BY <1>16 DEF DropBoundary, Leave
<1>17. CASE Replay
  BY <1>17 DEF Replay, Leave, StageAndWorker
<1>18. CASE Audit
  BY <1>18 DEF Audit, StageAndWorker
<1>19. CASE Commit
  BY <1>19 DEF Commit
<1>20. CASE Report
  BY <1>20 DEF Report, StageAndWorker
<1>21. CASE Abort
  <2>1. noted' \in BOOLEAN
    BY <1>21, Zenon DEF Abort
  <2>2. tree' \in Trees /\ place' \in {"none", "stage", "dest"}
    BY <1>21 DEF Abort
  <2> QED BY <1>21, <2>1, <2>2 DEF Abort
<1>22. CASE AbortAgain
  BY <1>22 DEF AbortAgain
<1>23. CASE WorkerReceives
  BY <1>23 DEF WorkerReceives
<1>24. CASE WorkerRestricts
  BY <1>24 DEF WorkerRestricts
<1>25. CASE WorkerWrites
  BY <1>25 DEF WorkerWrites, HoldsStage
<1>26. CASE WorkerAnswers
  <2>1. got \in 1..6
    BY <1>26 DEF WorkerAnswers, FlightInv
  <2>2. PICK f \in Frame : toSup' = Append(toSup, f)
    BY <1>26, <2>1, SentFrames DEF WorkerAnswers
  <2>3. toSup' \in Seq(Frame)
    BY <2>2, FrameQueue
  <2>4. tree' \in Trees
    BY <1>26 DEF WorkerAnswers
  <2>5. work' \in BOOLEAN
    BY <1>26, Zenon DEF WorkerAnswers
  <2> QED BY <1>26, <2>3, <2>4, <2>5 DEF WorkerAnswers
<1>27. CASE WorkerExits
  BY <1>27 DEF WorkerExits
<1>28. CASE WorkerFails
  <2>1. PICK f \in Frame : toSup' = Append(toSup, f)
    BY <1>28, SentFrames DEF WorkerFails
  <2>2. toSup' \in Seq(Frame)
    BY <2>1, FrameQueue
  <2> QED BY <1>28, <2>2 DEF WorkerFails
<1>29. CASE WorkerDies
  BY <1>29 DEF WorkerDies
<1>30. CASE ForgeFrame
  <2>1. PICK f \in Frame : toSup' = Append(toSup, f)
    BY <1>30, SentFrames DEF ForgeFrame
  <2>2. toSup' \in Seq(Frame)
    BY <2>1, FrameQueue
  <2> QED BY <1>30, <2>2 DEF ForgeFrame
<1>31. CASE Scribble
  BY <1>31 DEF Scribble, HoldsStage
<1>32. CASE ExitEarly
  BY <1>32 DEF ExitEarly
<1>33. CASE TakeDestination
  BY <1>33 DEF TakeDestination
<1>34. CASE ExitWaitFails
  BY <1>34, FrameQueue DEF ExitWaitFails, Stop
<1> QED
  BY <1>1, <1>2, <1>3, <1>4, <1>5, <1>6, <1>7, <1>8, <1>9, <1>10, <1>11, <1>12,
     <1>13, <1>14, <1>15, <1>16, <1>17, <1>18, <1>19, <1>20, <1>21, <1>22,
     <1>23, <1>24, <1>25, <1>26, <1>27, <1>28, <1>29, <1>30, <1>31, <1>32,
     <1>33, <1>34
  DEF Next, Supervisor, Worker, Unsent

\* Lock-step rounds bound what is in flight, whatever the worker forges.
LEMMA FlightStep ==
  ASSUME SessionInv, DetailInv, Next
  PROVE  FlightInv'
<1> USE DEF SessionInv, SessionTypes, DetailInv, Polls, Kills, Reaps, Authenticate,
        Bootstrap, Source, Execute, ExitAck, Rounds, workVars, supVars,
        PlainTypes, FlightInv, Unsent, RoundInv
<1>1. CASE CreateStage
  BY <1>1 DEF CreateStage
<1>2. CASE SpawnFails
  BY <1>2 DEF SpawnFails, Leave, StageAndWorker
<1>3. CASE SpawnChild
  BY <1>3 DEF SpawnChild
<1>4. CASE BindPidfd
  BY <1>4 DEF BindPidfd, StageAndWorker
<1>5. CASE TerminateUnbound
  BY <1>5 DEF TerminateUnbound, Leave
<1>6. CASE SendFrame
  BY <1>6 DEF SendFrame
<1>7. CASE PeerGone
  BY <1>7 DEF PeerGone, Stop
<1>8. CASE SeeExit
  BY <1>8 DEF SeeExit, Stop
<1>9. CASE ReceiveFrame
  <2>1. /\ Head(toSup) = toSup[1] /\ 1 \in DOMAIN toSup
        /\ \A n \in DOMAIN Tail(toSup) : n + 1 \in DOMAIN toSup /\ Tail(toSup)[n] = toSup[n + 1]
    BY <1>9, FrameQueue DEF ReceiveFrame
  <2>2. CASE pc' = "check"
    <3>1. round < Execute => Len(toWorker) = 0
      BY <1>9, <2>1, <2>2 DEF ReceiveFrame, Stop
    <3>2. \A n \in DOMAIN toSup' : (toSup'[n].ok /\ toSup'[n].round < Execute) => toSup'[n].round <= got
      BY <1>9, <2>1, <2>2 DEF ReceiveFrame, Stop
    <3>3. round < Execute => toWorker = <<>>
      BY <3>1
    <3> QED BY <1>9, <2>2, <3>2, <3>3 DEF ReceiveFrame
  <2>3. CASE pc' # "check"
    BY <1>9, <2>3 DEF ReceiveFrame, Stop
  <2> QED BY <2>2, <2>3
<1>10. CASE CheckPasses
  BY <1>10 DEF CheckPasses, StageAndWorker
<1>11. CASE CheckFails
  BY <1>11 DEF CheckFails, Stop
<1>12. CASE WaitForExit
  BY <1>12 DEF WaitForExit, Stop
<1>13. CASE Expire
  BY <1>13 DEF Expire, StageAndWorker
<1>14. CASE Terminate
  BY <1>14 DEF Terminate, AfterReap, AfterReapFailure, Stop
<1>15. CASE ReapUntil
  BY <1>15 DEF ReapUntil, AfterReap, AfterReapFailure, Stop
<1>16. CASE DropBoundary
  BY <1>16 DEF DropBoundary, Leave
<1>17. CASE Replay
  BY <1>17 DEF Replay, Leave, StageAndWorker
<1>18. CASE Audit
  BY <1>18 DEF Audit, StageAndWorker
<1>19. CASE Commit
  BY <1>19 DEF Commit
<1>20. CASE Report
  BY <1>20 DEF Report, StageAndWorker
<1>21. CASE Abort
  BY <1>21 DEF Abort
<1>22. CASE AbortAgain
  BY <1>22 DEF AbortAgain
<1>23. CASE WorkerReceives
  <2>1. /\ 1 \in DOMAIN toWorker /\ Head(toWorker) = toWorker[1]
        /\ Len(Tail(toWorker)) = Len(toWorker) - 1 /\ Len(toWorker) \in Nat \ {0}
        /\ \A n \in DOMAIN Tail(toWorker) : /\ n \in Nat /\ n + 1 \in DOMAIN toWorker
                                            /\ Tail(toWorker)[n] = toWorker[n + 1]
    BY <1>23 DEF WorkerReceives
  <2>2. got' = got + 1
    BY <1>23, <2>1 DEF WorkerReceives
  <2>3. \A n \in DOMAIN toWorker' : toWorker'[n] = got' + n
    BY <1>23, <2>1, <2>2 DEF WorkerReceives
  <2>4. Len(toWorker) = 1 => toWorker' = <<>>
    BY <1>23 DEF WorkerReceives
  <2>5. Len(toWorker') = Len(toWorker) - 1
    BY <1>23, <2>1 DEF WorkerReceives
  <2>6. toWorker # <<>>
    BY <1>23 DEF WorkerReceives
  <2>7. pc' = pc /\ round' = round /\ toSup' = toSup /\ Len(toWorker) \in Nat
    BY <1>23 DEF WorkerReceives
  <2>8. pc \notin Unsent
    BY <2>6
  <2>9. (pc = "send" /\ round # ExitAck) => FALSE
    BY <2>6
  <2>10. \A n \in DOMAIN toSup' :
           (toSup'[n].ok /\ toSup'[n].round < Execute) => toSup'[n].round <= got'
    <3> SUFFICES ASSUME NEW n \in DOMAIN toSup, toSup[n].ok, toSup[n].round < Execute
                 PROVE  toSup[n].round <= got + 1
      BY <2>2, <2>7
    <3>1. toSup[n].round \in 1..6
      BY FrameFields
    <3> QED BY <3>1
  <2> QED BY <2>2, <2>3, <2>4, <2>5, <2>7, <2>8, <2>9, <2>10
<1>24. CASE WorkerRestricts
  BY <1>24 DEF WorkerRestricts
<1>25. CASE WorkerWrites
  BY <1>25 DEF WorkerWrites, HoldsStage
<1>26. CASE WorkerAnswers
  BY <1>26 DEF WorkerAnswers, HoldsStage
<1>27. CASE WorkerExits
  BY <1>27 DEF WorkerExits
<1>28. CASE WorkerFails
  BY <1>28 DEF WorkerFails
<1>29. CASE WorkerDies
  BY <1>29 DEF WorkerDies
<1>30. CASE ForgeFrame
  <2>1. PICK f \in Frame : toSup' = Append(toSup, f) /\ ((f.ok /\ f.round < Execute) => f.round <= got)
    BY <1>30, SentFrames DEF ForgeFrame
  <2>2. \A n \in DOMAIN toSup' : (toSup'[n].ok /\ toSup'[n].round < Execute) => toSup'[n].round <= got
    BY <2>1, FrameQueue
  <2> QED BY <1>30, <2>2 DEF ForgeFrame
<1>31. CASE Scribble
  BY <1>31 DEF Scribble, HoldsStage
<1>32. CASE ExitEarly
  BY <1>32 DEF ExitEarly
<1>33. CASE TakeDestination
  BY <1>33 DEF TakeDestination
<1>34. CASE ExitWaitFails
  BY <1>34 DEF ExitWaitFails, Stop
<1> QED
  BY <1>1, <1>2, <1>3, <1>4, <1>5, <1>6, <1>7, <1>8, <1>9, <1>10, <1>11, <1>12,
     <1>13, <1>14, <1>15, <1>16, <1>17, <1>18, <1>19, <1>20, <1>21, <1>22,
     <1>23, <1>24, <1>25, <1>26, <1>27, <1>28, <1>29, <1>30, <1>31, <1>32,
     <1>33, <1>34
  DEF Next, Supervisor, Worker, Unsent

\* A stage that is left is reported, and a commit is never undone or taken over.
LEMMA StageStep ==
  ASSUME SessionInv, DetailInv, Next
  PROVE  StageInv'
<1> USE DEF SessionInv, SessionTypes, DetailInv, Polls, Kills, Reaps, Authenticate,
        Bootstrap, Source, Execute, ExitAck, Rounds, workVars, supVars,
        PlainTypes, StageInv, AnswerInv, TreeInv, Aborting, Stopping, Working
<1>1. CASE CreateStage
  BY <1>1 DEF CreateStage
<1>2. CASE SpawnFails
  BY <1>2 DEF SpawnFails, Leave, StageAndWorker
<1>3. CASE SpawnChild
  BY <1>3 DEF SpawnChild
<1>4. CASE BindPidfd
  BY <1>4 DEF BindPidfd, StageAndWorker
<1>5. CASE TerminateUnbound
  BY <1>5 DEF TerminateUnbound, Leave
<1>6. CASE SendFrame
  BY <1>6 DEF SendFrame
<1>7. CASE PeerGone
  BY <1>7 DEF PeerGone, Stop
<1>8. CASE SeeExit
  BY <1>8 DEF SeeExit, Stop
<1>9. CASE ReceiveFrame
  BY <1>9 DEF ReceiveFrame, Stop
<1>10. CASE CheckPasses
  BY <1>10 DEF CheckPasses, StageAndWorker
<1>11. CASE CheckFails
  BY <1>11 DEF CheckFails, Stop
<1>12. CASE WaitForExit
  BY <1>12 DEF WaitForExit, Stop
<1>13. CASE Expire
  BY <1>13 DEF Expire, StageAndWorker
<1>14. CASE Terminate
  BY <1>14 DEF Terminate, AfterReap, AfterReapFailure, Stop
<1>15. CASE ReapUntil
  BY <1>15 DEF ReapUntil, AfterReap, AfterReapFailure, Stop
<1>16. CASE DropBoundary
  BY <1>16 DEF DropBoundary, Leave
<1>17. CASE Replay
  BY <1>17 DEF Replay, Leave, StageAndWorker
<1>18. CASE Audit
  BY <1>18 DEF Audit, StageAndWorker
<1>19. CASE Commit
  BY <1>19 DEF Commit
<1>20. CASE Report
  BY <1>20 DEF Report, StageAndWorker
<1>21. CASE Abort
  BY <1>21 DEF Abort
<1>22. CASE AbortAgain
  BY <1>22 DEF AbortAgain
<1>23. CASE WorkerReceives
  BY <1>23 DEF WorkerReceives
<1>24. CASE WorkerRestricts
  BY <1>24 DEF WorkerRestricts
<1>25. CASE WorkerWrites
  BY <1>25 DEF WorkerWrites, HoldsStage
<1>26. CASE WorkerAnswers
  BY <1>26 DEF WorkerAnswers, HoldsStage
<1>27. CASE WorkerExits
  BY <1>27 DEF WorkerExits
<1>28. CASE WorkerFails
  BY <1>28 DEF WorkerFails
<1>29. CASE WorkerDies
  BY <1>29 DEF WorkerDies
<1>30. CASE ForgeFrame
  BY <1>30 DEF ForgeFrame
<1>31. CASE Scribble
  BY <1>31 DEF Scribble, HoldsStage
<1>32. CASE ExitEarly
  BY <1>32 DEF ExitEarly
<1>33. CASE TakeDestination
  BY <1>33 DEF TakeDestination
<1>34. CASE ExitWaitFails
  BY <1>34 DEF ExitWaitFails, Stop
<1> QED
  BY <1>1, <1>2, <1>3, <1>4, <1>5, <1>6, <1>7, <1>8, <1>9, <1>10, <1>11, <1>12,
     <1>13, <1>14, <1>15, <1>16, <1>17, <1>18, <1>19, <1>20, <1>21, <1>22,
     <1>23, <1>24, <1>25, <1>26, <1>27, <1>28, <1>29, <1>30, <1>31, <1>32,
     <1>33, <1>34
  DEF Next, Supervisor, Worker, Unsent

-----------------------------------------------------------------------------
\* The frames, types and stage of a session, in every reachable state and for
\* every worker.
THEOREM DetailInductive == Spec => []DetailInv
<1>1. SessionInv /\ DetailInv /\ [Next]_vars => DetailInv'
  <2> SUFFICES ASSUME SessionInv, DetailInv, [Next]_vars PROVE DetailInv'
    OBVIOUS
  <2>1. CASE UNCHANGED vars
    BY <2>1 DEF vars, DetailInv, PlainTypes, FlightInv, StageInv
  <2>2. CASE Next
    BY <2>2, TypesStep, FlightStep, StageStep DEF DetailInv
  <2> QED BY <2>1, <2>2
<1> QED BY <1>1, DetailInit, SessionInductive, PTL DEF Spec

(* Every variable keeps its type, and never more than two frames wait for  *)
(* the worker: the supervisor sends a round's frame only after the answer  *)
(* to the one before (send_until, receive_until), and only the Result can  *)
(* be named by a worker that has not read its frame.                       *)
THEOREM SessionTypeCorrect == Spec => []TypeOK
<1>1. SessionInv /\ DetailInv => TypeOK
  <2> SUFFICES ASSUME SessionInv, DetailInv PROVE TypeOK
    OBVIOUS
  <2>1. Len(toWorker) <= 2
    BY DEF DetailInv, FlightInv
  <2> QED BY <2>1 DEF SessionInv, SessionTypes, DetailInv, PlainTypes, TypeOK
<1> QED BY <1>1, SessionInductive, DetailInductive, PTL

(* A stage that outlives the call is reported as a finding of the outcome  *)
(* or as the Cleanup error kind (abort_semantic, abort_infrastructure).    *)
THEOREM LeftStageIsReported == Spec => []LeftStageReported
<1>1. DetailInv => LeftStageReported
  BY DEF DetailInv, StageInv, LeftStageReported
<1> QED BY <1>1, DetailInductive, PTL

-----------------------------------------------------------------------------
(***************************************************************************)
(* Refinement                                                              *)
(***************************************************************************)
\* What the contract sees of the session.
Seen == <<SupDest, SupReport, verdict>>

\* A session with the same visible state stutters in the contract.
LEMMA SeenIsAll ==
  ASSUME UNCHANGED Seen
  PROVE  UNCHANGED P!absVars
  BY DEF Seen, P!absVars

\* A materialization that has not returned has a running call in the contract.
LEMMA SessionStep ==
  ASSUME SessionInv, DetailInv, Next
  PROVE  [P!AbsNext]_(P!absVars)
<1> USE DEF SessionInv, SessionTypes, DetailInv, PlainTypes, StageInv, AnswerInv,
        Aborting, Stopping, Working, Polls, Kills, Reaps, workVars, supVars
<1>1. CASE Commit /\ place' = "dest" /\ place # "dest"
  <2>1. SupDest = "absent" /\ SupDest' = "call" /\ SupReport = "running" /\ SupReport' = "running"
    BY <1>1 DEF Commit, SupDest, SupReport
  <2>2. verdict = "complete" /\ verdict' = verdict
    BY <1>1 DEF Commit
  <2>3. P!Put("call")
    BY <2>1, <2>2 DEF P!Put
  <2> QED BY <2>3 DEF P!AbsNext
<1>2. CASE TakeDestination
  <2>1. SupDest = "absent" /\ SupDest' = "foreign" /\ SupReport' = SupReport
    BY <1>2 DEF TakeDestination, SupDest, SupReport
  <2>2. verdict' = verdict
    BY <1>2 DEF TakeDestination
  <2>3. P!PutForeign("d")
    BY <2>1, <2>2 DEF P!PutForeign
  <2> QED BY <2>3 DEF P!AbsNext
<1>3. ASSUME pc # "done", pc' = "done", SupDest' = SupDest, verdict' = verdict,
             SupReport' = "committed" <=> SupDest = "call"
      PROVE  [P!AbsNext]_(P!absVars)
  <2>1. SupReport = "running"
    BY <1>3 DEF SupReport
  <2>2. SupReport' = IF SupDest = "call" THEN "committed" ELSE "refused"
    BY <1>3 DEF SupReport
  <2>3. P!Answer("call")
    BY <1>3, <2>1, <2>2 DEF P!Answer
  <2> QED BY <2>3 DEF P!AbsNext
<1> DEFINE Ends == /\ pc # "done" /\ pc' = "done" /\ SupDest' = SupDest /\ verdict' = verdict
                   /\ (SupReport' = "committed" <=> SupDest = "call")
<1>4. CASE ~TakeDestination /\ ~(Commit /\ place' = "dest" /\ place # "dest")
  <2> SUFFICES Ends \/ UNCHANGED Seen
    BY <1>3, SeenIsAll
  <2>1. CASE CreateStage
    BY <2>1 DEF CreateStage, Seen, SupDest, SupReport
  <2>2. CASE SpawnFails
    BY <2>2 DEF SpawnFails, Leave, StageAndWorker, Seen, SupDest, SupReport
  <2>3. CASE SpawnChild
    BY <2>3 DEF SpawnChild, Seen, SupDest, SupReport
  <2>4. CASE BindPidfd
    BY <2>4 DEF BindPidfd, StageAndWorker, Seen, SupDest, SupReport
  <2>5. CASE TerminateUnbound
    BY <2>5 DEF TerminateUnbound, Leave, Seen, SupDest, SupReport
  <2>6. CASE SendFrame
    BY <2>6 DEF SendFrame, Seen, SupDest, SupReport
  <2>7. CASE PeerGone
    BY <2>7 DEF PeerGone, Stop, Seen, SupDest, SupReport
  <2>8. CASE SeeExit
    BY <2>8 DEF SeeExit, Stop, Seen, SupDest, SupReport
  <2>9. CASE ReceiveFrame
    BY <2>9 DEF ReceiveFrame, Stop, Seen, SupDest, SupReport
  <2>10. CASE CheckPasses
    BY <2>10 DEF CheckPasses, StageAndWorker, Seen, SupDest, SupReport
  <2>11. CASE CheckFails
    BY <2>11 DEF CheckFails, Stop, Seen, SupDest, SupReport
  <2>12. CASE WaitForExit
    BY <2>12 DEF WaitForExit, Stop, Seen, SupDest, SupReport
  <2>13. CASE Expire
    BY <2>13 DEF Expire, StageAndWorker, Seen, SupDest, SupReport
  <2>14. CASE Terminate
    BY <2>14 DEF Terminate, AfterReap, AfterReapFailure, Stop, Seen, SupDest, SupReport
  <2>15. CASE ReapUntil
    BY <2>15 DEF ReapUntil, AfterReap, AfterReapFailure, Stop, Seen, SupDest, SupReport
  <2>16. CASE DropBoundary
    BY <2>16 DEF DropBoundary, Leave, Seen, SupDest, SupReport
  <2>17. CASE Replay
    BY <2>17 DEF Replay, Leave, StageAndWorker, Seen, SupDest, SupReport
  <2>18. CASE Audit
    BY <2>18 DEF Audit, StageAndWorker, Seen, SupDest, SupReport
  <2>19. CASE Commit /\ ~(place' = "dest" /\ place # "dest")
    BY <2>19 DEF Commit, Seen, SupDest, SupReport
  <2>20. CASE Report
    BY <2>20 DEF Report, StageAndWorker, Seen, SupDest, SupReport
  <2>21. CASE Abort
    BY <2>21 DEF Abort, TreeInv, Seen, SupDest, SupReport
  <2>22. CASE AbortAgain
    BY <2>22 DEF AbortAgain, TreeInv, Seen, SupDest, SupReport
  <2>23. CASE WorkerReceives
    BY <2>23 DEF WorkerReceives, Seen, SupDest, SupReport
  <2>24. CASE WorkerRestricts
    BY <2>24 DEF WorkerRestricts, Seen, SupDest, SupReport
  <2>25. CASE WorkerWrites
    BY <2>25 DEF WorkerWrites, Seen, SupDest, SupReport
  <2>26. CASE WorkerAnswers
    BY <2>26 DEF WorkerAnswers, Seen, SupDest, SupReport
  <2>27. CASE WorkerExits
    BY <2>27 DEF WorkerExits, Seen, SupDest, SupReport
  <2>28. CASE WorkerFails
    BY <2>28 DEF WorkerFails, Seen, SupDest, SupReport
  <2>29. CASE WorkerDies
    BY <2>29 DEF WorkerDies, Seen, SupDest, SupReport
  <2>30. CASE ForgeFrame
    BY <2>30 DEF ForgeFrame, Seen, SupDest, SupReport
  <2>31. CASE Scribble
    BY <2>31 DEF Scribble, Seen, SupDest, SupReport
  <2>32. CASE ExitEarly
    BY <2>32 DEF ExitEarly, Seen, SupDest, SupReport
  <2>33. CASE ExitWaitFails
    BY <2>33 DEF ExitWaitFails, Stop, Seen, SupDest, SupReport
  <2> QED
    BY <2>1, <2>2, <2>3, <2>4, <2>5, <2>6, <2>7, <2>8, <2>9, <2>10, <2>11,
       <2>12, <2>13, <2>14, <2>15, <2>16, <2>17, <2>18, <2>19, <2>20,
       <2>21, <2>22, <2>23, <2>24, <2>25, <2>26, <2>27, <2>28, <2>29,
       <2>30, <2>31, <2>32, <2>33, <1>4 DEF Next, Supervisor, Worker
<1> QED BY <1>1, <1>2, <1>4

(* Supervised materialization publishes as Publication says: a destination *)
(* goes once from absent to a whole sound tree, nothing replaces it, and   *)
(* the answer says whose tree is there, whatever the worker does.          *)
THEOREM SessionRefines == Spec => ImplementsPublication
<1>1. Init => P!AbsInit
  BY DEF Init, P!AbsInit, SupDest, SupReport
<1>2. SessionInv /\ DetailInv /\ [Next]_vars => [P!AbsNext]_(P!absVars)
  <2> SUFFICES ASSUME SessionInv, DetailInv, [Next]_vars PROVE [P!AbsNext]_(P!absVars)
    OBVIOUS
  <2>1. CASE UNCHANGED vars
    <3>1. UNCHANGED Seen
      BY <2>1 DEF vars, Seen, SupDest, SupReport
    <3> QED BY <3>1, SeenIsAll
  <2> QED BY <2>1, SessionStep
<1> QED BY <1>1, <1>2, SessionInductive, DetailInductive, PTL DEF Spec, ImplementsPublication, P!AbsSpec
=============================================================================
