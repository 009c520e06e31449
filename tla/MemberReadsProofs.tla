-------------------------- MODULE MemberReadsProofs --------------------------
(***************************************************************************)
(* Proofs about MemberReads, for any set of readers, any member length and *)
(* any pipe, and for workers that do as they like.                         *)
(*                                                                         *)
(* ReaderInv says of one call what its position in the code entails;       *)
(* OnePermit and NoLostWakeup relate the calls to each other.              *)
(***************************************************************************)
EXTENDS MemberReads, TLAPS

Queued == {"request", "acquire", "wait", "woken"}

ReaderType(r) ==
  /\ pc[r] \in Holding \cup Queued \cup {"done"}
  /\ result[r] \in {"none", "ok", "TimedOut", "Reap", "Failed"}
  /\ proc[r] \in {"none", "running", "zombie", "reaped"}
  /\ drain[r] \in Locals /\ Len(drain[r].out) <= Keep[r]
  /\ link[r] \in Links

\* The stream was read to its end at the authorized lengths.
Drained(r) ==
  /\ drain[r].eof /\ drain[r].seen /\ drain[r].count = Chunks
  /\ Len(drain[r].out) = Keep[r]

\* The child ended as it should and nothing of it is left.
Gone(r) == proc[r] = "reaped" /\ link[r].exit = "success"

ReaderInv(r) ==
  /\ ReaderType(r)
  /\ pc[r] \in Queued \cup {"reserve", "spawn"} => proc[r] = "none"
  /\ drain[r].clean => \A n \in 1..Len(drain[r].out) : drain[r].out[n] = "good"
  /\ pc[r] \in {"ack", "exit", "validate"} => Drained(r)
  /\ pc[r] = "validate" => Gone(r)
  /\ result[r] = "ok" =>
       pc[r] \in {"drop", "release", "done"} /\ Drained(r) /\ drain[r].clean /\ Gone(r)
  /\ (pc[r] \in {"drop", "release", "done"} /\ proc[r] \in {"running", "zombie"})
       => result[r] = "Reap"

Shape ==
  /\ active \in BOOLEAN
  /\ pc = [r \in Readers |-> pc[r]]
  /\ result = [r \in Readers |-> result[r]]
  /\ proc = [r \in Readers |-> proc[r]]
  /\ drain = [r \in Readers |-> drain[r]]
  /\ link = [r \in Readers |-> link[r]]

\* The inductive invariant.
ReadsInv ==
  /\ Shape
  /\ \A r \in Readers : ReaderInv(r)
  /\ OnePermit
  /\ NoLostWakeup

-----------------------------------------------------------------------------
\* No call has started: nothing is held, streamed or returned.
LEMMA ReadsInit == Init => ReadsInv
<1> SUFFICES ASSUME Init PROVE ReadsInv
  OBVIOUS
<1>1. Shape
  BY DEF Init, Shape
<1>2. ASSUME NEW r \in Readers PROVE ReaderInv(r)
  BY ChunksAssumption, KeepAssumption
  DEF Init, ReaderInv, ReaderType, Locals, Links, FreshLocals, FreshLink, Chunk, Queued, Holding
<1>3. OnePermit /\ NoLostWakeup
  BY DEF Init, OnePermit, NoLostWakeup, Holding
<1> QED
  BY <1>1, <1>2, <1>3 DEF ReadsInv

\* A step of r that leaves the permit with whoever has it.
Inside(r) ==
  \/ Reserve(r) \/ Spawn(r) \/ Handshake(r) \/ DrainChunk(r) \/ DrainEof(r)
  \/ DrainFrame(r) \/ DrainExit(r) \/ DrainExpires(r) \/ DrainEnds(r)
  \/ SendAck(r) \/ WaitForExit(r) \/ ExitWaitFails(r) \/ Expire(r) \/ Validate(r) \/ Terminate(r)
  \/ ReapUntil(r) \/ DropBoundary(r)

Outside(r) == WorkerWrites(r) \/ WorkerReports(r) \/ WorkerEnds(r) \/ Deviates(r)

\* The other calls' part of the state is not touched by a step of r.
Apart(r) ==
  /\ Shape'
  /\ \A q \in Readers \ {r} :
       /\ result'[q] = result[q] /\ proc'[q] = proc[q]
       /\ drain'[q] = drain[q] /\ link'[q] = link[q]

\* A call that holds the permit keeps it and moves alone.
LEMMA InsideFrame ==
  ASSUME Shape, NEW r \in Readers, Inside(r)
  PROVE  /\ Apart(r) /\ active' = active
         /\ pc[r] \in Holding /\ pc'[r] \in Holding
         /\ \A q \in Readers \ {r} : pc'[q] = pc[q]
<1> USE DEF Apart, Shape, Holding, Goto, Return, queueVars
<1>1. CASE Reserve(r)
  BY <1>1 DEF Reserve
<1>2. CASE Spawn(r)
  BY <1>2 DEF Spawn
<1>3. CASE Handshake(r)
  BY <1>3 DEF Handshake, Continue, Stop
<1>4. CASE DrainChunk(r)
  BY <1>4 DEF DrainChunk, TakeChunk, Stop
<1>5. CASE DrainEof(r)
  BY <1>5 DEF DrainEof
<1>6. CASE DrainFrame(r)
  BY <1>6 DEF DrainFrame, Stop
<1>7. CASE DrainExit(r)
  BY <1>7 DEF DrainExit, Stop
<1>8. CASE DrainExpires(r)
  BY <1>8 DEF DrainExpires, Stop
<1>9. CASE DrainEnds(r)
  BY <1>9 DEF DrainEnds, Continue, Stop
<1>10. CASE SendAck(r)
  BY <1>10 DEF SendAck, Continue, Stop
<1>11. CASE WaitForExit(r)
  BY <1>11 DEF WaitForExit, Continue, Stop
<1>12. CASE Expire(r)
  BY <1>12 DEF Expire, Continue
<1>13. CASE Validate(r)
  BY <1>13 DEF Validate, Stop
<1>14. CASE Terminate(r)
  BY <1>14 DEF Terminate, AfterReap, AfterReapFailure, Continue, Stop
<1>15. CASE ReapUntil(r)
  BY <1>15 DEF ReapUntil, AfterReap, AfterReapFailure, Continue, Stop
<1>16. CASE DropBoundary(r)
  BY <1>16 DEF DropBoundary, Continue
<1>17. CASE ExitWaitFails(r)
  BY <1>17 DEF ExitWaitFails, Stop
<1> QED
  BY <1>1, <1>2, <1>3, <1>4, <1>5, <1>6, <1>7, <1>8, <1>9, <1>10, <1>11, <1>12, <1>13, <1>14, <1>15, <1>16, <1>17 DEF Inside

Kinds == {"TimedOut", "Reap", "Failed"}

\* An error that leaves the active part drops the stream with its locals.
LEMMA StopKeeps ==
  ASSUME Shape, NEW r \in Readers, NEW e \in Kinds, Stop(r, e),
         proc'[r] \in {"none", "running", "zombie", "reaped"}
  PROVE  ReaderInv(r)'
<1>1. /\ pc'[r] = "finish-kill" /\ result'[r] = e
      /\ drain'[r] = FreshLocals /\ link'[r] = FreshLink
  BY DEF Stop, Goto, Return, Shape
<1>2. FreshLocals \in Locals /\ FreshLink \in Links
  BY ChunksAssumption DEF FreshLocals, FreshLink, Locals, Links, Chunk
<1>3. FreshLocals.out = <<>> /\ Len(FreshLocals.out) <= Keep[r]
  BY KeepAssumption, ChunksAssumption DEF FreshLocals
<1> QED
  BY <1>1, <1>2, <1>3 DEF ReaderInv, ReaderType, Kinds, Holding, Queued

\* Taking a chunk keeps the bounds and the meaning of clean.
LEMMA TakeKeeps ==
  ASSUME Shape, NEW r \in Readers, ReaderInv(r), pc[r] = "drain",
         link[r].pipe # <<>>, drain[r].count + 1 <= Chunks,
         TakeChunk(r), proc' = proc
  PROVE  ReaderInv(r)'
<1> DEFINE c == Head(link[r].pipe)
           o == drain[r].out
           kept == IF Len(o) < Keep[r] THEN Append(o, c) ELSE o
<1>1. c \in Chunk /\ Tail(link[r].pipe) \in Seq(Chunk) /\ o \in Seq(Chunk)
  BY DEF ReaderInv, ReaderType, Links, Locals
<1>2. kept \in Seq(Chunk) /\ Len(kept) <= Keep[r]
  BY <1>1, KeepAssumption, ChunksAssumption DEF ReaderInv, ReaderType
<1>3. drain'[r] = [out |-> kept, count |-> drain[r].count + 1,
                   clean |-> drain[r].clean /\ c = "good",
                   eof |-> drain[r].eof, seen |-> drain[r].seen]
  BY DEF TakeChunk, Shape
<1>4. /\ drain'[r].out = kept
      /\ drain'[r].clean => drain[r].clean /\ c = "good"
      /\ drain'[r] \in Locals
  <2>1. drain[r].count + 1 \in 0..Chunks
    BY ChunksAssumption DEF ReaderInv, ReaderType, Locals
  <2>2. (drain[r].clean /\ c = "good") \in BOOLEAN
    OBVIOUS
  <2>3. drain[r].eof \in BOOLEAN /\ drain[r].seen \in BOOLEAN
    BY DEF ReaderInv, ReaderType, Locals
  <2>4. drain'[r] \in Locals
    BY <1>2, <1>3, <2>1, <2>2, <2>3 DEF Locals
  <2>5. drain'[r].out = kept
    BY <1>3
  <2>6. PICK b \in BOOLEAN : b = (drain[r].clean /\ c = "good")
    BY <2>2, Zenon
  <2>7. drain'[r].clean = b
    <3>1. drain'[r] = [out |-> kept, count |-> drain[r].count + 1, clean |-> b,
                       eof |-> drain[r].eof, seen |-> drain[r].seen]
      BY <1>3, <2>6, Zenon
    <3> QED
      BY <3>1
  <2>8. ASSUME drain'[r].clean PROVE drain[r].clean /\ c = "good"
    BY <2>6, <2>7, <2>8, Zenon
  <2> QED
    BY <2>4, <2>5, <2>8
<1>5. link'[r] \in Links
  BY <1>1 DEF TakeChunk, Shape, ReaderInv, ReaderType, Links
<1>6. ASSUME drain'[r].clean PROVE \A n \in 1..Len(kept) : kept[n] = "good"
  <2>1. drain[r].clean /\ c = "good" /\ \A n \in 1..Len(o) : o[n] = "good"
    BY <1>4, <1>6 DEF ReaderInv
  <2>2. CASE Len(o) < Keep[r]
    BY <1>1, <2>1, <2>2
  <2>3. CASE ~(Len(o) < Keep[r])
    BY <2>1, <2>3
  <2> QED
    BY <2>2, <2>3
<1>7. pc'[r] = "drain" /\ result'[r] = result[r] /\ proc'[r] = proc[r]
  BY DEF TakeChunk
<1> QED
  BY <1>2, <1>4, <1>5, <1>6, <1>7 DEF ReaderInv, ReaderType, Queued, Holding

\* A step of the call that holds the permit keeps what its position entails.
LEMMA InsideReader ==
  ASSUME Shape, NEW r \in Readers, ReaderInv(r), Inside(r)
  PROVE  ReaderInv(r)'
<1> USE ChunksAssumption, KeepAssumption
    DEF Shape, ReaderInv, ReaderType, Drained, Gone, Locals, Links, Chunk, Queued, Holding,
        Goto, Return, FreshLocals, FreshLink
<1>1. CASE Reserve(r)
  BY <1>1 DEF Reserve
<1>2. CASE Spawn(r)
  BY <1>2 DEF Spawn
<1>3. CASE Handshake(r)
  <2>1. ASSUME \E e \in Kinds : Stop(r, e) PROVE ReaderInv(r)'
    BY <1>3, <2>1, StopKeeps DEF Handshake, Kinds
  <2>2. CASE ~(\E e \in Kinds : Stop(r, e))
    BY <1>3, <2>2 DEF Handshake, Continue, Kinds
  <2> QED
    BY <2>1, <2>2
<1>4. CASE DrainChunk(r)
  <2>1. CASE drain[r].count + 1 > Chunks
    BY <1>4, <2>1, StopKeeps DEF DrainChunk, Kinds
  <2>2. CASE ~(drain[r].count + 1 > Chunks)
    <3>1. /\ pc[r] = "drain" /\ link[r].pipe # <<>> /\ TakeChunk(r) /\ proc' = proc
          /\ drain[r].count + 1 <= Chunks
      BY <1>4, <2>2 DEF DrainChunk
    <3> QED
      BY <3>1, TakeKeeps
  <2> QED
    BY <2>1, <2>2
<1>5. CASE DrainEof(r)
  BY <1>5 DEF DrainEof
<1>6. CASE DrainFrame(r)
  <2>1. ASSUME Stop(r, "Failed") PROVE ReaderInv(r)'
    BY <1>6, <2>1, StopKeeps DEF DrainFrame, Kinds
  <2>2. CASE ~(Stop(r, "Failed"))
    <3>1. /\ drain' = [drain EXCEPT ![r].seen = TRUE] /\ UNCHANGED <<pc, result, proc>>
          /\ link' = [link EXCEPT ![r].frames = Tail(@)]
          /\ pc[r] = "drain" /\ link[r].frames # <<>>
      BY <1>6, <2>2 DEF DrainFrame
    <3>2. drain'[r] \in Locals /\ drain'[r].out = drain[r].out /\ drain'[r].clean = drain[r].clean
      BY <3>1
    <3>3. link'[r] \in Links
      <4>1. Tail(link[r].frames) \in Seq({"result", "error"})
        BY <3>1
      <4> QED
        BY <3>1, <4>1
    <3> QED
      BY <3>1, <3>2, <3>3
  <2> QED
    BY <2>1, <2>2
<1>7. CASE DrainExit(r)
  <2>1. \E e \in {"Failed", "Reap"} : Stop(r, e)
    BY <1>7 DEF DrainExit
  <2> QED
    BY <1>7, <2>1, StopKeeps DEF DrainExit, Kinds
<1>8. CASE DrainExpires(r)
  BY <1>8 DEF DrainExpires, Stop
<1>9. CASE DrainEnds(r)
  <2>1. ASSUME Stop(r, "Failed") PROVE ReaderInv(r)'
    BY <1>9, <2>1, StopKeeps DEF DrainEnds, Kinds
  <2>2. CASE ~(Stop(r, "Failed"))
    BY <1>9, <2>2 DEF DrainEnds, Continue
  <2> QED
    BY <2>1, <2>2
<1>10. CASE SendAck(r)
  <2>1. ASSUME Stop(r, "Failed") PROVE ReaderInv(r)'
    BY <1>10, <2>1, StopKeeps DEF SendAck, Kinds
  <2>2. CASE ~(Stop(r, "Failed"))
    BY <1>10, <2>2 DEF SendAck, Continue
  <2> QED
    BY <2>1, <2>2
<1>11. CASE WaitForExit(r)
  <2>1. ASSUME Stop(r, "Failed") PROVE ReaderInv(r)'
    BY <1>11, <2>1, StopKeeps DEF WaitForExit, Kinds
  <2>2. CASE ~(Stop(r, "Failed"))
    BY <1>11, <2>2 DEF WaitForExit, Continue
  <2> QED
    BY <2>1, <2>2
<1>12. CASE Expire(r)
  BY <1>12 DEF Expire, Continue
<1>13. CASE Validate(r)
  <2>1. ASSUME Stop(r, "Failed") PROVE ReaderInv(r)'
    BY <1>13, <2>1, StopKeeps DEF Validate, Kinds
  <2>2. CASE ~(Stop(r, "Failed"))
    BY <1>13, <2>2 DEF Validate
  <2> QED
    BY <2>1, <2>2
<1>14. CASE Terminate(r)
  <2>1. ASSUME \E e \in {"TimedOut", "Reap"} : Stop(r, e) PROVE ReaderInv(r)'
    BY <1>14, <2>1, StopKeeps DEF Terminate, Kinds
  <2>2. CASE ~(\E e \in {"TimedOut", "Reap"} : Stop(r, e))
    BY <1>14, <2>2 DEF Terminate, AfterReap, AfterReapFailure, Continue
  <2> QED
    BY <2>1, <2>2
<1>15. CASE ReapUntil(r)
  <2>1. ASSUME \E e \in {"TimedOut", "Reap"} : Stop(r, e) PROVE ReaderInv(r)'
    BY <1>15, <2>1, StopKeeps DEF ReapUntil, Kinds
  <2>2. CASE ~(\E e \in {"TimedOut", "Reap"} : Stop(r, e))
    BY <1>15, <2>2 DEF ReapUntil, AfterReap, AfterReapFailure, Continue
  <2> QED
    BY <2>1, <2>2
<1>16. CASE DropBoundary(r)
  BY <1>16 DEF DropBoundary, Continue
<1>17. CASE ExitWaitFails(r)
  BY <1>17, StopKeeps DEF ExitWaitFails, Kinds
<1> QED
  BY <1>1, <1>2, <1>3, <1>4, <1>5, <1>6, <1>7, <1>8, <1>9, <1>10, <1>11, <1>12, <1>13, <1>14, <1>15, <1>16, <1>17 DEF Inside

\* Workers change the stream and their own process and nothing else.
LEMMA OutsideFrame ==
  ASSUME Shape, NEW r \in Readers, Outside(r)
  PROVE  Apart(r) /\ UNCHANGED <<active, pc, result>>
<1> USE DEF Apart, Shape, queueVars, Put, EndWith
<1>1. CASE WorkerWrites(r)
  BY <1>1 DEF WorkerWrites
<1>2. CASE WorkerReports(r)
  BY <1>2 DEF WorkerReports
<1>3. CASE WorkerEnds(r)
  BY <1>3 DEF WorkerEnds
<1>4. CASE Deviates(r)
  BY <1>4 DEF Deviates
<1> QED
  BY <1>1, <1>2, <1>3, <1>4 DEF Outside

\* What a worker does to the stream keeps its shape.
LEMMA PutKeeps ==
  ASSUME Shape, NEW r \in Readers, NEW c \in Chunk, link[r] \in Links,
         link[r].sent <= Chunks, Put(r, c)
  PROVE  link'[r] \in Links /\ link'[r].exit = link[r].exit
<1>1. Append(link[r].pipe, c) \in Seq(Chunk) /\ link[r].sent + 1 \in 0..(Chunks + 1)
  BY ChunksAssumption DEF Links
<1> QED
  BY <1>1 DEF Put, Shape, Links

\* A process that ends leaves a stream of the same shape, or none that is read.
LEMMA EndKeeps ==
  ASSUME Shape, NEW r \in Readers, NEW status \in {"success", "failure"},
         NEW last \in Seq({"result", "error"}), link[r] \in Links, EndWith(r, status, last)
  PROVE  /\ link'[r] \in Links /\ proc'[r] = "zombie"
         /\ pc[r] \notin {"drain", "ack", "exit"} => link' = link
<1>1. link[r].frames \o last \in Seq({"result", "error"})
  BY DEF Links
<1> QED
  BY <1>1 DEF EndWith, Shape, Links

\* A worker's step keeps what the position of its supervisor entails.
LEMMA OutsideReader ==
  ASSUME Shape, NEW r \in Readers, ReaderInv(r), Outside(r)
  PROVE  ReaderInv(r)'
<1>0. UNCHANGED <<pc, result, drain>> /\ link[r] \in Links
  <2>1. UNCHANGED <<pc, result>> /\ link[r] \in Links
    BY OutsideFrame DEF ReaderInv, ReaderType
  <2>2. drain' = drain
    BY DEF Outside, WorkerWrites, WorkerReports, WorkerEnds, Deviates
  <2> QED
    BY <2>1, <2>2
<1>1. ASSUME proc' = proc, link'[r] \in Links, pc[r] = "drain"
      PROVE  ReaderInv(r)'
  BY <1>0, <1>1 DEF ReaderInv, ReaderType, Drained, Gone, Queued, Holding
<1>2. ASSUME NEW status \in {"success", "failure"}, NEW last \in Seq({"result", "error"}),
             EndWith(r, status, last), proc[r] = "running"
      PROVE  ReaderInv(r)'
  <2>1. /\ link'[r] \in Links /\ proc'[r] = "zombie"
        /\ pc[r] \notin {"drain", "ack", "exit"} => link' = link
    BY <1>0, <1>2, EndKeeps
  <2> QED
    BY <1>0, <1>2, <2>1 DEF ReaderInv, ReaderType, Drained, Gone, Queued, Holding
<1>3. CASE WorkerWrites(r)
  <2>1. Put(r, "good") /\ link[r].sent <= Chunks /\ proc' = proc /\ pc[r] = "drain"
    BY <1>0, <1>3, ChunksAssumption DEF WorkerWrites, Streams, Links
  <2> QED
    BY <1>0, <1>1, <2>1, PutKeeps DEF Chunk
<1>4. CASE WorkerReports(r)
  <2>1. proc' = proc /\ pc[r] = "drain"
    BY <1>4 DEF WorkerReports, Streams
  <2>2. Append(link[r].frames, "result") \in Seq({"result", "error"})
    BY <1>0 DEF Links
  <2>3. link'[r] \in Links
    BY <1>0, <1>4, <2>2 DEF WorkerReports, Shape, Links
  <2> QED
    BY <1>1, <2>1, <2>3
<1>5. CASE WorkerEnds(r)
  <2>1. <<>> \in Seq({"result", "error"}) /\ <<"error">> \in Seq({"result", "error"})
    OBVIOUS
  <2> QED
    BY <1>2, <1>5, <2>1 DEF WorkerEnds
<1>6. CASE Deviates(r)
  <2>1. pc[r] = "drain" /\ proc[r] = "running"
    BY <1>6 DEF Deviates, Streams
  <2>2. CASE link[r].sent <= Chunks /\ (\E c \in Chunk : Put(r, c)) /\ proc' = proc
    BY <1>0, <1>1, <2>1, <2>2, PutKeeps
  <2>3. CASE link' = [link EXCEPT ![r].closed = TRUE] /\ proc' = proc
    BY <1>0, <1>1, <2>1, <2>3 DEF Shape, Links
  <2>4. CASE link' = [link EXCEPT ![r].frames = Append(@, "result")] /\ proc' = proc
    <3>1. Append(link[r].frames, "result") \in Seq({"result", "error"})
      BY <1>0 DEF Links
    <3>2. link'[r] \in Links
      BY <1>0, <2>4, <3>1 DEF Shape, Links
    <3> QED
      BY <1>1, <2>1, <2>4, <3>2
  <2>5. CASE EndWith(r, "success", <<>>)
    <3>1. <<>> \in Seq({"result", "error"})
      OBVIOUS
    <3> QED
      BY <1>2, <2>1, <2>5, <3>1
  <2> QED
    BY <1>6, <2>2, <2>3, <2>4, <2>5 DEF Deviates
<1> QED
  BY <1>3, <1>4, <1>5, <1>6 DEF Outside

\* A step inside the permit, or of a worker, keeps the whole invariant.
LEMMA AloneKeeps ==
  ASSUME ReadsInv, NEW r \in Readers, Inside(r) \/ Outside(r)
  PROVE  ReadsInv'
<1> USE DEF ReadsInv
<1>1. Apart(r) /\ active' = active /\ ReaderInv(r)'
  BY InsideFrame, OutsideFrame, InsideReader, OutsideReader
<1>2. \A q \in Readers \ {r} : pc'[q] = pc[q]
  BY InsideFrame, OutsideFrame
<1>3. pc'[r] = pc[r] \/ (pc[r] \in Holding /\ pc'[r] \in Holding)
  BY InsideFrame, OutsideFrame
<1>4. ASSUME NEW q \in Readers PROVE ReaderInv(q)'
  BY <1>1, <1>2, <1>4 DEF Apart, ReaderInv, ReaderType, Drained, Gone
<1>5. OnePermit'
  BY <1>1, <1>2, <1>3 DEF OnePermit
<1>6. NoLostWakeup'
  BY <1>1, <1>2, <1>3 DEF NoLostWakeup, Holding
<1> QED
  BY <1>1, <1>4, <1>5, <1>6 DEF Apart

\* The queue's own steps: asking, waiting, timing out, taking and freeing.
LEMMA QueueKeeps ==
  ASSUME ReadsInv, NEW r \in Readers,
         BuildRequest(r) \/ Acquire(r) \/ WakeUp(r) \/ WakeSpuriously(r) \/ Release(r)
  PROVE  ReadsInv'
<1> USE DEF ReadsInv
<1>0. UNCHANGED <<drain, proc, link>>
  BY DEF BuildRequest, Acquire, WakeUp, WakeSpuriously, Release
<1>1. Shape'
  BY <1>0 DEF Shape, BuildRequest, Acquire, WakeUp, WakeSpuriously, Release, Goto, Return, queueVars
<1>2. ASSUME NEW q \in Readers PROVE ReaderInv(q)'
  <2>1. \/ pc'[q] = pc[q] /\ result'[q] = result[q]
        \/ /\ pc[q] \in Queued /\ result'[q] \in {result[q], "Failed", "TimedOut"}
           /\ pc'[q] \in Queued \cup {"reserve"}
        \/ /\ pc[q] \in Queued /\ pc'[q] = "done" /\ result'[q] \in {"Failed", "TimedOut"}
        \/ pc[q] = "release" /\ pc'[q] = "done" /\ result'[q] = result[q]
    BY DEF Shape, BuildRequest, Acquire, WakeUp, WakeSpuriously, Release, Goto, Return, Queued,
           queueVars
  <2> QED
    BY <1>0, <2>1 DEF ReaderInv, ReaderType, Drained, Gone, Queued, Holding
<1>3. CASE Release(r)
  <2>1. /\ ~active' /\ pc[r] = "release" /\ pc'[r] = "done"
        /\ \A q \in Readers \ {r} :
             pc'[q] = pc[q] \/ (pc[q] = "wait" /\ pc'[q] = "woken")
        /\ (\E q \in Readers : pc[q] = "wait") => \E q \in Readers : pc'[q] = "woken"
    BY <1>3 DEF Release, Goto, Shape
  <2>2. \A q \in Readers \ {r} : pc[q] \notin Holding
    BY <2>1 DEF OnePermit, Holding
  <2> QED
    BY <1>1, <1>2, <2>1, <2>2 DEF OnePermit, NoLostWakeup, Holding
<1>4. CASE Acquire(r)
  <2>1. /\ pc[r] \in Queued /\ \A q \in Readers \ {r} : pc'[q] = pc[q]
        /\ \/ ~active /\ active' = TRUE /\ pc'[r] = "reserve"
           \/ active /\ active' = active /\ pc'[r] \in {"wait", "done"}
    BY <1>4 DEF Acquire, Goto, Shape, Queued
  <2> QED
    BY <1>1, <1>2, <2>1 DEF OnePermit, NoLostWakeup, Holding, Queued
<1>5. CASE BuildRequest(r) \/ WakeUp(r) \/ WakeSpuriously(r)
  <2>1. /\ active' = active /\ \A q \in Readers \ {r} : pc'[q] = pc[q]
        /\ \/ pc[r] = "request" /\ pc'[r] \in {"acquire", "done"}
           \/ pc[r] = "wait" /\ pc'[r] = "woken"
    BY <1>5 DEF BuildRequest, WakeUp, WakeSpuriously, Goto, Shape, queueVars
  <2> QED
    BY <1>1, <1>2, <2>1 DEF OnePermit, NoLostWakeup, Holding
<1> QED
  BY <1>3, <1>4, <1>5

-----------------------------------------------------------------------------
\* ReadsInv holds in every reachable state of the shared read capability.
THEOREM ReadsInductive == Spec => []ReadsInv
<1>1. Init => ReadsInv
  BY ReadsInit
<1>2. ReadsInv /\ [Next]_vars => ReadsInv'
  <2> SUFFICES ASSUME ReadsInv, [Next]_vars PROVE ReadsInv'
    OBVIOUS
  <2>1. CASE Next
    BY <2>1, AloneKeeps, QueueKeeps DEF Next, ReadStep, Inside, Outside
  <2>2. CASE UNCHANGED vars
    BY <2>2 DEF vars, ReadsInv, Shape, ReaderInv, ReaderType, Drained, Gone, OnePermit, NoLostWakeup
  <2> QED
    BY <2>1, <2>2
<1> QED
  BY <1>1, <1>2, PTL DEF Spec

\* Bytes are returned only for a member that was verified as a whole, from a
\* worker that closed the pipe, reported once, exited cleanly and was reaped.
THEOREM ReadReturnsWholeMember == Spec => []OkMeansWholeMember
<1>1. ReadsInv => OkMeansWholeMember
  <2> SUFFICES ASSUME ReadsInv, NEW r \in Readers, result[r] = "ok"
               PROVE  /\ Drained(r) /\ drain[r].clean /\ Gone(r)
                      /\ \A n \in 1..Keep[r] : drain[r].out[n] = "good"
    BY DEF OkMeansWholeMember, Drained, Gone
  <2> QED
    BY DEF ReadsInv, ReaderInv, Drained
<1> QED
  BY <1>1, ReadsInductive, PTL

\* ReadCoordinator: at most one call holds the permit and the flag says so.
THEOREM PermitIsExclusive == Spec => []OnePermit
<1>1. ReadsInv => OnePermit
  BY DEF ReadsInv
<1> QED
  BY <1>1, ReadsInductive, PTL

\* ReadCoordinator: with the permit free, no waiting call is left without one
\* that is awake.
THEOREM WakeupsArrive == Spec => []NoLostWakeup
<1>1. ReadsInv => NoLostWakeup
  BY DEF ReadsInv
<1> QED
  BY <1>1, ReadsInductive, PTL

\* A read that releases the permit beside a worker it has not reaped returns the
\* reap failure (finish_active_result, ChildBoundary::drop).
THEOREM UnreapedWorkerIsReported == Spec => []UnreapedIsReported
<1>1. ReadsInv => UnreapedIsReported
  BY DEF ReadsInv, ReaderInv, UnreapedIsReported
<1> QED
  BY <1>1, ReadsInductive, PTL

-----------------------------------------------------------------------------
\* The pipe never holds more than it has room for, and a wait is timed or not.
BoundsInv ==
  /\ timed \in [Readers -> BOOLEAN]
  /\ \A r \in Readers : Len(link[r].pipe) <= PipeRoom

\* What any step of r does to r's pipe: nothing, one chunk less, one chunk
\* more while there is room, or a fresh one.
LEMMA PipeChanges ==
  ASSUME Shape, NEW r \in Readers, link[r] \in Links, Inside(r) \/ Outside(r)
  PROVE  \/ link'[r].pipe = link[r].pipe
         \/ link'[r].pipe = <<>>
         \/ link[r].pipe # <<>> /\ link'[r].pipe = Tail(link[r].pipe)
         \/ Len(link[r].pipe) < PipeRoom /\ \E c \in Chunk : link'[r].pipe = Append(link[r].pipe, c)
<1> USE DEF Shape, Links
<1>1. ASSUME NEW e, Stop(r, e) PROVE link'[r].pipe = <<>>
  BY <1>1 DEF Stop, FreshLink
<1>2. ASSUME NEW to, Continue(r, to) PROVE link'[r].pipe = link[r].pipe
  BY <1>2 DEF Continue
<1>3. CASE Reserve(r) \/ Spawn(r) \/ DrainEof(r) \/ DropBoundary(r)
  BY <1>3 DEF Reserve, Spawn, DrainEof, DropBoundary, Continue
<1>4. CASE DrainChunk(r)
  BY <1>1, <1>4 DEF DrainChunk, TakeChunk
<1>5. CASE DrainFrame(r)
  BY <1>1, <1>5 DEF DrainFrame
<1>6. CASE Handshake(r) \/ DrainExit(r) \/ DrainExpires(r) \/ DrainEnds(r) \/ SendAck(r)
           \/ WaitForExit(r) \/ ExitWaitFails(r) \/ Expire(r)
  BY <1>1, <1>2, <1>6
  DEF Handshake, DrainExit, DrainExpires, DrainEnds, SendAck, WaitForExit, ExitWaitFails, Expire
<1>7. CASE Validate(r)
  BY <1>1, <1>7 DEF Validate
<1>8. CASE Terminate(r) \/ ReapUntil(r)
  BY <1>1, <1>2, <1>8 DEF Terminate, ReapUntil, AfterReap, AfterReapFailure
<1>9. ASSUME NEW c \in Chunk, Put(r, c)
      PROVE  Len(link[r].pipe) < PipeRoom /\ link'[r].pipe = Append(link[r].pipe, c)
  BY <1>9 DEF Put
<1>10. ASSUME NEW status, NEW last, EndWith(r, status, last)
       PROVE  link'[r].pipe = link[r].pipe
  BY <1>10 DEF EndWith
<1>11. CASE WorkerWrites(r)
  BY <1>9, <1>11 DEF WorkerWrites, Chunk
<1>12. CASE WorkerReports(r)
  BY <1>12 DEF WorkerReports
<1>13. CASE WorkerEnds(r)
  BY <1>10, <1>13 DEF WorkerEnds
<1>14. CASE Deviates(r)
  BY <1>9, <1>10, <1>14 DEF Deviates
<1> QED
  BY <1>3, <1>4, <1>5, <1>6, <1>7, <1>8, <1>11, <1>12, <1>13, <1>14 DEF Inside, Outside

\* Every step keeps the pipes within their room.
LEMMA BoundsStep ==
  ASSUME ReadsInv, BoundsInv, NEW r \in Readers,
         ReadStep(r) \/ ExitWaitFails(r) \/ WakeSpuriously(r) \/ Outside(r)
  PROVE  BoundsInv'
<1> USE DEF ReadsInv, BoundsInv
<1>1. CASE BuildRequest(r) \/ Acquire(r) \/ WakeUp(r) \/ WakeSpuriously(r) \/ Release(r)
  BY <1>1 DEF BuildRequest, Acquire, WakeUp, WakeSpuriously, Release, queueVars
<1>2. CASE Inside(r) \/ Outside(r)
  <2>1. timed' = timed
    BY <1>2 DEF Inside, Outside, Reserve, Spawn, Handshake, DrainChunk, DrainEof, DrainFrame,
       DrainExit, DrainExpires, DrainEnds, SendAck, WaitForExit, ExitWaitFails, Expire, Validate, Terminate,
       ReapUntil, DropBoundary, WorkerWrites, WorkerReports, WorkerEnds, Deviates, queueVars
  <2>2. \A q \in Readers \ {r} : link'[q] = link[q]
    BY <1>2, InsideFrame, OutsideFrame DEF Apart
  <2>3. link[r] \in Links
    BY DEF ReaderInv, ReaderType
  <2>4. link[r].pipe \in Seq(Chunk)
    BY <2>3 DEF Links
  <2>5. Len(link'[r].pipe) <= PipeRoom
    <3>1. link'[r].pipe = <<>> => Len(link'[r].pipe) <= PipeRoom
      BY ChunksAssumption
    <3>2. link[r].pipe # <<>> => Len(Tail(link[r].pipe)) <= PipeRoom
      BY <2>4, ChunksAssumption
    <3>3. \A c \in Chunk : Len(link[r].pipe) < PipeRoom => Len(Append(link[r].pipe, c)) <= PipeRoom
      BY <2>4, ChunksAssumption
    <3> QED BY <1>2, <2>3, <3>1, <3>2, <3>3, PipeChanges
  <2> QED BY <2>1, <2>2, <2>5
<1> QED BY <1>1, <1>2 DEF ReadStep, Inside

\* The types of the queue and of every stream; no read holds or counts more
\* than it was authorized to (drain_member_read), for any member and any pipe.
THEOREM ReadsTypeCorrect == Spec => []TypeOK
<1>1. Init => BoundsInv
  <2> SUFFICES ASSUME Init PROVE BoundsInv
    OBVIOUS
  <2>1. timed \in [Readers -> BOOLEAN]
    BY DEF Init
  <2>2. \A r \in Readers : Len(link[r].pipe) <= PipeRoom
    <3>1. FreshLink.pipe = <<>> /\ Len(<<>>) <= PipeRoom
      BY ChunksAssumption DEF FreshLink
    <3> QED BY <3>1 DEF Init
  <2> QED BY <2>1, <2>2 DEF BoundsInv
<1>2. ReadsInv /\ BoundsInv /\ [Next]_vars => BoundsInv'
  <2> SUFFICES ASSUME ReadsInv, BoundsInv, [Next]_vars PROVE BoundsInv'
    OBVIOUS
  <2>1. CASE Next
    BY <2>1, BoundsStep DEF Next, Outside
  <2>2. CASE UNCHANGED vars
    BY <2>2 DEF vars, BoundsInv
  <2> QED BY <2>1, <2>2
<1>3. ReadsInv /\ BoundsInv => TypeOK
  <2> SUFFICES ASSUME ReadsInv, BoundsInv PROVE TypeOK
    OBVIOUS
  <2>1. \A r \in Readers : ReaderType(r)
    BY DEF ReadsInv, ReaderInv
  <2>2. pc \in [Readers -> Holding \cup {"request", "acquire", "wait", "woken", "done"}]
    BY <2>1 DEF ReadsInv, Shape, ReaderType, Queued
  <2>3. /\ result \in [Readers -> {"none", "ok", "TimedOut", "Reap", "Failed"}]
        /\ proc \in [Readers -> {"none", "running", "zombie", "reaped"}]
    BY <2>1 DEF ReadsInv, Shape, ReaderType
  <2>4. \A r \in Readers : /\ drain[r] \in Locals /\ Len(drain[r].out) <= Keep[r]
                           /\ link[r] \in Links
    BY <2>1 DEF ReaderType
  <2> QED BY <2>2, <2>3, <2>4 DEF TypeOK, ReadsInv, Shape, BoundsInv
<1> QED BY <1>1, <1>2, <1>3, ReadsInductive, PTL DEF Spec
=============================================================================
