------------------------- MODULE SourceSnapshotProofs -------------------------
(***************************************************************************)
(* The private copy is sound for files of every length, every cap, buffer  *)
(* and number of granules.  The argument is a sandwich: a byte of the copy *)
(* is at most what the recheck saw there, the second pass read at least    *)
(* that, and acceptance makes the two ends equal.  It needs that a         *)
(* position below the current length was never cut off, which is why the   *)
(* invariant relates the passes to the greatest length so far.             *)
(***************************************************************************)
EXTENDS SourceSnapshot, TLAPS

\* The call has copied the whole file.
Complete == {"reopen", "unlink", "recheck", "reread", "ready"}
\* The second pass has not started.
FirstPass == {"open", "stat", "spool", "file", "copy", "reopen", "unlink", "recheck"}

LengthInv ==
  /\ size <= peak /\ copied <= peak /\ again <= peak
  /\ copied <= Cap /\ again <= Cap
  /\ pc \in Complete => copied = before.len
  /\ pc \in {"reread", "ready"} => seen.len = copied
  /\ pc \in FirstPass => again = 0
  /\ finding = "quota.archive" => peak > Cap

\* What the first pass read has not been undercut since.
CopyInv ==
  persistent => \A k \in Offsets : (k <= copied /\ k <= size) => spool[k] <= data[k]

\* The recheck saw at least what the first pass read, and the file only grew on.
SeenInv ==
  (persistent /\ pc \in {"reread", "ready"}) =>
    \A k \in Offsets : k <= copied =>
      /\ spool[k] <= seen.byte[k]
      /\ k <= size => seen.byte[k] <= data[k]
      /\ k <= again => seen.byte[k] <= reread[k]

\* An accepted copy was read back.
AcceptInv == pc = "ready" => RereadAgrees

IInv == TypeOK /\ LengthInv /\ CopyInv /\ SeenInv /\ AcceptInv

(* The caller's file and the call start in the invariant.                  *)
LEMMA InitIInv == Init => IInv
<1> SUFFICES ASSUME Init PROVE IInv
  OBVIOUS
<1>1. Blank \in [Offsets -> Bytes]
  BY SnapshotAssumption DEF Blank, Bytes
<1>2. TypeOK
  <2>1. /\ persistent \in BOOLEAN /\ dir \in BOOLEAN /\ name \in BOOLEAN
        /\ finding \in {"none", "source.io", "quota.archive"}
    BY DEF Init
  <2>2. /\ before \in [len: 0..MaxLen, modified: 0..MaxTick]
        /\ seen \in [len: 0..MaxLen, byte: [Offsets -> Bytes]]
    BY <1>1, SnapshotAssumption DEF Init
  <2>3. /\ size \in 0..MaxLen /\ peak \in 0..MaxLen /\ data \in [Offsets -> Bytes]
        /\ mtime \in 0..MaxTick /\ now \in 0..MaxTick
        /\ copied \in 0..MaxLen /\ again \in 0..MaxLen
        /\ spool \in [Offsets -> Bytes] /\ reread \in [Offsets -> Bytes]
    BY <1>1, SnapshotAssumption DEF Init
  <2> QED BY <2>1, <2>2, <2>3 DEF Init, TypeOK
<1>3. LengthInv
  BY SnapshotAssumption DEF Init, LengthInv, Complete, FirstPass
<1>4. CopyInv /\ SeenInv /\ AcceptInv
  BY DEF Init, CopyInv, SeenInv, AcceptInv, Offsets
<1> QED BY <1>2, <1>3, <1>4 DEF IInv

(* A pass copies exactly the bytes it asked for.                           *)
LEMMA TransferType ==
  ASSUME NEW from \in [Offsets -> Bytes], NEW to \in [Offsets -> Bytes],
         NEW done \in Nat, NEW n \in Nat
  PROVE  Transfer(from, to, done, n) \in [Offsets -> Bytes]
BY DEF Transfer

(* A failing step only ends the call.                                      *)
LEMMA FailKeeps ==
  ASSUME IInv, NEW code \in {"source.io", "quota.archive"}, Fail(code),
         code = "quota.archive" => peak > Cap
  PROVE  IInv'
<1> USE DEF IInv, Fail, fileVars
<1>1. TypeOK'
  BY DEF TypeOK, CleanDirectory
<1>2. LengthInv'
  BY DEF TypeOK, LengthInv, Complete, FirstPass
<1>3. CopyInv' /\ SeenInv' /\ AcceptInv'
  BY DEF TypeOK, CopyInv, SeenInv, AcceptInv
<1> QED BY <1>1, <1>2, <1>3

(* Each step of the other process keeps the invariant.                     *)
LEMMA WriterStep ==
  ASSUME IInv, Writer
  PROVE  IInv'
<1> USE SnapshotAssumption DEF IInv, fileVars
<1>1. UNCHANGED copyVars /\ Reading
  BY DEF Writer, WriteByte, AppendByte, TruncateFile, Tick
<1>2. AcceptInv' /\ pc # "ready"
  BY <1>1 DEF copyVars, Reading, AcceptInv
<1>3. CASE WriteByte
  <2>1. PICK k \in 1..size, b \in Bytes :
          /\ persistent => b > data[k]
          /\ data' = [data EXCEPT ![k] = b]
    BY <1>3 DEF WriteByte
  <2>2. k \in Offsets /\ k \in Nat /\ b \in Nat
    BY DEF TypeOK, Offsets, Bytes
  <2>3. TypeOK'
    BY <1>1, <1>3, <2>1, <2>2 DEF WriteByte, TypeOK, copyVars
  <2>4. LengthInv'
    BY <1>1, <1>3 DEF WriteByte, LengthInv, copyVars
  <2>5. \A j \in Offsets : persistent => data[j] <= data'[j]
    BY <2>1, <2>2 DEF TypeOK, Bytes
  <2>6. \A j \in Offsets :
          /\ data[j] \in Nat /\ data'[j] \in Nat
          /\ spool[j] \in Nat /\ seen.byte[j] \in Nat
    BY <2>3 DEF TypeOK, Bytes
  <2>7. persistent => \A j \in Offsets :
          /\ spool[j] <= data[j] => spool[j] <= data'[j]
          /\ seen.byte[j] <= data[j] => seen.byte[j] <= data'[j]
    BY <2>5, <2>6
  <2>8. UNCHANGED <<persistent, size, copied, spool, seen, again, reread, pc>>
    BY <1>1, <1>3 DEF WriteByte, copyVars
  <2>9. CopyInv'
    BY <2>7, <2>8 DEF CopyInv
  <2>10. SeenInv'
    BY <2>7, <2>8 DEF SeenInv
  <2> QED BY <1>2, <2>3, <2>4, <2>9, <2>10
<1>4. CASE AppendByte
  <2>1. PICK b \in Bytes : data' = [data EXCEPT ![size + 1] = b]
    BY <1>4 DEF AppendByte
  <2>2. size + 1 \in Offsets /\ size' = size + 1 /\ size \in Nat
    BY <1>4 DEF AppendByte, TypeOK, Offsets
  <2>3. TypeOK'
    BY <1>1, <1>4, <2>1, <2>2 DEF AppendByte, TypeOK, copyVars, Offsets
  <2>4. LengthInv'
    BY <1>1, <1>4 DEF AppendByte, LengthInv, copyVars, TypeOK
  <2>5. persistent => \A j \in Offsets :
          (j <= copied /\ j <= size') => j <= size /\ data'[j] = data[j]
    BY <1>4, <2>1, <2>2 DEF AppendByte, LengthInv, TypeOK, Offsets
  <2>6. CopyInv'
    BY <1>1, <1>4, <2>5 DEF AppendByte, CopyInv, copyVars
  <2>7. SeenInv'
    BY <1>1, <1>4, <2>5 DEF AppendByte, SeenInv, copyVars
  <2> QED BY <1>2, <2>3, <2>4, <2>6, <2>7
<1>5. CASE TruncateFile
  <2>1. PICK n \in 0..MaxLen :
          /\ n < size
          /\ size' = n
          /\ data' = [k \in Offsets |-> IF k > n THEN 0 ELSE data[k]]
    BY <1>5 DEF TruncateFile
  <2>2. TypeOK'
    BY <1>1, <1>5, <2>1 DEF TruncateFile, TypeOK, copyVars, Bytes
  <2>3. LengthInv'
    BY <1>1, <1>5, <2>1 DEF TruncateFile, LengthInv, copyVars, TypeOK
  <2>4. \A j \in Offsets : j <= size' => j <= size /\ data'[j] = data[j]
    BY <2>1 DEF TypeOK, Offsets
  <2>5. CopyInv' /\ SeenInv'
    BY <1>1, <1>5, <2>4 DEF TruncateFile, CopyInv, SeenInv, copyVars
  <2> QED BY <1>2, <2>2, <2>3, <2>5
<1>6. CASE Tick
  <2>1. TypeOK'
    BY <1>1, <1>6 DEF Tick, copyVars, TypeOK
  <2>2. LengthInv'
    BY <1>1, <1>6 DEF Tick, copyVars, LengthInv
  <2>3. CopyInv' /\ SeenInv'
    BY <1>1, <1>6 DEF Tick, copyVars, CopyInv, SeenInv
  <2> QED BY <1>2, <2>1, <2>2, <2>3
<1> QED BY <1>3, <1>4, <1>5, <1>6 DEF Writer

(* A step that moves the call on without reading the caller's file.        *)
LEMMA QuietStep ==
  ASSUME IInv, OpenSource \/ CreateDirectory \/ CreateSpool \/ ReopenSpool \/ UnlinkSpool
  PROVE  IInv'
<1> USE DEF IInv, TypeOK, fileVars
<1>1. TypeOK' /\ LengthInv'
  BY DEF OpenSource, CreateDirectory, CreateSpool, ReopenSpool, UnlinkSpool, LengthInv, Complete, FirstPass
<1>2. CopyInv' /\ SeenInv' /\ AcceptInv'
  BY DEF OpenSource, CreateDirectory, CreateSpool, ReopenSpool, UnlinkSpool, CopyInv, SeenInv, AcceptInv
<1> QED BY <1>1, <1>2

(* The first pass.                                                         *)
LEMMA CopyStep ==
  ASSUME IInv, CopyChunk
  PROVE  IInv'
<1>1. PICK n \in ReadLengths(copied) :
        \/ copied + n > Cap /\ Fail("quota.archive")
        \/ /\ copied + n <= Cap
           /\ spool' = Transfer(data, spool, copied, n)
           /\ copied' = copied + n
           /\ UNCHANGED <<fileVars, now, pc, before, reread, again, seen, dir,
                          name, finding, graphVars>>
  BY DEF CopyChunk
<1>2. n \in Nat /\ copied + n <= size
  BY <1>1 DEF ReadLengths, ReadLimit, Least
<1>3. CASE copied + n > Cap /\ Fail("quota.archive")
  BY <1>2, <1>3, FailKeeps, SnapshotAssumption DEF IInv, TypeOK, LengthInv
<1>4. CASE /\ copied + n <= Cap
           /\ spool' = Transfer(data, spool, copied, n)
           /\ copied' = copied + n
           /\ UNCHANGED <<fileVars, now, pc, before, reread, again, seen, dir,
                          name, finding, graphVars>>
  <2> USE SnapshotAssumption DEF IInv, fileVars
  <2>1. TypeOK'
    <3>1. Transfer(data, spool, copied, n) \in [Offsets -> Bytes]
      <4>1. copied \in Nat /\ data \in [Offsets -> Bytes] /\ spool \in [Offsets -> Bytes]
        BY DEF TypeOK
      <4> QED BY <1>2, <4>1, TransferType
    <3>2. copied + n \in 0..MaxLen
      BY <1>2 DEF TypeOK
    <3> QED BY <1>4, <3>1, <3>2 DEF TypeOK
  <2>2. LengthInv'
    BY <1>2, <1>4 DEF CopyChunk, TypeOK, LengthInv, Complete, FirstPass
  <2>3. CopyInv'
    BY <1>2, <1>4 DEF TypeOK, CopyInv, Transfer, Offsets, Bytes
  <2>4. SeenInv' /\ AcceptInv'
    BY <1>4 DEF CopyChunk, SeenInv, AcceptInv
  <2> QED BY <2>1, <2>2, <2>3, <2>4
<1> QED BY <1>1, <1>3, <1>4

(* The second pass.                                                        *)
LEMMA RereadStep ==
  ASSUME IInv, RereadChunk
  PROVE  IInv'
<1>1. PICK n \in ReadLengths(again) :
        \/ again + n > Cap /\ Fail("quota.archive")
        \/ /\ again + n <= Cap
           /\ reread' = Transfer(data, reread, again, n)
           /\ again' = again + n
           /\ UNCHANGED <<fileVars, now, pc, before, copied, spool, seen, dir,
                          name, finding, graphVars>>
  BY DEF RereadChunk
<1>2. n \in Nat /\ again + n <= size
  BY <1>1 DEF ReadLengths, ReadLimit, Least
<1>3. CASE again + n > Cap /\ Fail("quota.archive")
  BY <1>2, <1>3, FailKeeps, SnapshotAssumption DEF IInv, TypeOK, LengthInv
<1>4. CASE /\ again + n <= Cap
           /\ reread' = Transfer(data, reread, again, n)
           /\ again' = again + n
           /\ UNCHANGED <<fileVars, now, pc, before, copied, spool, seen, dir,
                          name, finding, graphVars>>
  <2> USE SnapshotAssumption DEF IInv, fileVars
  <2>1. TypeOK'
    <3>1. Transfer(data, reread, again, n) \in [Offsets -> Bytes]
      <4>1. again \in Nat /\ data \in [Offsets -> Bytes] /\ reread \in [Offsets -> Bytes]
        BY DEF TypeOK
      <4> QED BY <1>2, <4>1, TransferType
    <3>2. again + n \in 0..MaxLen
      BY <1>2 DEF TypeOK
    <3> QED BY <1>4, <3>1, <3>2 DEF TypeOK
  <2>2. LengthInv'
    BY <1>2, <1>4 DEF RereadChunk, TypeOK, LengthInv, Complete, FirstPass
  <2>3. CopyInv' /\ AcceptInv'
    BY <1>4 DEF RereadChunk, CopyInv, AcceptInv
  <2>4. \A k \in Offsets : k <= again' =>
          \/ k <= again /\ reread'[k] = reread[k]
          \/ k <= size /\ reread'[k] = data[k]
    BY <1>2, <1>4 DEF TypeOK, Transfer, Offsets
  <2>5. SeenInv'
    BY <1>4, <2>4 DEF RereadChunk, SeenInv
  <2> QED BY <2>1, <2>2, <2>3, <2>5
<1> QED BY <1>1, <1>3, <1>4

(* The decisions between the passes and after them.                        *)
LEMMA DecideStep ==
  ASSUME IInv, StatSource \/ CopyEnd \/ RecheckSource \/ RereadEnd \/ FailIo
  PROVE  IInv'
<1> USE SnapshotAssumption
<1>1. ASSUME NEW code \in {"source.io", "quota.archive"}, Fail(code),
             code = "quota.archive" => size > Cap
      PROVE  IInv'
  BY <1>1, FailKeeps DEF IInv, TypeOK, LengthInv
<1>2. CASE StatSource
  <2>1. CASE size <= Cap /\ pc' = "spool"
    BY <1>2, <2>1 DEF StatSource, Fail, fileVars, IInv, TypeOK, LengthInv, CopyInv, SeenInv,
       AcceptInv, Complete, FirstPass, Fingerprint
  <2> QED BY <1>1, <1>2, <2>1 DEF StatSource
<1>3. CASE CopyEnd
  <2>1. CASE copied = before.len /\ pc' = "reopen"
    BY <1>3, <2>1 DEF CopyEnd, Fail, fileVars, IInv, TypeOK, LengthInv, CopyInv, SeenInv,
       AcceptInv, Complete, FirstPass
  <2> QED BY <1>1, <1>3, <2>1 DEF CopyEnd
<1>4. CASE RecheckSource
  <2>1. CASE Fingerprint = before /\ pc' = "reread"
    <3>1. seen' = [len |-> size, byte |-> data] /\ size = before.len
      BY <1>4, <2>1 DEF RecheckSource, Fail, Fingerprint
    <3>2. TypeOK' /\ LengthInv' /\ CopyInv' /\ AcceptInv'
      BY <1>4, <2>1, <3>1 DEF RecheckSource, Fail, fileVars, IInv, TypeOK, LengthInv,
         CopyInv, AcceptInv, Complete, FirstPass
    <3>3. /\ again' = 0 /\ copied' = copied /\ copied = size /\ size' = size
          /\ spool' = spool /\ data' = data /\ persistent' = persistent
          /\ seen'.byte = data
      BY <1>4, <2>1, <3>1 DEF RecheckSource, Fail, fileVars, IInv, LengthInv, Complete, FirstPass
    <3>4. \A k \in Offsets : ~(k <= 0) /\ data[k] <= data[k]
      BY DEF IInv, TypeOK, Offsets, Bytes
    <3>5. SeenInv'
      BY <3>3, <3>4 DEF IInv, CopyInv, SeenInv
    <3> QED BY <3>2, <3>5 DEF IInv
  <2> QED BY <1>1, <1>4, <2>1 DEF RecheckSource
<1>5. CASE RereadEnd
  <2>1. CASE RereadAgrees /\ pc' = "ready"
    <3>1. RereadAgrees' /\ TypeOK' /\ LengthInv'
      BY <1>5, <2>1 DEF RereadEnd, Fail, RereadAgrees, fileVars, IInv, TypeOK, LengthInv,
         Complete, FirstPass
    <3>2. CopyInv' /\ SeenInv'
      BY <1>5, <2>1 DEF RereadEnd, Fail, fileVars, IInv, CopyInv, SeenInv
    <3> QED BY <3>1, <3>2 DEF IInv, AcceptInv
  <2> QED BY <1>1, <1>5, <2>1 DEF RereadEnd
<1>6. CASE FailIo
  BY <1>1, <1>6 DEF FailIo
<1> QED BY <1>2, <1>3, <1>4, <1>5, <1>6

(* Using, dropping and losing the snapshot.                                *)
LEMMA UseStep ==
  ASSUME IInv, Use \/ Kill
  PROVE  IInv'
<1> USE DEF IInv, TypeOK, fileVars
<1>1. ASSUME NEW r \in Ranges, NEW out \in Outputs, AppendDerived(r, out)
      PROVE  IInv'
  BY <1>1 DEF AppendDerived, copyVars, LengthInv, CopyInv, SeenInv, AcceptInv,
     RereadAgrees, Complete, FirstPass
<1>2. CASE DropSnapshot
  BY <1>2 DEF DropSnapshot, CleanDirectory, LengthInv, CopyInv, SeenInv, AcceptInv,
     Complete, FirstPass
<1>3. CASE Kill
  BY <1>3 DEF Kill, graphVars, LengthInv, CopyInv, SeenInv, AcceptInv, Complete, FirstPass
<1> QED BY <1>1, <1>2, <1>3 DEF Use

(* Every step, and every stuttering step, keeps the invariant.             *)
LEMMA NextIInv == IInv /\ [Next]_vars => IInv'
<1> SUFFICES ASSUME IInv, [Next]_vars PROVE IInv'
  OBVIOUS
<1>1. CASE UNCHANGED vars
  BY <1>1 DEF vars, IInv, TypeOK, LengthInv, CopyInv, SeenInv, AcceptInv, RereadAgrees
<1>2. CASE Next
  BY <1>2, WriterStep, QuietStep, CopyStep, RereadStep, DecideStep, UseStep
     DEF Next, Caller
<1> QED BY <1>1, <1>2

(* The sandwich closes: what the call accepts is what the recheck saw.     *)
LEMMA Sandwich == IInv => AcceptedIsOneVersion
<1> SUFFICES ASSUME IInv, pc = "ready", persistent
             PROVE  copied = seen.len /\ \A k \in 1..copied : spool[k] = seen.byte[k]
  BY DEF AcceptedIsOneVersion
<1>1. copied = seen.len /\ again = copied
  BY DEF IInv, LengthInv, AcceptInv, RereadAgrees
<1>2. ASSUME NEW k \in 1..copied PROVE spool[k] = seen.byte[k]
  <2>1. k \in Offsets /\ k <= copied /\ k <= again /\ reread[k] = spool[k]
    BY <1>1, <1>2, SnapshotAssumption DEF IInv, TypeOK, AcceptInv, RereadAgrees, Offsets
  <2>2. spool[k] <= seen.byte[k] /\ seen.byte[k] <= spool[k]
    BY <2>1 DEF IInv, SeenInv
  <2>3. spool[k] \in Nat /\ seen.byte[k] \in Nat
    BY <2>1 DEF IInv, TypeOK, Bytes
  <2> QED BY <2>2, <2>3
<1> QED BY <1>1, <1>2

(* The strengthened invariant holds throughout.                            *)
THEOREM SnapshotInductive == Spec => []IInv
BY InitIInv, NextIInv, PTL DEF Spec

(* The type invariant of the copy holds throughout.                        *)
THEOREM SnapshotTypeCorrect == Spec => []TypeOK
<1>1. IInv => TypeOK
  BY DEF IInv
<1> QED BY <1>1, SnapshotInductive, PTL

(* An accepted copy is one version of the caller's file, for files of      *)
(* every length and writers of every kind whose changes persist.           *)
THEOREM SnapshotIsOneVersion == Spec => []AcceptedIsOneVersion
BY SnapshotInductive, Sandwich, PTL

(* Neither pass ever exceeds the cap and a quota finding is never wrong.   *)
THEOREM SnapshotWithinCap == Spec => []CapIsExact
<1>1. IInv => CapIsExact
  BY DEF IInv, LengthInv, CapIsExact
<1> QED BY <1>1, SnapshotInductive, PTL

-----------------------------------------------------------------------------
(***************************************************************************)
(* The accepted copy and the domains derived from it                       *)
(***************************************************************************)
\* A transform record names a range and its output domain.
RecordType ==
  [input: Ranges, inputSha: Seq(Bytes), output: Nat, outputSha: Seq(Bytes)]

\* The set is empty until the copy is accepted, and whole from then on; the
\* private file lost its name before its bytes could be used.
GraphInv ==
  /\ domains \in Seq(Seq(Bytes)) /\ records \in Seq(RecordType)
  /\ pc \notin {"ready", "dead"} => domains = <<>> /\ records = <<>>
  /\ pc = "ready" => GraphMatches
  /\ (pc \in {"recheck", "reread", "ready", "dropped"} \/ domains # <<>>) => ~name

(* append_prepared_transform keeps the graph whole: the records there are  *)
(* still speak of the domains they spoke of, and the new one of the new.   *)
LEMMA AppendKeeps ==
  ASSUME IInv, GraphInv, NEW r \in Ranges, NEW out \in Outputs, AppendDerived(r, out)
  PROVE  GraphInv'
<1>a. /\ pc = "ready" /\ Prepared(r) /\ UNCHANGED <<pc, name>>
      /\ domains' = Append(domains, out)
      /\ records' = Append(records, Record(r, out))
  BY DEF AppendDerived, copyVars
<1>b. /\ domains \in Seq(Seq(Bytes)) /\ records \in Seq(RecordType)
      /\ GraphMatches /\ Len(records) + 1 = Len(domains) /\ ~name
  BY <1>a DEF GraphInv, GraphMatches
<1>c. out \in Seq(Bytes) /\ DomainIds \in Nat
  BY OutputsAssumption, SnapshotAssumption
<1>d. /\ r.domain \in Nat /\ r.offset \in Nat /\ r.len \in Nat
      /\ r.domain < Len(domains) /\ r.offset + r.len <= Len(domains[r.domain + 1])
      /\ Len(domains) < DomainIds
  BY <1>a, SnapshotAssumption DEF Ranges, Prepared, RangeInBounds
<1>1. domains' \in Seq(Seq(Bytes))
  BY <1>a, <1>b, <1>c
<1>2. RangeSha(r) \in Seq(Bytes)
  <2>1. domains[r.domain + 1] \in Seq(Bytes)
    BY <1>b, <1>d
  <2> QED BY <1>d, <2>1 DEF RangeSha
<1>3. Record(r, out) \in RecordType
  BY <1>b, <1>c, <1>2 DEF Record, RecordType
<1>4. records' \in Seq(RecordType)
  BY <1>a, <1>b, <1>3
<1>5. /\ Len(domains') = Len(domains) + 1 /\ Len(records') = Len(records) + 1
      /\ \A j \in 1..Len(domains) : domains'[j] = domains[j]
      /\ \A j \in 1..Len(records) : records'[j] = records[j]
      /\ domains'[Len(domains) + 1] = out
      /\ records'[Len(domains)] = Record(r, out)
  BY <1>a, <1>b, <1>c, <1>3
<1>6. ASSUME NEW q, q.domain \in Nat, q.domain < Len(domains)
      PROVE  /\ RangeSha(q)' = RangeSha(q)
             /\ RangeInBounds(q) => RangeInBounds(q)'
  <2>1. domains'[q.domain + 1] = domains[q.domain + 1]
    BY <1>b, <1>5, <1>6
  <2> QED BY <1>b, <1>5, <1>6, <2>1 DEF RangeSha, RangeInBounds
<1> DEFINE Whole(i) ==
             /\ records[i].output = i /\ i < DomainIds
             /\ records[i].input.domain < i
             /\ RangeInBounds(records[i].input)
             /\ records[i].inputSha = RangeSha(records[i].input)
             /\ records[i].outputSha = domains[i + 1]
<1>7. ASSUME NEW i \in 1..Len(records) PROVE Whole(i)'
  <2>1. Whole(i)
    BY <1>b DEF GraphMatches
  <2>2. records[i].input \in Ranges
    <3>1. records[i] \in RecordType
      BY <1>b
    <3> QED BY <3>1 DEF RecordType
  <2>3. records[i].input.domain \in Nat
    BY <2>2, SnapshotAssumption DEF Ranges
  <2>4. records[i].input.domain < Len(domains)
    BY <1>b, <2>1, <2>3
  <2>5. i + 1 \in 1..Len(domains) /\ records'[i] = records[i]
    BY <1>b, <1>5
  <2>6. domains'[i + 1] = domains[i + 1]
    BY <1>5, <2>5
  <2>7. PICK q : q = records[i].input
    OBVIOUS
  <2>8. RangeSha(q)' = RangeSha(q) /\ RangeInBounds(q)'
    BY <1>6, <2>1, <2>3, <2>4, <2>7
  <2> QED BY <2>1, <2>5, <2>6, <2>7, <2>8
<1>8. /\ Record(r, out).output = Len(domains) /\ Record(r, out).input = r
      /\ Record(r, out).inputSha = RangeSha(r) /\ Record(r, out).outputSha = out
  BY DEF Record
<1>9. RangeInBounds(r)' /\ RangeSha(r)' = RangeSha(r)
  BY <1>a, <1>d, <1>6 DEF Prepared
<1>10. GraphMatches'
  <2>1. ASSUME NEW i \in 1..Len(records') PROVE Whole(i)'
    <3>1. CASE i \in 1..Len(records)
      BY <1>7, <3>1
    <3>2. CASE i = Len(domains)
      <4>1. records'[i] = Record(r, out) /\ domains'[i + 1] = out
        BY <1>5, <3>2
      <4> QED BY <1>8, <1>9, <1>d, <3>2, <4>1
    <3>3. Len(records') = Len(domains) /\ Len(records) \in Nat
      BY <1>b, <1>5
    <3>4. i \in 1..Len(records) \/ i = Len(domains)
      BY <1>b, <2>1, <3>3
    <3> QED BY <3>1, <3>2, <3>4
  <2>2. Len(records') + 1 = Len(domains')
    BY <1>b, <1>5
  <2> HIDE DEF Whole
  <2>3. GraphMatches' <=> /\ Len(records') + 1 = Len(domains')
                          /\ \A i \in 1..Len(records') : Whole(i)'
    BY DEF GraphMatches, Whole
  <2> QED BY <2>1, <2>2, <2>3
<1> QED BY <1>a, <1>b, <1>1, <1>4, <1>10 DEF GraphInv

(* Every other step leaves the set alone, empties it, or starts it.        *)
LEMMA GraphStep ==
  ASSUME IInv, GraphInv, [Next]_vars
  PROVE  GraphInv'
<1> USE DEF GraphInv
<1>1. ASSUME UNCHANGED <<domains, records>>, pc' = pc, name' = name PROVE GraphInv'
  <2>1. GraphMatches' = GraphMatches
    BY <1>1 DEF GraphMatches, RangeInBounds, RangeSha
  <2> QED BY <1>1, <2>1
<1>2. ASSUME NEW code, Fail(code), pc \notin {"ready", "dead"} PROVE GraphInv'
  BY <1>2 DEF Fail, CleanDirectory, graphVars
<1>3. CASE UNCHANGED vars
  BY <1>1, <1>3 DEF vars
<1>4. CASE Writer
  BY <1>1, <1>4 DEF Writer, WriteByte, AppendByte, TruncateFile, Tick, copyVars, graphVars
<1>5. CASE OpenSource \/ CreateDirectory \/ CreateSpool \/ ReopenSpool \/ UnlinkSpool
  BY <1>5 DEF OpenSource, CreateDirectory, CreateSpool, ReopenSpool, UnlinkSpool, graphVars
<1>6. CASE StatSource
  BY <1>2, <1>6 DEF StatSource, graphVars
<1>7. CASE CopyChunk \/ RereadChunk
  BY <1>1, <1>2, <1>7 DEF CopyChunk, RereadChunk, graphVars
<1>8. CASE CopyEnd
  BY <1>2, <1>8 DEF CopyEnd, graphVars
<1>9. CASE RecheckSource
  <2>1. CASE Fail("source.io")
    BY <1>2, <1>9, <2>1 DEF RecheckSource
  <2>2. CASE pc' = "reread" /\ UNCHANGED <<name, domains, records>>
    BY <1>9, <2>2 DEF RecheckSource
  <2> QED BY <1>9, <2>1, <2>2 DEF RecheckSource, graphVars
<1>10. CASE FailIo
  BY <1>2, <1>10 DEF FailIo
<1>11. CASE RereadEnd
  <2>1. CASE Fail("source.io")
    BY <1>2, <1>11, <2>1 DEF RereadEnd
  <2>2. CASE /\ pc' = "ready" /\ domains' = <<[k \in 1..copied |-> spool[k]]>>
             /\ UNCHANGED <<name, records>>
    <3>1. [k \in 1..copied |-> spool[k]] \in Seq(Bytes)
      <4>1. copied \in Nat /\ \A k \in 1..copied : spool[k] \in Bytes
        BY SnapshotAssumption DEF IInv, TypeOK, Offsets
      <4> QED BY <4>1
    <3>2. domains' \in Seq(Seq(Bytes)) /\ Len(domains') = 1
      BY <2>2, <3>1
    <3>3. records' = <<>>
      BY <1>11, <2>2 DEF RereadEnd
    <3>4. GraphMatches'
      BY <3>2, <3>3 DEF GraphMatches
    <3> QED BY <1>11, <2>2, <3>2, <3>3, <3>4 DEF RereadEnd
  <2> QED BY <1>11, <2>1, <2>2 DEF RereadEnd
<1>12. ASSUME NEW r \in Ranges, NEW out \in Outputs, AppendDerived(r, out)
       PROVE  GraphInv'
  BY <1>12, AppendKeeps
<1>13. CASE DropSnapshot
  <2>1. pc = "ready" /\ pc' = "dropped" /\ domains' = <<>> /\ records' = <<>>
    BY <1>13 DEF DropSnapshot
  <2>2. ~name'
    BY <1>13, <2>1 DEF DropSnapshot, CleanDirectory
  <2>3. domains' \in Seq(Seq(Bytes)) /\ records' \in Seq(RecordType)
    BY <2>1
  <2> QED BY <2>1, <2>2, <2>3
<1>14. CASE Kill
  BY <1>14 DEF Kill, graphVars
<1> QED
  BY <1>3, <1>4, <1>5, <1>6, <1>7, <1>8, <1>9, <1>10, <1>11, <1>12, <1>13, <1>14
  DEF Next, Caller, Use

(* What was accepted stays whole and private: however many domains are     *)
(* derived, the graph is never half appended, and no name leads to the     *)
(* private bytes, whatever is killed and whichever removal fails.          *)
THEOREM SnapshotStaysIntact == Spec => []AcceptedStaysIntact
<1>1. Init => GraphInv
  BY DEF Init, GraphInv
<1>2. IInv /\ GraphInv /\ [Next]_vars => GraphInv'
  BY GraphStep
<1>3. GraphInv => AcceptedStaysIntact
  BY DEF GraphInv, AcceptedStaysIntact
<1> QED BY <1>1, <1>2, <1>3, SnapshotInductive, PTL DEF Spec
=============================================================================
