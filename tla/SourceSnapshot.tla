---------------------------- MODULE SourceSnapshot ----------------------------
(***************************************************************************)
(* The path-backed source snapshot of crates/sealr/src/snapshot.rs:        *)
(* private_file_from_path copies the caller's file once into a private     *)
(* unlinked file, under a cap, while another process may write, grow or    *)
(* truncate that file.  A change is looked for twice: by comparing the     *)
(* opened file's metadata before and after the copy, whose timestamps only *)
(* move between granules, and by streaming the file a second time.  The    *)
(* accepted copy becomes domain 0 of a SnapshotSet, to which decoders      *)
(* append derived domains together with a record of how they were made.    *)
(*                                                                         *)
(* A SHA-256 is modelled by the bytes it digests.  The Unix branch is      *)
(* modelled; Windows denies write sharing and has no concurrent writer.    *)
(***************************************************************************)
EXTENDS Naturals, Sequences

CONSTANTS
  MaxByte,       \* bytes are 0..MaxByte
  MaxLen,        \* bound on the length of the caller's file
  Cap,           \* max_archive_bytes, and max_output_bytes of a decoder
  Chunk,         \* COPY_BUFFER_BYTES
  MaxTick,       \* bound on timestamp granules that pass
  DomainIds,     \* size of the domain identity space (2^16 in the code)
  Outputs        \* what decoders may produce from a domain

ASSUME SnapshotAssumption ==
  /\ MaxByte \in Nat /\ MaxLen \in Nat /\ Cap \in Nat
  /\ Chunk \in Nat \ {0}
  /\ MaxTick \in Nat
  /\ DomainIds \in Nat \ {0}

VARIABLES
  persistent, \* the other process never restores an earlier byte or length
  size,     \* length of the caller's file
  data,     \* its bytes
  peak,     \* the greatest length it has had
  mtime,    \* its modification time, in granules
  now,      \* the current granule
  pc,       \* where private_file_from_opened is
  before,   \* opened_source_state taken before the copy
  copied,   \* bytes copied so far
  spool,    \* bytes of the private file
  reread,   \* bytes seen by the second pass
  again,    \* how many of them
  seen,     \* history: the caller's file when its metadata was rechecked
  dir,      \* the private directory exists
  name,     \* the private file has a name in it
  finding,  \* the finding the call fails with
  domains,  \* SnapshotSet::domains
  records   \* TransformGraph::records

fileVars == <<persistent, size, data, peak, mtime>>
copyVars == <<pc, before, copied, spool, reread, again, seen, dir, name, finding>>
graphVars == <<domains, records>>
vars == <<persistent, size, data, peak, mtime, now, pc, before, copied, spool,
          reread, again, seen, dir, name, finding, domains, records>>

Bytes == 0..MaxByte
ASSUME OutputsAssumption == Outputs \subseteq Seq(Bytes)
Offsets == 1..MaxLen
Blank == [k \in Offsets |-> 0]
Least(a, b) == IF a < b THEN a ELSE b

\* opened_source_state: length and timestamps; device, inode and mode cannot
\* change behind an open handle.
Fingerprint == [len |-> size, modified |-> mtime]

Init ==
  /\ persistent \in BOOLEAN
  /\ size \in 0..MaxLen
  /\ data \in [Offsets -> Bytes]
  /\ \A k \in Offsets : k > size => data[k] = 0
  /\ peak = size
  /\ mtime = 0 /\ now = 0
  /\ pc = "open"
  /\ before = [len |-> 0, modified |-> 0]
  /\ copied = 0 /\ spool = Blank
  /\ again = 0 /\ reread = Blank
  /\ seen = [len |-> 0, byte |-> Blank]
  /\ dir = FALSE /\ name = FALSE
  /\ finding = "none"
  /\ domains = <<>> /\ records = <<>>

-----------------------------------------------------------------------------
(***************************************************************************)
(* The other process.  Its writes stamp the file with the current granule. *)
(* Nothing opens the caller's file again once the call has ended, so its   *)
(* later life is left out.                                                 *)
(***************************************************************************)
Reading == pc \notin {"ready", "dropped", "failed", "dead"}

WriteByte ==
  /\ Reading
  /\ \E k \in 1..size, b \in Bytes :
       /\ persistent => b > data[k]
       /\ data' = [data EXCEPT ![k] = b]
  /\ mtime' = now
  /\ UNCHANGED <<persistent, size, peak, now, copyVars, graphVars>>

AppendByte ==
  /\ Reading
  /\ size < MaxLen
  /\ persistent => size = peak
  /\ \E b \in Bytes : data' = [data EXCEPT ![size + 1] = b]
  /\ size' = size + 1
  /\ peak' = IF size < peak THEN peak ELSE size + 1
  /\ mtime' = now
  /\ UNCHANGED <<persistent, now, copyVars, graphVars>>

TruncateFile ==
  /\ Reading
  /\ \E n \in 0..MaxLen :
       /\ n < size
       /\ size' = n
       /\ data' = [k \in Offsets |-> IF k > n THEN 0 ELSE data[k]]
  /\ mtime' = now
  /\ UNCHANGED <<persistent, peak, now, copyVars, graphVars>>

Tick ==
  /\ Reading
  /\ now < MaxTick
  /\ now' = now + 1
  /\ UNCHANGED <<fileVars, copyVars, graphVars>>

-----------------------------------------------------------------------------
(***************************************************************************)
(* private_file_from_opened and private_file_from_bounded_reader           *)
(***************************************************************************)
\* Drop of PrivateDirectory, whose errors are ignored.
CleanDirectory ==
  \/ dir' = FALSE /\ name' = FALSE
  \/ dir /\ dir' = dir /\ name' \in {name, FALSE}

\* The call returns a finding; whatever exists of the private file is dropped.
Fail(code) ==
  /\ pc' = "failed"
  /\ finding' = code
  /\ CleanDirectory
  /\ UNCHANGED <<fileVars, now, before, copied, spool, reread, again, seen, graphVars>>

\* Opening, inspecting, creating, reading, writing, reopening or unlinking
\* can fail at every point of the call.
FailIo ==
  /\ pc \in {"open", "stat", "spool", "file", "copy", "reopen", "unlink", "recheck",
             "reread"}
  /\ Fail("source.io")

OpenSource ==
  /\ pc = "open"
  /\ pc' = "stat"
  /\ UNCHANGED <<fileVars, now, before, copied, spool, reread, again, seen, dir,
                 name, finding, graphVars>>

StatSource ==
  /\ pc = "stat"
  /\ \/ /\ size > Cap
        /\ Fail("quota.archive")
     \/ /\ size <= Cap
        /\ pc' = "spool"
        /\ before' = Fingerprint
        /\ UNCHANGED <<fileVars, now, copied, spool, reread, again, seen, dir,
                       name, finding, graphVars>>

\* The private directory first, then the file in it with create_new.
CreateDirectory ==
  /\ pc = "spool"
  /\ pc' = "file"
  /\ dir' = TRUE
  /\ UNCHANGED <<fileVars, now, before, copied, spool, reread, again, seen,
                 name, finding, graphVars>>

CreateSpool ==
  /\ pc = "file"
  /\ pc' = "copy"
  /\ name' = TRUE
  /\ UNCHANGED <<fileVars, now, before, copied, spool, reread, again, seen,
                 dir, finding, graphVars>>

\* copy_bounded asks for one byte more than the cap leaves, and at most a
\* buffer; a read returns some of the bytes there are.
ReadLimit(done) == Least(Cap - done + 1, Chunk)
ReadLengths(done) == {n \in 1..ReadLimit(done) : done + n <= size}

Transfer(from, to, done, n) ==
  [k \in Offsets |-> IF k \in (done + 1)..(done + n) THEN from[k] ELSE to[k]]

\* Mutant: a file of exactly the cap is refused.
CopyChunkOffByOne ==
  /\ pc = "copy"
  /\ \E n \in ReadLengths(copied) :
       \/ /\ copied + n >= Cap
          /\ Fail("quota.archive")
       \/ /\ copied + n < Cap
          /\ spool' = Transfer(data, spool, copied, n)
          /\ copied' = copied + n
          /\ UNCHANGED <<fileVars, now, pc, before, reread, again, seen, dir,
                         name, finding, graphVars>>

CopyChunk ==
  /\ pc = "copy"
  /\ \E n \in ReadLengths(copied) :
       \/ /\ copied + n > Cap
          /\ Fail("quota.archive")
       \/ /\ copied + n <= Cap
          /\ spool' = Transfer(data, spool, copied, n)
          /\ copied' = copied + n
          /\ UNCHANGED <<fileVars, now, pc, before, reread, again, seen, dir,
                         name, finding, graphVars>>

\* Mutant: at the end of a file that has become shorter the call waits for more.
CopyEndWaits ==
  /\ pc = "copy"
  /\ copied >= size
  /\ copied >= before.len
  /\ \/ /\ copied # before.len
        /\ Fail("source.io")
     \/ /\ copied = before.len
        /\ pc' = "reopen"
        /\ UNCHANGED <<fileVars, now, before, copied, spool, reread, again, seen,
                       dir, name, finding, graphVars>>

CopyEnd ==
  /\ pc = "copy"
  /\ copied >= size
  /\ \/ /\ copied # before.len
        /\ Fail("source.io")
     \/ /\ copied = before.len
        /\ pc' = "reopen"
        /\ UNCHANGED <<fileVars, now, before, copied, spool, reread, again, seen,
                       dir, name, finding, graphVars>>

\* Flush, close the writer and open the private file read-only; nobody else
\* writes it, so its length is the copied one.
ReopenSpool ==
  /\ pc = "reopen"
  /\ pc' = "unlink"
  /\ UNCHANGED <<fileVars, now, before, copied, spool, reread, again, seen, dir,
                 name, finding, graphVars>>

UnlinkSpool ==
  /\ pc = "unlink"
  /\ pc' = "recheck"
  /\ name' = FALSE
  /\ UNCHANGED <<fileVars, now, before, copied, spool, reread, again, seen, dir,
                 finding, graphVars>>

RecheckSource ==
  /\ pc = "recheck"
  /\ \/ /\ Fingerprint # before
        /\ Fail("source.io")
     \/ /\ Fingerprint = before
        /\ pc' = "reread"
        /\ seen' = [len |-> size, byte |-> data]
        /\ UNCHANGED <<fileVars, now, before, copied, spool, reread, again, dir,
                       name, finding, graphVars>>

RereadChunk ==
  /\ pc = "reread"
  /\ \E n \in ReadLengths(again) :
       \/ /\ again + n > Cap
          /\ Fail("quota.archive")
       \/ /\ again + n <= Cap
          /\ reread' = Transfer(data, reread, again, n)
          /\ again' = again + n
          /\ UNCHANGED <<fileVars, now, pc, before, copied, spool, seen, dir,
                         name, finding, graphVars>>

\* Mutant: the second pass compares lengths only.
RereadLengthAgrees == again = copied

RereadAgrees == again = copied /\ \A k \in 1..copied : reread[k] = spool[k]

RereadEnd ==
  /\ pc = "reread"
  /\ again >= size
  /\ \/ /\ ~RereadAgrees
        /\ Fail("source.io")
     \/ /\ RereadAgrees
        /\ pc' = "ready"
        /\ domains' = <<[k \in 1..copied |-> spool[k]]>>
        /\ UNCHANGED <<fileVars, now, before, copied, spool, reread, again, seen,
                       dir, name, finding, records>>

\* Drop of PrivateFileSnapshot: the reader first, then its directory.
DropSnapshot ==
  /\ pc = "ready"
  /\ pc' = "dropped"
  /\ CleanDirectory
  /\ domains' = <<>> /\ records' = <<>>
  /\ UNCHANGED <<fileVars, now, before, copied, spool, reread, again, seen, finding>>

Kill ==
  /\ pc \notin {"failed", "dropped", "dead"}
  /\ pc' = "dead"
  /\ UNCHANGED <<fileVars, now, before, copied, spool, reread, again, seen, dir,
                 name, finding, graphVars>>

-----------------------------------------------------------------------------
(***************************************************************************)
(* SnapshotSet::append_derived_snapshot.  Domain identifiers count from 0, *)
(* so domain d is domains[d + 1].                                          *)
(***************************************************************************)
RangeSha(r) == SubSeq(domains[r.domain + 1], r.offset + 1, r.offset + r.len)

RangeInBounds(r) ==
  r.domain < Len(domains) /\ r.offset + r.len <= Len(domains[r.domain + 1])

\* TransformGraph::validates
GraphMatches ==
  /\ Len(records) + 1 = Len(domains)
  /\ \A i \in 1..Len(records) :
       /\ records[i].output = i /\ i < DomainIds
       /\ records[i].input.domain < i
       /\ RangeInBounds(records[i].input)
       /\ records[i].inputSha = RangeSha(records[i].input)
       /\ records[i].outputSha = domains[i + 1]

Ranges == [domain: 0..DomainIds, offset: 0..MaxLen, len: 0..MaxLen]

\* prepare_transform
Prepared(r) ==
  /\ GraphMatches
  /\ Len(domains) < DomainIds
  /\ RangeInBounds(r)

Record(r, out) ==
  [input |-> r, inputSha |-> RangeSha(r), output |-> Len(domains), outputSha |-> out]

\* Mutant: the domain is pushed before room for its record is reserved.
AppendDerivedEager(r, out) ==
  /\ pc = "ready"
  /\ Prepared(r)
  /\ Len(out) <= Cap
  /\ domains' = Append(domains, out)
  /\ \E reserved \in BOOLEAN :
       records' = IF reserved THEN Append(records, Record(r, out)) ELSE records
  /\ UNCHANGED <<fileVars, now, copyVars>>

\* append_prepared_transform: both reservations succeed before either push,
\* and every earlier error returns with nothing changed.
AppendDerived(r, out) ==
  /\ pc = "ready"
  /\ Prepared(r)
  /\ Len(out) <= Cap
  /\ domains' = Append(domains, out)
  /\ records' = Append(records, Record(r, out))
  /\ UNCHANGED <<fileVars, now, copyVars>>

-----------------------------------------------------------------------------
Writer == WriteByte \/ AppendByte \/ TruncateFile \/ Tick

Caller ==
  \/ OpenSource \/ StatSource \/ CreateDirectory \/ CreateSpool
  \/ CopyChunk \/ CopyEnd
  \/ ReopenSpool \/ UnlinkSpool \/ RecheckSource \/ RereadChunk \/ RereadEnd

Use ==
  \/ DropSnapshot
  \/ \E r \in Ranges, out \in Outputs : AppendDerived(r, out)

Next == Writer \/ Caller \/ FailIo \/ Use \/ Kill

Spec == Init /\ [][Next]_vars

(* Nothing in the call waits for the other process, and it does not need   *)
(* an I/O error to come to an end.                                         *)
FairSpec == Spec /\ WF_vars(Caller)

-----------------------------------------------------------------------------
\* The types of the variables of the copy, the caller's file and the set.
TypeOK ==
  /\ persistent \in BOOLEAN
  /\ size \in 0..MaxLen /\ peak \in 0..MaxLen
  /\ data \in [Offsets -> Bytes]
  /\ mtime \in 0..MaxTick /\ now \in 0..MaxTick
  /\ pc \in {"open", "stat", "spool", "file", "copy", "reopen", "unlink",
             "recheck", "reread", "ready", "dropped", "failed", "dead"}
  /\ before \in [len: 0..MaxLen, modified: 0..MaxTick]
  /\ copied \in 0..MaxLen /\ again \in 0..MaxLen
  /\ spool \in [Offsets -> Bytes] /\ reread \in [Offsets -> Bytes]
  /\ seen \in [len: 0..MaxLen, byte: [Offsets -> Bytes]]
  /\ dir \in BOOLEAN /\ name \in BOOLEAN
  /\ finding \in {"none", "source.io", "quota.archive"}

(* private_file_from_opened: when the writer's changes persist, an         *)
(* accepted copy is the whole file as it was at one instant of the call,   *)
(* the recheck; no interleaving of writes, growth and truncation with the  *)
(* two passes, not even within one timestamp granule, mixes two versions.  *)
AcceptedIsOneVersion ==
  pc = "ready" /\ persistent =>
    /\ copied = seen.len
    /\ \A k \in 1..copied : spool[k] = seen.byte[k]

(* copy_bounded: neither pass ever holds more than the cap, however the    *)
(* file grows while it is read, and a quota finding is the truth: the file *)
(* really was longer than the cap at some time of the call, so a file of   *)
(* exactly the cap is admitted.                                            *)
CapIsExact ==
  /\ copied <= Cap /\ again <= Cap
  /\ finding = "quota.archive" => peak > Cap

(* What was accepted stays whole and private.  Every derived domain has a  *)
(* record that names an earlier domain, a range inside it and the digests  *)
(* of both ends: the graph the next stage validates is never half appended *)
(* (append_prepared_transform).  And no name leads to its bytes any more,  *)
(* not while it is used, not when its process is killed later, not when    *)
(* removing the private directory fails (remove_file before the return).   *)
AcceptedStaysIntact ==
  /\ pc = "ready" => GraphMatches
  /\ (domains # <<>> \/ pc = "dropped") => ~name

(* The copy ends, whatever the writer does: it is bounded by the cap and   *)
(* not by the writer's patience.                                           *)
CopyEnds == <>(pc \in {"ready", "failed", "dead", "dropped"})
=============================================================================
