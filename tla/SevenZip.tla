-------------------------------- MODULE SevenZip --------------------------------
(****************************************************************************)
(* The Copy-only 7z container: its reader (sevenz.rs), its plan (apply.rs), *)
(* the second reading of covering.rs, the layout identity and the verifier. *)
(* The image of an archive is                                               *)
(*   [sig, major, minor, start, offset, size, crc, first, props, rest,      *)
(*    pack, folders, subs, files]                                           *)
(* start and crc say whether the two header checksums hold; props are the   *)
(* top-level properties in their order; rest whether bytes follow them;     *)
(* pack is [pos, n, sizes, crcs]; a folder [coders, flags, copy, unpack,    *)
(* crc]; subs << >> or one [counts, sizes, digests], each again optional,   *)
(* where the last size of a folder is implied; files is [count, room,       *)
(* records] with room the bytes left for them.  A record is [id, exact,     *)
(* external, names, bits, words], one of which holds its value; exact says  *)
(* whether its value fills its size.  A CRC is "none", "good" or "bad".     *)
(****************************************************************************)
EXTENDS Bzip2Stream

SIGNATURE_HEADER_LEN == 32

structure == "SevenZInvalidStructure"
unsupported == "FormatUnsupported"

(****************************************************************************)
(* Streams: packs, folders and the substreams folders are divided into.     *)
(****************************************************************************)
SubStreams(z) == IF z.subs = << >> THEN [counts |-> << >>, sizes |-> << >>, digests |-> << >>]
                 ELSE z.subs[1]

SubCount(z, i) == IF SubStreams(z).counts = << >> THEN 1 ELSE SubStreams(z).counts[1][i]

\* A folder of one substream with a CRC of its own has no digest entry.
DigestKnown(z, i) == SubCount(z, i) = 1 /\ z.folders[i].crc # "none"

SubSizes(z, i) ==
    LET stated == SubStreams(z).sizes
    IN  IF stated = << >> THEN <<z.folders[i].unpack>>
        ELSE IF SubCount(z, i) = 0 THEN << >>
        ELSE Append(stated[1][i], z.folders[i].unpack - SumOf(stated[1][i]))

DigestsBefore(z, i) ==
    SumOf([j \in 1..(i - 1) |-> IF DigestKnown(z, j) THEN 0 ELSE SubCount(z, j)])

SubCrcs(z, i) ==
    [k \in 1..SubCount(z, i) |->
        IF DigestKnown(z, i) THEN z.folders[i].crc
        ELSE IF SubStreams(z).digests = << >> THEN "none"
        ELSE SubStreams(z).digests[1][DigestsBefore(z, i) + k]]

FolderFinding(f) ==
    FirstOf(<< <<f.coders # 1, unsupported>>, <<"reserved" \in f.flags, structure>>,
               <<f.flags \cap {"complex", "attributes"} # {} \/ ~f.copy, unsupported>> >>)

FirstFailure(findings) ==
    LET bad == {i \in DOMAIN findings : findings[i] # OK}
    IN  IF bad = {} THEN OK ELSE findings[Min(bad)]

parse_streams_info(z) ==
    LET n == Len(z.folders)
        folders == FirstFailure([i \in 1..n |-> FolderFinding(z.folders[i])])
        Stated(i) == SubStreams(z).sizes # << >> /\ SubCount(z, i) > 0
    IN  FirstOf(<<
            <<z.pack.pos # 0 \/ Len(z.pack.sizes) # z.pack.n, structure>>,
            <<folders # OK, folders>>,
            <<\E i \in 1..n : Stated(i) /\ Last(SubSizes(z, i)) < 0, structure>>,
            <<\E i \in 1..n : SubCount(z, i) = 0, structure>>,
            <<SubStreams(z).sizes = << >> /\ \E i \in 1..n : SubCount(z, i) # 1, structure>>,
            <<\E i \in 1..n : 0 \in Range(SubSizes(z, i)), structure>> >>)

(****************************************************************************)
(* Files: the property records, each consumed exactly to its size.          *)
(****************************************************************************)
NoFiles == [kind |-> OK, streamless |-> << >>, empty_file |-> << >>, names |-> << >>,
            attributes |-> << >>, mtime |-> << >>, name_bytes |-> 0, dummy |-> 0]

ValueOf(r) == CASE r.id = "name" -> r.names
                [] r.id \in {"emptyStream", "emptyFile", "dummy"} -> r.bits
                [] OTHER -> r.words

Set(bits) == {i \in DOMAIN bits : bits[i]}

decode_names(names, count) ==
    FirstOf(<< <<\E i \in DOMAIN names : names[i] \in {<<"">>, <<"notutf16">>}, structure>>,
               <<Len(names) # count, structure>> >>)

FilesRecord(f, r) ==
    LET Put(field, v) == IF f[field] # << >> THEN [f EXCEPT !.kind = structure]
                         ELSE [f EXCEPT ![field] = <<v>>]
        External(g) == IF r.external THEN [f EXCEPT !.kind = unsupported] ELSE g
    IN  CASE r.id = "emptyStream" -> Put("streamless", r.bits)
          [] r.id = "emptyFile" ->
               IF f.streamless = << >> THEN [f EXCEPT !.kind = structure] ELSE Put("empty_file", r.bits)
          [] r.id = "name" ->
               IF f.names # << >> THEN [f EXCEPT !.kind = structure]
               ELSE External([f EXCEPT !.names = <<r.names>>, !.name_bytes = Len(r.names)])
          [] r.id = "mtime" -> External([f EXCEPT !.mtime = <<r.words>>])
          [] r.id \in {"ctime", "atime"} -> External(f)
          [] r.id = "attributes" -> External([f EXCEPT !.attributes = <<r.words>>])
          [] r.id = "dummy" -> IF TRUE \in Range(r.bits) THEN [f EXCEPT !.kind = structure]
                               ELSE [f EXCEPT !.dummy = @ + 1]
          [] OTHER -> [f EXCEPT !.kind = unsupported]

parse_files_info(z, max_files) ==
    LET count == z.files.count
        Turn(f, r) ==
          IF f.kind # OK THEN f
          ELSE LET g == FilesRecord(f, r)
                   named == IF r.id = "name" /\ ~r.external THEN decode_names(r.names, count) ELSE OK
               IN  [g EXCEPT !.kind = FirstOf(<< <<@ # OK, @>>, <<named # OK, named>>,
                                                 <<~r.exact, structure>> >>)]
        f == FoldLeft(Turn, NoFiles, z.files.records)
    IN  [f EXCEPT !.kind = FirstOf(<< <<count > max_files, "QuotaFiles">>,
                                      <<count > z.files.room, structure>>,
                                      <<@ # OK, @>>, <<f.names = << >>, structure>> >>)]

(****************************************************************************)
(* The archive: signature header, pack streams and the raw next header tile *)
(* the source.                                                              *)
(****************************************************************************)
HeaderStart(z) == SIGNATURE_HEADER_LEN + z.offset
FolderAt(z, i) == SIGNATURE_HEADER_LEN + SumOf([j \in 1..(i - 1) |-> z.pack.sizes[j]])

FolderEvidence(z, i) ==
    LET sizes == SubSizes(z, i)
        at == FolderAt(z, i)
    IN  [pack_stream |-> ByteRange(at, z.pack.sizes[i]), pack_crc |-> z.pack.crcs[i],
         unpack_size |-> z.folders[i].unpack, folder_crc |-> z.folders[i].crc,
         substreams |-> [k \in DOMAIN sizes |->
             [payload |-> ByteRange(at + SumOf(SubSeq(sizes, 1, k - 1)), sizes[k]),
              declared_crc |-> SubCrcs(z, i)[k]]]]

Folders(z, seen) == IF "streams" \in seen THEN [i \in DOMAIN z.folders |-> FolderEvidence(z, i)]
                    ELSE << >>

\* The top-level properties: each at most once, in any order.
HeaderProperty(kinds, s, id) ==
    IF s.kind # OK THEN s
    ELSE [seen |-> s.seen \cup {id},
          kind |-> IF id \notin DOMAIN kinds THEN unsupported
                   ELSE IF id \in s.seen THEN structure ELSE kinds[id]]

HeaderProperties(z, max_files) ==
    LET kinds == [streams |-> parse_streams_info(z), files |-> parse_files_info(z, max_files).kind]
    IN  FoldLeft(LAMBDA s, id : HeaderProperty(kinds, s, id), [seen |-> {}, kind |-> OK], z.props)

Streamless(f, count) == IF f.streamless = << >> THEN [i \in 1..count |-> FALSE] ELSE f.streamless[1]

\* Members take the substreams in file order; an empty stream is a directory
\* unless its empty-file bit is set.
SevenZMembers(z, f, folders) ==
    LET count == z.files.count
        less == Streamless(f, count)
        subs == FlattenSeq([i \in DOMAIN folders |-> folders[i].substreams])
        Rank(i) == Cardinality({j \in 1..i : less[j] = less[i]})
        Empty(i) == f.empty_file # << >> /\ f.empty_file[1][Rank(i)]
        Of(values, i) == IF values = << >> THEN "none" ELSE values[1][i]
    IN  [i \in 1..count |->
            [name |-> f.names[1][i], components |-> << >>, strip |-> FALSE,
             is_dir |-> less[i] /\ ~Empty(i),
             size |-> IF less[i] THEN 0 ELSE subs[Rank(i)].payload.len,
             payload |-> IF less[i] THEN ByteRange(HeaderStart(z), 0) ELSE subs[Rank(i)].payload,
             declared_crc |-> IF less[i] THEN "none" ELSE subs[Rank(i)].declared_crc,
             attributes |-> Of(f.attributes, i), mtime |-> Of(f.mtime, i)]]

\* What an archive can say: the counts are numbers, a names record holds names.
IsSevenZImage(z) ==
    /\ z.files.count \in Nat /\ z.props \in Seq(Range(z.props))
    /\ LET records == z.files.records
       IN  /\ records \in Seq(Range(records))
           /\ \A i \in DOMAIN records : records[i].id = "name" =>
                LET names == records[i].names
                IN  names \in Seq(Range(names)) /\ \A k \in DOMAIN names : IsName(names[k])

SevenZFails(kind) == [kind |-> kind, evidence |-> << >>, members |-> << >>]

\* Which of the packs' and folders' sizes and checksums do not fit.
GeometryFinding(z, folders) ==
    LET n == Len(folders)
        used == SumOf([i \in 1..n |-> z.pack.sizes[i]])
        bad == \E i \in 1..n : folders[i].pack_crc = "bad" \/ folders[i].folder_crc = "bad"
    IN  FirstOf(<< <<\E i \in 1..n : folders[i].unpack_size # folders[i].pack_stream.len, structure>>,
                   <<used # z.offset, structure>>, <<bad, "CrcMismatch">> >>)

\* The attribute of a directory must agree with the empty-stream matrix.
MatrixFinding(z, f, folders) ==
    LET less == Streamless(f, z.files.count)
        none == Cardinality(Set(less))
    IN  IF z.files.count - none # SumOf([i \in DOMAIN folders |-> Len(folders[i].substreams)])
        THEN structure
        ELSE IF \E m \in Range(SevenZMembers(z, f, folders)) :
                  m.attributes # "none" /\ (m.attributes = "dir") # m.is_dir
        THEN structure ELSE OK

SignatureFinding(z, len, max_metadata) ==
    FirstOf(<< <<len < SIGNATURE_HEADER_LEN, structure>>, <<~z.sig, "FormatMagic">>,
               <<z.major # 0 \/ z.minor # 4, unsupported>>, <<~z.start, "CrcMismatch">>,
               <<z.size = 0, unsupported>>,
               <<HeaderStart(z) + z.size # len, structure>>,
               <<SIGNATURE_HEADER_LEN + z.size > max_metadata, "QuotaMetadata">>,
               <<~z.crc, "CrcMismatch">>, <<z.first = "encoded", unsupported>>,
               <<z.first # "header", structure>> >>)

SevenZEvidence(z, f, folders) ==
    [version_minor |-> z.minor,
     pack_region |-> ByteRange(SIGNATURE_HEADER_LEN, z.offset),
     next_header |-> ByteRange(HeaderStart(z), z.size), next_header_crc |-> "good",
     folders |-> folders, name_region_bytes |-> f.name_bytes, dummy_bytes |-> f.dummy]

\* What the properties say, once they are well formed.
SevenZContents(z, f, folders) ==
    IF GeometryFinding(z, folders) # OK THEN SevenZFails(GeometryFinding(z, folders))
    ELSE IF MatrixFinding(z, f, folders) # OK THEN SevenZFails(MatrixFinding(z, f, folders))
    ELSE [kind |-> OK, evidence |-> <<SevenZEvidence(z, f, folders)>>,
          members |-> SevenZMembers(z, f, folders)]

SevenZHeader(z, props, max_files) ==
    LET after == FirstOf(<< <<props.kind # OK, props.kind>>, <<z.rest, structure>>,
                            <<"files" \notin props.seen \/ z.files.count = 0, unsupported>>,
                            <<"streams" \in props.seen /\ Len(z.folders) # z.pack.n, structure>> >>)
    IN  IF after # OK THEN SevenZFails(after)
        ELSE SevenZContents(z, parse_files_info(z, max_files), Folders(z, props.seen))

parse_copy_portable_v1(z, len, max_files, max_metadata) ==
    LET head == SignatureFinding(z, len, max_metadata)
    IN  IF head # OK THEN SevenZFails(head)
        ELSE SevenZHeader(z, HeaderProperties(z, max_files), max_files)

(****************************************************************************)
(* The plan.                                                                *)
(****************************************************************************)
PlanSevenZMember(budget, p, m) ==
    LET name == IF m.is_dir THEN StripTrailingSlash(m.name) ELSE m.name
        jailed == jail_name_for_profile(name, budget.max_depth, Portable)
        topology == TopologyFinding(p.seen, jailed.components, m.is_dir, Portable)
        path == FirstOf(<< <<jailed.finding # OK, jailed.finding>>,
                           <<portable_name_violation(jailed), "PathInvalidChar">>,
                           <<topology # OK, topology>> >>)
        refused == FirstOf(<< <<m.size > budget.max_member, "QuotaMember">>,
                              <<budget.max_ratio # << >>
                                /\ ratio_exceeds(m.size, m.size, budget.max_ratio[1]), "QuotaRatio">> >>)
        stop == FirstOf(<< <<p.total + m.size > MaxU64, "QuotaOverflow">>,
                           <<p.total + m.size > budget.max_total, "QuotaTotal">> >>)
        With(q, finding) == [q EXCEPT !.findings = Append(@, finding)]
        spent == [p EXCEPT !.total = @ + m.size]
    IN  IF p.stopped THEN p
        ELSE IF refused # OK THEN With(p, refused)
        ELSE IF stop # OK THEN [With(p, stop) EXCEPT !.stopped = TRUE]
        ELSE IF path # OK THEN With(spent, path)
        ELSE [spent EXCEPT !.planned = Append(@, [m EXCEPT !.components = jailed.components,
                                                            !.strip = name # m.name]),
                           !.seen = Admit(@, jailed.components, m.is_dir, Portable)]

PlanSevenZ(parsed, budget) ==
    IF parsed.kind # OK THEN [stage |-> "refused", finding |-> parsed.kind, plan |-> NewPlan]
    ELSE Admission(FoldLeft(LAMBDA p, m : PlanSevenZMember(budget, p, m), NewPlan, parsed.members))

SevenZIR(parsed, plan) == [sevenz |-> parsed.evidence[1], members |-> plan.planned]

(****************************************************************************)
(* The second reading: the geometry and the pack and folder checksums; not  *)
(* the names, kinds and attributes, nor a substream's checksum.             *)
(****************************************************************************)
Contiguous(ranges, from, to) ==
    FoldLeft(LAMBDA at, r : IF at = r.offset /\ r.len > 0 THEN RangeEnd(r) ELSE -1, from, ranges) = to

SubStreamsOf(e) == FlattenSeq([i \in DOMAIN e.folders |-> e.folders[i].substreams])

\* A declared checksum is good only over the bytes it was declared for.
CrcHolds(z, declared, range) ==
    declared = "none" \/ (declared = "good" /\ \E i \in DOMAIN z.folders :
                                               range = ByteRange(FolderAt(z, i), z.pack.sizes[i]))

audit_sevenz_covering(z, len, ir) ==
    LET e == ir.sevenz
        subs == SubStreamsOf(e)
        full == SelectSeq(ir.members, LAMBDA m : m.payload.len # 0)
        none == SelectSeq(ir.members, LAMBDA m : m.payload.len = 0)
    IN  /\ z.sig /\ z.major = 0 /\ z.minor = e.version_minor /\ z.start
        /\ e.next_header = ByteRange(SIGNATURE_HEADER_LEN + z.offset, z.size)
        /\ e.next_header_crc = (IF z.crc THEN "good" ELSE "bad") /\ z.crc
        /\ RangeEnd(e.next_header) = len /\ z.first = "header"
        /\ e.pack_region.offset = SIGNATURE_HEADER_LEN
        /\ RangeEnd(e.pack_region) = e.next_header.offset
        /\ Contiguous([i \in DOMAIN e.folders |-> e.folders[i].pack_stream], SIGNATURE_HEADER_LEN,
                      e.next_header.offset)
        /\ \A f \in Range(e.folders) :
             /\ f.unpack_size = f.pack_stream.len
             /\ Contiguous([k \in DOMAIN f.substreams |-> f.substreams[k].payload],
                           f.pack_stream.offset, RangeEnd(f.pack_stream))
             /\ CrcHolds(z, f.pack_crc, f.pack_stream) /\ CrcHolds(z, f.folder_crc, f.pack_stream)
        /\ \A i \in DOMAIN none : none[i].payload.offset = e.next_header.offset
                                  /\ none[i].declared_crc = "none"
        /\ Len(full) = Len(subs)
        /\ \A i \in DOMAIN full : /\ full[i].payload = subs[i].payload
                                  /\ full[i].declared_crc = subs[i].declared_crc
                                  /\ full[i].size = full[i].payload.len

(****************************************************************************)
(* Identity and verification: the whole header is parsed again.             *)
(****************************************************************************)
encode_sevenz_layout(ir) ==
    preimage("7z-copy.v12",
             <<ir.sevenz, [i \in DOMAIN ir.members |->
                 LET m == ir.members[i]
                 IN  <<m.name, m.components, m.is_dir, m.size, m.payload, m.declared_crc,
                       m.attributes, m.mtime, m.strip>>]>>)

\* The verifier threads one digest cursor through the folders.
VerifierSubStreams(z, i) ==
    LET subs == SubStreams(z)
        f == z.folders[i]
        count == IF subs.counts = << >> THEN 1 ELSE subs.counts[1][i]
    IN  [count |-> count, own |-> count = 1 /\ f.crc # "none",
         sizes |-> IF subs.sizes = << >> THEN <<f.unpack>>
                   ELSE Append(subs.sizes[1][i], f.unpack - SumOf(subs.sizes[1][i]))]

VerifierFolders(z) ==
    LET digests == SubStreams(z).digests
        Turn(s, i) ==
          LET f == z.folders[i]
              v == VerifierSubStreams(z, i)
              Crc(k) == IF v.own THEN f.crc ELSE IF digests = << >> THEN "none"
                        ELSE digests[1][s.digest + k]
              Sub(k) == [payload |-> ByteRange(s.at + SumOf(SubSeq(v.sizes, 1, k - 1)), v.sizes[k]),
                         declared_crc |-> Crc(k)]
          IN  [at |-> s.at + z.pack.sizes[i], digest |-> s.digest + (IF v.own THEN 0 ELSE v.count),
               folders |-> Append(s.folders,
                   [pack_stream |-> ByteRange(s.at, z.pack.sizes[i]), pack_crc |-> z.pack.crcs[i],
                    unpack_size |-> f.unpack, folder_crc |-> f.crc,
                    substreams |-> [k \in DOMAIN v.sizes |-> Sub(k)]])]
    IN  FoldLeft(Turn, [at |-> SIGNATURE_HEADER_LEN, digest |-> 0, folders |-> << >>],
                 [i \in DOMAIN z.folders |-> i]).folders

\* The header is found from both ends and its bytes are the recorded ones.
VerifySignature(z, len) ==
    /\ len >= SIGNATURE_HEADER_LEN /\ z.sig /\ z.major = 0 /\ z.minor = 4 /\ z.start /\ z.crc
    /\ z.size # 0 /\ HeaderStart(z) + z.size = len /\ z.first = "header" /\ ~z.rest
    /\ z.pack.pos = 0
    /\ \A f \in Range(z.folders) : f.coders = 1 /\ f.copy /\ f.flags = {}

\* Its records: unlike the reader it refuses no repeated record; a repeated
\* vector replaces the earlier one.
RecordValue(z, id) ==
    LET hits == {k \in DOMAIN z.files.records : z.files.records[k].id = id}
    IN  IF hits = {} THEN << >> ELSE <<ValueOf(z.files.records[Max(hits)])>>

verify_sevenz_member(z, m, i) ==
    LET Of(id) == LET v == RecordValue(z, id) IN IF v = << >> THEN "none" ELSE v[1][i]
        less == IF RecordValue(z, "emptyStream") = << >> THEN [k \in 1..z.files.count |-> FALSE]
                ELSE RecordValue(z, "emptyStream")[1]
        before == Cardinality({k \in 1..(i - 1) : less[k] = less[i]})
        bits == RecordValue(z, "emptyFile")
        subs == FlattenSeq([k \in DOMAIN VerifierFolders(z) |-> VerifierFolders(z)[k].substreams])
        is_dir == less[i] /\ (bits = << >> \/ ~bits[1][before + 1])
    IN  /\ m.name = RecordValue(z, "name")[1][i]
        /\ m.is_dir = is_dir /\ (Of("attributes") # "none" => (Of("attributes") = "dir") = is_dir)
        /\ m.payload = (IF less[i] THEN ByteRange(HeaderStart(z), 0) ELSE subs[before + 1].payload)
        /\ m.declared_crc = (IF less[i] THEN "none" ELSE subs[before + 1].declared_crc)
        /\ m.attributes = Of("attributes") /\ m.mtime = Of("mtime") /\ m.size = m.payload.len
        /\ m.declared_crc # "bad" /\ ~m.strip

sevenz_layout_body(ir) ==
    <<ir.sevenz, [i \in DOMAIN ir.members |->
        <<ir.members[i].name, ir.members[i].components, ir.members[i].is_dir, ir.members[i].size,
          ir.members[i].payload, ir.members[i].declared_crc, ir.members[i].attributes,
          ir.members[i].mtime, ir.members[i].strip>>]>>

verify_sevenz_case(z, len, ir, layout) ==
    LET e == ir.sevenz
        folders == IF "streams" \in Range(z.props) THEN VerifierFolders(z) ELSE << >>
    IN  /\ VerifySignature(z, len)
        /\ e.version_minor = z.minor /\ e.pack_region = ByteRange(SIGNATURE_HEADER_LEN, z.offset)
        /\ e.next_header = ByteRange(HeaderStart(z), z.size) /\ e.next_header_crc = "good"
        /\ e.name_region_bytes = Len(RecordValue(z, "name")[1])
        /\ e.dummy_bytes = Cardinality({k \in DOMAIN z.files.records : z.files.records[k].id = "dummy"})
        /\ e.folders = folders
        /\ \A f \in Range(folders) : f.unpack_size = f.pack_stream.len
        /\ SumOf([i \in DOMAIN folders |-> folders[i].pack_stream.len]) = z.offset
        /\ \A f \in Range(folders) : "bad" \notin {f.pack_crc, f.folder_crc}
        /\ Len(ir.members) = z.files.count
        /\ \A i \in DOMAIN ir.members : verify_sevenz_member(z, ir.members[i], i)
        /\ layout.body = sevenz_layout_body(ir)

================================================================================
