----------------------------- MODULE Interpretation -----------------------------
(****************************************************************************)
(* One archive on its way from bytes to a ready plan, an outcome and an     *)
(* identity case: a compressed stream is decoded whole, the selected reader *)
(* consumes the archive window by window, apply.rs plans what it accepted,  *)
(* covering.rs reads the source a second time, and the identity verifier a  *)
(* third.                                                                   *)
(*                                                                          *)
(* The source is not fixed in advance: a wrapper or a 7z archive is chosen  *)
(* when it is read, each turn of a TAR or ZIP reader reveals one more       *)
(* window, chosen from an alphabet, and src remembers it for the later      *)
(* readings.  Between planning and the audit one field of the evidence may  *)
(* be recorded wrongly (Misrecord): the second reading exists to catch      *)
(* exactly that.                                                            *)
(****************************************************************************)
EXTENDS Misrecordings

CONSTANTS
    Jobs,               \* the archives considered: format, length and budget
    Images(_),          \* the wrappers and 7z archives a job may meet
    TarWindows(_),      \* the windows a job's TAR reader may meet
    ZipEnds(_),         \* the ends a job's ZIP reader may meet
    ZipRecords(_, _)    \* the central headers and local records it may meet, first and later

\* An image is of the format the job's codec reads.
IsStreamImage(codec, x) ==
    CASE codec = "gzip" -> IsGzipImage(x) [] codec = "zstd" -> IsZstdImage(x)
      [] codec = "xz" -> IsXzImage(x) [] codec = "bzip2" -> IsBzip2Image(x)

ASSUME JobsAssumption ==
    \A j \in Jobs :
        /\ j.kind \in {"tar", "zip", "7z"} /\ j.codec \in {"none", "gzip", "zstd", "xz", "bzip2"}
        /\ j.codec # "none" => j.kind = "tar"
        /\ j.submission \in {"ok", "policy", "QuotaArchive", "SourceIo", "CoveringInconsistent"}
        /\ j.kind = "tar" => /\ j.dialect \in {"ustar", "pax", "gnu"}
                            /\ \A w \in TarWindows(j) : IsWindow(j.dialect, w)
        /\ j.kind = "zip" => \A first \in BOOLEAN : \A w \in ZipRecords(j, first) :
             IsName(w.cdh.name) /\ IsExtra(w.cdh.extra) /\ IsExtra(w.lfh.extra)
        /\ j.kind = "7z" => \A o \in Images(j) : IsSevenZImage(o.img)
        /\ j.budget.max_metadata \in Nat /\ j.budget.max_derived \in Nat
        /\ j.codec # "none" => \A o \in Images(j) : o.len \in Nat /\ IsStreamImage(j.codec, o.img)

VARIABLES
    job,        \* the job at hand
    outer,      \* the wrapper or 7z archive read, with what its reader returned
    scan,       \* the TAR or ZIP reader's state
    src,        \* what the windows read so far say of the source
    phase,      \* how far the archive came
    outcome,    \* how it ended so far: stage, finding, plan and axes
    ir,         \* the evidence the audit and the verifier are given
    verdicts    \* what the audit and the verifier said

vars == <<job, outer, scan, src, phase, outcome, ir, verdicts>>

NoAxes == Axes("none", "none", "none", "none", "none")
NoOutcome == [stage |-> "none", finding |-> OK, plan |-> NewPlan, axes |-> NoAxes]
NoVerdicts == [audit |-> "none", verifier |-> "none"]

Ends(stage, finding, axes) ==
    [stage |-> stage, finding |-> finding, plan |-> NewPlan, axes |-> axes]

(****************************************************************************)
(* The readers behind one interface.                                        *)
(****************************************************************************)
Wrapped(j) == j.codec # "none"

Start(j) ==
    CASE j.kind = "tar" -> NewScan(j.dialect, j.len, j.budget.max_files, j.budget.max_metadata)
      [] j.kind = "zip" -> NewZipScan(j.profile, j.len, j.budget.max_files, j.budget.max_metadata)

Limits(j) == [max_metadata |-> j.budget.max_metadata, max_output |-> j.budget.max_derived]

CompositeAudit(j, o, e, out) ==
    CASE j.codec = "gzip" -> audit_tar_gzip_composite(o.img, o.len, e, out)
      [] j.codec = "zstd" -> audit_tar_zstd_composite(o.img, o.len, e, out)
      [] j.codec = "xz" -> audit_tar_xz_composite(o.img, o.len, e, out)
      [] j.codec = "bzip2" -> audit_tar_bzip2_composite(o.img, o.len, e, out)

VerifyWrapper(j, o, e, out) ==
    CASE j.codec = "gzip" -> verify_gzip_wrapper(o.img, o.len, e, out)
      [] j.codec = "zstd" -> verify_zstd_wrapper(o.img, o.len, e, out)
      [] j.codec = "xz" -> verify_xz_wrapper(o.img, o.len, e, out)
      [] j.codec = "bzip2" -> verify_bzip2_wrapper(o.img, o.len, e, out)

WrapperLayout(j, e) ==
    CASE j.codec = "gzip" -> encode_gzip_wrapper_header(e)
      [] j.codec = "zstd" -> encode_zstd_wrapper_header(e)
      [] j.codec = "xz" -> encode_xz_wrapper_header(e) [] j.codec = "bzip2" -> encode_bzip2_wrapper_header(e)

WrapperLayoutBody(j, e) ==
    CASE j.codec = "gzip" -> gzip_wrapper_layout_body(e) [] j.codec = "zstd" -> zstd_wrapper_layout_body(e)
      [] j.codec = "xz" -> xz_wrapper_layout_body(e) [] j.codec = "bzip2" -> bzip2_wrapper_layout_body(e)

Windows(j, s) ==
    IF j.kind = "tar" THEN TarWindows(j)
    ELSE IF s.stage = "end" \/ ZipExhausted(s) THEN ZipEnds(j) ELSE ZipRecords(j, s.members = << >>)

Step(j, s, w) == IF j.kind = "tar" THEN TarStep(s, w) ELSE ZipStep(s, w)

\* What a window shows: a TAR record at its offset, or what ZipPlan says.
Pieces(j, s, w) ==
    CASE j.kind = "tar" -> IF s.offset + BLOCK_LEN > s.len THEN << >> ELSE [o \in {s.offset} |-> w]
      [] j.kind = "zip" -> IF s.stage = "end" THEN ZipEndPieces(w)
                           ELSE IF ZipExhausted(s) THEN << >> ELSE ZipMemberPieces(s, w)

\* The charge of a derived archive; a raw one has none.
Charge(j, o) ==
    IF ~Wrapped(j) THEN << >>
    ELSE LET w == o[1].result.wrapper[1]
         IN  <<CASE j.codec = "gzip" -> charge_gzip(w) [] j.codec = "zstd" -> charge_zstd(w)
                 [] j.codec = "xz" -> charge_xz(w) [] j.codec = "bzip2" -> charge_bzip2(w, o[1].len)>>

WrapperMetadata(j, w) ==
    CASE j.codec = "gzip" -> gzip_wrapper_metadata(w) [] j.codec = "zstd" -> zstd_wrapper_metadata(w)
      [] j.codec = "xz" -> xz_wrapper_metadata(w) [] j.codec = "bzip2" -> bzip2_wrapper_metadata(w)

\* Mutant: the archive gets the whole budget again.
DerivedScanFullBudget(j, d) == NewScan(j.dialect, d.out, j.budget.max_files, j.budget.max_metadata)

\* The archive in a wrapper gets what the wrapper left of the metadata budget.
DerivedScan(j, d) ==
    NewScan(j.dialect, d.out, j.budget.max_files,
            j.budget.max_metadata - WrapperMetadata(j, d.wrapper[1]))

\* What the ratio walk may find in the archive that was derived.
RatioCoverings(j, s, f) == IF Wrapped(j) THEN verified_ratio_covering(f, s.len) ELSE {<< >>}

PlanJob(j, o, s, ratio) ==
    CASE j.kind = "tar" -> PlanTar(s, ratio, j.budget, Charge(j, o))
      [] j.kind = "zip" -> plan_snapshot(s, j.magic, j.budget)
      [] j.kind = "7z" -> PlanSevenZ(o[1].result, j.budget)

\* A derived ratio stops before any member is judged.
PlanAxes(j, s, p) ==
    CASE p.stage = "planned" -> NoAxes
      [] p.stage = "denied" -> IF p.plan.findings = << >> THEN structure_stop("Interpreted", "Denied")
                               ELSE denied_at_admission
      [] p.stage = "refused" ->
           IF j.kind = "zip"
           THEN parse_failure_axes_for_profile(p.finding, s.profile,
                                               s.end # << >> /\ s.end[1].pair = << >> /\ ~s.zip64Seen)
           ELSE parse_failure_axes(p.finding)

EvidenceOf(j, o, s, plan) ==
    [wrapper |-> IF Wrapped(j) THEN o[1].result.wrapper ELSE << >>,
     archive |-> CASE j.kind = "tar" -> ArchiveIR(s, plan) [] j.kind = "zip" -> ZipArchiveIR(s, plan)
                   [] j.kind = "7z" -> SevenZIR(o[1].result, plan)]

\* The archive's own covering, then the ready archive's composite.
validate_ready_archive(j, o, f, s, e) ==
    /\ CASE j.kind = "tar" -> AuditTar(f, s.len, e.archive) [] j.kind = "zip" -> AuditZip(f, s.len, e.archive)
         [] j.kind = "7z" -> audit_sevenz_covering(o[1].img, o[1].len, e.archive)
    /\ Wrapped(j) => CompositeAudit(j, o[1], e.wrapper[1], s.len)

ArchiveLayout(j, a) ==
    CASE j.kind = "tar" -> encode_tar_layout(a) [] j.kind = "zip" -> layout_root(a)
      [] j.kind = "7z" -> encode_sevenz_layout(a)

LayoutOf(j, e) ==
    [wrapper |-> IF Wrapped(j) THEN WrapperLayout(j, e.wrapper[1]) ELSE << >>,
     archive |-> ArchiveLayout(j, e.archive)]

VerifyOf(j, o, f, s, e) ==
    LET a == e.archive
    IN  /\ CASE j.kind = "tar" -> verify_tar_case(f, s.len, a, encode_tar_layout(a), encode_content(a))
             [] j.kind = "zip" -> VerifyZip(f, s.len, a, layout_root(a), encode_zip_content(a))
             [] j.kind = "7z" -> verify_sevenz_case(o[1].img, o[1].len, a, encode_sevenz_layout(a))
        /\ Wrapped(j) => /\ VerifyWrapper(j, o[1], e.wrapper[1], s.len)
                         /\ WrapperLayout(j, e.wrapper[1]) = WrapperLayoutBody(j, e.wrapper[1])

(****************************************************************************)
(* The archive's way.                                                       *)
(****************************************************************************)
Init ==
    /\ job \in Jobs
    /\ outer = << >> /\ scan = << >> /\ src = << >>
    /\ phase = "submitted"
    /\ outcome = NoOutcome /\ ir = << >> /\ verdicts = NoVerdicts

Reading(s) == IF Running(s) THEN "reading" ELSE "parsed"

\* The policy is compiled and the source snapshot taken.
Accept ==
    /\ phase = "submitted" /\ job.submission = "ok"
    /\ IF job.kind = "7z" \/ Wrapped(job)
       THEN scan' = << >> /\ phase' = "decoding"
       ELSE scan' = Start(job) /\ phase' = Reading(scan')
    /\ UNCHANGED <<job, outer, src, outcome, ir, verdicts>>

RefuseSubmission ==
    /\ phase = "submitted" /\ job.submission # "ok"
    /\ outcome' = Ends("refused", job.submission,
                       IF job.submission = "policy" THEN policy_compile_failed
                       ELSE source_failure(job.submission))
    /\ phase' = "ended"
    /\ UNCHANGED <<job, outer, scan, src, ir, verdicts>>

\* A stream is decoded whole and its wrapper audited before anything of the
\* archive in it is read.
DecodeStream(codec, Decoder(_, _, _), WrapperAudit(_, _, _)) ==
    /\ phase = "decoding" /\ job.codec = codec
    /\ \E o \in Images(job) : \E d \in {Decoder(o.img, o.len, Limits(job))} :
       \E audited \in {d.kind = OK /\ WrapperAudit(o.img, o.len, d.wrapper[1])} :
          /\ outer' = <<[img |-> o.img, len |-> o.len, result |-> d]>>
          /\ scan' = IF audited THEN DerivedScan(job, d) ELSE << >>
          /\ phase' = IF audited THEN Reading(scan') ELSE "ended"
          /\ outcome' = IF d.kind # OK
                        THEN Ends("transform", d.kind, transform_failure_axes(job.codec, d.kind))
                        ELSE IF ~audited
                        THEN Ends("transform", "CoveringInconsistent", ClassAxes("Indeterminate"))
                        ELSE NoOutcome
    /\ UNCHANGED <<job, src, ir, verdicts>>

DecodeGzip == DecodeStream("gzip", decode_single_member, audit_gzip_wrapper_covering)
DecodeZstd == DecodeStream("zstd", decode_single_frame, audit_zstd_wrapper_covering)
DecodeXz == DecodeStream("xz", decode_single_stream, audit_xz_wrapper_covering)
DecodeBzip2 == DecodeStream("bzip2", decode_bzip2_stream, audit_bzip2_wrapper_covering)

ReadSevenZ ==
    /\ phase = "decoding" /\ job.kind = "7z"
    /\ \E o \in Images(job) :
         outer' = <<[img |-> o.img, len |-> o.len,
                     result |-> parse_copy_portable_v1(o.img, o.len, job.budget.max_files,
                                                       job.budget.max_metadata)]>>
    /\ phase' = "parsed"
    /\ UNCHANGED <<job, scan, src, outcome, ir, verdicts>>

\* A read of the snapshot fails under any reader.
SourceFails ==
    /\ phase \in {"decoding", "reading"}
    /\ outcome' = IF phase = "decoding" /\ Wrapped(job)
                  THEN Ends("transform", "Source", transform_failure_axes(job.codec, "Source"))
                  ELSE Ends("refused", "SourceIo", parse_failure_axes("SourceIo"))
    /\ phase' = "ended"
    /\ UNCHANGED <<job, outer, scan, src, ir, verdicts>>

\* One turn of the reader's loop.
ReadTurn ==
    /\ phase = "reading"
    /\ \E w \in Windows(job, scan) :
          /\ Consistent(src, Pieces(job, scan, w))
          /\ scan' = Step(job, scan, w)
          /\ src' = Both(src, Pieces(job, scan, w))
    /\ phase' = Reading(scan')
    /\ UNCHANGED <<job, outer, outcome, ir, verdicts>>

Plan ==
    /\ phase = "parsed"
    /\ \E ratio \in RatioCoverings(job, scan, src) : \E p \in {PlanJob(job, outer, scan, ratio)} :
          /\ outcome' = [stage |-> p.stage, finding |-> p.finding, plan |-> p.plan,
                         axes |-> PlanAxes(job, scan, p)]
          /\ ir' = IF p.stage = "planned" THEN EvidenceOf(job, outer, scan, p.plan) ELSE << >>
          /\ phase' = IF p.stage = "planned" THEN "planned" ELSE "ended"
    /\ UNCHANGED <<job, outer, scan, src, verdicts>>

Misrecord ==
    /\ phase = "planned"
    /\ ir' \in Misrecordings(job, ir) \ {ir}
    /\ phase' = "recorded"
    /\ UNCHANGED <<job, outer, scan, src, outcome, verdicts>>

\* The second reading decides whether the archive is ready.
Audit ==
    /\ phase \in {"planned", "recorded"}
    /\ \E ready \in {validate_ready_archive(job, outer, src, scan, ir)} :
          /\ verdicts' = [verdicts EXCEPT !.audit = IF ready THEN OK ELSE "CoveringInconsistent"]
          /\ outcome' = IF ready THEN outcome
                        ELSE [outcome EXCEPT !.finding = "CoveringInconsistent",
                                             !.axes = tar_covering_failure_axes(Wrapped(job))]
    /\ phase' = "audited"
    /\ UNCHANGED <<job, outer, scan, src, ir>>

\* The independent verifier is given the case with the roots of its evidence.
Verify ==
    /\ phase = "audited"
    /\ verdicts' = [verdicts EXCEPT !.verifier = IF VerifyOf(job, outer, src, scan, ir) THEN OK
                                                 ELSE "rejected"]
    /\ phase' = "ended"
    /\ UNCHANGED <<job, outer, scan, src, outcome, ir>>

Next == \/ Accept \/ RefuseSubmission \/ DecodeGzip \/ DecodeZstd \/ DecodeXz \/ DecodeBzip2
        \/ ReadSevenZ \/ SourceFails \/ ReadTurn \/ Plan
        \/ Misrecord \/ Audit \/ Verify

Spec == Init /\ [][Next]_vars

--------------------------------------------------------------------------------
Planned == outcome.stage = "planned"
Evidence == EvidenceOf(job, outer, scan, outcome.plan)

ByOffset(rs) == SortSeq(rs, LAMBDA a, b : a.offset < b.offset)

\* Every range an archive's evidence accounts for, in the order of the source.
TarParts(e) ==
    LET rs == SortSeq([i \in DOMAIN e.members |-> e.members[i].tar]
                        \o [i \in DOMAIN e.extensions |-> e.extensions[i].tar],
                      LAMBDA a, b : a.header.offset < b.header.offset)
    IN  FlattenSeq([i \in DOMAIN rs |-> <<rs[i].header, rs[i].payload, rs[i].padding>>])
        \o <<e.covering.terminator, e.covering.trailing_zeros>>

ZipParts(e) ==
    LET ms == SortSeq(e.members, LAMBDA a, b : a.local_header.offset < b.local_header.offset)
    IN  FlattenSeq([i \in DOMAIN ms |-> <<ms[i].local_header, ms[i].payload>> \o ms[i].descriptor])
        \o ByOffset([i \in DOMAIN ms |-> ms[i].central_header])
        \o (IF e.covering.pair = << >> THEN << >>
            ELSE <<e.covering.pair[1].zip64_eocd, e.covering.pair[1].zip64_locator>>)
        \o <<e.covering.eocd, e.covering.comment>>

SevenZParts(e) ==
    <<ByteRange(0, SIGNATURE_HEADER_LEN)>>
    \o [i \in DOMAIN SubStreamsOf(e.sevenz) |-> SubStreamsOf(e.sevenz)[i].payload]
    \o <<e.sevenz.next_header>>

Parts(j, a) == CASE j.kind = "tar" -> TarParts(a) [] j.kind = "zip" -> ZipParts(a)
                 [] j.kind = "7z" -> SevenZParts(a)

\* The parts of a wrapper, in bits for bzip2.
WrapperParts(j, w) ==
    CASE j.codec \in {"gzip", "zstd"} -> <<w.header, w.compressed_payload, w.trailer>>
      [] j.codec = "xz" ->
           <<w.header>>
           \o FlattenSeq([i \in DOMAIN w.blocks |-> <<w.blocks[i].header, w.blocks[i].compressed,
                                                     w.blocks[i].padding, w.blocks[i].check>>])
           \o <<w.index, w.footer>>
      [] j.codec = "bzip2" ->
           LET starts == w.block_bit_offsets \o <<w.payload_bits - FOOTER_BITS>>
           IN  <<ByteRange(0, 8 * w.header.len)>>
               \o [i \in DOMAIN w.block_bit_offsets |-> ByteRange(starts[i], starts[i + 1] - starts[i])]
               \o <<ByteRange(Last(starts), FOOTER_BITS), ByteRange(w.payload_bits, w.padding_bits)>>

Abut(rs) == \A i \in 1..(Len(rs) - 1) : RangeEnd(rs[i]) = rs[i + 1].offset

Partition(parts, len) ==
    /\ Head(parts).offset = 0 /\ RangeEnd(Last(parts)) = len
    /\ Abut(parts) /\ \A i \in DOMAIN parts : parts[i].len >= 0

\* Every byte of an accepted source, and every byte of the archive decoded
\* from it, belongs to exactly one part of the evidence: no byte is read
\* twice and none is skipped, so nothing hides in front of, behind or between
\* what was interpreted (decode_single_member, parse_container, the covering
\* partitions).
EveryByteOnce ==
    Planned =>
        /\ Partition(Parts(job, Evidence.archive), IF job.kind = "7z" THEN outer[1].len ELSE scan.len)
        /\ Wrapped(job) =>
             Partition(WrapperParts(job, Evidence.wrapper[1]),
                       IF job.codec = "bzip2" THEN 8 * outer[1].len ELSE outer[1].len)

\* The values the records of an extension x give a field.
ValuesIn(x, field) ==
    {x.records[k].value : k \in {k \in DOMAIN x.records : x.records[k].key = field}}

\* The extensions es before offset o that name the field: the local one that
\* ends exactly there, and the global ones.
LocalsFor(es, o, field) ==
    {i \in DOMAIN es : /\ es[i].tar.header.offset < o /\ es[i].kind # "Global"
                       /\ End(es[i].tar.padding) = o /\ ValuesIn(es[i], field) # {}}
GlobalsFor(es, o, field) ==
    {i \in DOMAIN es : /\ es[i].tar.header.offset < o /\ es[i].kind = "Global"
                       /\ ValuesIn(es[i], field) # {}}

\* The value a field of the member at o has by the precedence of the formats:
\* the extension record immediately before its header if that is a local one
\* and names the field, else the last global before it that does, else the
\* header.
ReferenceValue(es, o, field, base) ==
    IF LocalsFor(es, o, field) # {} THEN ValuesIn(es[Max(LocalsFor(es, o, field))], field)
    ELSE IF GlobalsFor(es, o, field) # {} THEN ValuesIn(es[Max(GlobalsFor(es, o, field))], field)
    ELSE {base}

\* A local extension or a long-name carrier applies to exactly the next member.
BindsNextMember ==
    Planned /\ job.kind = "tar" => \A m \in Range(scan.members) :
        LET o == m.tar.header.offset
        IN  /\ {m.name} = ReferenceValue(scan.extensions, o, "path", m.raw_name)
            /\ {m.size} = ReferenceValue(scan.extensions, o, "size", m.base_size)
            /\ src[o].h.name = m.raw_name

\* The admitted paths form one tree: no path twice, even after case folding,
\* and no file above another path.
AdmittedIsTree ==
    Planned =>
        LET ms == outcome.plan.planned
            profile == IF job.kind = "zip" THEN JailProfile(scan.profile) ELSE Portable
            Fold(i) == profile_case_fold(ms[i].components, profile)
        IN  \A i, j \in DOMAIN ms : i # j =>
              /\ Fold(i) # Fold(j)
              /\ StrictAncestor(Fold(i), Fold(j)) => ms[i].is_dir

\* The ranges that bind ZIP32 evidence to its source: the covering, and of a
\* member where its local record and its central header start and end.
ZipSpans(e) ==
    <<e.covering, [i \in DOMAIN e.members |-> <<LocalSpan(e.members[i]), e.members[i].central_header>>]>>

\* Neither audit_covering nor the verifier's verify_covering compares more of
\* a ZIP32 member: not its name, kind, method, flags, sizes or checksum, and
\* not where in its record the header, payload and descriptor meet.
UnreadOfZip32(e, f) ==
    /\ job.kind = "zip" /\ e.archive.profile # Zip64Profile
    /\ ZipSpans(e.archive) = ZipSpans(f.archive)

\* What the second reading does not read: of a ZIP32 archive see above, of a
\* ustar archive everything but the geometry, of a 7z archive the names, kinds, times, substream checksums
\* and whether an empty member is there at all, of an xz block its dictionary,
\* its declared sizes and where in its last bytes the padding starts.
ForgetXz(w) ==
    [w EXCEPT !.blocks = [i \in DOMAIN @ |->
        [header |-> @[i].header, check |-> @[i].check, uncompressed_len |-> @[i].uncompressed_len,
         check_value |-> @[i].check_value]]]

FullPayloads(e) ==
    LET full == SelectSeq(e.members, LAMBDA m : m.payload.len # 0)
    IN  [i \in DOMAIN full |-> full[i].payload]

SameButUnread(e, f) ==
    /\ CASE job.kind = "zip" -> e.archive = f.archive \/ UnreadOfZip32(e, f)
         [] job.kind = "tar" /\ e.archive.dialect = "ustar" -> TarParts(e.archive) = TarParts(f.archive)
         [] job.kind = "7z" ->
              /\ SevenZParts(e.archive) = SevenZParts(f.archive)
              /\ FullPayloads(e.archive) = FullPayloads(f.archive)
         [] OTHER -> e.archive = f.archive
    /\ IF job.codec = "xz" THEN ForgetXz(e.wrapper[1]) = ForgetXz(f.wrapper[1])
       ELSE e.wrapper = f.wrapper

\* A directory of an old-GNU archive whose name starts with a dot component:
\* admit_tar_path strips it, and the covering audit of that dialect expects
\* the canonical path to be the name less one slash and nothing else.
GnuDottedDirectory(e) ==
    /\ job.kind = "tar" /\ e.archive.dialect = "gnu"
    /\ \E m \in Range(e.archive.members) : m.is_dir /\ Head(m.name) = "."

\* The second reading accepts what the first one recorded, except an old-GNU
\* directory with a leading dot component, which it always refuses; and it
\* refuses evidence in which one field it reads differs.
AuditAgrees ==
    verdicts.audit # "none" =>
        IF ir = Evidence THEN (verdicts.audit = OK) = ~GnuDottedDirectory(Evidence)
        ELSE verdicts.audit # OK \/ SameButUnread(ir, Evidence)

\* The verifier accepts only the evidence the reader recorded, up to what it
\* does not read of a ZIP32 member; and wrong evidence, that included, never
\* keeps the layout identity of the right one.
VerifierAgrees ==
    /\ verdicts.verifier = OK => ir = Evidence \/ UnreadOfZip32(ir, Evidence)
    /\ Planned /\ ir # Evidence => LayoutOf(job, ir) # LayoutOf(job, Evidence)

Limited == {"QuotaFiles", "QuotaMetadata", "QuotaOverflow", "QuotaMember", "QuotaTotal",
            "QuotaRatio", "QuotaArchive", "HeaderLimit", "OutputLimit"}

\* The axes say why an archive stopped: a limit of the policy is a denial of
\* something readable in every format and at every layer, and never called
\* malformed or unsupported; an archive is called malformed or unsupported
\* only for a finding that is no limit; a failed read blames nothing on the
\* archive; and what was derived by a transform is never called malformed
\* because of its own second reading.
OutcomeTruthful ==
    outcome.axes # NoAxes =>
        /\ outcome.finding \in Limited =>
             /\ outcome.axes.admission = "Denied"
             /\ outcome.axes.interpretation = (IF outcome.finding = "QuotaArchive" THEN "Indeterminate"
                                               ELSE "Interpreted")
        /\ outcome.axes.interpretation = "Interpreted" =>
             outcome.finding \in Limited \/ outcome.stage = "denied"
        /\ outcome.finding \in {"Source", "SourceIo"} =>
             /\ outcome.axes.interpretation = "Indeterminate"
             /\ outcome.axes.admission = "NotEvaluated"
        /\ Wrapped(job) /\ outcome.finding = "CoveringInconsistent" =>
             outcome.axes.interpretation = "Indeterminate"
        /\ compat_verdict(outcome.axes) = "Rejected" /\ compat_exit_code(outcome.axes) = 2

\* A compressed stream is paid for once: its wrapper fits the metadata budget
\* whenever the rest of that budget is handed on (the checked_sub of apply.rs
\* never fails its expect), the wrapper and the archive in it together stay
\* within it, the derived bytes within theirs, and what is charged as
\* compressed and what as metadata add up to the source.
DerivedWithinBudget ==
    Wrapped(job) /\ scan # << >> =>
        LET d == outer[1].result
            metadata == WrapperMetadata(job, d.wrapper[1])
        IN  /\ metadata <= job.budget.max_metadata
            /\ metadata + scan.metadata <= job.budget.max_metadata
            /\ d.out = scan.len /\ d.out <= job.budget.max_derived
            /\ Charge(job, outer)[1] + metadata = outer[1].len

================================================================================
