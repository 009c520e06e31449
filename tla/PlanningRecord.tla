---------------------------- MODULE PlanningRecord ----------------------------
(****************************************************************************)
(* The planning half of semantic_record.rs: the record in which the         *)
(* supervisor hands an admitted ZIP plan to the isolated worker, and what   *)
(* its decoder requires of it.                                              *)
(*                                                                          *)
(* A frame is [kind, version, reserved, fit, body]; fit says whether the    *)
(* bytes end with the body ("exact"), before it ("short") or after it       *)
(* ("long").  The body is the structured value the bytes stand for, with    *)
(* the tags that the decoder has to map back.  A hash of a record is the    *)
(* record itself: collisions are excluded.                                  *)
(****************************************************************************)
EXTENDS ApplyOutcome

CONSTANTS
    MAX_MEMBERS,            \* members one record may carry
    MAX_RETENTION_PATHS,    \* paths one retention request may name
    PathOrder               \* the component tokens in byte order

VERSION == 2

Inspect == "Inspect"
Materialize == "Materialize"

Frame(kind, body) ==
    [kind |-> kind, version |-> VERSION, reserved |-> 0, fit |-> "exact", body |-> body]

\* The header is exact and every byte is consumed.
FrameIsExact(frame, kind) ==
    frame.kind = kind /\ frame.version = VERSION /\ frame.reserved = 0 /\ frame.fit = "exact"

(****************************************************************************)
(* The invocation binding.                                                  *)
(****************************************************************************)
ProfileTags == <<"StrictAsciiV1", "StrictAsciiV2", "WheelUtf8V1", "PortableUtf8V1">>
ProfileTag(profile) == CHOOSE t \in DOMAIN ProfileTags : ProfileTags[t] = profile

Rank(c) == CHOOSE i \in DOMAIN PathOrder : PathOrder[i] = c

\* Byte order of two joined paths over the known components.
PathLess(p, q) ==
    LET differ == {i \in 1..Min({Len(p), Len(q)}) : p[i] # q[i]}
    IN  IF differ = {} THEN Len(p) < Len(q) ELSE Rank(p[Min(differ)]) < Rank(q[Min(differ)])

\* A path is canonical when the jail of the first profile leaves it alone.
validate_jailed_name(path) ==
    LET jailed == jail_name_for_profile(path, MaxU64, StrictAscii)
    IN  jailed.finding = OK /\ jailed.actions = 0 /\ jailed.components = path

validate_binding(b) ==
    /\ b.operation # 0
    /\ b.source_len <= b.budget.max_archive
    /\ b.policy_id # ""
    /\ b.profile_sha = b.profile
    /\ (b.effect = Inspect) = (b.target = <<>>)
    /\ b.retention # <<>> =>
          LET paths == b.retention[1].paths
          IN  /\ Len(paths) <= MAX_RETENTION_PATHS
              /\ \A i \in 1..(Len(paths) - 1) : PathLess(paths[i], paths[i + 1])
              /\ \A i \in DOMAIN paths : validate_jailed_name(paths[i])

\* Version 2 has no tag for the ZIP64 profile.
BindingEncodes(b) == validate_binding(b) /\ b.profile \in Range(ProfileTags)

encode_binding(b) == [b EXCEPT !.profile = ProfileTag(b.profile)]

\* <<>> for a value that no tag stands for.
decode_binding(w) ==
    LET b == [w EXCEPT !.profile = ProfileTags[w.profile]]
    IN  IF /\ w.profile \in DOMAIN ProfileTags /\ w.effect \in {Inspect, Materialize}
           /\ validate_binding(b)
        THEN <<b>> ELSE <<>>

(****************************************************************************)
(* The member evidence on the wire.                                         *)
(****************************************************************************)
\* 0 strips the slash of a directory, i drops the "." at component i.
Normalization(name, is_dir) ==
    LET kept == IF is_dir THEN Front(name) ELSE name
    IN  (IF is_dir THEN <<0>> ELSE <<>>)
        \o SetToSortSeq({i \in DOMAIN kept : kept[i] = "."}, <)

\* The planned archive as the record sees it: raw name bytes and
\* normalization next to the evidence.
PendingIR(ir, sha) ==
    [profile |-> ir.profile, source_sha |-> sha, covering |-> [ir.covering EXCEPT !.pair = <<>>],
     members |-> [i \in DOMAIN ir.members |->
        LET m == ir.members[i]
        IN  [raw |-> m.name, name |-> m.name, components |-> m.components, is_dir |-> m.is_dir,
             method |-> m.method, flags |-> m.flags, attrs |-> m.attrs, crc |-> m.crc,
             comp_size |-> m.comp_size, uncomp_size |-> m.uncomp_size,
             local_header |-> m.local_header, payload |-> m.payload,
             descriptor |-> m.descriptor, central_header |-> m.central_header,
             extra_fields |-> m.extra_fields,
             normalization |-> Normalization(m.name, m.is_dir)]]]

\* The components are not sent: the path is, and is split again.
encode_member(m) ==
    [raw |-> m.raw, name |-> m.name, path |-> m.components, kind |-> IF m.is_dir THEN 1 ELSE 0,
     method |-> m.method, flags |-> m.flags, attrs |-> m.attrs, crc |-> m.crc,
     comp_size |-> m.comp_size, uncomp_size |-> m.uncomp_size, local_header |-> m.local_header,
     payload |-> m.payload, descriptor |-> m.descriptor, central_header |-> m.central_header,
     extra_fields |-> m.extra_fields, normalization |-> m.normalization]

\* The profile and the source digest are those of the binding.
encode_ir(ir) ==
    [covering |-> ir.covering,
     members |-> [i \in DOMAIN ir.members |-> encode_member(ir.members[i])]]

\* Tags, and counts that the name and the budget bound before any allocation.
MemberDecodes(w, budget) ==
    /\ w.kind \in {0, 1}
    /\ \A i \in DOMAIN w.extra_fields :
          /\ w.extra_fields[i].site \in {"Central", "Local"}
          /\ w.extra_fields[i].disposition \in {"Semantic", "Ignored", "Denied"}
    /\ Len(w.normalization) <= Cardinality({i \in DOMAIN w.name : w.name[i] = "."}) + w.kind
    /\ Len(w.path) <= budget.max_depth

decode_member(w) ==
    [raw |-> w.raw, name |-> w.name, method |-> w.method, flags |-> w.flags, attrs |-> w.attrs,
     crc |-> w.crc, comp_size |-> w.comp_size, uncomp_size |-> w.uncomp_size,
     is_dir |-> w.kind = 1, components |-> w.path, normalization |-> w.normalization,
     extra_fields |-> w.extra_fields, local_header |-> w.local_header, payload |-> w.payload,
     descriptor |-> w.descriptor, central_header |-> w.central_header]

IrDecodes(w, b) ==
    /\ Len(w.members) <= MAX_MEMBERS /\ Len(w.members) <= b.budget.max_files
    /\ \A i \in DOMAIN w.members : MemberDecodes(w.members[i], b.budget)

decode_ir(w, b) ==
    [profile |-> b.profile, source_sha |-> b.source_sha, covering |-> w.covering,
     members |-> [i \in DOMAIN w.members |-> decode_member(w.members[i])]]

(****************************************************************************)
(* What a pending IR must satisfy before the source is consulted.           *)
(****************************************************************************)
covering_is_exact(c, len) ==
    /\ c.local_records.offset = 0 /\ c.eocd.len = EOCD_MIN
    /\ RangeEnd(c.local_records) = c.central_directory.offset
    /\ RangeEnd(c.central_directory) = c.eocd.offset
    /\ RangeEnd(c.eocd) = c.comment.offset /\ RangeEnd(c.comment) = len

\* Taken from the geometry, so that omitted extra-field records cannot
\* understate it.
planning_metadata_bytes(ir) ==
    FoldLeft(LAMBDA n, m : n + m.local_header.len - LFH_LEN,
             ir.covering.comment.len + ir.covering.central_directory.len, ir.members)

validate_member_ranges(m, len) ==
    /\ RangeEnd(m.local_header) <= len /\ RangeEnd(m.payload) <= len
    /\ RangeEnd(m.central_header) <= len
    /\ m.local_header.len >= LFH_LEN + NameLen(m.raw) /\ m.central_header.len >= CDH_LEN
    /\ m.payload.offset = RangeEnd(m.local_header) /\ m.payload.len = m.comp_size
    /\ ("desc" \in m.flags) = (m.descriptor # <<>>)
    /\ \A i \in DOMAIN m.descriptor :
          /\ m.descriptor[i].offset = RangeEnd(m.payload) /\ m.descriptor[i].len \in {3, 4}
          /\ RangeEnd(m.descriptor[i]) <= len

\* The recorded fields of one site chain from the name on, inside the header.
ExtraChain(fields, start, owner) ==
    \A i \in DOMAIN fields :
       /\ fields[i].header_range.len = 1
       /\ fields[i].data_range.offset = RangeEnd(fields[i].header_range)
       /\ fields[i].header_range.offset =
             IF i = 1 THEN start ELSE RangeEnd(fields[i - 1].data_range)
       /\ RangeEnd(fields[i].data_range) <= RangeEnd(owner)
       /\ \A j \in 1..(i - 1) : fields[j].id # fields[i].id

validate_extra_fields(m, profile) ==
    LET central == SiteExtra(m, "Central")
        local == SiteExtra(m, "Local")
        localStart == m.local_header.offset + LFH_LEN + NameLen(m.raw)
    IN  /\ profile \in ClosedProfiles => m.extra_fields = <<>>
        /\ m.extra_fields = central \o local
        /\ ExtraChain(central, m.central_header.offset + CDH_LEN + NameLen(m.raw), m.central_header)
        /\ ExtraChain(local, localStart, m.local_header)
        /\ profile = "StrictAsciiV1" =>
              \A i \in DOMAIN m.extra_fields : /\ m.extra_fields[i].disposition = "Ignored"
                                               /\ m.extra_fields[i].id \notin {"zip64", "upath"}
        /\ RangeEnd(m.local_header) =
              IF local = <<>> THEN localStart ELSE RangeEnd(Last(local).data_range)

\* Flags and names that each profile admits.
ProfileContract(m, jailed, profile) ==
    /\ "crypt" \notin m.flags
    /\ profile = "StrictAsciiV2" => m.flags \subseteq {"desc"}
    /\ profile = "WheelUtf8V1" =>
          /\ m.flags \subseteq {"utf8"} /\ (is_ascii(m.raw) \/ "utf8" \in m.flags)
          /\ \A i \in DOMAIN m.normalization : m.normalization[i] = 0
    /\ profile = "PortableUtf8V1" =>
          /\ m.flags \subseteq {"desc", "utf8"} /\ (is_ascii(m.raw) \/ "utf8" \in m.flags)
          /\ ~portable_name_violation(jailed)

validate_pending_member(m, b) ==
    LET jailed == jail_name_for_profile(IF m.is_dir THEN Front(m.name) ELSE m.name,
                                        b.budget.max_depth, JailProfile(b.profile))
    IN  /\ m.raw = m.name /\ m.is_dir = IsDirName(m.name)
        /\ jailed.finding = OK /\ jailed.components = m.components
        /\ m.normalization = Normalization(m.name, m.is_dir)
        /\ m.method \in {0, 8} /\ ProfileContract(m, jailed, b.profile)
        /\ m.is_dir => m.method = 0 /\ m.comp_size = 0 /\ m.uncomp_size = 0 /\ m.crc = 0
        /\ validate_member_ranges(m, b.source_len)
        /\ validate_extra_fields(m, b.profile)

TopologyKey(path, folded) ==
    IF folded = <<>> THEN path ELSE profile_case_fold(path, JailProfile(folded[1]))

\* No two members share a key, and only a directory is an ancestor.
validate_path_topology(members, folded) ==
    \A i, j \in DOMAIN members : i # j =>
       LET p == TopologyKey(members[i].components, folded)
           q == TopologyKey(members[j].components, folded)
       IN  p # q /\ (StrictAncestor(p, q) => members[i].is_dir)

CentralHeadersConsecutive(ir) ==
    \A i \in DOMAIN ir.members :
       ir.members[i].central_header.offset =
          IF i = 1 THEN ir.covering.central_directory.offset
          ELSE RangeEnd(ir.members[i - 1].central_header)

\* Sorted by offset, each local record starts where the one before it ends.
LocalRecordsPartition(ir) ==
    LET ordered == SortSeq(ir.members,
                           LAMBDA a, b : a.local_header.offset < b.local_header.offset)
    IN  /\ \A i \in DOMAIN ordered :
              ordered[i].local_header.offset = IF i = 1 THEN 0 ELSE LocalEnd(ordered[i - 1])
        /\ RangeEnd(ir.covering.local_records) =
              IF ordered = <<>> THEN 0 ELSE LocalEnd(Last(ordered))

\* Declared sizes against the budget, running total included.
DeclaredWithinBudget(members, budget) ==
    /\ \A i \in DOMAIN members :
          /\ members[i].uncomp_size <= budget.max_member
          /\ budget.max_ratio # <<>> =>
                ~ZipRatioExceeds(members[i].uncomp_size, members[i].comp_size, budget.max_ratio[1])
    /\ FoldLeft(LAMBDA n, m : n + m.uncomp_size, 0, members) <= budget.max_total

validate_pending_ir(ir, b) ==
    /\ ir.profile = b.profile /\ ir.source_sha = b.source_sha
    /\ Len(ir.members) <= MAX_MEMBERS /\ Len(ir.members) <= b.budget.max_files
    /\ covering_is_exact(ir.covering, b.source_len)
    /\ planning_metadata_bytes(ir) <= b.budget.max_metadata
    /\ \A i \in DOMAIN ir.members : validate_pending_member(ir.members[i], b)
    /\ DeclaredWithinBudget(ir.members, b.budget)
    /\ CentralHeadersConsecutive(ir)
    /\ validate_path_topology(ir.members, <<>>)
    /\ validate_path_topology(ir.members, <<b.profile>>)
    /\ RangeEnd(ir.covering.central_directory) =
          IF ir.members = <<>> THEN ir.covering.central_directory.offset
          ELSE RangeEnd(Last(ir.members).central_header)
    /\ LocalRecordsPartition(ir)

(****************************************************************************)
(* The source fields behind a ready IR.                                     *)
(****************************************************************************)
NoStructuralSignature(sigs) == reject_structural_metadata(sigs) = OK

validate_ready_ir_global_source_fields(src, ir) ==
    LET c == ir.covering
        end == src[<<"eocd", c.eocd.offset>>]
        e == end.eocd
        n == Len(ir.members)
    IN  /\ e.total_entries # U16Max /\ e.cd_size # U32Max /\ e.cd_offset # U32Max
        /\ <<e.this_disk, e.cd_disk, e.entries_on_disk, e.total_entries>> = <<0, 0, n, n>>
        /\ e.cd_size = c.central_directory.len /\ e.cd_offset = c.central_directory.offset
        /\ end.comment_len = c.comment.len
        /\ NoStructuralSignature(end.comment)

\* Mutant: a field of the source that the record leaves out goes unnoticed.
SourceExtraFieldsRecordedOnly(m, site, extra) ==
    LET fields == SiteExtra(m, site)
    IN  \A i \in DOMAIN fields : fields[i].id = extra[i].id

\* Every recorded field stands where it says, and nothing else does.
validate_source_extra_fields(m, site, extra) ==
    LET fields == SiteExtra(m, site)
    IN  /\ Len(fields) = Len(extra)
        /\ \A i \in DOMAIN fields : /\ fields[i].id = extra[i].id
                                    /\ fields[i].data_range.len = extra[i].size

SourceLocalFields(src, m) ==
    LET l == src[<<"lfh", m.local_header.offset>>]
        gp3 == "desc" \in m.flags
    IN  /\ m.local_header.len = LFH_LEN + NameLen(l.name) + ExtraLen(l.extra)
        /\ NameLen(l.name) = NameLen(m.raw)
        /\ l.flags = m.flags /\ l.method = m.method
        /\ CrcAgrees(l, gp3, m.crc) /\ SizesAgree(l, gp3, m.comp_size, m.uncomp_size)
        /\ l.name = m.raw
        /\ validate_source_extra_fields(m, "Local", l.extra)

validate_source_member_kind(m, attrs) ==
    LET isDir == attrs \in {"dosdir", "unixdir"}
    IN  /\ attrs \notin {"symlink", "special", "dirregular"}
        /\ isDir # m.is_dir => ~isDir /\ attrs # "regular"

SourceCentralFields(src, m) ==
    LET h == src[<<"cdh", m.central_header.offset>>]
    IN  /\ m.central_header.len = CdhLen(h) /\ NameLen(h.name) = NameLen(m.raw)
        /\ U32Max \notin {h.comp, h.uncomp, h.lfh_offset} /\ h.disk_start # U16Max
        /\ h.flags = m.flags /\ h.method = m.method /\ h.crc = m.crc
        /\ h.comp = m.comp_size /\ h.uncomp = m.uncomp_size
        /\ h.lfh_offset = m.local_header.offset /\ h.disk_start = 0
        /\ h.attrs = m.attrs /\ validate_source_member_kind(m, h.attrs)
        /\ h.name = m.raw
        /\ validate_source_extra_fields(m, "Central", h.extra)
        /\ NoStructuralSignature(h.comment)

validate_source_data_descriptor(src, m) ==
    m.descriptor # <<>> =>
       LET d == src[<<"desc", m.descriptor[1].offset>>]
       IN  /\ At(src, "desc", m.descriptor[1].offset)
           /\ m.descriptor[1].len = IF d.signed THEN 4 ELSE 3
           /\ <<d.crc, d.comp, d.uncomp>> = <<m.crc, m.comp_size, m.uncomp_size>>

\* A stored payload with a descriptor is searched for record signatures.
StoredStreamIsPlain(src, m) ==
    m.method = 0 /\ "desc" \in m.flags => ~src[<<"data", m.payload.offset>>]

validate_ready_ir_source_fields(src, ir) ==
    /\ validate_ready_ir_global_source_fields(src, ir)
    /\ \A i \in DOMAIN ir.members :
          /\ SourceLocalFields(src, ir.members[i]) /\ SourceCentralFields(src, ir.members[i])
          /\ validate_source_data_descriptor(src, ir.members[i])
          /\ StoredStreamIsPlain(src, ir.members[i])

(****************************************************************************)
(* Dispositions.                                                            *)
(****************************************************************************)
Finding(code) == [code |-> code, severity |-> "Error"]
\* A covering failure names its detail and its member: what the audit says of
\* the evidence, or something else.
CoveringCause(said) == [code |-> "CoveringInconsistent", severity |-> "Error", said |-> said]
Reproduced == "reproduced"
Ready == [tag |-> 0, interpretation |-> "none", admission |-> "none", phase |-> "none", cause |-> 0]
Terminal(axes, cause) ==
    [tag |-> 1, interpretation |-> axes.interpretation, admission |-> axes.admission,
     phase |-> axes.phase, cause |-> cause]

Errors(findings) == {i \in DOMAIN findings : findings[i].severity = "Error"}
first_error_index(findings) == Min(Errors(findings))

\* Findings that only the supervisor may report.
SupervisorOwned ==
    {"PolicyUnsupported", "MaterializeExists", "MaterializeIo", "MaterializeCommit",
     "MaterializeUnsafeParent", "MaterializeUnsafeComponent", "MaterializeCleanup",
     "MaterializeUnsupported", "MaterializeUnsupportedFilesystem", "MaterializeUnsafeStage",
     "MaterializeAudit"}

planning_structure_finding ==
    {"SourceIo", "QuotaMetadata", "QuotaFiles", "QuotaOverflow", "ZipDiffA1Method",
     "ZipDiffA2Size", "ZipDiffA3Name", "ZipDiffA4Dir", "ZipSymlink", "ZipDiffA5Crypt",
     "ZipDiffC1Stream", "ZipDiffC2Eocd", "ZipDiffC3Count", "ZipDiffC4Offset", "ZipDiffC5Zip64",
     "ZipOverlap", "CoveringInconsistent", "ZipEncoding", "ZipExtra", "ZipFlags",
     "FormatUnsupported"}

planning_admission_finding ==
    {"PathAbsolute", "PathDotDot", "PathEmpty", "PathAds", "PathReserved", "PathTrailing",
     "PathDepth", "PathNul", "PathInvalidChar", "PathUnicode", "PathCaseFold", "PathConflict",
     "QuotaMember", "QuotaTotal", "QuotaRatio", "QuotaOverflow", "ZipDiffB1Dup", "ZipEncrypted",
     "MethodUnsupported"}

planning_finding_for_phase(code, phase) ==
    \/ phase = "Structure" /\ code \in planning_structure_finding
    \/ phase = "Admission" /\ code \in planning_admission_finding

\* Interpretation and admission follow from the phase and its first error.
validate_terminal_axes(d, code) ==
    LET expected ==
            CASE d.phase = "Admission" -> <<"Interpreted", "Denied">>
              [] d.phase = "Structure" /\ code = "SourceIo" -> <<"Indeterminate", "NotEvaluated">>
              [] d.phase = "Structure" /\ code = "FormatUnsupported" ->
                    <<"Unsupported", IF d.admission = "Denied" THEN "Denied" ELSE "NotEvaluated">>
              [] d.phase = "Structure"
                 /\ code \in {"ZipDiffC5Zip64", "ZipEncoding", "ZipEncrypted", "MethodUnsupported"}
                   -> <<"Unsupported", "NotEvaluated">>
              [] d.phase = "Structure" /\ code \in {"QuotaFiles", "QuotaMetadata", "QuotaOverflow"}
                   -> <<"Interpreted", "Denied">>
              [] d.phase = "Structure" /\ code = "CoveringInconsistent" -> <<"Malformed", "Denied">>
              [] OTHER -> <<"Malformed", "NotEvaluated">>
    IN  /\ planning_finding_for_phase(code, d.phase)
        /\ <<d.interpretation, d.admission>> = expected

validate_planning(r) ==
    LET f == r.findings
    IN  /\ validate_binding(r.binding)
        /\ \A i \in DOMAIN f : f[i].code \notin SupervisorOwned
        /\ IF r.disposition.tag = 0
           THEN r.ir # <<>> /\ Errors(f) = {} /\ validate_pending_ir(r.ir[1], r.binding)
           ELSE /\ Errors(f) # {}
                /\ validate_terminal_axes(r.disposition, f[first_error_index(f)].code)
                /\ r.disposition.phase = "Structure" => Cardinality(Errors(f)) = 1
                /\ \A i \in DOMAIN f : planning_finding_for_phase(f[i].code, r.disposition.phase)
                /\ (r.ir # <<>>) = (f[first_error_index(f)].code = "CoveringInconsistent")
                /\ r.ir # <<>> => validate_pending_ir(r.ir[1], r.binding)

(****************************************************************************)
(* The record.                                                              *)
(****************************************************************************)
encode_planning_validated(r) ==
    Frame("planning",
          [binding |-> encode_binding(r.binding), findings |-> r.findings,
           disposition |-> IF r.disposition.tag = 0 THEN Ready
                           ELSE [r.disposition EXCEPT !.cause = first_error_index(r.findings)],
           ir |-> IF r.ir = <<>> THEN <<>> ELSE <<encode_ir(r.ir[1])>>])

\* <<>> when the plan cannot be sent.
encode_planning(r) ==
    IF validate_planning(r) /\ BindingEncodes(r.binding) THEN <<encode_planning_validated(r)>>
    ELSE <<>>

decode_planning_binding(input) ==
    IF FrameIsExact(input, "planning") THEN decode_binding(input.body.binding) ELSE <<>>

DispositionDecodes(d, findings) ==
    /\ d.tag \in {0, 1}
    /\ d.tag = 1 => Errors(findings) # {} /\ d.cause = first_error_index(findings)

validate_snapshot_binding(snapshot, b) ==
    snapshot.len = b.source_len /\ snapshot.sha = b.source_sha

\* A ready plan is read off the snapshot; a covering failure is reproduced,
\* and its cause is the one the reproduction gives.
validate_planning_against_snapshot(r, snapshot) ==
    CASE r.disposition.tag = 0 -> /\ audit_covering(snapshot.src, snapshot.len, r.ir[1])
                                  /\ validate_ready_ir_source_fields(snapshot.src, r.ir[1])
      [] r.disposition.tag = 1 /\ r.ir # <<>> ->
            /\ ~audit_covering(snapshot.src, snapshot.len, r.ir[1])
            /\ r.findings[first_error_index(r.findings)] = CoveringCause(Reproduced)
      [] OTHER -> TRUE

request_id(b) == b
plan_id(input) == input

\* The worker knows only the operation and its kind; the supervisor's own
\* exact expectation knows the whole binding.
ExpectWorker(operation, effect) == [exact |-> <<>>, operation |-> operation, effect |-> effect]
ExpectExact(b) == [exact |-> <<b>>, operation |-> b.operation, effect |-> b.effect]

BindingExpected(b, expectation) ==
    IF expectation.exact # <<>> THEN b = expectation.exact[1]
    ELSE b.operation = expectation.operation /\ b.effect = expectation.effect

\* The record under a binding b that decoded.
DecodeUnder(input, b, expectation, snapshot) ==
    LET w == input.body
        r == [binding |-> b, disposition |-> w.disposition, findings |-> w.findings,
              ir |-> IF w.ir = <<>> THEN <<>> ELSE <<decode_ir(w.ir[1], b)>>]
        accepted ==
            /\ BindingExpected(b, expectation)
            /\ validate_snapshot_binding(snapshot, b)
            /\ DispositionDecodes(w.disposition, w.findings)
            /\ w.ir # <<>> => IrDecodes(w.ir[1], b)
            /\ validate_planning(r) /\ validate_planning_against_snapshot(r, snapshot)
            /\ encode_planning_validated(r) = input
    IN  IF accepted THEN <<[record |-> r, request_id |-> request_id(b), plan_id |-> plan_id(input)]>>
        ELSE <<>>

decode_planning_for(input, expectation, snapshot) ==
    LET bound == decode_planning_binding(input)
    IN  IF bound = <<>> THEN <<>> ELSE DecodeUnder(input, bound[1], expectation, snapshot)

\* Stage setup fails after the plan is ready and before any member is read.
setup_failure_axes(plan, code) ==
    IF /\ plan.record.disposition.tag = 0 /\ plan.record.binding.effect = Materialize
       /\ code \in {"MaterializeExists", "MaterializeIo", "MaterializeUnsafeParent",
                    "MaterializeUnsafeComponent", "MaterializeUnsupported",
                    "MaterializeUnsupportedFilesystem", "MaterializeUnsafeStage"}
    THEN <<admitted_setup_failed>> ELSE <<>>

(****************************************************************************)
(* The worker's entry points of worker_runtime.rs.                          *)
(****************************************************************************)
\* One already admitted plan, encoded without reparsing.
prepare_ready_plan(b, ir) ==
    encode_planning([binding |-> b, disposition |-> Ready, findings |-> <<>>,
                     ir |-> <<PendingIR(ir, b.source_sha)>>])

\* The descriptor's length and budget first, then the whole record.
validate_operation(snapshot, operation, input, effect) ==
    LET bound == decode_planning_binding(input)
    IN  IF /\ bound # <<>> /\ bound[1].source_len = snapshot.len
           /\ snapshot.len <= bound[1].budget.max_archive
        THEN decode_planning_for(input, ExpectWorker(operation, effect), snapshot) ELSE <<>>

================================================================================
