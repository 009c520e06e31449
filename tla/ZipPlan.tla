-------------------------------- MODULE ZipPlan --------------------------------
(****************************************************************************)
(* From parsed ZIP members to a ready archive: the member loop of           *)
(* plan_snapshot in apply.rs, the evidence it builds, and the second        *)
(* reading of the source by covering.rs.                                    *)
(*                                                                          *)
(* The source as the readings see it: src maps <<"eocd", o>>, <<"cdh", o>>, *)
(* <<"lfh", o>>, <<"desc", o>> and <<"data", o>> to what stands at offset o. *)
(****************************************************************************)
EXTENDS ZipLayout

\* Two readings of one offset see the same bytes.
Consistent(f, g) == \A x \in DOMAIN f \cap DOMAIN g : f[x] = g[x]
Both(f, g) == [x \in DOMAIN f \cup DOMAIN g |-> IF x \in DOMAIN g THEN g[x] ELSE f[x]]

\* What a window shows: the end records, or a central header with the local
\* record it points at.
ZipEndPieces(w) ==
    [x \in {<<"eocd", w.ends[i].off>> : i \in DOMAIN w.ends} |->
        w.ends[CHOOSE i \in DOMAIN w.ends : <<"eocd", w.ends[i].off>> = x]]

ZipMemberPieces(s, w) ==
    LET v == IF s.profile = Zip64Profile THEN CentralValues(w.cdh).values
             ELSE <<w.cdh.uncomp, w.cdh.comp, w.cdh.lfh_offset>>
        at == DataOffset(w.lfh, v[3])
    IN  (<<"cdh", s.end[1].cd_offset + s.pos>> :> w.cdh) @@ (<<"lfh", v[3]>> :> w.lfh)
        @@ (<<"data", at>> :> w.stream) @@ (<<"desc", at + v[2]>> :> w.desc)

(****************************************************************************)
(* Planning.                                                                *)
(****************************************************************************)
\* The ZIP64 profile also accepts an empty archive that starts with its end
\* record.
detect_magic(magic, profile) ==
    IF magic \in {"lfh", "eocd"} \/ (profile = Zip64Profile /\ magic = "zip64eocd") THEN "zip"
    ELSE IF magic = "gzip" THEN "gz" ELSE "unknown"

ZipRatioExceeds(uncomp, comp, max_ratio) ==
    IF comp = 0 THEN uncomp > 0 ELSE uncomp > max_ratio * comp

NewZipPlan == [findings |-> <<>>, planned |-> <<>>, seen |-> {}, total |-> 0, stopped |-> FALSE]

JailProfile(profile) == IF profile = "PortableUtf8V1" THEN Portable ELSE profile

\* A ZIP duplicate has its own code; the other conflicts are those of any path.
ZipPathFinding(m, jailed, seen, profile) ==
    LET topology == TopologyFinding(seen, jailed.components, m.is_dir, JailProfile(profile))
    IN  FirstOf(<< <<jailed.finding # OK, jailed.finding>>,
                   <<profile = "WheelUtf8V1" /\ jailed.actions > 0, "PathInvalidChar">>,
                   <<profile = "PortableUtf8V1" /\ portable_name_violation(jailed),
                     "PathInvalidChar">>,
                   <<\E e \in seen : e.path = jailed.components, "ZipDiffB1Dup">>,
                   <<topology # OK, topology>> >>)

PlanZipMember(budget, profile, p, m) ==
    LET jailed == jail_name_for_profile(IF m.is_dir THEN Front(m.name) ELSE m.name,
                                        budget.max_depth, JailProfile(profile))
        refusal == FirstOf(<< <<"crypt" \in m.flags, "ZipEncrypted">>,
                              <<m.method \notin {0, 8}, "MethodUnsupported">>,
                              <<m.uncomp_size > budget.max_member, "QuotaMember">>,
                              <<budget.max_ratio # <<>>
                                  /\ ZipRatioExceeds(m.uncomp_size, m.comp_size, budget.max_ratio[1]),
                                "QuotaRatio">> >>)
        total == p.total + m.uncomp_size
        path == ZipPathFinding(m, jailed, p.seen, profile)
        Finding(f) == [p EXCEPT !.findings = Append(@, f)]
    IN  IF p.stopped THEN p
        ELSE IF refusal # OK THEN Finding(refusal)
        ELSE IF total > MaxU64 THEN [Finding("QuotaOverflow") EXCEPT !.stopped = TRUE]
        ELSE IF total > budget.max_total THEN [Finding("QuotaTotal") EXCEPT !.stopped = TRUE]
        ELSE IF path # OK THEN [Finding(path) EXCEPT !.total = total]
        ELSE [p EXCEPT !.total = total,
                       !.planned = Append(@, [m EXCEPT !.components = jailed.components,
                                                       !.actions = jailed.actions]),
                       !.seen = Admit(@, jailed.components, m.is_dir, JailProfile(profile))]

ZipCovering(s) ==
    LET e == s.end[1]
    IN  [local_records |-> ByteRange(0, e.cd_offset),
         central_directory |-> ByteRange(e.cd_offset, e.cd_size),
         pair |-> e.pair, eocd |-> ByteRange(e.off, EOCD_MIN),
         comment |-> ByteRange(e.off + EOCD_MIN, e.comment_len)]

ZipArchiveIR(s, plan) ==
    [profile |-> s.profile, covering |-> ZipCovering(s), members |-> plan.planned]

\* plan_snapshot up to the audit.
plan_snapshot(s, magic, budget) ==
    LET plan == FoldLeft(LAMBDA p, m : PlanZipMember(budget, s.profile, p, m), NewZipPlan, s.members)
    IN  CASE detect_magic(magic, s.profile) # "zip"
                -> [stage |-> "refused", finding |-> "FormatUnsupported", plan |-> NewZipPlan]
          [] detect_magic(magic, s.profile) = "zip" /\ s.verdict # "accepted"
                -> [stage |-> "refused", finding |-> s.verdict, plan |-> NewZipPlan]
          [] OTHER -> [stage |-> IF plan.findings # <<>> THEN "denied" ELSE "planned",
                       finding |-> IF plan.findings # <<>> THEN Head(plan.findings) ELSE OK,
                       plan |-> plan]

(****************************************************************************)
(* The audit of ZIP32 evidence: the ranges, the end record, the signatures. *)
(****************************************************************************)
At(src, what, o) == <<what, o>> \in DOMAIN src
Interval(r) == [start |-> r.offset, end |-> RangeEnd(r)]
Inside(outer, r) == r.offset >= outer.offset /\ RangeEnd(r) <= RangeEnd(outer)

LocalEnd(m) == IF m.descriptor = <<>> THEN RangeEnd(m.payload) ELSE RangeEnd(m.descriptor[1])
LocalSpan(m) == ByteRange(m.local_header.offset, LocalEnd(m) - m.local_header.offset)

validate_ordered_partition(outer, ranges) ==
    exact_partition(Interval(outer), [i \in DOMAIN ranges |-> Interval(ranges[i])]) = OK

\* Local header, payload and descriptor follow each other.
MemberAbuts(m) ==
    /\ RangeEnd(m.local_header) = m.payload.offset
    /\ m.descriptor # <<>> => RangeEnd(m.payload) = m.descriptor[1].offset

audit_covering(src, len, ir) ==
    LET c == ir.covering
        e == src[<<"eocd", c.eocd.offset>>]
    IN  /\ c.local_records.offset = 0 /\ c.eocd.len = EOCD_MIN
        /\ RangeEnd(c.local_records) = c.central_directory.offset
        /\ RangeEnd(c.central_directory) = c.eocd.offset
        /\ RangeEnd(c.eocd) = c.comment.offset /\ RangeEnd(c.comment) = len
        /\ At(src, "eocd", c.eocd.offset)
        /\ e.eocd.this_disk = 0 /\ e.eocd.cd_disk = 0
        /\ e.eocd.entries_on_disk = e.eocd.total_entries
        /\ e.eocd.total_entries = Len(ir.members)
        /\ ByteRange(e.eocd.cd_offset, e.eocd.cd_size) = c.central_directory
        /\ e.comment_len = c.comment.len
        /\ \A m \in Range(ir.members) :
              /\ m.local_header.len >= LFH_LEN /\ m.central_header.len >= CDH_LEN
              /\ At(src, "lfh", m.local_header.offset) /\ At(src, "cdh", m.central_header.offset)
              /\ Inside(c.central_directory, m.central_header)
              /\ MemberAbuts(m) /\ LocalSpan(m).len > 0
              /\ Inside(c.local_records, LocalSpan(m)) /\ Inside(LocalSpan(m), m.payload)
        /\ validate_ordered_partition(c.local_records,
                [i \in DOMAIN ir.members |-> LocalSpan(ir.members[i])])
        /\ validate_ordered_partition(c.central_directory,
                [i \in DOMAIN ir.members |-> ir.members[i].central_header])

(****************************************************************************)
(* The audit of ZIP64 evidence: every recorded field against the source.    *)
(****************************************************************************)
canonical_end(legacy, resolved, sentinel) ==
    legacy = sentinel \/ (legacy = resolved /\ resolved < sentinel)

canonical_member_u32(legacy, resolved) ==
    IF resolved < U32Max THEN legacy = resolved ELSE legacy = U32Max

\* The fixed pair before the classic record, or the classic record alone.
AuditEnds(src, ir) ==
    LET c == ir.covering
        end == src[<<"eocd", c.eocd.offset>>]
        e == end.eocd
        n == Len(ir.members)
        cd == c.central_directory
    IN  IF c.pair = <<>>
        THEN <<e.entries_on_disk, e.total_entries, e.cd_size, e.cd_offset>>
                = <<n, n, cd.len, cd.offset>>
        ELSE LET r == end.record
                 p == c.pair[1]
             IN  /\ p.zip64_eocd.len = ZIP64_EOCD_LEN /\ p.zip64_locator.len = ZIP64_LOCATOR_LEN
                 /\ RangeEnd(p.zip64_eocd) = p.zip64_locator.offset
                 /\ RangeEnd(p.zip64_locator) = c.eocd.offset
                 /\ r.sig /\ ~r.extensible /\ r.disk = 0
                 /\ r.entries_on_disk = n /\ r.total_entries = n
                 /\ r.cd_size = cd.len /\ r.cd_offset = cd.offset
                 /\ end.locator # <<>>
                 /\ end.locator[1] = [disk |-> 0, offset |-> p.zip64_eocd.offset, disks |-> 1]
                 /\ HasSentinel(e)
                 /\ canonical_end(e.entries_on_disk, n, U16Max)
                 /\ canonical_end(e.total_entries, n, U16Max)
                 /\ canonical_end(e.cd_size, cd.len, U32Max)
                 /\ canonical_end(e.cd_offset, cd.offset, U32Max)

\* The end record's version is 45 or the largest central one.
EndVersionCanonical(version, ir) ==
    LET largest == Max({0} \cup {m.zip64[1].central_version : m \in Range(ir.members)})
    IN  version = 45 \/ (largest # 0 /\ version = largest)

\* Header lengths, versions and saturated legacy fields.
AuditMemberRanges(src, c, m) ==
    LET l == src[<<"lfh", m.local_header.offset>>]
        h == src[<<"cdh", m.central_header.offset>>]
        z == m.zip64[1]
    IN  /\ At(src, "lfh", m.local_header.offset) /\ At(src, "cdh", m.central_header.offset)
        /\ m.local_header.len = LFH_LEN + NameLen(l.name) + ExtraLen(l.extra)
        /\ m.central_header.len = CdhLen(h)
        /\ RangeEnd(m.local_header) = m.payload.offset /\ m.payload.len = m.comp_size
        /\ Inside(c.local_records, m.local_header)
        /\ Inside(c.central_directory, m.central_header)
        /\ l.version = z.local_version /\ h.version = z.central_version
        /\ z.central_sentinels = {i \in 1..3 : <<h.uncomp, h.comp, h.lfh_offset>>[i] = U32Max}
        /\ z.local_sentinels = {i \in 1..2 : <<l.uncomp, l.comp>>[i] = U32Max}

SiteExtra(m, site) == SelectSeq(m.extra_fields, LAMBDA f : f.site = site)

\* Below version 45 a central field is allowed to an offset-only member of an
\* archive with a pair; the descriptor's width follows from the local field.
AuditVersions(src, m, hasPair) ==
    LET h == src[<<"cdh", m.central_header.offset>>]
        z == m.zip64[1]
        hasLocal == SiteExtra(m, "Local") # <<>>
        offsetOnly ==
            /\ hasPair
            /\ \/ /\ z.mask = {3} /\ h.uncomp = m.uncomp_size /\ h.comp = m.comp_size
                  /\ <<m.method, z.central_version>> \in {<<0, 10>>, <<8, 20>>}
               \/ z.mask = {1, 2, 3} /\ {h.uncomp, h.comp} = {U32Max} /\ z.central_version = 20
            /\ h.lfh_offset = U32Max /\ m.uncomp_size < U32Max /\ m.comp_size < U32Max
            /\ m.local_header.offset >= U32Max
    IN  /\ hasLocal => z.local_version >= 45
        /\ SiteExtra(m, "Central") # <<>> /\ z.central_version < 45 => offsetOnly
        /\ z.width = IF "desc" \notin m.flags THEN <<>>
                     ELSE IF hasLocal \/ m.comp_size >= U32Max \/ m.uncomp_size >= U32Max
                     THEN <<"Zip64">> ELSE <<"Zip32">>

\* Names, kind and attributes, and the local shape.
audit_zip64_common_member(src, m, hasPair) ==
    LET l == src[<<"lfh", m.local_header.offset>>]
        h == src[<<"cdh", m.central_header.offset>>]
        z == m.zip64[1]
        gp3 == "desc" \in m.flags
        isDir == m.attrs \in {"dosdir", "unixdir"}
        hasLocal == SiteExtra(m, "Local") # <<>>
    IN  /\ l.flags = m.flags /\ h.flags = m.flags /\ l.method = m.method /\ h.method = m.method
        /\ m.flags \subseteq {"desc"} /\ m.method \in {0, 8}
        /\ h.crc = m.crc /\ h.disk_start = 0 /\ h.attrs = m.attrs
        /\ l.name = m.name /\ h.name = m.name /\ is_ascii(m.name)
        /\ m.is_dir = IsDirName(m.name)
        /\ m.attrs \notin {"symlink", "special", "dirregular"}
        /\ isDir # m.is_dir => ~isDir /\ m.attrs # "regular"
        /\ m.is_dir => m.comp_size = 0 /\ m.uncomp_size = 0 /\ m.method = 0 /\ m.crc = 0
        /\ l.crc = m.crc \/ (gp3 /\ l.crc = 0)
        /\ CASE z.shape = "Absent" ->
                  ~hasLocal /\ SizesAgree(l, gp3, m.comp_size, m.uncomp_size)
             [] z.shape = "Exact" ->
                  /\ hasLocal
                  /\ \/ {l.uncomp, l.comp} = {U32Max}
                     \/ canonical_member_u32(l.uncomp, m.uncomp_size)
                        /\ canonical_member_u32(l.comp, m.comp_size)
             [] z.shape = "StreamingZeros" -> gp3 /\ hasLocal /\ {l.uncomp, l.comp} = {U32Max}
             [] z.shape = "StreamingMaxima" -> gp3 /\ hasLocal /\ {l.uncomp, l.comp} = {0}
        /\ AuditVersions(src, m, hasPair)

\* One semantic field exactly fills the extra area of its site.
AuditExtraSite(m, site, start, extra) ==
    LET fields == SiteExtra(m, site)
    IN  /\ Len(fields) <= 1
        /\ \A i \in DOMAIN fields :
              /\ fields[i].id = "zip64" /\ fields[i].disposition = "Semantic"
              /\ fields[i].header_range = ByteRange(start, 1)
              /\ fields[i].data_range.offset = start + 1
              /\ RangeEnd(fields[i].data_range) = start + ExtraLen(extra)
              /\ extra # <<>> /\ extra[1].id = "zip64"
              /\ extra[1].size = fields[i].data_range.len
        /\ fields = <<>> => ExtraLen(extra) = 0

\* The masks of the evidence's size that yield the recorded values.
ResolvingMasks(values, legacy, resolved, size) ==
    {mask \in (SUBSET (1..3)) \ {{}} :
        /\ Cardinality(mask) = size
        /\ \A i \in 1..3 : legacy[i] = U32Max => i \in mask
        /\ \A i \in mask : legacy[i] # U32Max => MaskValue(mask, values, i) = legacy[i]
        /\ \A i \in 1..3 : resolved[i] = IF i \in mask /\ legacy[i] = U32Max
                                         THEN MaskValue(mask, values, i) ELSE legacy[i]}

audit_zip64_extras(src, m) ==
    LET l == src[<<"lfh", m.local_header.offset>>]
        h == src[<<"cdh", m.central_header.offset>>]
        z == m.zip64[1]
        legacy == <<h.uncomp, h.comp, h.lfh_offset>>
        resolved == <<m.uncomp_size, m.comp_size, m.local_header.offset>>
    IN  /\ AuditExtraSite(m, "Local", m.local_header.offset + LFH_LEN + NameLen(l.name), l.extra)
        /\ AuditExtraSite(m, "Central", m.central_header.offset + CDH_LEN + NameLen(h.name), h.extra)
        /\ IF SiteExtra(m, "Local") = <<>> THEN z.shape = "Absent"
           ELSE /\ l.extra[1].size = 4
                /\ CASE z.shape = "Absent" -> FALSE
                     [] z.shape = "Exact" -> l.extra[1].values = <<m.uncomp_size, m.comp_size>>
                     [] z.shape = "StreamingZeros" -> l.extra[1].values = <<0, 0>>
                     [] z.shape = "StreamingMaxima" -> l.extra[1].values = <<MaxU64, MaxU64>>
        /\ IF SiteExtra(m, "Central") = <<>>
           THEN z.mask = {} /\ z.central_sentinels = {} /\ legacy = resolved
           ELSE /\ z.mask # {} /\ h.extra[1].size = 2 * Cardinality(z.mask)
                /\ z.central_sentinels \subseteq z.mask
                /\ ResolvingMasks(h.extra[1].values, legacy, resolved, Cardinality(z.mask)) = {z.mask}

audit_zip64_descriptor(src, m) ==
    LET z == m.zip64[1]
    IN  IF z.width = <<>> \/ m.descriptor = <<>>
        THEN z.width = <<>> /\ m.descriptor = <<>> /\ "desc" \notin m.flags
        ELSE LET d == src[<<"desc", m.descriptor[1].offset>>]
             IN  /\ "desc" \in m.flags
                 /\ m.descriptor[1].len = IF z.width[1] = "Zip64" THEN 6 ELSE 4
                 /\ At(src, "desc", m.descriptor[1].offset)
                 /\ d.signed /\ d.width = z.width[1]
                 /\ <<d.crc, d.comp, d.uncomp>> = <<m.crc, m.comp_size, m.uncomp_size>>

audit_zip64_covering(src, len, ir) ==
    LET c == ir.covering
        afterCd == IF c.pair = <<>> THEN c.eocd.offset ELSE c.pair[1].zip64_eocd.offset
        end == src[<<"eocd", c.eocd.offset>>]
    IN  /\ c.local_records.offset = 0 /\ c.eocd.len = EOCD_MIN
        /\ RangeEnd(c.local_records) = c.central_directory.offset
        /\ RangeEnd(c.eocd) = c.comment.offset /\ RangeEnd(c.comment) = len
        /\ RangeEnd(c.central_directory) = afterCd
        /\ At(src, "eocd", c.eocd.offset)
        /\ end.eocd.this_disk = 0 /\ end.eocd.cd_disk = 0 /\ end.comment_len = c.comment.len
        /\ AuditEnds(src, ir)
        /\ \A m \in Range(ir.members) :
              /\ AuditMemberRanges(src, c, m)
              /\ audit_zip64_common_member(src, m, c.pair # <<>>)
              /\ audit_zip64_extras(src, m) /\ audit_zip64_descriptor(src, m)
              /\ MemberAbuts(m)
        /\ c.pair # <<>> => EndVersionCanonical(end.record.version, ir)
        /\ validate_ordered_partition(c.local_records,
                [i \in DOMAIN ir.members |-> LocalSpan(ir.members[i])])
        /\ validate_ordered_partition(c.central_directory,
                [i \in DOMAIN ir.members |-> ir.members[i].central_header])

AuditZip(src, len, ir) ==
    IF ir.profile = Zip64Profile THEN audit_zip64_covering(src, len, ir)
    ELSE audit_covering(src, len, ir)

================================================================================
