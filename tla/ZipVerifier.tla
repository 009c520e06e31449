------------------------------ MODULE ZipVerifier ------------------------------
(****************************************************************************)
(* The ZIP identities of identity.rs and the identity verifier's own        *)
(* reading of a ZIP32 or ZIP64 case.                                        *)
(****************************************************************************)
EXTENDS ZipPlan, TarVerifier

(****************************************************************************)
(* identity.rs                                                              *)
(****************************************************************************)
\* Extra fields are encoded in the order of site, id and offset.
layout_member(m) ==
    <<m.components, m.is_dir, m.name, m.method, m.flags, m.comp_size, m.uncomp_size, m.crc,
      m.local_header, m.payload, m.descriptor, m.central_header,
      {<<f.site, f.id, f.disposition, f.data_range>> : f \in Range(m.extra_fields)}, m.actions>>

encode_layout(ir) ==
    LET c == ir.covering
    IN  preimage("layout.v1", <<c.local_records, c.central_directory, c.eocd, c.comment,
                                Len(ir.members), {layout_member(m) : m \in Range(ir.members)}>>)

encode_zip64_layout(ir) ==
    LET c == ir.covering
    IN  preimage("layout-zip64.v1",
                 <<c, Len(ir.members),
                   {<<layout_member(m), m.zip64[1], SiteExtra(m, "Local"), SiteExtra(m, "Central")>>
                      : m \in Range(ir.members)}>>)

encode_zip_content(ir) ==
    preimage("content.v1",
             <<Len(ir.members),
               {<<m.components, m.is_dir, m.uncomp_size, m.crc>> : m \in Range(ir.members)}>>)

layout_root(ir) == IF ir.profile = Zip64Profile THEN encode_zip64_layout(ir) ELSE encode_layout(ir)

(****************************************************************************)
(* The verifier: the evidence by itself.                                    *)
(****************************************************************************)
UniquePaths(ms) ==
    /\ \A i \in DOMAIN ms : ms[i].components # <<>>
    /\ \A i, j \in DOMAIN ms : ms[i].components = ms[j].components => i = j

validate_ir(ir) ==
    /\ UniquePaths(ir.members)
    /\ \A m \in Range(ir.members) :
          LET fs == m.extra_fields
          IN  \A i \in DOMAIN fs :
                /\ \A j \in 1..(i - 1) : <<fs[j].site, fs[j].id>> # <<fs[i].site, fs[i].id>>
                /\ fs[i].header_range.len = 1
                /\ RangeEnd(fs[i].header_range) = fs[i].data_range.offset
                /\ LET header == IF fs[i].site = "Local" THEN m.local_header ELSE m.central_header
                   IN  Inside(header, fs[i].header_range) /\ Inside(header, fs[i].data_range)

validate_zip64_ir(ir) ==
    /\ UniquePaths(ir.members)
    /\ \A m \in Range(ir.members) :
          LET fs == m.extra_fields
          IN  /\ m.name # <<"">> /\ is_ascii(m.name)
              /\ m.method \in {0, 8} /\ m.flags \subseteq {"desc"}
              /\ \A i \in DOMAIN fs :
                    /\ fs[i].id = "zip64" /\ fs[i].disposition = "Semantic"
                    /\ fs[i].header_range.len = 1
                    /\ RangeEnd(fs[i].header_range) = fs[i].data_range.offset
                    /\ \A j \in 1..(i - 1) : fs[j].site # fs[i].site

(****************************************************************************)
(* The verifier: the evidence against the source.                           *)
(****************************************************************************)
\* The parts of one covering in order of their offsets, without gap or overlap.
verify_partition(ranges, covering) ==
    LET sorted == SortSeq(ranges, LAMBDA a, b : a.offset < b.offset)
    IN  IF ranges = <<>> THEN covering.len = 0
        ELSE /\ Head(sorted).offset = covering.offset
             /\ \A i \in 1..(Len(sorted) - 1) : RangeEnd(sorted[i]) = sorted[i + 1].offset
             /\ RangeEnd(Last(sorted)) = RangeEnd(covering)

\* Unsigned in three words or signed in four.
DescriptorForm(src, r) ==
    /\ At(src, "desc", r.offset)
    /\ r.len = IF src[<<"desc", r.offset>>].signed THEN 4 ELSE 3

verify_covering(src, len, ir) ==
    LET c == ir.covering
        end == src[<<"eocd", c.eocd.offset>>]
        e == end.eocd
    IN  /\ c.local_records.offset = 0
        /\ RangeEnd(c.local_records) = c.central_directory.offset
        /\ RangeEnd(c.central_directory) = c.eocd.offset
        /\ RangeEnd(c.eocd) = c.comment.offset /\ RangeEnd(c.comment) = len
        /\ c.eocd.len = EOCD_MIN /\ At(src, "eocd", c.eocd.offset)
        /\ e.this_disk = 0 /\ e.cd_disk = 0
        /\ e.entries_on_disk = e.total_entries /\ e.total_entries = Len(ir.members)
        /\ e.cd_size = c.central_directory.len /\ e.cd_offset = c.central_directory.offset
        /\ end.comment_len = c.comment.len
        /\ \A m \in Range(ir.members) :
              /\ m.local_header.len >= LFH_LEN /\ m.central_header.len >= CDH_LEN
              /\ At(src, "lfh", m.local_header.offset) /\ At(src, "cdh", m.central_header.offset)
              /\ MemberAbuts(m)
              /\ m.descriptor # <<>> => DescriptorForm(src, m.descriptor[1])
              /\ LocalSpan(m).len > 0 /\ Inside(c.local_records, LocalSpan(m))
              /\ Inside(LocalSpan(m), m.payload) /\ Inside(c.central_directory, m.central_header)
        /\ verify_partition([i \in DOMAIN ir.members |-> LocalSpan(ir.members[i])], c.local_records)
        /\ verify_partition([i \in DOMAIN ir.members |-> ir.members[i].central_header],
                            c.central_directory)

reject_zip64_structural_metadata(sigs) ==
    sigs \cap {"ZIP64_EOCD", "ZIP64_LOCATOR", "EOCD", "LFH", "CDH", "DESC"} = {}
reject_zip64_stream_signatures(stream) == ~stream

canonical_zip64_end_field(legacy, resolved, sentinel) ==
    IF resolved < sentinel THEN legacy \in {resolved, sentinel} ELSE legacy = sentinel
canonical_zip64_member_u32(legacy, resolved) == legacy = Min({resolved, U32Max})

\* The end records: the pair with its classic twin, or the classic one alone.
VerifyZip64Ends(ir, end) ==
    LET c == ir.covering
        e == end.eocd
        n == Len(ir.members)
        counts == <<e.entries_on_disk, e.total_entries>>
        cd == c.central_directory
    IN  IF c.pair = <<>>
        THEN counts = <<n, n>> /\ ByteRange(e.cd_offset, e.cd_size) = cd
        ELSE LET p == c.pair[1]
                 r == end.record
                 loc == end.locator
             IN  /\ p.zip64_eocd = ByteRange(p.zip64_locator.offset - ZIP64_EOCD_LEN, ZIP64_EOCD_LEN)
                 /\ p.zip64_locator = ByteRange(c.eocd.offset - ZIP64_LOCATOR_LEN, ZIP64_LOCATOR_LEN)
                 /\ r.sig /\ ~r.extensible /\ r.disk = 0
                 /\ <<r.entries_on_disk, r.total_entries>> = <<n, n>>
                 /\ ByteRange(r.cd_offset, r.cd_size) = cd
                 /\ loc # <<>> /\ loc[1].disk = 0 /\ loc[1].disks = 1
                 /\ loc[1].offset = p.zip64_eocd.offset
                 /\ U16Max \in Range(counts) \/ U32Max \in {e.cd_size, e.cd_offset}
                 /\ \A i \in 1..2 : canonical_zip64_end_field(counts[i], n, U16Max)
                 /\ canonical_zip64_end_field(e.cd_size, cd.len, U32Max)
                 /\ canonical_zip64_end_field(e.cd_offset, cd.offset, U32Max)
                 /\ LET versions == {m.zip64[1].central_version : m \in Range(ir.members)}
                    IN  r.version \in {45} \cup (IF versions = {} THEN {} ELSE {Max(versions)} \ {0})

\* Attributes, saturated fields, the local shape, versions and the width.
verify_zip64_common_member(m, l, h, hasPair) ==
    LET z == m.zip64[1]
        gp3 == "desc" \in m.flags
        hasLocal == SiteExtra(m, "Local") # <<>>
        hasCentral == SiteExtra(m, "Central") # <<>>
        saturated == {l.uncomp, l.comp} = {U32Max}
        big == m.comp_size >= U32Max \/ m.uncomp_size >= U32Max
        lowVersion ==
            \/ z.mask = {3} /\ <<h.uncomp, h.comp>> = <<m.uncomp_size, m.comp_size>>
               /\ <<m.method, z.central_version>> \in {<<0, 10>>, <<8, 20>>}
            \/ z.mask = {1, 2, 3} /\ <<h.uncomp, h.comp>> = <<U32Max, U32Max>>
               /\ z.central_version = 20 /\ m.method \in {0, 8}
    IN  /\ l.version = z.local_version /\ h.version = z.central_version
        /\ {l.flags, h.flags} = {m.flags} /\ {l.method, h.method} = {m.method}
        /\ h.crc = m.crc /\ h.disk_start = 0
        /\ m.is_dir = IsDirName(m.name)
        /\ validate_directory_metadata(m.name, h.attrs, m.method, m.crc, m.comp_size,
                                       m.uncomp_size) = OK
        /\ z.central_sentinels = {i \in 1..3 : <<h.uncomp, h.comp, h.lfh_offset>>[i] = U32Max}
        /\ z.local_sentinels = {i \in 1..2 : <<l.uncomp, l.comp>>[i] = U32Max}
        /\ l.crc \in {m.crc} \cup (IF gp3 THEN {0} ELSE {})
        /\ CASE z.shape = "Absent" ->
                  ~hasLocal /\ SizesAgree(l, gp3, m.comp_size, m.uncomp_size)
             [] z.shape = "Exact" ->
                  hasLocal /\ (saturated \/ (canonical_zip64_member_u32(l.uncomp, m.uncomp_size)
                                             /\ canonical_zip64_member_u32(l.comp, m.comp_size)))
             [] z.shape = "StreamingZeros" -> gp3 /\ hasLocal /\ saturated
             [] z.shape = "StreamingMaxima" -> gp3 /\ hasLocal /\ <<l.uncomp, l.comp>> = <<0, 0>>
        /\ ~(hasLocal /\ z.local_version < 45)
        /\ hasCentral /\ z.central_version < 45 =>
              hasPair /\ lowVersion /\ h.lfh_offset = U32Max /\ ~big
              /\ m.local_header.offset >= U32Max
        /\ z.width = IF gp3 THEN <<IF hasLocal \/ big THEN "Zip64" ELSE "Zip32">> ELSE <<>>

VerifyExtraSite(m, site, start, extra) ==
    LET fields == SiteExtra(m, site)
    IN  IF fields = <<>> THEN extra = <<>>
        ELSE /\ Len(fields) = 1 /\ extra # <<>>
             /\ extra[1].id = "zip64"
             /\ fields[1].data_range = ByteRange(start + 1, extra[1].size)
             /\ ExtraLen(extra) = 1 + extra[1].size

verify_zip64_extras(m, l, h) ==
    LET z == m.zip64[1]
        legacy == <<h.uncomp, h.comp, h.lfh_offset>>
        resolved == <<m.uncomp_size, m.comp_size, m.local_header.offset>>
        localValues == IF l.extra = <<>> THEN <<>> ELSE l.extra[1].values
    IN  /\ VerifyExtraSite(m, "Local", m.local_header.offset + LFH_LEN + NameLen(l.name), l.extra)
        /\ VerifyExtraSite(m, "Central", m.central_header.offset + CDH_LEN + NameLen(h.name), h.extra)
        /\ (z.shape = "Absent") = (l.extra = <<>>)
        /\ l.extra # <<>> => l.extra[1].size = 4
        /\ z.shape = "Exact" => localValues = <<m.uncomp_size, m.comp_size>>
        /\ z.shape = "StreamingZeros" => localValues = <<0, 0>>
        /\ z.shape = "StreamingMaxima" => localValues = <<MaxU64, MaxU64>>
        /\ h.extra = <<>> => z.mask = {} /\ z.central_sentinels = {} /\ legacy = resolved
        /\ h.extra # <<>> =>
              /\ z.mask # {} /\ h.extra[1].size = 2 * Cardinality(z.mask)
              /\ z.central_sentinels \subseteq z.mask
              /\ ResolvingMasks(h.extra[1].values, legacy, resolved, Cardinality(z.mask)) = {z.mask}

verify_zip64_descriptor(src, m) ==
    LET z == m.zip64[1]
        gp3 == "desc" \in m.flags
    IN  /\ gp3 = (z.width # <<>>) /\ gp3 = (m.descriptor # <<>>)
        /\ gp3 => /\ At(src, "desc", m.descriptor[1].offset)
                  /\ src[<<"desc", m.descriptor[1].offset>>]
                       = [signed |-> TRUE, width |-> z.width[1], crc |-> m.crc,
                          comp |-> m.comp_size, uncomp |-> m.uncomp_size]
                  /\ m.descriptor[1].len = IF z.width[1] = "Zip32" THEN 4 ELSE 6

\* One member: its ranges, its comment, its names and its fields.
VerifyZip64Member(src, c, m) ==
    LET l == src[<<"lfh", m.local_header.offset>>]
        h == src[<<"cdh", m.central_header.offset>>]
    IN  /\ At(src, "lfh", m.local_header.offset) /\ At(src, "cdh", m.central_header.offset)
        /\ m.local_header.len = LFH_LEN + NameLen(l.name) + ExtraLen(l.extra)
        /\ m.central_header.len = CDH_LEN + NameLen(h.name) + ExtraLen(h.extra) + h.comment_len
        /\ RangeEnd(m.local_header) = m.payload.offset /\ m.payload.len = m.comp_size
        /\ Inside(c.local_records, m.local_header) /\ Inside(c.central_directory, m.central_header)
        /\ reject_zip64_structural_metadata(h.comment)
        /\ l.name = m.name /\ h.name = m.name
        /\ verify_zip64_common_member(m, l, h, c.pair # <<>>)
        /\ verify_zip64_extras(m, l, h)
        /\ m.method = 0 /\ "desc" \in m.flags =>
              reject_zip64_stream_signatures(src[<<"data", m.payload.offset>>])
        /\ verify_zip64_descriptor(src, m)
        /\ MemberAbuts(m)

verify_zip64_covering(src, len, ir) ==
    LET c == ir.covering
        end == src[<<"eocd", c.eocd.offset>>]
    IN  /\ \/ c.pair # <<>>
           \/ \E m \in Range(ir.members) : m.extra_fields # <<>> \/ m.zip64[1].width = <<"Zip64">>
        /\ c.local_records.offset = 0
        /\ RangeEnd(c.local_records) = c.central_directory.offset
        /\ RangeEnd(c.central_directory) = IF c.pair = <<>> THEN c.eocd.offset
                                           ELSE c.pair[1].zip64_eocd.offset
        /\ c.eocd.len = EOCD_MIN
        /\ RangeEnd(c.eocd) = c.comment.offset /\ RangeEnd(c.comment) = len
        /\ At(src, "eocd", c.eocd.offset)
        /\ end.eocd.this_disk = 0 /\ end.eocd.cd_disk = 0 /\ end.comment_len = c.comment.len
        /\ reject_zip64_structural_metadata(end.comment)
        /\ VerifyZip64Ends(ir, end)
        /\ \A m \in Range(ir.members) : VerifyZip64Member(src, c, m)
        /\ verify_partition([i \in DOMAIN ir.members |-> LocalSpan(ir.members[i])], c.local_records)
        /\ verify_partition([i \in DOMAIN ir.members |-> ir.members[i].central_header],
                            c.central_directory)

\* The verifier's encoders.
encode_layout_member(m) ==
    <<m.components, m.is_dir, m.name, m.method, m.flags, m.comp_size, m.uncomp_size, m.crc,
      m.local_header, m.payload, m.descriptor, m.central_header,
      {<<f.site, f.id, f.disposition, f.data_range>> : f \in Range(m.extra_fields)}, m.actions>>

ZipLayoutBody(ir) ==
    LET c == ir.covering
        members == {encode_layout_member(m) : m \in Range(ir.members)}
    IN  IF ir.profile # Zip64Profile
        THEN <<c.local_records, c.central_directory, c.eocd, c.comment, Len(ir.members), members>>
        ELSE <<c, Len(ir.members),
               {<<encode_layout_member(m), m.zip64[1], SiteExtra(m, "Local"), SiteExtra(m, "Central")>>
                  : m \in Range(ir.members)}>>

verify_zip64_case(src, len, ir) == validate_zip64_ir(ir) /\ verify_zip64_covering(src, len, ir)
verify_case(src, len, ir) == validate_ir(ir) /\ verify_covering(src, len, ir)

VerifyZip(src, len, ir, layout, content) ==
    /\ IF ir.profile = Zip64Profile THEN verify_zip64_case(src, len, ir)
       ELSE verify_case(src, len, ir)
    /\ layout.body = ZipLayoutBody(ir)
    /\ content = encode_zip_content(ir)

================================================================================
