------------------------------- MODULE ZipLayout -------------------------------
(****************************************************************************)
(* The ZIP readers of crates/sealr: zip.rs, for the four ZIP32 profiles and *)
(* for ZIP64 strict ASCII.                                                  *)
(*                                                                          *)
(* The unit is the 4-byte word: a signature or a 32-bit field is one word,  *)
(* a 64-bit field two.  The reader finds the end record first and then      *)
(* takes one central header per turn together with the local header it      *)
(* points at.  An end window is                                             *)
(*   [magic, ends]  ends: the end signatures from the last to the first,    *)
(*                  each [off, comment_len, comment, eocd, locator, record] *)
(* and a member window                                                      *)
(*   [cdh, lfh, stream, desc]  stream: a record signature in the payload    *)
(* A comment is the set of the signatures it holds.  An extra field is      *)
(* [id, size, values] with size in words and the 64-bit values it holds;    *)
(* "short" is a truncated field header, "over" one beyond its area.         *)
(****************************************************************************)
EXTENDS PathJail

CONSTANTS
    U16Max, U32Max      \* the sentinels of the 16-bit and 32-bit fields

ASSUME SentinelAssumption ==
    /\ U16Max \in Nat \ {0} /\ U32Max \in Nat /\ U32Max > U16Max
    /\ MaxU64 \in Nat /\ MaxU64 > 2 * U32Max

EOCD_MIN == 5
LFH_LEN == 7
CDH_LEN == 11
ZIP64_EOCD_LEN == 14
ZIP64_LOCATOR_LEN == 5

Zip64Profile == "Zip64StrictAsciiV1"
ClosedProfiles == {"StrictAsciiV2", "PortableUtf8V1", "WheelUtf8V1"}

ByteRange(o, n) == [offset |-> o, len |-> n]
RangeEnd(r) == r.offset + r.len
NameLen(name) == Len(name)

(****************************************************************************)
(* Intervals: interval.rs.                                                  *)
(****************************************************************************)
\* Nonempty parts, in any order, cover outer exactly once.
exact_partition(outer, parts) ==
    LET ordered == SortSeq(parts, LAMBDA a, b : a.start < b.start)
        broken == {i \in 1..(Len(ordered) - 1) : ordered[i].end # ordered[i + 1].start}
    IN  IF parts = <<>> THEN IF outer.start = outer.end THEN OK ELSE "MissingParts"
        ELSE FirstOf(<< <<\E i \in DOMAIN ordered : ordered[i].start >= ordered[i].end, "EmptyPart">>,
                        <<\E i \in DOMAIN ordered : \/ ordered[i].start < outer.start
                                                    \/ ordered[i].end > outer.end, "PartOutside">>,
                        <<Head(ordered).start # outer.start, "GapBeforeFirst">>,
                        <<broken # {}, IF broken = {} THEN OK
                                       ELSE IF ordered[Min(broken)].end > ordered[Min(broken) + 1].start
                                       THEN "Overlap" ELSE "Gap">>,
                        <<Last(ordered).end # outer.end, "GapAfterLast">> >>)

(****************************************************************************)
(* Shared pieces of the two readers.                                        *)
(****************************************************************************)
\* The last end signature whose comment ends exactly at the end of the source.
find_eocd(ends, len) ==
    LET hits == {i \in DOMAIN ends : ends[i].off + EOCD_MIN + ends[i].comment_len = len}
    IN  IF hits = {} THEN <<>> ELSE <<ends[Min(hits)]>>

contains_stream_signature(sigs) == sigs \cap {"LFH", "CDH", "DESC"} # {}

reject_structural_metadata(sigs) ==
    FirstOf(<< <<sigs \cap {"ZIP64_EOCD", "ZIP64_LOCATOR"} # {}, "ZipDiffC5Zip64">>,
               <<"EOCD" \in sigs, "ZipDiffC2Eocd">>,
               <<contains_stream_signature(sigs), "ZipDiffC1Stream">> >>)

ExtraLen(extra) == FoldLeft(LAMBDA n, f : n + 1 + f.size, 0, extra)
ExtraAt(extra, i) == ExtraLen(SubSeq(extra, 1, i - 1))

\* One evidence record per field, in order.
ExtraRecords(extra, start, site, disposition) ==
    [i \in DOMAIN extra |->
        [site |-> site, id |-> extra[i].id,
         header_range |-> ByteRange(start + ExtraAt(extra, i), 1),
         data_range |-> ByteRange(start + ExtraAt(extra, i) + 1, extra[i].size),
         disposition |-> disposition]]

\* An extra area is a list of fields.
IsExtra(extra) == extra \in Seq(Range(extra))

\* The first field that is not admitted decides.
ExtraFinding(findings) ==
    LET hits == {i \in DOMAIN findings : findings[i] # OK}
    IN  IF hits = {} THEN OK ELSE findings[Min(hits)]

classify_extra_fields(extra, profile) ==
    ExtraFinding([i \in DOMAIN extra |->
        FirstOf(<< <<extra[i].id \in {"short", "over"}, "ZipExtra">>,
                   <<\E j \in 1..(i - 1) : extra[j].id = extra[i].id, "ZipExtra">>,
                   <<profile \in ClosedProfiles, "ZipExtra">>,
                   <<extra[i].id = "zip64", "ZipDiffC5Zip64">>,
                   <<extra[i].id = "upath", "ZipDiffA3Name">> >>)])

\* Only one field, the ZIP64 one, is admitted at either site.
classify_zip64_extra_fields(extra) ==
    ExtraFinding([i \in DOMAIN extra |->
        FirstOf(<< <<extra[i].id \in {"short", "over"}, "ZipExtra">>,
                   <<extra[i].id = "upath", "ZipDiffA3Name">>,
                   <<extra[i].id # "zip64", "ZipExtra">>,
                   <<i > 1, "ZipExtra">> >>)])

validate_general_purpose_flags(flags, profile) ==
    LET allowed == CASE profile = "StrictAsciiV2" -> {"desc"}
                     [] profile = "PortableUtf8V1" -> {"desc", "utf8"}
                     [] profile = "WheelUtf8V1" -> {"utf8"}
                     [] OTHER -> flags
    IN  IF flags \subseteq allowed THEN OK ELSE "ZipFlags"

IsDirName(name) == Len(name) > 1 /\ Last(name) = ""

\* attrs: what the external attributes say the entry is.
validate_directory_metadata(name, attrs, method, crc, comp, uncomp) ==
    LET isDir == attrs \in {"dosdir", "unixdir"}
    IN  FirstOf(<< <<attrs = "symlink", "ZipSymlink">>,
                   <<attrs \in {"special", "dirregular"}, "ZipDiffA4Dir">>,
                   <<isDir # IsDirName(name) /\ (isDir \/ attrs = "regular"), "ZipDiffA4Dir">>,
                   <<IsDirName(name) /\ (comp # 0 \/ uncomp # 0), "ZipDiffA4Dir">>,
                   <<IsDirName(name) /\ (method # 0 \/ crc # 0), "ZipDiffA4Dir">> >>)

NonAscii == {"uni", "notutf8", "notnfc", "private", "bidi", "sharp"}
is_ascii(name) == \A i \in DOMAIN name : name[i] \notin NonAscii

decode_name_for_profile(name, flags, profile) ==
    LET utf8 == ~Holds(name, "notutf8")
    IN  CASE profile = "StrictAsciiV2" -> IF is_ascii(name) THEN OK ELSE "ZipEncoding"
          [] profile \in {"PortableUtf8V1", "WheelUtf8V1"} ->
               IF utf8 /\ (is_ascii(name) \/ "utf8" \in flags) THEN OK ELSE "ZipEncoding"
          [] OTHER -> IF "utf8" \in flags THEN IF utf8 THEN OK ELSE "ZipEncoding"
                      ELSE IF is_ascii(name) THEN OK ELSE "ZipEncoding"

\* The fixed header, its variable part and the budget for it.
parse_lfh_bounded(lfh, off, len, max_variable) ==
    LET variable == NameLen(lfh.name) + ExtraLen(lfh.extra)
    IN  FirstOf(<< <<off + LFH_LEN > len, "ZipDiffC4Offset">>, <<~lfh.sig, "ZipDiffC1Stream">>,
                   <<variable > max_variable, "QuotaMetadata">>,
                   <<off + LFH_LEN + variable > len, "ZipDiffC4Offset">> >>)

DataOffset(lfh, off) == off + LFH_LEN + NameLen(lfh.name) + ExtraLen(lfh.extra)

DescriptorLen(desc, width) ==
    (IF width = "Zip64" THEN 5 ELSE 3) + (IF desc.signed THEN 1 ELSE 0)

\* A descriptor written in the other width reads as other values.
parse_data_descriptor_with_width(desc, off, crc, comp, uncomp, width, len) ==
    FirstOf(<< <<off + DescriptorLen(desc, width) > len, "ZipDiffC4Offset">>,
               <<desc.width # width \/ <<desc.crc, desc.comp, desc.uncomp>> # <<crc, comp, uncomp>>,
                 "ZipDiffA2Size">> >>)

LocalRecord(m) == [start |-> m.lfh_offset, end |-> m.record_end]

\* Mutant: only overlaps are refused, gaps between local records are not.
CheckLayoutAllowsGaps(members, cd_off) ==
    IF \E i \in DOMAIN members : LocalRecord(members[i]).end > cd_off THEN "ZipOverlap" ELSE OK

\* The local records fill the space before the central directory.
check_layout(members, cd_off) ==
    LET parts == [i \in DOMAIN members |-> LocalRecord(members[i])]
        verdict == exact_partition([start |-> 0, end |-> cd_off], parts)
    IN  CASE members = <<>> -> IF cd_off = 0 THEN OK ELSE "ZipDiffC1Stream"
          [] members # <<>> /\ (\E i \in DOMAIN parts : parts[i].end > cd_off) -> "ZipOverlap"
          [] OTHER -> CASE verdict \in {"Overlap", "PartOutside"} -> "ZipOverlap"
                        [] verdict = "EmptyPart" -> "ZipDiffC4Offset"
                        [] verdict = OK -> OK
                        [] OTHER -> "ZipDiffC1Stream"

(****************************************************************************)
(* The end records.                                                         *)
(****************************************************************************)
canonical_zip64_end(legacy, resolved, sentinel) ==
    IF resolved < sentinel THEN legacy \in {resolved, sentinel} ELSE legacy = sentinel

canonical_legacy_u32(legacy, resolved) ==
    IF resolved < U32Max THEN legacy = resolved ELSE legacy = U32Max

HasSentinel(e) ==
    \/ e.entries_on_disk = U16Max \/ e.total_entries = U16Max
    \/ e.cd_size = U32Max \/ e.cd_offset = U32Max

\* No locator right before the classic record: its own fields count.
ClassicEnd(e) ==
    [finding |-> FirstOf(<< <<HasSentinel(e), "ZipDiffC5Zip64">>,
                            <<e.entries_on_disk # e.total_entries, "ZipDiffC3Count">> >>),
     total_entries |-> e.total_entries, cd_size |-> e.cd_size, cd_offset |-> e.cd_offset,
     pair |-> <<>>, version |-> <<>>]

\* The fixed single-disk pair, exactly adjacent and canonical.
Zip64End(end) ==
    LET e == end.eocd
        loc == end.locator[1]
        r == end.record
        at == end.off - ZIP64_LOCATOR_LEN
    IN  [finding |->
            FirstOf(<< <<~HasSentinel(e), "ZipDiffC5Zip64">>,
                       <<loc.disk # 0 \/ loc.disks # 1, "ZipDiffC3Count">>,
                       <<loc.offset + ZIP64_EOCD_LEN # at, "ZipDiffC4Offset">>,
                       <<~r.sig \/ r.extensible, "ZipDiffC5Zip64">>,
                       <<r.disk # 0, "ZipDiffC3Count">>,
                       <<r.entries_on_disk # r.total_entries, "ZipDiffC3Count">>,
                       <<r.cd_offset + r.cd_size # loc.offset, "ZipDiffC4Offset">>,
                       <<\/ ~canonical_zip64_end(e.entries_on_disk, r.entries_on_disk, U16Max)
                         \/ ~canonical_zip64_end(e.total_entries, r.total_entries, U16Max)
                         \/ ~canonical_zip64_end(e.cd_size, r.cd_size, U32Max)
                         \/ ~canonical_zip64_end(e.cd_offset, r.cd_offset, U32Max),
                         "ZipDiffC5Zip64">> >>),
         total_entries |-> r.total_entries, cd_size |-> r.cd_size, cd_offset |-> r.cd_offset,
         pair |-> << [zip64_eocd |-> ByteRange(loc.offset, ZIP64_EOCD_LEN),
                      zip64_locator |-> ByteRange(at, ZIP64_LOCATOR_LEN)] >>,
         version |-> <<r.version>>]

resolve_zip64_end_records(end) ==
    IF end.off < ZIP64_LOCATOR_LEN \/ end.locator = <<>> THEN ClassicEnd(end.eocd)
    ELSE Zip64End(end)

NewZipScan(profile, len, maxFiles, maxMetadata) ==
    [profile |-> profile, len |-> len, maxFiles |-> maxFiles, maxMetadata |-> maxMetadata,
     stage |-> "end", end |-> <<>>, pos |-> 0, members |-> <<>>, metadata |-> 0,
     zip64Seen |-> FALSE, maxVersion |-> 0, verdict |-> "running"]

ZipReject(s, finding) == [s EXCEPT !.verdict = finding]
ZipRunning(s) == s.verdict = "running"

\* ZIP32: disks, counts, sentinels, caps, then the geometry.
Zip32EndFinding(s, end) ==
    LET e == end.eocd
    IN  FirstOf(<< <<reject_structural_metadata(end.comment) # OK,
                     reject_structural_metadata(end.comment)>>,
                   <<e.this_disk # 0 \/ e.cd_disk # 0, "ZipDiffC3Count">>,
                   <<e.entries_on_disk # e.total_entries, "ZipDiffC3Count">>,
                   <<e.cd_size = U32Max \/ e.cd_offset = U32Max \/ e.total_entries = U16Max,
                     "ZipDiffC5Zip64">>,
                   <<e.total_entries > s.maxFiles, "QuotaFiles">>,
                   <<end.comment_len + e.cd_size > s.maxMetadata, "QuotaMetadata">>,
                   <<e.cd_offset + e.cd_size # end.off, "ZipDiffC4Offset">> >>)

\* ZIP64: the comment is charged first and the pair counts as metadata.
Zip64EndFinding(s, end) ==
    LET r == resolve_zip64_end_records(end)
        next == IF r.pair = <<>> THEN end.off ELSE r.pair[1].zip64_eocd.offset
        pairLen == IF r.pair = <<>> THEN 0 ELSE ZIP64_EOCD_LEN + ZIP64_LOCATOR_LEN
    IN  FirstOf(<< <<end.comment_len > s.maxMetadata, "QuotaMetadata">>,
                   <<reject_structural_metadata(end.comment) # OK,
                     reject_structural_metadata(end.comment)>>,
                   <<end.eocd.this_disk # 0 \/ end.eocd.cd_disk # 0, "ZipDiffC3Count">>,
                   <<r.finding # OK, r.finding>>,
                   <<r.total_entries > s.maxFiles, "QuotaFiles">>,
                   <<r.cd_offset + r.cd_size # next, "ZipDiffC4Offset">>,
                   <<end.comment_len + r.cd_size + pairLen > MaxU64, "QuotaOverflow">>,
                   <<end.comment_len + r.cd_size + pairLen > s.maxMetadata, "QuotaMetadata">> >>)

\* The first turn: magic, end record, caps and geometry.
ZipEndStep(s, w) ==
    LET found == find_eocd(w.ends, s.len)
        end == found[1]
        r == IF s.profile = Zip64Profile THEN resolve_zip64_end_records(end)
             ELSE ClassicEnd(end.eocd)
        finding == IF s.profile = Zip64Profile THEN Zip64EndFinding(s, end)
                   ELSE Zip32EndFinding(s, end)
        pairLen == IF r.pair = <<>> THEN 0 ELSE ZIP64_EOCD_LEN + ZIP64_LOCATOR_LEN
    IN  IF s.len < EOCD_MIN \/ found = <<>> THEN ZipReject(s, "FormatUnsupported")
        ELSE IF finding # OK THEN ZipReject(s, finding)
        ELSE [s EXCEPT !.stage = "members",
                       !.end = <<[off |-> end.off, comment_len |-> end.comment_len,
                                  total_entries |-> r.total_entries, cd_size |-> r.cd_size,
                                  cd_offset |-> r.cd_offset, pair |-> r.pair,
                                  version |-> r.version]>>,
                       !.metadata = end.comment_len + r.cd_size + pairLen]

(****************************************************************************)
(* ZIP64 member values.  A presence mask is the set of the fields (1 the    *)
(* uncompressed size, 2 the compressed size, 3 the local header offset)     *)
(* that the extra field holds, in that order.                               *)
(****************************************************************************)
MaskValue(mask, values, i) == values[Cardinality({j \in mask : j <= i})]

\* The masks under which the values agree with every legacy field in range.
MatchingMasks(values, legacy) ==
    {mask \in SUBSET (1..3) :
        /\ Cardinality(mask) = Len(values)
        /\ \A i \in 1..3 : legacy[i] = U32Max => i \in mask
        /\ \A i \in mask : legacy[i] # U32Max => MaskValue(mask, values, i) = legacy[i]}

resolve_zip64_central_values(field, legacy) ==
    LET masks == MatchingMasks(field.values, legacy)
        mask == CHOOSE m \in masks : TRUE
        bad == field.size = 0 \/ field.size > 6 \/ field.size # 2 * Len(field.values)
               \/ Cardinality(masks) # 1
    IN  [finding |-> IF bad THEN "ZipDiffC5Zip64" ELSE OK,
         mask |-> IF bad THEN {} ELSE mask,
         values |-> IF bad THEN legacy
                    ELSE [i \in 1..3 |-> IF legacy[i] = U32Max THEN MaskValue(mask, field.values, i)
                                         ELSE legacy[i]]]

\* Forced saturation of both legacy fields, or the canonical pair.
validate_zip64_local_values(field, lfh, uncomp, comp) ==
    /\ field.size = 4 /\ field.values = <<uncomp, comp>>
    /\ \/ lfh.uncomp = U32Max /\ lfh.comp = U32Max
       \/ canonical_legacy_u32(lfh.uncomp, uncomp) /\ canonical_legacy_u32(lfh.comp, comp)

\* With a descriptor the two known placeholder shapes are admitted as well.
validate_zip64_streaming_local_values(field, lfh, uncomp, comp) ==
    /\ field.size = 4
    /\ IF field.values = <<uncomp, comp>>
       THEN validate_zip64_local_values(field, lfh, uncomp, comp)
       ELSE \/ lfh.uncomp = U32Max /\ lfh.comp = U32Max /\ field.values = <<0, 0>>
            \/ lfh.uncomp = 0 /\ lfh.comp = 0 /\ field.values = <<MaxU64, MaxU64>>

LocalValueShape(extra, uncomp, comp) ==
    CASE extra = <<>> -> "Absent"
      [] extra # <<>> /\ extra[1].values = <<uncomp, comp>> -> "Exact"
      [] extra # <<>> /\ extra[1].values # <<uncomp, comp>> /\ extra[1].values = <<0, 0>>
            -> "StreamingZeros"
      [] OTHER -> "StreamingMaxima"

\* Low extraction versions are admitted when only the offset needs ZIP64.
is_offset_only_zip64_member(v, legacy, hasPair, version, method) ==
    /\ hasPair
    /\ \/ /\ v.mask = {3} /\ legacy[1] = v.values[1] /\ legacy[2] = v.values[2]
          /\ <<method, version>> \in {<<0, 10>>, <<8, 20>>}
       \/ /\ v.mask = {1, 2, 3} /\ legacy[1] = U32Max /\ legacy[2] = U32Max
          /\ version = 20 /\ method \in {0, 8}
    /\ legacy[3] = U32Max
    /\ v.values[1] < U32Max /\ v.values[2] < U32Max /\ v.values[3] >= U32Max

DescriptorWidth(localExtra, comp, uncomp) ==
    IF localExtra # <<>> \/ comp >= U32Max \/ uncomp >= U32Max THEN "Zip64" ELSE "Zip32"

(****************************************************************************)
(* One central header and its local record.                                 *)
(****************************************************************************)
CdhLen(c) == CDH_LEN + NameLen(c.name) + ExtraLen(c.extra) + c.comment_len

\* Placeholders are zero or equal; without a descriptor only equal will do.
SizesAgree(lfh, gp3, comp, uncomp) ==
    IF gp3 THEN lfh.comp \in {0, comp} /\ lfh.uncomp \in {0, uncomp}
    ELSE lfh.comp = comp /\ lfh.uncomp = uncomp

CrcAgrees(lfh, gp3, crc) == lfh.crc = crc \/ (gp3 /\ lfh.crc = 0)

\* A stored payload with a descriptor must not hold a record signature.
StreamFinding(w, at, comp, len) ==
    LET gp3 == "desc" \in w.cdh.flags
    IN  FirstOf(<< <<at + comp > MaxU64, "ZipDiffC4Offset">>,
                   <<gp3 /\ w.cdh.method = 0 /\ at + comp > len, "ZipDiffC4Offset">>,
                   <<gp3 /\ w.cdh.method = 0 /\ w.stream, "ZipDiffC1Stream">> >>)

\* Central, local and data-descriptor checks of the ZIP32 reader, in order.
Zip32MemberFinding(s, w) ==
    LET c == w.cdh
        l == w.lfh
        gp3 == "desc" \in c.flags
        at == DataOffset(l, c.lfh_offset)
        Check(f) == <<f # OK, f>>
    IN  FirstOf(<< <<Len(s.members) >= s.maxFiles, "QuotaFiles">>,
                   <<s.pos + CDH_LEN > s.end[1].cd_size \/ ~c.sig, "ZipDiffC3Count">>,
                   <<U32Max \in {c.comp, c.uncomp, c.lfh_offset} \/ c.disk_start = U16Max,
                     "ZipDiffC5Zip64">>,
                   <<c.disk_start # 0, "ZipDiffC3Count">>,
                   <<s.pos + CdhLen(c) > s.end[1].cd_size, "ZipDiffC3Count">>,
                   Check(classify_extra_fields(c.extra, s.profile)),
                   Check(reject_structural_metadata(c.comment)),
                   Check(parse_lfh_bounded(l, c.lfh_offset, s.len, MaxU64)),
                   Check(classify_extra_fields(l.extra, s.profile)),
                   <<l.name # c.name, "ZipDiffA3Name">>, <<l.method # c.method, "ZipDiffA1Method">>,
                   <<("crypt" \in l.flags) # ("crypt" \in c.flags), "ZipDiffA5Crypt">>,
                   <<l.flags # c.flags, "ZipFlags">>,
                   Check(validate_general_purpose_flags(c.flags, s.profile)),
                   <<~SizesAgree(l, gp3, c.comp, c.uncomp) \/ ~CrcAgrees(l, gp3, c.crc),
                     "ZipDiffA2Size">>,
                   Check(decode_name_for_profile(c.name, c.flags, s.profile)),
                   Check(validate_directory_metadata(c.name, c.attrs, c.method, c.crc, c.comp,
                                                     c.uncomp)),
                   Check(StreamFinding(w, at, c.comp, s.len)),
                   Check(IF gp3 THEN parse_data_descriptor_with_width(w.desc, at + c.comp, c.crc,
                                          c.comp, c.uncomp, "Zip32", s.len) ELSE OK) >>)

\* The ZIP64 central values, from the extra field or from the legacy fields.
CentralValues(c) ==
    LET legacy == <<c.uncomp, c.comp, c.lfh_offset>>
    IN  IF c.extra # <<>> THEN resolve_zip64_central_values(c.extra[1], legacy)
        ELSE [finding |-> IF U32Max \in Range(legacy) THEN "ZipDiffC5Zip64" ELSE OK,
              mask |-> {}, values |-> legacy]

\* What the ZIP64 reader decides before it looks at the local record.
Zip64CentralFinding(s, w) ==
    LET c == w.cdh
        Check(f) == <<f # OK, f>>
    IN  FirstOf(<< <<Len(s.members) >= s.maxFiles, "QuotaFiles">>,
                   <<Len(s.members) >= s.end[1].total_entries, "ZipDiffC3Count">>,
                   <<s.pos + CDH_LEN > s.end[1].cd_size \/ ~c.sig, "ZipDiffC3Count">>,
                   <<c.disk_start # 0, "ZipDiffC3Count">>,
                   <<~(c.flags \subseteq {"desc"}), "ZipFlags">>,
                   <<c.method \notin {0, 8}, "MethodUnsupported">>,
                   <<s.pos + CdhLen(c) > s.end[1].cd_size, "ZipDiffC3Count">>,
                   <<~is_ascii(c.name), "ZipEncoding">>,
                   Check(reject_structural_metadata(c.comment)),
                   Check(classify_zip64_extra_fields(c.extra)) >>)

\* The local header, its ZIP64 values and the extraction versions.
Zip64LocalFinding(s, w, v) ==
    LET c == w.cdh
        l == w.lfh
        gp3 == "desc" \in c.flags
        legacy == <<c.uncomp, c.comp, c.lfh_offset>>
        offsetOnly == /\ is_offset_only_zip64_member(v, legacy, s.end[1].pair # <<>>, c.version,
                                                     c.method)
                      /\ l.extra = <<>>
        Check(f) == <<f # OK, f>>
        valuesOk == IF gp3 THEN validate_zip64_streaming_local_values(l.extra[1], l, v.values[1],
                                                                      v.values[2])
                    ELSE validate_zip64_local_values(l.extra[1], l, v.values[1], v.values[2])
    IN  FirstOf(<< Check(parse_lfh_bounded(l, v.values[3], s.len, s.maxMetadata - s.metadata)),
                   Check(classify_zip64_extra_fields(l.extra)),
                   <<l.name # c.name, "ZipDiffA3Name">>, <<l.method # c.method, "ZipDiffA1Method">>,
                   <<l.flags # c.flags, "ZipFlags">>,
                   <<IF l.extra # <<>> THEN ~valuesOk ELSE U32Max \in {l.uncomp, l.comp},
                     "ZipDiffC5Zip64">>,
                   <<l.extra # <<>> /\ l.version < 45, "ZipDiffC5Zip64">>,
                   <<(c.extra # <<>> \/ U32Max \in Range(legacy)) /\ c.version < 45 /\ ~offsetOnly,
                     "ZipDiffC5Zip64">>,
                   <<l.extra = <<>> /\ ~SizesAgree(l, gp3, v.values[2], v.values[1]),
                     "ZipDiffA2Size">>,
                   <<~CrcAgrees(l, gp3, c.crc), "ZipDiffA2Size">>,
                   Check(validate_directory_metadata(c.name, c.attrs, c.method, c.crc, v.values[2],
                                                     v.values[1])) >>)

\* The payload and its signed descriptor, then the metadata charge.
Zip64PayloadFinding(s, w, v) ==
    LET c == w.cdh
        at == DataOffset(w.lfh, v.values[3])
        descAt == at + v.values[2]
        Check(f) == <<f # OK, f>>
    IN  FirstOf(<< Check(StreamFinding(w, at, v.values[2], s.len)),
                   <<"desc" \in c.flags /\ descAt + 1 > s.len, "ZipDiffC4Offset">>,
                   <<"desc" \in c.flags /\ ~w.desc.signed, "ZipDiffC5Zip64">>,
                   Check(IF "desc" \in c.flags
                         THEN parse_data_descriptor_with_width(w.desc, descAt, c.crc, v.values[2],
                                  v.values[1], DescriptorWidth(w.lfh.extra, v.values[2], v.values[1]),
                                  s.len)
                         ELSE OK) >>)

Zip64MemberFinding(s, w) ==
    LET v == CentralValues(w.cdh)
    IN  IF Zip64CentralFinding(s, w) # OK THEN Zip64CentralFinding(s, w)
        ELSE IF v.finding # OK THEN v.finding
        ELSE IF Zip64LocalFinding(s, w, v) # OK THEN Zip64LocalFinding(s, w, v)
        ELSE Zip64PayloadFinding(s, w, v)

\* The evidence of one member: its fields, its ranges and its ZIP64 shape.
ZipMember(s, w, v, width) ==
    LET c == w.cdh
        at == DataOffset(w.lfh, v.values[3])
        descLen == IF "desc" \in c.flags THEN DescriptorLen(w.desc, width) ELSE 0
        cdAt == s.end[1].cd_offset + s.pos
        is64 == s.profile = Zip64Profile
    IN  [name |-> c.name, method |-> c.method, flags |-> c.flags, attrs |-> c.attrs, crc |-> c.crc,
         comp_size |-> v.values[2], uncomp_size |-> v.values[1], lfh_offset |-> v.values[3],
         data_offset |-> at, record_end |-> at + v.values[2] + descLen,
         is_dir |-> IsDirName(c.name), components |-> <<>>, actions |-> 0,
         extra_fields |->
            ExtraRecords(c.extra, cdAt + CDH_LEN + NameLen(c.name), "Central",
                         IF is64 THEN "Semantic" ELSE "Ignored")
            \o ExtraRecords(w.lfh.extra, v.values[3] + LFH_LEN + NameLen(c.name), "Local",
                            IF is64 THEN "Semantic" ELSE "Ignored"),
         local_header |-> ByteRange(v.values[3], at - v.values[3]),
         payload |-> ByteRange(at, v.values[2]),
         descriptor |-> IF "desc" \in c.flags THEN <<ByteRange(at + v.values[2], descLen)>> ELSE <<>>,
         central_header |-> ByteRange(cdAt, CdhLen(c)),
         zip64 |-> IF ~is64 THEN <<>> ELSE
            <<[local_version |-> w.lfh.version, central_version |-> c.version, mask |-> v.mask,
               central_sentinels |-> {i \in 1..3 : <<c.uncomp, c.comp, c.lfh_offset>>[i] = U32Max},
               local_sentinels |-> {i \in 1..2 : <<w.lfh.uncomp, w.lfh.comp>>[i] = U32Max},
               shape |-> LocalValueShape(w.lfh.extra, v.values[1], v.values[2]),
               width |-> IF "desc" \in c.flags THEN <<width>> ELSE <<>>]>>]

PushZipMember(s, w, v, width) ==
    LET charge == s.metadata + NameLen(w.lfh.name) + ExtraLen(w.lfh.extra)
    IN  IF charge > MaxU64 THEN ZipReject(s, "QuotaOverflow")
        ELSE IF charge > s.maxMetadata THEN ZipReject(s, "QuotaMetadata")
        ELSE [s EXCEPT !.members = Append(@, ZipMember(s, w, v, width)),
                       !.metadata = charge,
                       !.pos = @ + CdhLen(w.cdh),
                       !.maxVersion = Max({@, w.cdh.version}),
                       !.zip64Seen = @ \/ w.cdh.extra # <<>> \/ w.lfh.extra # <<>>]

Zip32MemberStep(s, w) ==
    LET c == w.cdh
        f == Zip32MemberFinding(s, w)
    IN  IF f # OK THEN ZipReject(s, f)
        ELSE PushZipMember(s, w, [mask |-> {}, values |-> <<c.uncomp, c.comp, c.lfh_offset>>], "Zip32")

Zip64MemberStep(s, w) ==
    LET v == CentralValues(w.cdh)
        f == Zip64MemberFinding(s, w)
    IN  IF f # OK THEN ZipReject(s, f)
        ELSE PushZipMember(s, w, v, DescriptorWidth(w.lfh.extra, v.values[2], v.values[1]))

\* After the last central header: the count, the ZIP64 rules, the layout.
ZipFinish(s) ==
    LET e == s.end[1]
        layout == check_layout(s.members, e.cd_offset)
        is64 == s.profile = Zip64Profile
        f == FirstOf(<< <<Len(s.members) # e.total_entries, "ZipDiffC3Count">>,
                        <<is64 /\ e.pair = <<>> /\ ~s.zip64Seen, "ZipDiffC5Zip64">>,
                        <<is64 /\ e.version # <<>>
                            /\ e.version \notin {<<45>>, IF s.maxVersion = 0 THEN <<45>>
                                                         ELSE <<s.maxVersion>>},
                          "ZipDiffC5Zip64">>,
                        <<layout # OK, layout>> >>)
    IN  [s EXCEPT !.verdict = IF f = OK THEN "accepted" ELSE f]

\* The central directory is exhausted: nothing more to read.
ZipExhausted(s) == s.stage = "members" /\ s.pos >= s.end[1].cd_size

ZipStep(s, w) ==
    CASE s.stage = "end" -> ZipEndStep(s, w)
      [] ZipExhausted(s) -> ZipFinish(s)
      [] OTHER -> IF s.profile = Zip64Profile THEN Zip64MemberStep(s, w) ELSE Zip32MemberStep(s, w)

================================================================================
