------------------------------- MODULE GzipStream -------------------------------
(****************************************************************************)
(* One RFC 1952 member around a TAR archive (gzip.rs), the wrapper audit of *)
(* covering.rs and the identity verifier's reading of the same wrapper.     *)
(*                                                                          *)
(* The source is an image: members and junk bytes after them, cut off at    *)
(* the snapshot's length.  A member is                                      *)
(*   [magic, method, reserved, fixed, extra, name, comment, hcrc, stream,   *)
(*    comp, out, crc, isize]                                                *)
(* with lengths in bytes.  extra is <<>> or <<[xlen, subs]>>; name and      *)
(* comment are <<>> or the length of the C string with its NUL, MaxU64 when *)
(* it has none; stream says whether the Deflate stream is valid and out is  *)
(* what it yields before its end, its first error or the cut.  Bytes beyond *)
(* the cut cannot be read.                                                  *)
(****************************************************************************)
EXTENDS ZipVerifier

FIXED_HEADER_LEN == 10
TRAILER_LEN == 8

\* What every stream reader returns: a failure kind, or the wrapper evidence
\* and the length of the archive derived.
StreamFails(kind) == [kind |-> kind, wrapper |-> << >>, out |-> 0]
StreamYields(wrapper, out) == [kind |-> OK, wrapper |-> <<wrapper>>, out |-> out]
StreamEnds(kind, wrapper, out) == IF kind # OK THEN StreamFails(kind) ELSE StreamYields(wrapper, out)

gzip_isize(n) == n % (U32Max + 1)

Flagged(field) == field # << >>

\* Lengths are counts of bytes.
IsGzipMember(m) ==
    /\ m.comp \in Nat /\ m.out \in Nat
    /\ Flagged(m.extra) => m.extra[1].xlen \in Nat /\ m.extra[1].subs \in Seq(Range(m.extra[1].subs))
    /\ \A field \in {m.name, m.comment} : Flagged(field) => field[1] \in Nat

IsGzipImage(x) ==
    /\ x.members \in Seq(Range(x.members)) /\ Flagged(x.members)
    /\ \A m \in Range(x.members) : IsGzipMember(m)

FlagsOf(m) ==
    {f \in {"extra", "name", "comment", "hcrc"} :
        CASE f = "extra" -> Flagged(m.extra) [] f = "name" -> Flagged(m.name)
          [] f = "comment" -> Flagged(m.comment) [] f = "hcrc" -> m.hcrc # "none"}

(****************************************************************************)
(* The reader.                                                              *)
(****************************************************************************)
\* Complete subfields with distinct nonzero identifiers fill the field.
validate_extra_subfields(x, at, len) ==
    LET end == at + x.xlen
        Turn(s, f) ==
          IF s.verdict # OK \/ s.at >= end THEN s
          ELSE [s EXCEPT !.verdict = FirstOf(<< <<end - s.at < 4, "ExtraField">>,
                                                <<s.at + 4 > len, "Truncated">>,
                                                <<f.id = 0 \/ f.id \in s.seen, "ExtraField">>,
                                                <<s.at + 4 + f.len > end, "ExtraField">> >>),
                         !.at = s.at + 4 + f.len, !.seen = @ \cup {f.id}]
        done == FoldLeft(Turn, [at |-> at, seen |-> {}, verdict |-> OK], x.subs)
    IN  IF done.verdict # OK THEN done.verdict ELSE IF done.at < end THEN "ExtraField" ELSE OK

\* The end of a string with n bytes up to its NUL that starts at start.
read_c_string(field, start, len, limit) ==
    IF ~Flagged(field) \/ start + field[1] <= Min({limit, len}) THEN OK
    ELSE IF limit <= len THEN "HeaderLimit" ELSE "Truncated"

CLen(field) == IF Flagged(field) THEN field[1] ELSE 0
XLen(m) == IF Flagged(m.extra) THEN 2 + m.extra[1].xlen ELSE 0

reserve_header(at, n, len, limit) ==
    IF at + n > limit THEN "HeaderLimit" ELSE IF at + n > len THEN "Truncated" ELSE OK

ExtraField(m, at, len, limit) ==
    LET x == m.extra[1]
    IN  IF ~Flagged(m.extra) THEN OK
        ELSE FirstOf(<< <<reserve_header(at, 2, len, limit) # OK, reserve_header(at, 2, len, limit)>>,
                        <<at + 2 + x.xlen > limit, "HeaderLimit">>,
                        <<validate_extra_subfields(x, at + 2, len) # OK,
                          validate_extra_subfields(x, at + 2, len)>>,
                        <<at + 2 + x.xlen > len, "Truncated">> >>)

\* The header of a member at an offset; limit is where its budget ends.
parse_header_at(m, at, len, limit) ==
    LET extra == at + FIXED_HEADER_LEN
        name == extra + XLen(m)
        comment == name + CLen(m.name)
        hcrc == comment + CLen(m.comment)
        hlen == hcrc + (IF m.hcrc = "none" THEN 0 ELSE 2) - at
    IN  [len |-> hlen, name |-> name, comment |-> comment, hcrc |-> hcrc,
         kind |-> FirstOf(<<
            <<at + FIXED_HEADER_LEN > limit, "HeaderLimit">>,
            <<at + FIXED_HEADER_LEN > len, "Truncated">>,
            <<~m.magic, "Magic">>,
            <<~m.method, "CompressionMethod">>,
            <<m.reserved, "ReservedFlags">>,
            <<ExtraField(m, extra, len, limit) # OK, ExtraField(m, extra, len, limit)>>,
            <<read_c_string(m.name, name, len, limit) # OK, read_c_string(m.name, name, len, limit)>>,
            <<read_c_string(m.comment, comment, len, limit) # OK,
              read_c_string(m.comment, comment, len, limit)>>,
            <<m.hcrc # "none" /\ reserve_header(hcrc, 2, len, limit) # OK,
              reserve_header(hcrc, 2, len, limit)>>,
            <<m.hcrc = "bad", "HeaderChecksum">> >>)]

\* A decoder that stops at the end of the source has not seen its stream's end.
StreamBroken(m, payload, len) == ~m.stream \/ payload + m.comp > len

finish_member(m, payload, len) ==
    FirstOf(<< <<payload + m.comp + TRAILER_LEN > len, "Truncated">>,
               <<~m.crc, "DataChecksum">>,
               <<m.isize # gzip_isize(m.out), "DeclaredSize">> >>)

\* One more member behind the first, by its header h.
TrailingMember(s, m, h, len, room, max_output) ==
    LET payload == s.at + h.len
    IN  [kind |-> FirstOf(<<
            <<len - s.at < 2 \/ ~m.magic, "TrailingInput">>,
            <<room < 0, "HeaderLimit">>,
            <<h.kind # OK, IF h.kind = "HeaderLimit" THEN h.kind ELSE "TrailingInput">>,
            <<len - payload < TRAILER_LEN, "TrailingInput">>,
            <<s.output + m.out > max_output, "OutputLimit">>,
            <<StreamBroken(m, payload, len), "TrailingInput">>,
            <<finish_member(m, payload, len) # OK, "TrailingInput">> >>),
         at |-> payload + m.comp + TRAILER_LEN,
         metadata |-> s.metadata + h.len + TRAILER_LEN,
         output |-> s.output + m.out]

\* Whether what follows the first member is a chain of valid members: only a
\* limit is reported as itself, everything else is trailing input.
scan_trailing_members(img, at, len, limits, metadata, output) ==
    LET Turn(s, m) ==
          LET room == limits.max_metadata - s.metadata - TRAILER_LEN
          IN  IF s.kind # OK \/ s.at = len THEN s
              ELSE TrailingMember(s, m, parse_header_at(m, s.at, len, s.at + room), len, room,
                                  limits.max_output)
        done == FoldLeft(Turn, [kind |-> OK, at |-> at, metadata |-> metadata, output |-> output],
                         Tail(img.members))
    IN  IF done.kind # OK THEN done.kind
        ELSE IF done.at # len THEN "TrailingInput" ELSE "ConcatenatedMember"

Optional(present, range) == IF present THEN <<range>> ELSE << >>

GzipWrapperEvidence(m, h) ==
    LET end == h.len + m.comp
    IN  [flags |-> FlagsOf(m), fixed |-> m.fixed, header |-> ByteRange(0, h.len),
         extra |-> Optional(Flagged(m.extra), ByteRange(FIXED_HEADER_LEN, XLen(m))),
         extra_subfield_count |-> IF Flagged(m.extra) THEN Len(m.extra[1].subs) ELSE 0,
         original_name |-> Optional(Flagged(m.name), ByteRange(h.name, CLen(m.name))),
         comment |-> Optional(Flagged(m.comment), ByteRange(h.comment, CLen(m.comment))),
         header_crc16 |-> Optional(m.hcrc # "none", ByteRange(h.hcrc, 2)),
         compressed_payload |-> ByteRange(h.len, m.comp), trailer |-> ByteRange(end, TRAILER_LEN),
         declared_crc32 |-> "crc", declared_isize |-> m.isize,
         derived_output_len |-> m.out, derived_output_sha256 |-> "sha"]

\* What keeps the first member, with header h, from being the whole source.
MemberFinding(img, m, h, len, limits) ==
    LET end == h.len + m.comp + TRAILER_LEN
    IN  FirstOf(<<
            <<limits.max_metadata < TRAILER_LEN, "HeaderLimit">>,
            <<h.kind # OK, h.kind>>,
            <<len - h.len < TRAILER_LEN, "Truncated">>,
            <<m.out > limits.max_output, "OutputLimit">>,
            <<StreamBroken(m, h.len, len), "DeflateStream">>,
            <<finish_member(m, h.len, len) # OK, finish_member(m, h.len, len)>>,
            <<end # len, scan_trailing_members(img, end, len, limits, h.len + TRAILER_LEN, m.out)>> >>)

decode_single_member(img, len, limits) ==
    LET m == Head(img.members)
        h == parse_header_at(m, 0, len, limits.max_metadata - TRAILER_LEN)
    IN  StreamEnds(MemberFinding(img, m, h, len, limits), GzipWrapperEvidence(m, h), m.out)

\* What apply.rs takes off the metadata budget, and what it charges.
gzip_wrapper_metadata(e) == e.header.len + e.trailer.len
charge_gzip(e) == e.compressed_payload.len

gzip_failure_axes(kind) ==
    CASE kind \in {"Source", "TransformAuthority"} -> "Indeterminate"
      [] kind \in {"CompressionMethod", "ReservedFlags", "ConcatenatedMember"} -> "Unsupported"
      [] kind \in {"HeaderLimit", "OutputLimit"} -> "Denied"
      [] OTHER -> "Malformed"

(****************************************************************************)
(* The second reading: the wrapper's bytes, without a codec.                *)
(****************************************************************************)
audit_gzip_c_string(field, flagged, range, cursor, end) ==
    IF ~flagged THEN range = << >>
    ELSE /\ range # << >> /\ Flagged(field)
         /\ range[1] = ByteRange(cursor, field[1]) /\ RangeEnd(range[1]) <= end

\* Where a C string's evidence says it ends.
After(cursor, range) == IF range = << >> THEN cursor ELSE RangeEnd(range[1])

AuditGzipExtra(m, e, len) ==
    IF "extra" \in e.flags
    THEN /\ e.extra = <<ByteRange(FIXED_HEADER_LEN, 2 + m.extra[1].xlen)>>
         /\ validate_extra_subfields(m.extra[1], FIXED_HEADER_LEN + 2, len) = OK
         /\ e.extra_subfield_count = Len(m.extra[1].subs)
    ELSE e.extra = << >> /\ e.extra_subfield_count = 0

audit_gzip_wrapper_covering(img, len, e) ==
    LET m == Head(img.members)
        end == RangeEnd(e.header)
        name == After(FIXED_HEADER_LEN, e.extra)
        comment == After(name, e.original_name)
        hcrc == After(comment, e.comment)
    IN  /\ e.header.offset = 0 /\ e.header.len >= FIXED_HEADER_LEN
        /\ e.compressed_payload.offset = end
        /\ e.trailer = ByteRange(RangeEnd(e.compressed_payload), TRAILER_LEN)
        /\ RangeEnd(e.trailer) = len
        /\ m.magic /\ m.method /\ ~m.reserved
        /\ e.flags = FlagsOf(m) /\ e.fixed = m.fixed
        /\ AuditGzipExtra(m, e, len)
        /\ audit_gzip_c_string(m.name, "name" \in e.flags, e.original_name, name, end)
        /\ audit_gzip_c_string(m.comment, "comment" \in e.flags, e.comment, comment, end)
        /\ IF "hcrc" \in e.flags THEN e.header_crc16 = <<ByteRange(hcrc, 2)>> /\ m.hcrc = "good"
           ELSE e.header_crc16 = << >>
        /\ After(hcrc, e.header_crc16) = end
        /\ e.declared_crc32 = (IF m.crc THEN "crc" ELSE "other") /\ e.declared_isize = m.isize
        /\ e.declared_isize = gzip_isize(e.derived_output_len)

\* The composite audit also binds the derived snapshot: its digest, its length
\* and the trailer's checksum over it.
audit_tar_gzip_composite(img, len, e, out) ==
    /\ e.derived_output_len = out /\ e.derived_output_sha256 = "sha"
    /\ audit_gzip_wrapper_covering(img, len, e)
    /\ e.declared_crc32 = "crc" /\ e.declared_isize = gzip_isize(out)

(****************************************************************************)
(* Identity: the wrapper's part of the layout preimage, and the verifier's. *)
(****************************************************************************)
encode_gzip_wrapper_header(e) ==
    <<"gzip-rfc1952-single-member-v1", ByteRange(0, RangeEnd(e.trailer)), e.derived_output_len,
      e.derived_output_sha256, e.flags, e.fixed, e.header, e.extra, e.extra_subfield_count,
      e.original_name, e.comment, e.header_crc16, e.compressed_payload, e.trailer,
      e.declared_crc32, e.declared_isize>>

verify_gzip_c_string(field, flagged, range, cursor, end) ==
    /\ flagged <=> range # << >>
    /\ flagged => /\ Flagged(field) /\ range[1].offset = cursor /\ range[1].len = field[1]
                  /\ RangeEnd(range[1]) <= end

VerifyGzipExtra(m, e) ==
    LET x == m.extra[1]
        Filled(k) == 4 * k + FoldLeft(LAMBDA n, f : n + f.len, 0, SubSeq(x.subs, 1, k))
    IN  IF "extra" \notin e.flags THEN e.extra = << >> /\ e.extra_subfield_count = 0
        ELSE /\ e.extra = <<ByteRange(FIXED_HEADER_LEN, 2 + x.xlen)>>
             /\ Filled(Len(x.subs)) = x.xlen
             /\ \A i, j \in DOMAIN x.subs : x.subs[i].id # 0 /\ (i # j => x.subs[i].id # x.subs[j].id)
             /\ e.extra_subfield_count = Len(x.subs)

verify_gzip_wrapper(img, len, e, out) ==
    LET m == Head(img.members)
        end == RangeEnd(e.header)
        name == After(FIXED_HEADER_LEN, e.extra)
        comment == After(name, e.original_name)
        hcrc == After(comment, e.comment)
    IN  /\ e.header.offset = 0 /\ e.header.len >= FIXED_HEADER_LEN
        /\ e.compressed_payload.offset = end
        /\ e.trailer = ByteRange(RangeEnd(e.compressed_payload), TRAILER_LEN)
        /\ RangeEnd(e.trailer) = len
        /\ m.magic /\ m.method /\ ~m.reserved /\ e.flags = FlagsOf(m) /\ e.fixed = m.fixed
        /\ VerifyGzipExtra(m, e)
        /\ verify_gzip_c_string(m.name, "name" \in e.flags, e.original_name, name, end)
        /\ verify_gzip_c_string(m.comment, "comment" \in e.flags, e.comment, comment, end)
        /\ ("hcrc" \in e.flags) = (e.header_crc16 # << >>)
        /\ "hcrc" \in e.flags => e.header_crc16[1] = ByteRange(hcrc, 2) /\ m.hcrc = "good"
        /\ After(hcrc, e.header_crc16) = end
        /\ m.crc /\ e.declared_crc32 = "crc"
        /\ m.isize = e.declared_isize /\ e.declared_isize = gzip_isize(out)
        /\ e.derived_output_len = out /\ e.derived_output_sha256 = "sha"

gzip_wrapper_layout_body(e) ==
    <<"gzip-rfc1952-single-member-v1", ByteRange(0, RangeEnd(e.trailer)), e.derived_output_len,
      e.derived_output_sha256, e.flags, e.fixed, e.header, e.extra, e.extra_subfield_count,
      e.original_name, e.comment, e.header_crc16, e.compressed_payload, e.trailer,
      e.declared_crc32, e.declared_isize>>

================================================================================
