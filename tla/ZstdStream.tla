------------------------------- MODULE ZstdStream -------------------------------
(****************************************************************************)
(* One RFC 8878 frame around a TAR archive (zstd.rs), its wrapper audit and *)
(* its verification.  The image of a frame is                               *)
(*   [magic, bits, single, checksum, fcs_flag, window, fcs, agrees, stream, *)
(*    comp, out, sum, next]                                                 *)
(* magic is "frame", "skippable" or "other"; bits the denied descriptor     *)
(* bits; window the window descriptor; fcs the raw content size; agrees     *)
(* whether the codec read the same header; stream and out as for gzip; sum  *)
(* the content checksum; what follows the frame begins with the magic next. *)
(****************************************************************************)
EXTENDS GzipStream

CONSTANTS
    FCS_BIAS,                               \* added to a two-byte content size
    MIN_WINDOW_BYTES, MAX_WINDOW_BYTES      \* the window bounds

ASSUME WindowAssumption ==
    /\ FCS_BIAS \in Nat /\ MIN_WINDOW_BYTES \in Nat \ {0}
    /\ MAX_WINDOW_BYTES \in Nat /\ MAX_WINDOW_BYTES >= MIN_WINDOW_BYTES

CHECKSUM_LEN == 4

\* Lengths are counts of bytes.
IsZstdImage(f) ==
    /\ f.fcs_flag \in 0..3 /\ f.single \in BOOLEAN /\ f.checksum \in BOOLEAN
    /\ f.comp \in Nat /\ f.out \in Nat

FcsLen(f) ==
    CASE f.fcs_flag = 0 -> IF f.single THEN 1 ELSE 0
      [] f.fcs_flag = 1 -> 2 [] f.fcs_flag = 2 -> 4 [] f.fcs_flag = 3 -> 8

Descriptor(f) == <<f.bits, f.single, f.checksum, f.fcs_flag>>
frame_content_size(f) ==
    IF FcsLen(f) = 0 THEN << >> ELSE <<f.fcs + (IF FcsLen(f) = 2 THEN FCS_BIAS ELSE 0)>>

\* The descriptor's exponent and mantissa, or the content size of one segment.
window_size(f) ==
    LET base == MIN_WINDOW_BYTES * 2^(f.window \div 8)
    IN  IF f.single THEN frame_content_size(f)[1] ELSE base + (base \div 8) * (f.window % 8)

FrameHeaderLen(f) == 5 + (IF f.single THEN 0 ELSE 1) + FcsLen(f)
ZstdTrailerLen(f) == IF f.checksum THEN CHECKSUM_LEN ELSE 0

parse_frame_header(f, len) ==
    FirstOf(<< <<len < 4, "Truncated">>,
               <<f.magic = "skippable", "SkippableFrame">>,
               <<f.magic = "other", "Magic">>,
               <<len < 5, "Truncated">>,
               <<f.bits \cap {"reserved", "unused"} # {}, "ReservedBits">>,
               <<"dictionary" \in f.bits, "Dictionary">>,
               <<FrameHeaderLen(f) > len, "Truncated">>,
               <<~f.single /\ window_size(f) < MIN_WINDOW_BYTES, "WindowBounds">>,
               <<window_size(f) > MAX_WINDOW_BYTES, "WindowBounds">> >>)

\* The decoder meets what the header reader let through: blocks, and the
\* checksum it reads itself.
classify_zstd_error(f, payload, len) ==
    IF StreamBroken(f, payload, len) THEN "FrameStream"
    ELSE IF payload + f.comp + ZstdTrailerLen(f) > len THEN "Truncated" ELSE OK

\* The checksum is judged before the declared size.
ZstdFinish(f) ==
    FirstOf(<< <<f.checksum /\ ~f.sum, "DataChecksum">>,
               <<frame_content_size(f) \notin {<< >>, <<f.out>>}, "DeclaredSize">> >>)

classify_zstd_trailing(f, consumed, len) ==
    IF consumed + 4 <= len /\ f.next \in {"frame", "skippable"} THEN "ConcatenatedFrame"
    ELSE "TrailingInput"

ZstdWrapperEvidence(f) ==
    LET h == FrameHeaderLen(f)
    IN  [descriptor |-> Descriptor(f), single_segment |-> f.single, checksum_flag |-> f.checksum,
         window_descriptor |-> IF f.single THEN << >> ELSE <<f.window>>,
         window_size |-> window_size(f), frame_content_size |-> frame_content_size(f),
         header |-> ByteRange(0, h), compressed_payload |-> ByteRange(h, f.comp),
         trailer |-> ByteRange(h + f.comp, ZstdTrailerLen(f)),
         declared_checksum |-> IF f.checksum THEN <<"sum">> ELSE << >>,
         derived_output_len |-> f.out, derived_output_sha256 |-> "sha"]

decode_single_frame(f, len, limits) ==
    LET h == FrameHeaderLen(f)
        end == h + f.comp + ZstdTrailerLen(f)
        kind == FirstOf(<<
            <<parse_frame_header(f, len) # OK, parse_frame_header(f, len)>>,
            <<h + ZstdTrailerLen(f) > limits.max_metadata, "HeaderLimit">>,
            <<~f.agrees, "DecoderDisagreement">>,
            <<f.out > limits.max_output, "OutputLimit">>,
            <<classify_zstd_error(f, h, len) # OK, classify_zstd_error(f, h, len)>>,
            <<ZstdFinish(f) # OK, ZstdFinish(f)>>,
            <<end # len, classify_zstd_trailing(f, end, len)>> >>)
    IN  IF kind # OK THEN StreamFails(kind)
        ELSE StreamYields(ZstdWrapperEvidence(f), f.out)

zstd_wrapper_metadata(e) == e.header.len + e.trailer.len
charge_zstd(e) == e.compressed_payload.len

zstd_failure_axes(kind) ==
    CASE kind \in {"Source", "TransformAuthority", "DecoderDisagreement"} -> "Indeterminate"
      [] kind \in {"SkippableFrame", "ReservedBits", "Dictionary", "WindowBounds",
                   "ConcatenatedFrame"} -> "Unsupported"
      [] kind \in {"HeaderLimit", "OutputLimit"} -> "Denied"
      [] OTHER -> "Malformed"

audit_zstd_wrapper_covering(f, len, e) ==
    /\ e.header.offset = 0 /\ e.compressed_payload.offset = RangeEnd(e.header)
    /\ e.trailer.offset = RangeEnd(e.compressed_payload) /\ RangeEnd(e.trailer) = len
    /\ e.compressed_payload.len >= 3
    /\ f.magic = "frame" /\ e.descriptor = Descriptor(f) /\ f.bits = {}
    /\ e.single_segment = f.single /\ e.checksum_flag = f.checksum
    /\ e.trailer.len = ZstdTrailerLen(f)
    /\ e.window_descriptor = (IF f.single THEN << >> ELSE <<f.window>>)
    /\ e.frame_content_size = frame_content_size(f) /\ e.header.len = FrameHeaderLen(f)
    /\ frame_content_size(f) \in {<< >>, <<e.derived_output_len>>}
    /\ e.window_size = window_size(f) /\ window_size(f) <= MAX_WINDOW_BYTES
    /\ f.single \/ window_size(f) >= MIN_WINDOW_BYTES
    /\ e.declared_checksum = (IF f.checksum THEN <<IF f.sum THEN "sum" ELSE "other">> ELSE << >>)

audit_tar_zstd_composite(f, len, e, out) ==
    /\ e.derived_output_len = out /\ e.derived_output_sha256 = "sha"
    /\ audit_zstd_wrapper_covering(f, len, e)
    /\ e.frame_content_size \in {<< >>, <<out>>}
    /\ e.declared_checksum \in {<< >>, <<"sum">>} /\ (e.checksum_flag => e.declared_checksum # << >>)

encode_zstd_wrapper_header(e) ==
    <<"zstd-rfc8878-single-frame-v1", ByteRange(0, RangeEnd(e.trailer)), e.derived_output_len,
      e.derived_output_sha256, e.descriptor, e.single_segment, e.checksum_flag,
      e.window_descriptor, e.window_size, e.frame_content_size, e.header, e.compressed_payload,
      e.trailer, e.declared_checksum>>

verify_zstd_wrapper(f, len, e, out) ==
    /\ e.header = ByteRange(0, FrameHeaderLen(f))
    /\ e.compressed_payload.offset = RangeEnd(e.header) /\ e.compressed_payload.len >= 3
    /\ e.trailer = ByteRange(RangeEnd(e.compressed_payload), IF e.checksum_flag THEN 4 ELSE 0)
    /\ RangeEnd(e.trailer) = len
    /\ f.magic = "frame" /\ f.bits = {} /\ e.descriptor = Descriptor(f)
    /\ e.single_segment = f.single /\ e.checksum_flag = f.checksum
    /\ e.window_descriptor = (IF f.single THEN << >> ELSE <<f.window>>)
    /\ e.frame_content_size = frame_content_size(f)
    /\ frame_content_size(f) \in {<< >>, <<out>>}
    /\ e.window_size = window_size(f) /\ window_size(f) <= MAX_WINDOW_BYTES
    /\ f.single \/ window_size(f) >= MIN_WINDOW_BYTES
    /\ f.checksum => f.sum /\ e.declared_checksum = <<"sum">>
    /\ ~f.checksum => e.declared_checksum = << >>
    /\ e.derived_output_len = out /\ e.derived_output_sha256 = "sha"

zstd_wrapper_layout_body(e) ==
    <<"zstd-rfc8878-single-frame-v1", ByteRange(0, RangeEnd(e.trailer)), e.derived_output_len,
      e.derived_output_sha256, e.descriptor, e.single_segment, e.checksum_flag,
      e.window_descriptor, e.window_size, e.frame_content_size, e.header, e.compressed_payload,
      e.trailer, e.declared_checksum>>

================================================================================
