-------------------------------- MODULE XzStream --------------------------------
(****************************************************************************)
(* One .xz stream around a TAR archive (xz.rs), its wrapper audit and its   *)
(* verification.  The image of a stream is                                  *)
(*   [magic, reserved, hcrc, check, codec, out, totals, blocks, index,      *)
(*    footer, next]                                                         *)
(* codec is the decoder's complaint and out what it yields before that;     *)
(* totals says whether its counters agree with what it wrote.  A block is   *)
(*   [hlen, crc, reserved, filters, declared, filter, props, dict, hpad,    *)
(*    comp, pad, sum, out]                                                  *)
(* where declared is << >>, or the sizes its header states, and sum says    *)
(* whether its check matches the bytes it decodes to.  index is [indicator, *)
(* records, pad, crc, backward]; footer the set of its flaws; what follows  *)
(* the stream begins with next.  A multibyte integer takes one byte and     *)
(* dictionaries are measured in KiB.                                        *)
(****************************************************************************)
EXTENDS ZstdStream

CONSTANTS MAX_DICT_BYTES, MAX_BLOCKS

ASSUME XzAssumption == MAX_DICT_BYTES \in Nat /\ MAX_BLOCKS \in Nat \ {0}

STREAM_HEADER_LEN == 12
STREAM_FOOTER_LEN == 12

\* Lengths are counts of bytes.
IsXzImage(x) ==
    /\ x.out \in Nat /\ x.index.backward \in Nat
    /\ x.index.records \in Seq(Range(x.index.records))
    /\ \A r \in Range(x.index.records) : r.unpadded \in Nat
    /\ x.blocks \in Seq(Range(x.blocks)) /\ \A b \in Range(x.blocks) : b.hlen \in Nat

CheckIds == {"crc32", "crc64", "sha256"}
check_len(id) == CASE id = "crc32" -> 4 [] id = "crc64" -> 8 [] OTHER -> 32

SumOf(xs) == FoldLeft(LAMBDA n, k : n + k, 0, xs)
NextMultipleOf4(n) == ((n + 3) \div 4) * 4

dict_size(property) == (2 + (property % 2)) * 2^((property \div 2) + 1)

\* Where the blocks, the index and the footer of an image really are.
BlockExtent(b, check) == NextMultipleOf4(b.hlen + b.comp) + check_len(check)
BlockAt(x, i) == STREAM_HEADER_LEN + SumOf([j \in 1..(i - 1) |-> BlockExtent(x.blocks[j], x.check)])
IndexAt(x) == BlockAt(x, Len(x.blocks) + 1)
IndexLen(x) == NextMultipleOf4(2 + 2 * Len(x.index.records)) + 4
XzEnd(x) == IndexAt(x) + IndexLen(x) + STREAM_FOOTER_LEN

(****************************************************************************)
(* The reader.                                                              *)
(****************************************************************************)
parse_stream_header(x, len) ==
    FirstOf(<< <<len < STREAM_HEADER_LEN + STREAM_FOOTER_LEN, "Truncated">>,
               <<~x.magic, "Magic">>,
               <<x.reserved \/ ~x.hcrc, "StreamStructure">>,
               <<x.check \notin CheckIds, "CheckUnsupported">> >>)

classify_xz_trailing(x, consumed, len) ==
    IF \/ consumed + 6 <= len /\ x.next = "magic"
       \/ (len - consumed) % 4 = 0 /\ x.next = "zeros"
    THEN "ConcatenatedStream" ELSE "TrailingInput"

\* A block whose record is [unpadded, out]; at an offset where no block
\* starts the header's checksum fails.
parse_block(x, i, at, end) ==
    LET b == x.blocks[i]
        r == x.index.records[i]
        sum == check_len(x.check)
        comp == r.unpadded - b.hlen - sum
        padding == NextMultipleOf4(b.hlen + comp) - b.hlen - comp
        declared == b.declared
    IN  [kind |-> FirstOf(<<
            <<i > Len(x.blocks) \/ at # BlockAt(x, i), "StreamStructure">>,
            <<at + b.hlen > end \/ ~b.crc \/ b.reserved, "StreamStructure">>,
            <<b.filters # 1 \/ Len(declared) = 1, "FilterUnsupported">>,
            <<b.filter # "lzma2", "FilterUnsupported">>,
            <<b.props # 1 \/ b.dict > 40, "StreamStructure">>,
            <<dict_size(b.dict) > MAX_DICT_BYTES, "DictBounds">>,
            <<~b.hpad \/ comp < 1, "StreamStructure">>,
            <<declared \notin {<< >>, <<comp, r.out>>}, "DeclaredSize">>,
            <<at + b.hlen + comp + padding + sum > end \/ ~b.pad, "StreamStructure">> >>),
         frame |-> [header |-> ByteRange(at, b.hlen), compressed |-> ByteRange(at + b.hlen, comp),
                    padding |-> ByteRange(at + b.hlen + comp, padding),
                    check |-> ByteRange(at + b.hlen + comp + padding, sum),
                    dict_size |-> dict_size(b.dict), declared |-> declared,
                    uncompressed_len |-> r.out, check_value |-> IF b.sum THEN "sum" ELSE "other"]]

FrameEnd(f) == RangeEnd(f.check)
FrameMetadata(f) == f.header.len + f.padding.len + f.check.len

\* One turn of the loop over the records of the index.
NextBlock(x, end, s, i) ==
    IF s.kind # OK THEN s
    ELSE LET p == parse_block(x, i, s.at, end)
         IN  IF p.kind # OK THEN [s EXCEPT !.kind = p.kind]
             ELSE [s EXCEPT !.at = FrameEnd(p.frame), !.blocks = Append(@, p.frame)]

\* The container is read again from its end, independently of the decoder.
parse_container(x, len, limits) ==
    LET footer == len - STREAM_FOOTER_LEN
        index == footer - x.index.backward
        done == FoldLeft(LAMBDA s, i : NextBlock(x, index, s, i),
                         [kind |-> OK, at |-> STREAM_HEADER_LEN, blocks |-> << >>],
                         [i \in DOMAIN x.index.records |-> i])
        metadata == STREAM_HEADER_LEN + STREAM_FOOTER_LEN + x.index.backward
                    + SumOf([i \in DOMAIN done.blocks |-> FrameMetadata(done.blocks[i])])
    IN  [kind |-> FirstOf(<<
            <<x.footer # {} \/ index < STREAM_HEADER_LEN \/ ~x.index.indicator, "StreamStructure">>,
            <<x.index.records = << >>, "EmptyStream">>,
            <<Len(x.index.records) > MAX_BLOCKS, "BlockBounds">>,
            <<~x.index.pad \/ x.index.backward # IndexLen(x) \/ ~x.index.crc, "StreamStructure">>,
            <<done.kind # OK, done.kind>>,
            <<done.at # index, "StreamStructure">>,
            <<metadata > limits.max_metadata, "HeaderLimit">> >>),
         blocks |-> done.blocks, index |-> ByteRange(index, x.index.backward),
         footer |-> ByteRange(footer, STREAM_FOOTER_LEN)]

XzTotal(blocks) == SumOf([i \in DOMAIN blocks |-> blocks[i].uncompressed_len])

\* Each block's check is computed again over its share of the output.
verify_block_checks(x, blocks) ==
    \A i \in DOMAIN blocks : /\ blocks[i].check_value = "sum"
                             /\ blocks[i].uncompressed_len = x.blocks[i].out

classify_xz_error(cause) ==
    CASE cause = "memory" -> "DictBounds" [] cause = "check" -> "CheckUnsupported"
      [] cause = "filter" -> "FilterUnsupported" [] cause = "mismatch" -> "CheckMismatch"
      [] cause = "end" -> "Truncated" [] OTHER -> "StreamStructure"

XzWrapperEvidence(x, c) ==
    [check_id |-> x.check, header |-> ByteRange(0, STREAM_HEADER_LEN), blocks |-> c.blocks,
     index |-> c.index, footer |-> c.footer, derived_output_len |-> x.out,
     derived_output_sha256 |-> "sha"]

\* The container against what the decoder produced.
ContainerAgrees(x, c) ==
    StreamEnds(FirstOf(<< <<c.kind # OK, c.kind>>,
                          <<XzTotal(c.blocks) # x.out, "DecoderDisagreement">>,
                          <<~verify_block_checks(x, c.blocks), "CheckMismatch">> >>),
               XzWrapperEvidence(x, c), x.out)

decode_single_stream(x, len, limits) ==
    LET head == parse_stream_header(x, len)
        kind == IF head # OK THEN head
                ELSE FirstOf(<< <<x.out > limits.max_output, "OutputLimit">>,
                                <<x.codec # OK, classify_xz_error(x.codec)>>,
                                <<XzEnd(x) > len, "Truncated">>,
                                <<XzEnd(x) < len, classify_xz_trailing(x, XzEnd(x), len)>>,
                                <<~x.totals, "DecoderDisagreement">> >>)
    IN  IF kind # OK THEN StreamFails(kind) ELSE ContainerAgrees(x, parse_container(x, len, limits))

xz_wrapper_metadata(e) ==
    STREAM_HEADER_LEN + STREAM_FOOTER_LEN + e.index.len
    + SumOf([i \in DOMAIN e.blocks |-> FrameMetadata(e.blocks[i])])
charge_xz(e) == SumOf([i \in DOMAIN e.blocks |-> e.blocks[i].compressed.len])

xz_failure_axes(kind) ==
    CASE kind \in {"Source", "TransformAuthority", "DecoderDisagreement"} -> "Indeterminate"
      [] kind \in {"CheckUnsupported", "FilterUnsupported", "DictBounds", "BlockBounds",
                   "EmptyStream", "ConcatenatedStream"} -> "Unsupported"
      [] kind \in {"HeaderLimit", "OutputLimit"} -> "Denied"
      [] OTHER -> "Malformed"

(****************************************************************************)
(* The second reading: every range of the container, but neither the        *)
(* index's records nor the declared values of the block headers.            *)
(****************************************************************************)
XzBlockPartition(f, sum) ==
    /\ f.header.len >= 8 /\ f.header.len % 4 = 0
    /\ f.compressed.offset = RangeEnd(f.header) /\ f.compressed.len > 0
    /\ f.padding = ByteRange(RangeEnd(f.compressed),
                             NextMultipleOf4(f.header.len + f.compressed.len)
                               - f.header.len - f.compressed.len)
    /\ f.check = ByteRange(RangeEnd(f.padding), sum)

\* An LZMA2 stream ends with a zero byte, so padding may seem to start one
\* byte early.
XzPaddingZero(b, f) == b.pad /\ f.compressed.len >= b.comp - 1

AuditXzBlock(x, e, i) ==
    LET f == e.blocks[i]
        b == x.blocks[i]
        start == IF i = 1 THEN STREAM_HEADER_LEN ELSE FrameEnd(e.blocks[i - 1])
    IN  /\ i \in DOMAIN x.blocks /\ f.header = ByteRange(start, b.hlen) /\ start = BlockAt(x, i)
        /\ b.crc /\ ~b.reserved /\ b.filters = 1
        /\ Len(f.declared) = Len(b.declared) /\ Len(f.declared) # 1
        /\ f.declared \in {<< >>, <<f.compressed.len, f.uncompressed_len>>}
        /\ f.dict_size <= MAX_DICT_BYTES
        /\ XzBlockPartition(f, check_len(e.check_id))
        /\ XzPaddingZero(b, f) /\ f.check_value = (IF b.sum THEN "sum" ELSE "other")

audit_xz_wrapper_covering(x, len, e) ==
    /\ e.check_id \in CheckIds /\ Len(e.blocks) \in 1..MAX_BLOCKS
    /\ e.header = ByteRange(0, STREAM_HEADER_LEN)
    /\ x.magic /\ ~x.reserved /\ x.hcrc /\ e.check_id = x.check
    /\ e.footer = ByteRange(len - STREAM_FOOTER_LEN, STREAM_FOOTER_LEN) /\ x.footer = {}
    /\ e.index.len = x.index.backward /\ RangeEnd(e.index) = e.footer.offset
    /\ x.index.indicator /\ x.index.crc
    /\ \A i \in DOMAIN e.blocks : AuditXzBlock(x, e, i)
    /\ FrameEnd(Last(e.blocks)) = e.index.offset
    /\ XzTotal(e.blocks) = e.derived_output_len

audit_tar_xz_composite(x, len, e, out) ==
    /\ e.derived_output_len = out /\ e.derived_output_sha256 = "sha"
    /\ audit_xz_wrapper_covering(x, len, e)
    /\ verify_block_checks(x, e.blocks) /\ XzTotal(e.blocks) = out

encode_xz_wrapper_header(e) ==
    <<"xz-single-stream-v1", ByteRange(0, RangeEnd(e.footer)), e.derived_output_len,
      e.derived_output_sha256, e.check_id, e.header, e.blocks, e.index, e.footer>>

(****************************************************************************)
(* The verifier reads the header fields and the index records as well.      *)
(****************************************************************************)
VerifyXzBlock(x, e, i) ==
    LET f == e.blocks[i]
        b == x.blocks[i]
        start == IF i = 1 THEN STREAM_HEADER_LEN ELSE FrameEnd(e.blocks[i - 1])
    IN  /\ i \in DOMAIN x.blocks /\ start = BlockAt(x, i) /\ f.header = ByteRange(start, b.hlen)
        /\ b.crc /\ ~b.reserved /\ b.filters = 1
        /\ f.declared = b.declared /\ f.declared \in {<< >>, <<f.compressed.len, f.uncompressed_len>>}
        /\ b.filter = "lzma2" /\ b.props = 1 /\ b.dict <= 40
        /\ f.dict_size = dict_size(b.dict) /\ f.dict_size <= MAX_DICT_BYTES /\ b.hpad
        /\ XzBlockPartition(f, check_len(e.check_id))
        /\ XzPaddingZero(b, f) /\ f.check_value = (IF b.sum THEN "sum" ELSE "other")

VerifyXzIndex(x, e) ==
    /\ e.index.offset = FrameEnd(Last(e.blocks)) /\ e.index.offset = IndexAt(x)
    /\ e.index.len = IndexLen(x) /\ x.index.indicator
    /\ Len(x.index.records) = Len(e.blocks)
    /\ \A i \in DOMAIN e.blocks :
         x.index.records[i] = [unpadded |-> e.blocks[i].header.len + e.blocks[i].compressed.len
                                              + check_len(e.check_id),
                               out |-> e.blocks[i].uncompressed_len]
    /\ x.index.pad /\ x.index.crc

verify_xz_wrapper(x, len, e, out) ==
    /\ e.check_id \in CheckIds /\ Len(e.blocks) \in 1..MAX_BLOCKS
    /\ e.header = ByteRange(0, STREAM_HEADER_LEN)
    /\ x.magic /\ ~x.reserved /\ e.check_id = x.check /\ x.hcrc
    /\ \A i \in DOMAIN e.blocks : VerifyXzBlock(x, e, i)
    /\ VerifyXzIndex(x, e)
    /\ e.footer = ByteRange(RangeEnd(e.index), STREAM_FOOTER_LEN) /\ RangeEnd(e.footer) = len
    /\ x.footer = {} /\ x.index.backward = e.index.len
    /\ XzTotal(e.blocks) = out /\ e.derived_output_len = out /\ e.derived_output_sha256 = "sha"
    /\ verify_block_checks(x, e.blocks)

xz_wrapper_layout_body(e) ==
    <<"xz-single-stream-v1", ByteRange(0, RangeEnd(e.footer)), e.derived_output_len,
      e.derived_output_sha256, e.check_id, e.header, e.blocks, e.index, e.footer>>

================================================================================
