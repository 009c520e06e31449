------------------------------- MODULE Bzip2Stream -------------------------------
(****************************************************************************)
(* One bzip2 stream around a TAR archive (bzip2.rs), its wrapper audit and  *)
(* its verification.  Blocks start at any bit, so the reader finds them by  *)
(* scanning for the 48-bit block magic and finds the footer by trying the   *)
(* eight padding shifts.  The image of a stream is                          *)
(*   [magic, version, level, first, blocks, chance, shifts, pad0, combined, *)
(*    codec, out, totals, next]                                             *)
(* A block is [bits, rnd, crc, sum]: its payload in bits, its randomised    *)
(* flag, its declared CRC and whether that is the CRC of what it decodes    *)
(* to.  chance is the set of bit offsets in the payload where the magic     *)
(* occurs by accident; shifts the paddings other than the true one that     *)
(* show an end magic; combined the footer's fold of the block CRCs, which   *)
(* is taken to be injective.                                                *)
(****************************************************************************)
EXTENDS XzStream

CONSTANT BZIP2_MAX_BLOCKS

ASSUME Bzip2Assumption == BZIP2_MAX_BLOCKS \in Nat \ {0}

BLOCK_FRAME_BITS == 81
FOOTER_BITS == 80
MIN_STREAM_LEN == 14

\* Lengths are counts of bytes or bits.
IsBzip2Image(x) ==
    /\ x.out \in Nat /\ x.chance \subseteq Nat
    /\ x.blocks \in Seq(Range(x.blocks)) /\ \A b \in Range(x.blocks) : b.bits \in Nat

CeilBytes(bits) == (bits + 7) \div 8
fold_combined_crc(combined, crc) == Append(combined, crc)

\* Where the blocks and the footer of an image really are, in bits.
BlockBitAt(x, i) == 32 + SumOf([j \in 1..(i - 1) |-> BLOCK_FRAME_BITS + x.blocks[j].bits])
FooterAt(x) == BlockBitAt(x, Len(x.blocks) + 1)
Bzip2End(x) == CeilBytes(FooterAt(x) + FOOTER_BITS)
PaddingOf(x) == 8 * Bzip2End(x) - FooterAt(x) - FOOTER_BITS

(****************************************************************************)
(* The reader.                                                              *)
(****************************************************************************)
parse_stream_prefix(x, len) ==
    FirstOf(<< <<len < MIN_STREAM_LEN, "Truncated">>,
               <<~x.magic, "Magic">>,
               <<x.version = "0", "VersionUnsupported">>,
               <<x.version # "h", "Magic">>,
               <<x.level \notin 1..9, "LevelBounds">>,
               <<x.blocks = << >>, "EmptyStream">>,
               <<~x.first, "StreamStructure">>,
               <<len < MIN_STREAM_LEN + 1, "Truncated">>,
               <<x.blocks # << >> /\ Head(x.blocks).rnd, "RandomizedBlock">> >>)

classify_bzip2_trailing(x, consumed, len) ==
    IF consumed + 4 <= len /\ x.next = "magic" THEN "ConcatenatedStream" ELSE "TrailingInput"

\* The numbers of a set in ascending order.
Ascending(S) ==
    [k \in 1..Cardinality(S) |-> CHOOSE n \in S : Cardinality({p \in S : p < n}) = k - 1]

\* Every occurrence of the block magic before the footer, in order.
scan_block_magics(x, footer) ==
    Ascending({at \in {BlockBitAt(x, i) : i \in DOMAIN x.blocks} \cup x.chance :
                 at >= 32 /\ at + 48 <= footer})

\* The CRC and the flag behind a magic; behind an accidental one, payload.
read_block_frame(x, at) ==
    LET hits == {i \in DOMAIN x.blocks : BlockBitAt(x, i) = at}
    IN  IF hits = {} THEN [crc |-> "payload", rnd |-> FALSE]
        ELSE LET b == x.blocks[CHOOSE i \in hits : TRUE] IN [crc |-> b.crc, rnd |-> b.rnd]

ChainFold(crcs) == FoldLeft(fold_combined_crc, << >>, crcs)

Bzip2MetadataBits(n, pad) == 32 + BLOCK_FRAME_BITS * n + FOOTER_BITS + pad

parse_bzip2_container(x, len, limits) ==
    LET pad == PaddingOf(x)
        payload == 8 * len - pad
        footer == payload - FOOTER_BITS
        offsets == scan_block_magics(x, footer)
        frames == [i \in DOMAIN offsets |-> read_block_frame(x, offsets[i])]
        crcs == [i \in DOMAIN frames |-> frames[i].crc]
        Fits(i) == offsets[i] + BLOCK_FRAME_BITS <= footer
        bits == Bzip2MetadataBits(Len(offsets), pad)
    IN  [kind |-> FirstOf(<<
            <<x.shifts # {} \/ ~x.pad0, "StreamStructure">>,
            <<offsets = << >> \/ offsets[1] # 32, "StreamStructure">>,
            <<Len(offsets) > BZIP2_MAX_BLOCKS, "BlockBounds">>,
            <<CeilBytes(bits) > limits.max_metadata, "HeaderLimit">>,
            <<\E i \in DOMAIN frames : Fits(i) /\ frames[i].rnd, "RandomizedBlock">>,
            <<\E i \in DOMAIN offsets : ~Fits(i), "StreamStructure">>,
            <<ChainFold(crcs) # x.combined, "StreamStructure">> >>),
         payload_bits |-> payload, padding_bits |-> pad, offsets |-> offsets, crcs |-> crcs]

\* Only a single block's CRC is computed again over the whole output.
SingleBlockSum(x, crcs) == Len(crcs) = 1 => Head(x.blocks).sum

classify_bzip2_error(cause) == IF cause = "DataMagic" THEN "Magic" ELSE "StreamStructure"

Bzip2WrapperEvidence(x, c) ==
    [level |-> x.level, header |-> ByteRange(0, 4), payload_bits |-> c.payload_bits,
     padding_bits |-> c.padding_bits, block_bit_offsets |-> c.offsets, block_crcs |-> c.crcs,
     combined_crc |-> x.combined, derived_output_len |-> x.out, derived_output_sha256 |-> "sha"]

\* The container against what the decoder produced.
Bzip2ContainerAgrees(x, c) ==
    StreamEnds(FirstOf(<< <<c.kind # OK, c.kind>>,
                          <<~SingleBlockSum(x, c.crcs), "CheckMismatch">> >>),
               Bzip2WrapperEvidence(x, c), x.out)

decode_bzip2_stream(x, len, limits) ==
    LET head == parse_stream_prefix(x, len)
        kind == IF head # OK THEN head
                ELSE FirstOf(<< <<x.out > limits.max_output, "OutputLimit">>,
                                <<x.codec # OK, classify_bzip2_error(x.codec)>>,
                                <<Bzip2End(x) > len, "Truncated">>,
                                <<Bzip2End(x) < len, classify_bzip2_trailing(x, Bzip2End(x), len)>>,
                                <<~x.totals, "DecoderDisagreement">> >>)
    IN  IF kind # OK THEN StreamFails(kind)
        ELSE Bzip2ContainerAgrees(x, parse_bzip2_container(x, len, limits))

bzip2_wrapper_metadata(e) ==
    CeilBytes(Bzip2MetadataBits(Len(e.block_bit_offsets), e.padding_bits))
charge_bzip2(e, len) == len - bzip2_wrapper_metadata(e)

bzip2_failure_axes(kind) ==
    CASE kind \in {"Source", "TransformAuthority", "DecoderDisagreement"} -> "Indeterminate"
      [] kind \in {"VersionUnsupported", "LevelBounds", "RandomizedBlock", "BlockBounds",
                   "EmptyStream", "ConcatenatedStream"} -> "Unsupported"
      [] kind \in {"HeaderLimit", "OutputLimit"} -> "Denied"
      [] OTHER -> "Malformed"

(****************************************************************************)
(* The second and the third reading scan the same bits.                     *)
(****************************************************************************)
Bzip2Geometry(e, len, max) ==
    /\ e.header = ByteRange(0, 4) /\ e.level \in 1..9 /\ e.padding_bits \in 0..7
    /\ e.payload_bits + e.padding_bits = 8 * len
    /\ Len(e.block_bit_offsets) \in 1..max /\ Len(e.block_crcs) = Len(e.block_bit_offsets)

\* The magic is under the recorded shift and under no other.
FooterUnder(x, e) ==
    /\ x.shifts = {} /\ e.padding_bits = PaddingOf(x)
    /\ e.combined_crc = x.combined /\ x.pad0

Bzip2Frames(x, e, footer) ==
    /\ \A i \in DOMAIN e.block_bit_offsets :
         LET f == read_block_frame(x, e.block_bit_offsets[i])
         IN  /\ e.block_bit_offsets[i] + BLOCK_FRAME_BITS <= footer
             /\ f.crc = e.block_crcs[i] /\ ~f.rnd
    /\ ChainFold(e.block_crcs) = e.combined_crc

audit_bzip2_wrapper_covering(x, len, e) ==
    LET footer == e.payload_bits - FOOTER_BITS
    IN  /\ Bzip2Geometry(e, len, BZIP2_MAX_BLOCKS)
        /\ x.magic /\ x.version = "h" /\ x.level = e.level
        /\ FooterUnder(x, e)
        /\ scan_block_magics(x, footer) = e.block_bit_offsets
        /\ Bzip2Frames(x, e, footer)

audit_tar_bzip2_composite(x, len, e, out) ==
    /\ e.derived_output_len = out /\ e.derived_output_sha256 = "sha"
    /\ audit_bzip2_wrapper_covering(x, len, e)
    /\ SingleBlockSum(x, e.block_crcs)

encode_bzip2_wrapper_header(e) ==
    <<"bzip2-single-stream-v1", ByteRange(0, (e.payload_bits + e.padding_bits) \div 8),
      e.derived_output_len, e.derived_output_sha256, e.level, e.header, e.payload_bits,
      e.padding_bits, e.block_bit_offsets, e.block_crcs, e.combined_crc>>

verify_bzip2_wrapper(x, len, e, out) ==
    LET footer == e.payload_bits - FOOTER_BITS
    IN  /\ Bzip2Geometry(e, len, BZIP2_MAX_BLOCKS) /\ len >= MIN_STREAM_LEN + 1
        /\ x.magic /\ x.version = "h" /\ x.level = e.level
        /\ FooterUnder(x, e) /\ e.payload_bits >= 32 + BLOCK_FRAME_BITS + FOOTER_BITS
        /\ scan_block_magics(x, footer) = e.block_bit_offsets /\ e.block_bit_offsets[1] = 32
        /\ Bzip2Frames(x, e, footer)
        /\ e.derived_output_len = out /\ e.derived_output_sha256 = "sha"
        /\ SingleBlockSum(x, e.block_crcs)

bzip2_wrapper_layout_body(e) ==
    <<"bzip2-single-stream-v1", ByteRange(0, (e.payload_bits + e.padding_bits) \div 8),
      e.derived_output_len, e.derived_output_sha256, e.level, e.header, e.payload_bits,
      e.padding_bits, e.block_bit_offsets, e.block_crcs, e.combined_crc>>

================================================================================
