------------------------------ MODULE TarDialects ------------------------------
(****************************************************************************)
(* The three bounded TAR readers of crates/sealr: portable ustar (tar.rs),  *)
(* portable pax (tar_pax.rs) and old-GNU long names (tar_gnu.rs).           *)
(*                                                                          *)
(* A source is a sequence of 512-byte blocks; here a block has BLOCK_LEN    *)
(* units.  What matters is where each reader believes a header starts.  A   *)
(* window is what one turn of a reader's loop can see: the block h at the   *)
(* header position, the body behind it to the end of the record, however    *)
(* many blocks that is (for a zero header, the block after it), and rest0:  *)
(* whether everything after that is zero.  The operators are pure: each     *)
(* takes a scan and a window and yields the next scan.                      *)
(*                                                                          *)
(*   header block  [k |-> "header", magic, flaws, type, size, name]         *)
(*   zero body     [k |-> "zero", used |-> 0]                               *)
(*   data body     [k |-> "data", used, items]: its first `used` units hold *)
(*                 the pax records or the GNU path `items`, the others, to  *)
(*                 the end of its last block, are zero                      *)
(*                                                                          *)
(* Names are sequences of components, as in PathJail; "notutf8" is one that *)
(* is not strict UTF-8 and "long" one beyond 8191 bytes.                    *)
(****************************************************************************)
EXTENDS PathJail

CONSTANTS
    BLOCK_LEN,                  \* units of a block (512 bytes in the code)
    MAX_EXTENSION_BYTES,        \* cap on one pax extension payload
    MAX_EXTENSIONS,             \* cap on the number of pax extensions
    MAX_CARRIERS,               \* cap on the number of GNU carriers
    MAX_CARRIER_PAYLOAD_BYTES   \* cap on one GNU carrier payload

ASSUME BlockAssumption == BLOCK_LEN \in Nat \ {0, 1}
ASSUME WidthAssumption == MaxU64 \in Nat /\ MaxU64 >= 4 * BLOCK_LEN
ASSUME CapAssumption ==
    MAX_EXTENSION_BYTES \in Nat \ {0} /\ MAX_CARRIER_PAYLOAD_BYTES \in Nat \ {0, 1}

None == "none"
NonCanonical == -1      \* a size value that is not a canonical decimal
\* A value read from the member's own header, not from a record.
FromHeader == [kind |-> "Header", extension |-> 0, record |-> 0]
Range2(o, n) == [offset |-> o, len |-> n]
End(r) == r.offset + r.len

\* What a window can show a reader: a header's size is a u64, a data body
\* holds pax records or, in the old-GNU dialect, the path of a carrier.
IsWindow(dialect, w) ==
    /\ w.h.k \in {"zero", "header", "data"}
    /\ w.h.k = "header" => w.h.size \in 0..MaxU64 /\ IsName(w.h.name)
    /\ w.body.k = "data" =>
         LET items == w.body.items
         IN  /\ items \in Seq(Range(items))
             /\ \A i \in DOMAIN items :
                  /\ items[i].key = "path" => IsName(items[i].value)
                  /\ IF dialect = "gnu" THEN items[i].key = "path"
                     ELSE items[i].key = "size" => items[i].value \in Nat \cup {NonCanonical}

round_up_block(n) == ((n + BLOCK_LEN - 1) \div BLOCK_LEN) * BLOCK_LEN

\* Every sum of the record geometry is a checked_add; each failure and a
\* record that ends past the source give the same finding, TarTruncated.
RecordFits(headerEnd, size, len) ==
    /\ headerEnd + size <= MaxU64
    /\ round_up_block(size) <= MaxU64
    /\ headerEnd + round_up_block(size) <= MaxU64
    /\ headerEnd + round_up_block(size) <= len

\* The padding of a record is what its last block has behind the payload.
ensure_zero_range(size, body) == size % BLOCK_LEN = 0 \/ body.used <= size

FirstFinding(order, flaws) ==
    LET hits == {i \in DOMAIN order : order[i][1] \in flaws}
    IN  IF hits = {} THEN None ELSE order[Min(hits)][2]

(****************************************************************************)
(* Header parsing.  A header's flaws are the ways in which it departs from  *)
(* the closed profile; a dialect reports the first one in its own order.    *)
(* Data where a header is expected has no magic.                            *)
(****************************************************************************)
parse_octal(f) ==
    CASE f \in {"base256", "size256"} -> "TarFeatureUnsupported"
      [] f \in {"digits", "sizedigits"} -> "TarNumeric"
      [] OTHER -> None

\* The size field and the other numeric ones.
SizeFlaws == {"size256", "sizedigits"}
NumericChecks ==
    << <<"base256", parse_octal("base256")>>, <<"digits", parse_octal("digits")>>,
       <<"size256", parse_octal("size256")>>, <<"sizedigits", parse_octal("sizedigits")>> >>

KnownUnsupported(dialect) ==
    CASE dialect = "ustar" -> {"link", "g", "x", "L"}
      [] dialect = "pax"   -> {"link", "L"}
      [] dialect = "gnu"   -> {"link", "g", "x"}

KnownTypes(dialect) ==
    {"file", "dir"} \cup (CASE dialect = "ustar" -> {}
                            [] dialect = "pax"   -> {"g", "x"}
                            [] dialect = "gnu"   -> {"L"})

Flaws(h, dialect) ==
    IF h.k # "header" THEN {"magic"}
    ELSE h.flaws
         \cup (IF h.magic # (IF dialect = "gnu" THEN "oldgnu" ELSE "ustar")
               THEN {"magic"} ELSE {})
         \cup (IF h.type \in KnownUnsupported(dialect) THEN {"feature"} ELSE {})
         \cup (IF h.type \notin KnownTypes(dialect) \cup KnownUnsupported(dialect)
               THEN {"type"} ELSE {})
         \cup (IF h.type = "dir" /\ h.size # 0 THEN {"dirsize"} ELSE {})
         \cup (IF Holds(h.name, "notutf8") THEN {"utf8"} ELSE {})

\* ustar decodes the name inside parse_header and checks a directory's size last.
UstarHeaderFinding(h) ==
    FirstFinding(
        << <<"magic", "TarDialect">>, <<"checksum", "TarChecksum">>,
           <<"feature", "TarFeatureUnsupported">>, <<"type", "TarType">>,
           <<"reserved", "TarDialect">>, <<"linkname", "TarType">> >> \o NumericChecks
        \o << <<"device", "TarType">>, <<"owner", "TarDialect">>, <<"text", "TarDialect">>,
              <<"utf8", "PathUnicode">>, <<"dirsize", "TarType">> >>,
        Flaws(h, "ustar"))

\* pax leaves the name undecoded (a record may replace it) and rejects a
\* directory's own size before the device fields.
PaxHeaderFinding(h) ==
    FirstFinding(
        << <<"magic", "TarDialect">>, <<"checksum", "TarChecksum">>,
           <<"feature", "TarFeatureUnsupported">>, <<"type", "TarType">>,
           <<"reserved", "TarDialect">>, <<"linkname", "TarType">> >> \o NumericChecks
        \o << <<"dirsize", "TarType">>, <<"device", "TarType">>, <<"owner", "TarDialect">>,
              <<"text", "TarDialect">> >>,
        Flaws(h, "pax"))

\* old GNU has no prefix: its tail bytes are checked after the link name.
GnuHeaderFinding(h) ==
    FirstFinding(
        << <<"magic", "TarDialect">>, <<"checksum", "TarChecksum">>,
           <<"feature", "TarFeatureUnsupported">>, <<"type", "TarType">>,
           <<"linkname", "TarType">>, <<"reserved", "TarDialect">> >> \o NumericChecks
        \o << <<"dirsize", "TarType">>, <<"device", "TarType">>, <<"owner", "TarDialect">>,
              <<"text", "TarDialect">> >>,
        Flaws(h, "gnu"))

parse_header(h, dialect) ==
    CASE dialect = "ustar" -> UstarHeaderFinding(h)
      [] dialect = "pax"   -> PaxHeaderFinding(h)
      [] dialect = "gnu"   -> GnuHeaderFinding(h)

(****************************************************************************)
(* The scan: what a reader holds between two turns of its loop.             *)
(****************************************************************************)
\* An override remembers its value and the record it came from.
NoOverrides == [path |-> <<>>, size |-> <<>>]

NewScan(dialect, len, maxFiles, maxMetadata) ==
    [dialect |-> dialect, len |-> len, maxFiles |-> maxFiles, maxMetadata |-> maxMetadata,
     offset |-> 0, members |-> <<>>, extensions |-> <<>>, globals |-> NoOverrides,
     pending |-> <<>>, metadata |-> 0, covering |-> <<>>,
     verdict |-> IF len < 2 * BLOCK_LEN \/ len % BLOCK_LEN # 0
                 THEN "TarTruncated" ELSE "running"]

Reject(s, finding) == [s EXCEPT !.verdict = finding]

add_metadata(s, amount) ==
    IF s.metadata + amount > s.maxMetadata
    THEN Reject(s, "QuotaMetadata")
    ELSE [s EXCEPT !.metadata = @ + amount]

Running(s) == s.verdict = "running"

PendingFinding(dialect) == IF dialect = "gnu" THEN "TarGnuState" ELSE "TarPaxState"

\* A zero header: the archive ends here or not at all.
Terminator(s, w) ==
    LET second == s.offset + BLOCK_LEN
        charged == add_metadata(s, 2 * BLOCK_LEN)
    IN  CASE s.pending # <<>> -> Reject(s, PendingFinding(s.dialect))
          [] s.pending = <<>> /\ (second + BLOCK_LEN > s.len \/ w.body.k # "zero")
                -> Reject(s, "TarTerminator")
          [] OTHER ->
                IF ~Running(charged) THEN charged
                ELSE IF ~w.rest0 THEN Reject(s, "TarPadding")
                ELSE [charged EXCEPT
                        !.verdict = "accepted",
                        !.covering = [member_records |-> Range2(0, s.offset),
                                      terminator |-> Range2(s.offset, 2 * BLOCK_LEN),
                                      trailing_zeros |->
                                        Range2(second + BLOCK_LEN, s.len - second - BLOCK_LEN)]]

Record(s, w, size) ==
    LET headerEnd == s.offset + BLOCK_LEN
    IN  [header |-> Range2(s.offset, BLOCK_LEN),
         payload |-> Range2(headerEnd, size),
         padding |-> Range2(headerEnd + size, round_up_block(size) - size),
         digest |-> w.h]

\* What a payload digest stands for.
Content(w, size) == IF size = 0 THEN None ELSE w.body

\* The tail of every ordinary member: the record must fit and its padding be zero.
PushMember(s, w, size, name, pathFrom, sizeFrom) ==
    CASE ~RecordFits(s.offset + BLOCK_LEN, size, s.len) -> Reject(s, "TarTruncated")
      [] RecordFits(s.offset + BLOCK_LEN, size, s.len) /\ ~ensure_zero_range(size, w.body)
            -> Reject(s, "TarPadding")
      [] OTHER ->
            [s EXCEPT
               !.members = Append(@, [tar |-> Record(s, w, size), raw_name |-> w.h.name,
                                      name |-> name, base_size |-> w.h.size, size |-> size,
                                      is_dir |-> w.h.type = "dir", components |-> <<>>,
                                      strip |-> FALSE, content |-> Content(w, size),
                                      path_source |-> pathFrom, size_source |-> sizeFrom]),
               !.offset = s.offset + BLOCK_LEN + round_up_block(size)]

\* The file cap is checked before the metadata cap.
ChargeMember(s) ==
    IF Len(s.members) >= s.maxFiles THEN Reject(s, "QuotaFiles")
    ELSE add_metadata(s, BLOCK_LEN)

UstarStep(s, w) ==
    LET bad == parse_header(w.h, "ustar")
        charged == ChargeMember(s)
    IN  CASE w.h.k = "zero" -> Terminator(s, w)
          [] w.h.k # "zero" /\ bad # None -> Reject(s, bad)
          [] w.h.k # "zero" /\ bad = None /\ ~Running(charged) -> charged
          [] OTHER -> PushMember(charged, w, w.h.size, w.h.name, FromHeader, FromHeader)

(****************************************************************************)
(* pax records and their precedence.                                        *)
(****************************************************************************)
\* A path value must be nonempty, bounded, without NUL and strict UTF-8.
PathFinding(name) ==
    CASE name = <<"">> -> "PathEmpty"
      [] Holds(name, "long") -> "PathDepth"
      [] Holds(name, "nul") -> "PathNul"
      [] Holds(name, "notutf8") -> "PathUnicode"
      [] OTHER -> None

\* The finding for item i of a payload, given the items before it.
PaxRecordFinding(items, i) ==
    LET it == items[i] IN
    CASE i > 2 \/ it.key = "syntax" -> "TarPaxRecord"
      [] i <= 2 /\ it.key = "unknown" -> "TarFeatureUnsupported"
      [] OTHER -> IF \E j \in 1..(i - 1) : items[j].key = it.key THEN "TarPaxRecord"
                  ELSE IF it.key = "path" THEN PathFinding(it.value)
                  ELSE IF it.value = NonCanonical THEN "TarPaxRecord" ELSE None

\* The records of an extension payload of `size` units, or the finding.  A
\* declared size that cuts the last record spoils it, one that leaves a
\* remainder adds something that is not a record.
parse_records(body, size) ==
    LET syntax == [key |-> "syntax", value |-> <<>>]
        seen == IF body.k # "data" THEN <<syntax>>
                ELSE IF size < body.used THEN Append(Front(body.items), syntax)
                ELSE IF size > body.used THEN Append(body.items, syntax)
                ELSE body.items
        hits == {i \in DOMAIN seen : PaxRecordFinding(seen, i) # None}
        bad == IF size = 0 THEN "TarPaxRecord"
               ELSE IF hits # {} THEN PaxRecordFinding(seen, Min(hits)) ELSE None
    IN  [finding |-> bad, records |-> IF bad = None THEN seen ELSE <<>>]

\* from_records: the last record of a keyword is the only one (no repeats).
OverridesFrom(kind, records, index) ==
    [f \in {"path", "size"} |->
        LET hits == {i \in DOMAIN records : records[i].key = f}
        IN  IF hits = {} THEN <<>>
            ELSE << [value |-> records[Max(hits)].value,
                     from |-> [kind |-> kind, extension |-> index, record |-> Max(hits)]] >>]

\* A later global replaces a field only if it names that field.
update_from(current, update) ==
    [f \in {"path", "size"} |-> IF update[f] # <<>> THEN update[f] ELSE current[f]]

resolve_path(raw, globals, local) ==
    IF local.path # <<>> THEN local.path[1]
    ELSE IF globals.path # <<>> THEN globals.path[1]
    ELSE [value |-> raw, from |-> FromHeader]

resolve_size(base, globals, local) ==
    IF local.size # <<>> THEN local.size[1]
    ELSE IF globals.size # <<>> THEN globals.size[1]
    ELSE [value |-> base, from |-> FromHeader]

\* A `g` or `x` header: metadata only, never a member.
PaxExtension(s, w) ==
    LET size == w.h.size
        charged == add_metadata(s, BLOCK_LEN + round_up_block(size))
        parsed == parse_records(w.body, size)
        kind == IF w.h.type = "g" THEN "Global" ELSE "Local"
        update == OverridesFrom(kind, parsed.records, Len(s.extensions))
    IN  CASE s.pending # <<>> -> Reject(s, "TarPaxState")
          [] s.pending = <<>> /\ (size > MAX_EXTENSION_BYTES
                                  \/ Len(s.extensions) >= MAX_EXTENSIONS)
                -> Reject(s, "QuotaMetadata")
          [] OTHER ->
               IF ~RecordFits(s.offset + BLOCK_LEN, size, s.len) THEN Reject(s, "TarTruncated")
               ELSE IF ~Running(charged) THEN charged
               ELSE IF parsed.finding # None THEN Reject(s, parsed.finding)
               ELSE IF ~ensure_zero_range(size, w.body) THEN Reject(s, "TarPadding")
               ELSE [charged EXCEPT
                       !.extensions = Append(@, [kind |-> kind, tar |-> Record(s, w, size),
                                                 raw_name |-> w.h.name, payload |-> w.body,
                                                 records |-> parsed.records]),
                       !.globals = IF kind = "Global" THEN update_from(@, update) ELSE @,
                       !.pending = IF kind = "Local" THEN <<update>> ELSE @,
                       !.offset = s.offset + BLOCK_LEN + round_up_block(size)]

\* Mutant: the local overrides outlive the member they were for.
PaxMemberKeepsPending(s, w) ==
    LET charged == ChargeMember(s)
        local == IF s.pending = <<>> THEN NoOverrides ELSE s.pending[1]
        path == resolve_path(w.h.name, s.globals, local)
        size == resolve_size(w.h.size, s.globals, local)
    IN  IF ~Running(charged) THEN charged
        ELSE IF PathFinding(path.value) # None THEN Reject(s, PathFinding(path.value))
        ELSE IF w.h.type = "dir" /\ size.value # 0 THEN Reject(s, "TarType")
        ELSE PushMember([charged EXCEPT !.globals = update_from(@, local), !.pending = <<>>],
                        w, size.value, path.value, path.from, size.from)

PaxMember(s, w) ==
    LET charged == ChargeMember(s)
        local == IF s.pending = <<>> THEN NoOverrides ELSE s.pending[1]
        path == resolve_path(w.h.name, s.globals, local)
        size == resolve_size(w.h.size, s.globals, local)
    IN  CASE ~Running(charged) -> charged
          [] Running(charged) /\ PathFinding(path.value) # None
                -> Reject(s, PathFinding(path.value))
          [] OTHER ->
               IF w.h.type = "dir" /\ size.value # 0 THEN Reject(s, "TarType")
               ELSE PushMember([charged EXCEPT !.pending = <<>>], w, size.value, path.value,
                               path.from, size.from)

PaxStep(s, w) ==
    LET bad == parse_header(w.h, "pax")
    IN  CASE w.h.k = "zero" -> Terminator(s, w)
          [] w.h.k # "zero" /\ bad # None -> Reject(s, bad)
          [] OTHER -> IF w.h.type \in {"g", "x"} THEN PaxExtension(s, w) ELSE PaxMember(s, w)

(****************************************************************************)
(* old-GNU long names.                                                      *)
(****************************************************************************)
\* One path followed by exactly one NUL, the first unit after the used ones;
\* a window of `size` units that ends earlier lacks it, one that ends later
\* embeds it.
parse_carrier_payload(body, size) ==
    IF size < 2 \/ body.k # "data" \/ size # body.used + 1 \/ Len(body.items) # 1
    THEN "TarGnuLongName"
    ELSE IF Holds(body.items[1].value, "nul") THEN "TarGnuLongName"
    ELSE PathFinding(body.items[1].value)

GnuCarrier(s, w) ==
    LET size == w.h.size
        charged == add_metadata(s, BLOCK_LEN + round_up_block(size))
        bad == parse_carrier_payload(w.body, size)
    IN  CASE s.pending # <<>> -> Reject(s, "TarGnuState")
          [] s.pending = <<>> /\ (size > MAX_CARRIER_PAYLOAD_BYTES
                                  \/ Len(s.extensions) >= MAX_CARRIERS)
                -> Reject(s, "QuotaMetadata")
          [] OTHER ->
               IF ~RecordFits(s.offset + BLOCK_LEN, size, s.len) THEN Reject(s, "TarTruncated")
               ELSE IF ~Running(charged) THEN charged
               ELSE IF bad # None THEN Reject(s, bad)
               ELSE IF ~ensure_zero_range(size, w.body) THEN Reject(s, "TarPadding")
               ELSE [charged EXCEPT
                       !.extensions = Append(@, [kind |-> "Carrier", tar |-> Record(s, w, size),
                                                 raw_name |-> w.h.name, payload |-> w.body,
                                                 records |-> w.body.items]),
                       !.pending = << [value |-> w.body.items[1].value,
                                       from |-> [kind |-> "Carrier",
                                                 extension |-> Len(s.extensions),
                                                 record |-> 1]] >>,
                       !.offset = s.offset + BLOCK_LEN + round_up_block(size)]

\* A carried path was validated with its carrier; a header name is here.
GnuMember(s, w) ==
    LET charged == ChargeMember(s)
        path == IF s.pending = <<>> THEN [value |-> w.h.name, from |-> FromHeader]
                ELSE s.pending[1]
    IN  CASE ~Running(charged) -> charged
          [] Running(charged) /\ PathFinding(path.value) # None
                -> Reject(s, PathFinding(path.value))
          [] OTHER -> PushMember([charged EXCEPT !.pending = <<>>], w, w.h.size, path.value,
                                 path.from, FromHeader)

GnuStep(s, w) ==
    LET bad == parse_header(w.h, "gnu")
    IN  CASE w.h.k = "zero" -> Terminator(s, w)
          [] w.h.k # "zero" /\ bad # None -> Reject(s, bad)
          [] OTHER -> IF w.h.type = "L" THEN GnuCarrier(s, w) ELSE GnuMember(s, w)

\* One turn of the selected reader's loop.  A header past the end is a truncation.
TarStep(s, w) ==
    IF s.offset + BLOCK_LEN > s.len THEN Reject(s, "TarTruncated")
    ELSE CASE s.dialect = "ustar" -> UstarStep(s, w)
           [] s.dialect = "pax"   -> PaxStep(s, w)
           [] s.dialect = "gnu"   -> GnuStep(s, w)

================================================================================
