------------------------------- MODULE TarVerifier -------------------------------
(****************************************************************************)
(* The identity verifier's own reading of a TAR case                        *)
(* (tools/identity-verifier): it walks the same source bytes, compares      *)
(* every field of the recorded evidence, and rebuilds the layout and        *)
(* content preimages that identity.rs hashed.  A preimage is a label and    *)
(* the list of its fields; members are sorted by canonical path in both     *)
(* programs, so their encoding is the set of encoded members.               *)
(****************************************************************************)
EXTENDS TarPlan

(****************************************************************************)
(* identity.rs                                                              *)
(****************************************************************************)
preimage(label, body) == [label |-> label, len |-> Len(body), body |-> body]

encode_normalization_actions(m) == IF m.strip THEN <<"StripDirectoryTrailingSlash">> ELSE <<>>

encode_pax_value_source(from) == from

EncodeExtension(e) ==
    <<e.kind, e.raw_name, e.tar.header, e.tar.payload, e.tar.padding, e.tar.digest, e.payload,
      e.records>>

TarMemberFields(m) ==
    <<m.components, m.is_dir, m.name, m.size, m.tar.header, m.tar.payload, m.tar.padding,
      m.tar.digest, encode_normalization_actions(m)>>

tar_layout_body(ir) ==
    <<ir.covering, Len(ir.members), {TarMemberFields(ir.members[i]) : i \in DOMAIN ir.members}>>

tar_pax_layout_body(ir) ==
    <<ir.covering, [i \in DOMAIN ir.extensions |-> EncodeExtension(ir.extensions[i])],
      Len(ir.members),
      {TarMemberFields(m) \o <<m.raw_name, m.base_size, encode_pax_value_source(m.path_source),
                               encode_pax_value_source(m.size_source)>>
         : m \in Range(ir.members)}>>

tar_gnu_longname_layout_body(ir) ==
    <<ir.covering, [i \in DOMAIN ir.extensions |-> EncodeExtension(ir.extensions[i])],
      Len(ir.members),
      {TarMemberFields(m) \o <<m.raw_name, m.path_source>> : m \in Range(ir.members)}>>

encode_tar_layout(ir) ==
    CASE ir.dialect = "ustar" -> preimage("tar-ustar.v1", tar_layout_body(ir))
      [] ir.dialect = "pax"   -> preimage("tar-pax.v1", tar_pax_layout_body(ir))
      [] ir.dialect = "gnu"   -> preimage("tar-gnu-longname.v1", tar_gnu_longname_layout_body(ir))

\* Content: path, kind, size and the digest of the payload, whatever the format.
encode_content_member(m) == <<m.components, m.is_dir, m.size, m.content>>

encode_content(ir) ==
    preimage("content.v1", <<Len(ir.members), {encode_content_member(m) : m \in Range(ir.members)}>>)

(****************************************************************************)
(* The verifier.                                                            *)
(****************************************************************************)
\* A path's grammar is checked on the record or the header it came from.
verify_portable_pax_path(name) ==
    /\ name # <<"">>
    /\ \A i \in DOMAIN name :
           name[i] \notin {"", ".", "..", "nul", "control", "back", "wide", "long",
                       "notutf8"}

GnuCanonical(name, is_dir) ==
    IF is_dir /\ Len(name) > 1 /\ Last(name) = "" THEN Front(name) ELSE name

verify_portable_gnu_longname_path(name, is_dir) ==
    /\ Head(name) # "" \/ Len(name) = 1
    /\ GnuCanonical(name, is_dir) # <<"">>
    /\ \A i \in DOMAIN GnuCanonical(name, is_dir) :
           name[i] \notin {"", ".", "..", "nul", "control", "back", "wide", "long", "notutf8", "ads",
                           "drive", "illegal", "trail"}

parse_tar_pax_header(h) == h.k = "header" /\ Flaws(h, "pax") \ {"feature", "type", "utf8"} = {}
parse_tar_gnu_longname_header(h) ==
    h.k = "header" /\ Flaws(h, "gnu") \ {"feature", "type", "utf8"} = {}
verify_tar_gzip_header(m, h) ==
    /\ h.k = "header" /\ Flaws(h, "ustar") \ {"utf8"} = {}
    /\ h.size = m.size /\ h.name = m.name
    /\ (h.type = "dir") = m.is_dir

verify_tar_pax_records(e, body) ==
    /\ Len(e.records) \in 1..2
    /\ body.k = "data" /\ body.items = e.records /\ e.tar.payload.len = body.used
    /\ \A i \in DOMAIN e.records :
           LET r == e.records[i]
           IN  /\ r.key \in {"path", "size"}
               /\ \A j \in 1..(i - 1) : e.records[j].key # r.key
               /\ IF r.key = "path" THEN verify_portable_pax_path(r.value)
                  ELSE r.value # NonCanonical

verify_tar_pax_extension(src, e, at) ==
    /\ e.tar = Record([offset |-> at], src[at], src[at].h.size)
    /\ e.raw_name = src[at].h.name /\ e.payload = src[at].body
    /\ ensure_zero_range(src[at].h.size, src[at].body)
    /\ verify_tar_pax_records(e, src[at].body)

parsed_pax_overrides(e, index) == OverridesFrom(e.kind, e.records, index)

merge_pax_overrides(current, update) ==
    [f \in {"path", "size"} |-> IF update[f] = <<>> THEN current[f] ELSE update[f]]

resolve_pax(field, base, global, local) ==
    LET chosen == IF local[field] # <<>> THEN local[field] ELSE global[field]
    IN  IF chosen # <<>> THEN chosen[1] ELSE [value |-> base, from |-> FromHeader]

\* The fields every dialect's member comparison shares.
MemberMatches(src, m, at, size) ==
    /\ m.is_dir = (src[at].h.type = "dir")
    /\ m.is_dir => size = 0
    /\ m.size = size
    /\ m.tar = Record([offset |-> at], src[at], size)
    /\ m.raw_name = src[at].h.name
    /\ m.content = Content(src[at], size)
    /\ ensure_zero_range(size, src[at].body)

\* Mutant: the value is compared, the record it came from is not.
VerifyPaxValueOnly(src, m, at, path, size) ==
    /\ m.name = path.value /\ m.components = path.value /\ ~m.strip
    /\ m.base_size = src[at].h.size
    /\ MemberMatches(src, m, at, size.value)

verify_tar_pax_member(src, m, at, path, size) ==
    /\ verify_portable_pax_path(path.value)
    /\ m.name = path.value /\ m.components = path.value /\ ~m.strip
    /\ m.base_size = src[at].h.size
    /\ m.path_source = path.from /\ m.size_source = size.from
    /\ MemberMatches(src, m, at, size.value)

verify_tar_gnu_longname_member(src, m, at, path) ==
    /\ verify_portable_gnu_longname_path(path.value, src[at].h.type = "dir")
    /\ m.name = path.value
    /\ m.components = GnuCanonical(path.value, src[at].h.type = "dir")
    /\ m.strip = (m.components # path.value)
    /\ m.path_source = path.from
    /\ MemberMatches(src, m, at, src[at].h.size)

\* The walk's state; the verdict is "running", "done" at a zero header, or "bad".
NewWalk == [at |-> 0, ext |-> 0, mem |-> 0, global |-> NoOverrides, pending |-> <<>>,
            paths |-> {}, verdict |-> "running"]
Bad(v) == [v EXCEPT !.verdict = "bad"]

PaxWalkTurn(src, len, ir, v) ==
    LET h == src[v.at].h
        e == ir.extensions[v.ext + 1]
        m == ir.members[v.mem + 1]
        local == IF v.pending = <<>> THEN NoOverrides ELSE v.pending[1]
        path == resolve_pax("path", h.name, v.global, local)
        size == resolve_pax("size", h.size, v.global, local)
        update == parsed_pax_overrides(e, v.ext)
        kind == IF h.type = "g" THEN "Global" ELSE "Local"
        Fits(n) == RecordFits(v.at + BLOCK_LEN, n, len)
        Next(n) == v.at + BLOCK_LEN + round_up_block(n)
    IN  CASE v.verdict # "running" -> v
          [] v.verdict = "running" /\ v.at \notin DOMAIN src -> Bad(v)
          [] OTHER ->
               IF h.k = "zero"
               THEN [v EXCEPT !.verdict = IF v.pending = <<>> THEN "done" ELSE "bad"]
               ELSE IF ~parse_tar_pax_header(h) THEN Bad(v)
               ELSE IF h.type \in {"g", "x"}
               THEN IF /\ v.pending = <<>> /\ v.ext < Len(ir.extensions)
                       /\ e.kind = kind /\ h.size <= MAX_EXTENSION_BYTES /\ Fits(h.size)
                       /\ verify_tar_pax_extension(src, e, v.at)
                    THEN [v EXCEPT !.at = Next(h.size), !.ext = @ + 1,
                                   !.global = IF kind = "Global"
                                              THEN merge_pax_overrides(@, update) ELSE @,
                                   !.pending = IF kind = "Local" THEN <<update>> ELSE @]
                    ELSE Bad(v)
               ELSE IF /\ h.type \in {"file", "dir"} /\ v.mem < Len(ir.members)
                       /\ path.value \notin v.paths /\ Fits(size.value)
                       /\ verify_tar_pax_member(src, m, v.at, path, size)
                    THEN [v EXCEPT !.at = Next(size.value), !.mem = @ + 1, !.pending = <<>>,
                                   !.paths = @ \cup {path.value}]
                    ELSE Bad(v)

GnuWalkTurn(src, len, ir, v) ==
    LET h == src[v.at].h
        e == ir.extensions[v.ext + 1]
        m == ir.members[v.mem + 1]
        path == IF v.pending = <<>> THEN [value |-> h.name, from |-> FromHeader] ELSE v.pending[1]
        next == v.at + BLOCK_LEN + round_up_block(h.size)
    IN  CASE v.verdict # "running" -> v
          [] v.verdict = "running" /\ v.at \notin DOMAIN src -> Bad(v)
          [] OTHER ->
               IF h.k = "zero"
               THEN [v EXCEPT !.verdict = IF v.pending = <<>> THEN "done" ELSE "bad"]
               ELSE IF ~parse_tar_gnu_longname_header(h)
                       \/ ~RecordFits(v.at + BLOCK_LEN, h.size, len) THEN Bad(v)
               ELSE IF h.type = "L"
               THEN IF /\ v.pending = <<>> /\ v.ext < Len(ir.extensions)
                       /\ parse_carrier_payload(src[v.at].body, h.size)
                            \in {None, "PathDepth", "PathEmpty"}
                       /\ h.size <= MAX_CARRIER_PAYLOAD_BYTES
                       /\ e.tar = Record([offset |-> v.at], src[v.at], h.size)
                       /\ e.raw_name = h.name /\ e.payload = src[v.at].body
                       /\ e.records = src[v.at].body.items
                       /\ ensure_zero_range(h.size, src[v.at].body)
                    THEN [v EXCEPT !.at = next, !.ext = @ + 1,
                                   !.pending = << [value |-> e.records[1].value,
                                                   from |-> [kind |-> "Carrier",
                                                             extension |-> v.ext, record |-> 1]] >>]
                    ELSE Bad(v)
               ELSE IF /\ h.type \in {"file", "dir"} /\ v.mem < Len(ir.members)
                       /\ verify_tar_gnu_longname_member(src, m, v.at, path)
                       /\ m.components \notin v.paths
                    THEN [v EXCEPT !.at = next, !.mem = @ + 1, !.pending = <<>>,
                                   !.paths = @ \cup {m.components}]
                    ELSE Bad(v)

\* The tables are exhausted, and the covering is the one the walk found.
WalkAccepts(src, len, ir, v) ==
    /\ v.verdict = "done"
    /\ v.ext = Len(ir.extensions) /\ v.mem = Len(ir.members)
    /\ v.at + 2 * BLOCK_LEN <= len
    /\ ir.covering = [member_records |-> Range2(0, v.at),
                      terminator |-> Range2(v.at, 2 * BLOCK_LEN),
                      trailing_zeros |-> Range2(v.at + 2 * BLOCK_LEN, len - v.at - 2 * BLOCK_LEN)]
    /\ ZeroTail(src, ir.covering)

Walk(src, len, ir) ==
    LET Turn(v, i) == IF ir.dialect = "pax" THEN PaxWalkTurn(src, len, ir, v)
                      ELSE GnuWalkTurn(src, len, ir, v)
    IN  FoldLeft(Turn, NewWalk, [i \in 1..(Len(ir.extensions) + Len(ir.members) + 1) |-> i])

verify_tar_pax_source(src, len, ir) ==
    /\ len >= 2 * BLOCK_LEN /\ len % BLOCK_LEN = 0
    /\ Len(ir.extensions) <= MAX_EXTENSIONS
    /\ WalkAccepts(src, len, ir, Walk(src, len, ir))

verify_tar_gnu_longname_source(src, len, ir) ==
    /\ len >= 2 * BLOCK_LEN /\ len % BLOCK_LEN = 0
    /\ Len(ir.extensions) <= MAX_CARRIERS
    /\ WalkAccepts(src, len, ir, Walk(src, len, ir))

\* ustar: the evidence drives the walk, in the order of its header offsets.
verify_tar_derived_source(src, len, ir) ==
    LET end == End(ir.covering.member_records)
        sorted == SortSeq(ir.members, LAMBDA a, b : a.tar.header.offset < b.tar.header.offset)
        Turn(at, m) ==
          IF /\ at >= 0 /\ at \in DOMAIN src
             /\ m.components # <<>>
             /\ Cardinality({k \in DOMAIN ir.members : ir.members[k].components = m.components}) = 1
             /\ AlignedRecord(m.tar, at, m.size, end)
             /\ verify_tar_gzip_header(m, src[at].h)
             /\ m.tar.digest = src[at].h
             /\ m.content = Content(src[at], m.size)
             /\ Zeroed(src, at, m.size)
          THEN End(m.tar.padding) ELSE -1
    IN  /\ PartitionsSnapshot(ir.covering, len) /\ len % BLOCK_LEN = 0
        /\ FoldLeft(Turn, 0, sorted) = end
        /\ ZeroTail(src, ir.covering)

verify_tar_source(src, len, ir) ==
    CASE ir.dialect = "ustar" -> verify_tar_derived_source(src, len, ir)
      [] ir.dialect = "pax"   -> verify_tar_pax_source(src, len, ir)
      [] ir.dialect = "gnu"   -> verify_tar_gnu_longname_source(src, len, ir)

\* The verifier's own encoders.
VectorExtensions(ir) == [i \in DOMAIN ir.extensions |-> EncodeExtension(ir.extensions[i])]

UstarLayoutBody(ir) ==
    <<ir.covering, Len(ir.members), {TarMemberFields(m) : m \in Range(ir.members)}>>

PaxLayoutBody(ir) ==
    <<ir.covering, VectorExtensions(ir), Len(ir.members),
      {TarMemberFields(m) \o <<m.raw_name, m.base_size, m.path_source, m.size_source>>
         : m \in Range(ir.members)}>>

GnuLayoutBody(ir) ==
    <<ir.covering, VectorExtensions(ir), Len(ir.members),
      {TarMemberFields(m) \o <<m.raw_name, m.path_source>> : m \in Range(ir.members)}>>

VerifierLayoutBody(ir) ==
    CASE ir.dialect = "ustar" -> UstarLayoutBody(ir)
      [] ir.dialect = "pax"   -> PaxLayoutBody(ir)
      [] ir.dialect = "gnu"   -> GnuLayoutBody(ir)

encode_tar_content_vector(ir) ==
    preimage("content.v1",
             <<Len(ir.members),
               {<<m.components, m.is_dir, m.size, m.content>> : m \in Range(ir.members)}>>)

\* A case: the source verifies and both roots are those the evidence encodes.
verify_tar_case(src, len, ir, layout_root, content_root) ==
    /\ verify_tar_source(src, len, ir)
    /\ layout_root.body = VerifierLayoutBody(ir)
    /\ content_root = encode_tar_content_vector(ir)

================================================================================
