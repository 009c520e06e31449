--------------------------------- MODULE TarPlan ---------------------------------
(****************************************************************************)
(* From a parsed TAR archive to a ready one: the ratio stop, the per-member *)
(* quotas and path admission of apply.rs, the archive evidence it builds,   *)
(* and the second reading of the source by covering.rs that must agree with *)
(* that evidence before anything is executed.                               *)
(*                                                                          *)
(* src maps the offset of every header a reader asked for to its window.    *)
(****************************************************************************)
EXTENDS TarDialects

CONSTANTS
    TAR_RECORD_LEN      \* one write record, a multiple of the block length

ASSUME RecordAssumption == TAR_RECORD_LEN \in Nat /\ TAR_RECORD_LEN >= 2 * BLOCK_LEN

(****************************************************************************)
(* Ratio and quota arithmetic.                                              *)
(****************************************************************************)
ratio_exceeds(uncomp, comp, max_ratio) ==
    IF comp = 0 THEN uncomp > 0 ELSE uncomp > max_ratio * comp

\* The terminator and the zeros that finish its write record are framing.
derived_tar_ratio_numerator(decoded_len, c) ==
    LET termEnd == End(c.terminator)
        records == (termEnd + TAR_RECORD_LEN - 1) \div TAR_RECORD_LEN
        pad == Min({records * TAR_RECORD_LEN - termEnd, c.trailing_zeros.len})
    IN  IF \/ c.terminator.len # 2 * BLOCK_LEN
           \/ c.trailing_zeros.offset # termEnd
           \/ termEnd > decoded_len
        THEN decoded_len
        ELSE decoded_len - Min({2 * BLOCK_LEN + pad, decoded_len})

\* A terminator at an offset, with zeros from there to the end.
RatioCovering(at, len) ==
    [terminator |-> Range2(at, 2 * BLOCK_LEN),
     trailing_zeros |-> Range2(at + 2 * BLOCK_LEN, len - at - 2 * BLOCK_LEN)]

\* A header the ratio walk passes: it reads the checksum, a magic of either
\* family (the only ones a header can have) and the size, and nothing else.
RatioHeader(h, at, len) ==
    /\ h.k = "header" /\ h.flaws \cap ({"checksum"} \cup SizeFlaws) = {}
    /\ RecordFits(at + BLOCK_LEN, h.size, len)

\* The padding of a record, as the body shows it: a longer body (a pax record
\* gave the member another size) says nothing of its blocks in between.
PaddingHoldsData(size, body) ==
    ~ensure_zero_range(size, body) /\ body.used <= round_up_block(size)

\* The terminator of an archive the selected dialect refused, when checksums,
\* magics, padding and tail verify: sizes come from the headers alone.  The
\* walk does not stop where the reader did.  Where no window was shown it may
\* find anything, so the result is one of a set: nothing, or a terminator
\* behind the offset it came to and behind every block known not to be zero.
verified_ratio_covering(src, len) ==
    LET Turn(s, i) ==
          IF s.found # {} \/ s.at \notin DOMAIN src THEN s
          ELSE LET w == src[s.at]
               IN  CASE w.h.k = "zero" ->
                          [s EXCEPT !.found =
                             {IF s.at + 2 * BLOCK_LEN <= len /\ w.body.k = "zero" /\ w.rest0
                              THEN <<RatioCovering(s.at, len)>> ELSE <<>>}]
                     [] RatioHeader(w.h, s.at, len) /\ ~PaddingHoldsData(w.h.size, w.body) ->
                          [s EXCEPT !.at = s.at + BLOCK_LEN + round_up_block(w.h.size)]
                     [] OTHER -> [s EXCEPT !.found = {<<>>}]
        end == FoldLeft(Turn, [at |-> 0, found |-> {}], [i \in 1..(len \div BLOCK_LEN) |-> i])
        shown == {o \in DOMAIN src : src[o].h.k # "zero"}
        unread == {BLOCK_LEN * k : k \in 0..((len \div BLOCK_LEN) - 2)}
    IN  IF len < 2 * BLOCK_LEN \/ len % BLOCK_LEN # 0 THEN {<<>>}
        ELSE IF end.found # {} THEN end.found
        ELSE {<<>>} \cup {<<RatioCovering(t, len)>>
                            : t \in {t \in unread : t >= end.at /\ \A o \in shown : o < t}}

\* What the walk found is used for a refused archive only.
derived_numerator(scan, ratio) ==
    IF scan.covering # <<>> THEN derived_tar_ratio_numerator(scan.len, scan.covering)
    ELSE IF ratio # <<>> THEN derived_tar_ratio_numerator(scan.len, ratio[1])
    ELSE scan.len

\* A raw archive has no derived charge, and no ratio cap means no stop.
derived_ratio_stop(scan, ratio, budget, compressed) ==
    /\ compressed # <<>> /\ budget.max_ratio # <<>>
    /\ ratio_exceeds(derived_numerator(scan, ratio), compressed[1], budget.max_ratio[1])

(****************************************************************************)
(* The member loop: a refused member is skipped and the loop goes on, a     *)
(* refused total ends it.                                                   *)
(****************************************************************************)
NewPlan == [findings |-> <<>>, planned |-> <<>>, seen |-> {}, total |-> 0, stopped |-> FALSE]

PlanAdmitted(budget, p, m, adm) ==
    LET Finding(f) == [p EXCEPT !.findings = Append(@, f)]
        spent == [p EXCEPT !.total = @ + m.size]
    IN  CASE p.stopped -> p
          [] ~p.stopped /\ m.size > budget.max_member -> Finding("QuotaMember")
          [] ~p.stopped /\ ~(m.size > budget.max_member) /\ budget.max_ratio # <<>>
             /\ ratio_exceeds(m.size, m.size, budget.max_ratio[1]) -> Finding("QuotaRatio")
          [] OTHER ->
               IF p.total + m.size > MaxU64
               THEN [Finding("QuotaOverflow") EXCEPT !.stopped = TRUE]
               ELSE IF p.total + m.size > budget.max_total
               THEN [Finding("QuotaTotal") EXCEPT !.stopped = TRUE]
               ELSE IF adm.finding # OK THEN [spent EXCEPT !.findings = Append(@, adm.finding)]
               ELSE [spent EXCEPT
                       !.planned = Append(@, [m EXCEPT !.components = adm.components,
                                                       !.strip = adm.strip]),
                       !.seen = Admit(@, adm.components, m.is_dir, Portable)]

PlanMember(budget, p, m) ==
    PlanAdmitted(budget, p, m, admit_tar_path(m.name, m.is_dir, budget.max_depth, p.seen))

PlanMembers(scan, budget) ==
    FoldLeft(LAMBDA p, m : PlanMember(budget, p, m), NewPlan, scan.members)

\* The evidence handed to the audit and to execution.  ustar has no extension
\* records; pax keeps its extensions, old GNU its carriers.
UstarIR(scan, plan) ==
    [dialect |-> "ustar", covering |-> scan.covering, extensions |-> <<>>, members |-> plan.planned]

PaxIR(scan, plan) ==
    [dialect |-> "pax", covering |-> scan.covering, extensions |-> scan.extensions,
     members |-> plan.planned]

GnuIR(scan, plan) ==
    [dialect |-> "gnu", covering |-> scan.covering, extensions |-> scan.extensions,
     members |-> plan.planned]

ArchiveIR(scan, plan) ==
    CASE scan.dialect = "ustar" -> UstarIR(scan, plan)
      [] scan.dialect = "pax"   -> PaxIR(scan, plan)
      [] scan.dialect = "gnu"   -> GnuIR(scan, plan)

Admission(plan) ==
    [stage |-> IF plan.findings # <<>> THEN "denied" ELSE "planned",
     finding |-> IF plan.findings # <<>> THEN Head(plan.findings) ELSE OK, plan |-> plan]

\* The ratio of a derived archive is judged before a parse failure is
\* reported, and again before the members are planned.
plan_tar_domains(scan, ratio, budget, compressed) ==
    IF derived_ratio_stop(scan, ratio, budget, compressed)
    THEN [stage |-> "denied", finding |-> "QuotaRatio", plan |-> NewPlan]
    ELSE IF scan.verdict # "accepted"
    THEN [stage |-> "refused", finding |-> scan.verdict, plan |-> NewPlan]
    ELSE Admission(PlanMembers(scan, budget))

plan_tar_pax(scan, ratio, budget, compressed) == plan_tar_domains(scan, ratio, budget, compressed)

plan_tar_gnu_longname(scan, ratio, budget, compressed) ==
    plan_tar_domains(scan, ratio, budget, compressed)

PlanTar(scan, ratio, budget, compressed) ==
    CASE scan.dialect = "ustar" -> plan_tar_domains(scan, ratio, budget, compressed)
      [] scan.dialect = "pax"   -> plan_tar_pax(scan, ratio, budget, compressed)
      [] scan.dialect = "gnu"   -> plan_tar_gnu_longname(scan, ratio, budget, compressed)

(****************************************************************************)
(* The audit.                                                               *)
(****************************************************************************)
Zeroed(src, at, size) == at \in DOMAIN src /\ ensure_zero_range(size, src[at].body)

PartitionsSnapshot(c, len) ==
    /\ c.member_records.offset = 0
    /\ c.terminator = Range2(End(c.member_records), 2 * BLOCK_LEN)
    /\ c.trailing_zeros.offset = End(c.terminator)
    /\ End(c.trailing_zeros) = len

\* The terminator and the tail hold zeros.
ZeroTail(src, c) ==
    /\ c.terminator.offset \in DOMAIN src
    /\ src[c.terminator.offset].h.k = "zero"
    /\ src[c.terminator.offset].body.k = "zero"
    /\ src[c.terminator.offset].rest0

\* One aligned record that starts where the previous one ended.
AlignedRecord(t, at, size, end) ==
    /\ t.header = Range2(at, BLOCK_LEN)
    /\ t.payload = Range2(at + BLOCK_LEN, size)
    /\ t.padding = Range2(End(t.payload), (BLOCK_LEN - (size % BLOCK_LEN)) % BLOCK_LEN)
    /\ End(t.padding) <= end

\* ustar: geometry, header digest and zero padding; nothing is interpreted.
audit_tar_covering(src, len, ir) ==
    LET end == End(ir.covering.member_records)
        Turn(at, m) ==
          IF at < 0 THEN at
          ELSE IF /\ AlignedRecord(m.tar, at, m.size, end)
                  /\ at \in DOMAIN src /\ src[at].h = m.tar.digest
                  /\ Zeroed(src, at, m.size)
               THEN End(m.tar.padding) ELSE -1
    IN  /\ PartitionsSnapshot(ir.covering, len)
        /\ FoldLeft(Turn, 0, ir.members) = end
        /\ ZeroTail(src, ir.covering)

\* A header the audit can read for its dialect: the parser's flaws, unordered.
audit_pax_header(h) ==
    h.k = "header" /\ Flaws(h, "pax") \ {"feature", "type", "utf8"} = {}

audit_gnu_header(h) == h.k = "header" /\ Flaws(h, "gnu") \ {"utf8"} = {}

\* The overrides an extension's recorded evidence establishes.
PaxAuditOverrides(extension, index) ==
    OverridesFrom(extension.kind, extension.records, index)

pax_source_record(extensions, from, keyword) ==
    IF /\ from.extension \in 0..(Len(extensions) - 1)
       /\ extensions[from.extension + 1].kind = from.kind
       /\ from.record \in DOMAIN extensions[from.extension + 1].records
       /\ extensions[from.extension + 1].records[from.record].key = keyword
    THEN <<extensions[from.extension + 1].records[from.record].value>> ELSE <<>>

audit_pax_records(body, size, records) ==
    /\ Len(records) \in 1..2
    /\ body.k = "data" /\ size = body.used /\ body.items = records
    /\ \A i \in DOMAIN records : PaxRecordFinding(records, i) = None

audit_one_pax_extension(src, e, at, end) ==
    /\ AlignedRecord(e.tar, at, e.tar.payload.len, end)
    /\ e.tar.payload.len <= MAX_EXTENSION_BYTES
    /\ at \in DOMAIN src /\ audit_pax_header(src[at].h)
    /\ src[at].h.type = (IF e.kind = "Global" THEN "g" ELSE "x")
    /\ src[at].h.size = e.tar.payload.len
    /\ src[at].h.name = e.raw_name
    /\ src[at].h = e.tar.digest
    /\ src[at].body = e.payload
    /\ audit_pax_records(src[at].body, e.tar.payload.len, e.records)
    /\ Zeroed(src, at, e.tar.payload.len)

audit_one_pax_member(src, m, extensions, globals, local, at, end) ==
    LET path == resolve_path(m.raw_name, globals, local)
        size == resolve_size(m.base_size, globals, local)
        named == IF path.from = FromHeader THEN <<m.raw_name>>
                 ELSE pax_source_record(extensions, path.from, "path")
        sized == IF size.from = FromHeader THEN <<m.base_size>>
                 ELSE pax_source_record(extensions, size.from, "size")
    IN  /\ AlignedRecord(m.tar, at, m.size, end)
        /\ at \in DOMAIN src /\ audit_pax_header(src[at].h)
        /\ src[at].h.type \in {"file", "dir"}
        /\ (src[at].h.type = "dir") = m.is_dir
        /\ m.is_dir => m.size = 0
        /\ src[at].h.size = m.base_size /\ src[at].h.name = m.raw_name
        /\ src[at].h = m.tar.digest
        /\ m.path_source = path.from /\ m.size_source = size.from
        /\ named = <<m.name>> /\ sized = <<m.size>>
        /\ PathFinding(m.name) = None
        /\ Zeroed(src, at, m.size)

\* One turn of the pax audit: whichever table claims the cursor is checked.
PaxAuditTurn(src, ir, a) ==
    LET end == End(ir.covering.member_records)
        local == IF a.pending = <<>> THEN NoOverrides ELSE a.pending[1]
        eHere == a.ext < Len(ir.extensions) /\ ir.extensions[a.ext + 1].tar.header.offset = a.at
        mHere == a.mem < Len(ir.members) /\ ir.members[a.mem + 1].tar.header.offset = a.at
        e == ir.extensions[a.ext + 1]
        m == ir.members[a.mem + 1]
        update == PaxAuditOverrides(e, a.ext)
    IN  CASE ~a.ok \/ a.at >= end -> a
          [] a.ok /\ a.at < end /\ eHere /\ ~mHere ->
               [a EXCEPT !.ok = a.pending = <<>> /\ audit_one_pax_extension(src, e, a.at, end),
                         !.at = End(e.tar.padding), !.ext = @ + 1,
                         !.globals = IF e.kind = "Global" THEN update_from(@, update) ELSE @,
                         !.pending = IF e.kind = "Local" THEN <<update>> ELSE @]
          [] a.ok /\ a.at < end /\ mHere /\ ~eHere ->
               [a EXCEPT !.ok = audit_one_pax_member(src, m, ir.extensions, a.globals, local,
                                                     a.at, end),
                         !.at = End(m.tar.padding), !.mem = @ + 1, !.pending = <<>>]
          [] OTHER -> [a EXCEPT !.ok = FALSE]

NewAudit ==
    [ok |-> TRUE, at |-> 0, ext |-> 0, mem |-> 0, globals |-> NoOverrides, pending |-> <<>>]

GnuCarrierAgrees(src, e, at) ==
    LET w == src[at]
    IN  /\ w.h.size \in 2..MAX_CARRIER_PAYLOAD_BYTES
        /\ AlignedRecord(e.tar, at, w.h.size, MaxU64)
        /\ e.raw_name = w.h.name /\ e.tar.digest = w.h /\ e.payload = w.body
        /\ w.body.k = "data" /\ w.body.used + 1 = w.h.size
        /\ Len(w.body.items) = 1
        /\ ~Holds(w.body.items[1].value, "nul") /\ ~Holds(w.body.items[1].value, "notutf8")
        /\ e.records = w.body.items
        /\ Zeroed(src, at, w.h.size)

\* A directory's canonical path must be its decoded name less one slash; an
\* archive root has no components and the empty path.
GnuNormalization(m) ==
    LET slash == Len(m.name) > 1 /\ Last(m.name) = ""
        canonical_path == IF m.components = <<>> THEN <<"">> ELSE m.components
    IN  IF m.is_dir
        THEN /\ m.strip = slash
             /\ canonical_path = IF slash THEN Front(m.name) ELSE m.name
        ELSE ~m.strip

\* Mutant: the source of the path is not compared.
GnuMemberAnySource(src, ir, m, pending, at) ==
    LET w == src[at]
        named == IF pending = <<>> THEN w.h.name
                 ELSE ir.extensions[pending[1] + 1].records[1].value
    IN  /\ m.is_dir = (w.h.type = "dir") /\ m.size = w.h.size
        /\ m.raw_name = w.h.name /\ m.tar.digest = w.h
        /\ AlignedRecord(m.tar, at, w.h.size, MaxU64)
        /\ m.name = named /\ GnuNormalization(m)
        /\ Zeroed(src, at, w.h.size)

GnuMemberAgrees(src, ir, m, pending, at) ==
    LET w == src[at]
        named == IF pending = <<>> THEN w.h.name
                 ELSE ir.extensions[pending[1] + 1].records[1].value
    IN  /\ m.is_dir = (w.h.type = "dir") /\ m.size = w.h.size
        /\ m.raw_name = w.h.name /\ m.tar.digest = w.h
        /\ AlignedRecord(m.tar, at, w.h.size, MaxU64)
        /\ m.path_source = (IF pending = <<>> THEN FromHeader
                            ELSE [kind |-> "Carrier", extension |-> pending[1], record |-> 1])
        /\ pending = <<>> => ~Holds(w.h.name, "notutf8")
        /\ m.name = named
        /\ GnuNormalization(m)
        /\ Zeroed(src, at, w.h.size)

\* One turn of the GNU audit, which walks the source, not the evidence.
GnuAuditTurn(src, ir, a) ==
    LET end == End(ir.covering.member_records)
        w == src[a.at]
        next == a.at + BLOCK_LEN + round_up_block(w.h.size)
        carrier == w.h.type = "L"
    IN  CASE ~a.ok \/ a.at >= end -> a
          [] a.ok /\ a.at < end /\ (a.at \notin DOMAIN src \/ ~audit_gnu_header(w.h))
                -> [a EXCEPT !.ok = FALSE]
          [] OTHER ->
               [a EXCEPT
                  !.ok = /\ next <= end
                         /\ IF carrier
                            THEN /\ a.pending = <<>> /\ a.ext < Len(ir.extensions)
                                 /\ GnuCarrierAgrees(src, ir.extensions[a.ext + 1], a.at)
                            ELSE /\ a.mem < Len(ir.members)
                                 /\ GnuMemberAgrees(src, ir, ir.members[a.mem + 1], a.pending, a.at),
                  !.at = next,
                  !.ext = IF carrier THEN @ + 1 ELSE @,
                  !.mem = IF carrier THEN @ ELSE @ + 1,
                  !.pending = IF carrier THEN <<a.ext>> ELSE <<>>]

\* Both tables are consumed exactly and nothing is left pending.
Replay(src, ir) ==
    LET n == Len(ir.extensions) + Len(ir.members)
        Turn(x) == IF ir.dialect = "pax" THEN PaxAuditTurn(src, ir, x) ELSE GnuAuditTurn(src, ir, x)
        a == FoldLeft(LAMBDA x, i : Turn(x), NewAudit, [i \in 1..(n + 1) |-> i])
    IN  /\ a.ok
        /\ a.at = End(ir.covering.member_records)
        /\ a.ext = Len(ir.extensions) /\ a.mem = Len(ir.members)
        /\ a.pending = <<>>

audit_tar_pax_covering(src, len, ir) ==
    /\ Len(ir.extensions) <= MAX_EXTENSIONS
    /\ PartitionsSnapshot(ir.covering, len) /\ len % BLOCK_LEN = 0
    /\ Replay(src, ir)
    /\ ZeroTail(src, ir.covering)

audit_tar_gnu_longname_covering(src, len, ir) ==
    /\ Len(ir.extensions) <= MAX_CARRIERS
    /\ PartitionsSnapshot(ir.covering, len)
    /\ Replay(src, ir)
    /\ ZeroTail(src, ir.covering)

AuditTar(src, len, ir) ==
    CASE ir.dialect = "ustar" -> audit_tar_covering(src, len, ir)
      [] ir.dialect = "pax"   -> audit_tar_pax_covering(src, len, ir)
      [] ir.dialect = "gnu"   -> audit_tar_gnu_longname_covering(src, len, ir)

================================================================================
