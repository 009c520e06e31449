---------------------------- MODULE AdmissionProofs ----------------------------
(***************************************************************************)
(* First, the TAR readers (ustar, portable pax, old GNU) give a member the *)
(* name and the size its extensions assign to it, for every archive and    *)
(* every sequence of windows.  TurnReads says what one turn of a reader's  *)
(* loop can do to a scan: stop, read an extension, or read a member under  *)
(* its resolved name and size.                                             *)
(*                                                                         *)
(* ScanInv relates the overrides a reader carries to the extensions it has *)
(* read: the pending ones are those of the extension that ends where the   *)
(* next header begins, the global ones those of the last global extension  *)
(* that names the field. With it each member, when it is pushed, gets the  *)
(* value the precedence of the formats gives it, and no later extension    *)
(* changes that, because it starts after the member.                       *)
(*                                                                         *)
(* Then, the admitted paths of every ready plan form one tree.  The        *)
(* topology check of one member is a formula about the members admitted    *)
(* before it (Clear); the loop over the members is a fold, which           *)
(* FoldTheorems turns into a run of the planner; and the planner meets     *)
(* only members its reader has named, which is an invariant of the TAR and *)
(* ZIP readers and of the 7z reader's two folds over its header.           *)
(*                                                                         *)
(* And the archive in a compressed stream stays within the budgets: each   *)
(* of the four decoders accepts a stream only after its wrapper is paid    *)
(* for (Paid), and the TAR reader charges only what the wrapper left.      *)
(***************************************************************************)
EXTENDS Interpretation, FiniteSetTheorems, WellFoundedInduction, TLAPS

-----------------------------------------------------------------------------
(***************************************************************************)
(* Numbers, sequences and the choices of the readers                       *)
(***************************************************************************)
\* The padded length of a payload is a number (round_up_block).
LEMMA RoundUpNat ==
    ASSUME NEW n \in Nat PROVE round_up_block(n) \in Nat
<1>1. BLOCK_LEN \in Nat /\ BLOCK_LEN > 0
  BY BlockAssumption
<1> DEFINE q == (n + BLOCK_LEN - 1) \div BLOCK_LEN
<1>2. q \in Nat
  BY <1>1
<1>3. q * BLOCK_LEN \in Nat
  <2> HIDE DEF q
  <2> QED BY <1>1, <1>2
<1> QED BY <1>3 DEF round_up_block

\* A nonempty set of naturals has the least element that Min chooses.
LEMMA MinOf ==
    ASSUME NEW S, S \subseteq Nat, S # {}
    PROVE Min(S) \in S /\ \A y \in S : Min(S) <= y
<1>1. PICK x \in S : \A y \in S : ~ (<<y, x>> \in OpToRel(<, Nat))
  BY WFMin, NatLessThanWellFounded
<1>2. ASSUME NEW y \in S, y < x PROVE FALSE
  <2>1. <<y, x>> \in Nat \X Nat /\ <<y, x>>[1] < <<y, x>>[2]
    BY <1>2
  <2>2. <<y, x>> \in OpToRel(<, Nat)
    BY <2>1, Zenon DEF OpToRel
  <2> QED BY <1>1, <2>2
<1>3. \A y \in S : x <= y
  BY <1>2
<1> QED BY <1>3 DEF Min

\* The greatest element of a set is the one that Max chooses.
LEMMA MaxIs ==
    ASSUME NEW S, S \subseteq Nat, NEW x \in S, \A y \in S : y <= x
    PROVE Max(S) = x
<1>1. \A y \in S : x >= y
  OBVIOUS
<1>2. Max(S) \in S /\ \A y \in S : Max(S) >= y
  BY <1>1, Zenon DEF Max
<1>3. Max(S) \in Nat /\ x \in Nat /\ Max(S) >= x /\ Max(S) <= x
  BY <1>2
<1> QED BY <1>3

\* A nonempty set of positions below a bound has a greatest element.
LEMMA MaxOf ==
    ASSUME NEW n \in Nat, NEW S, S \subseteq 1..n, S # {}
    PROVE Max(S) \in S /\ \A y \in S : y <= Max(S)
<1> DEFINE T == {n - i : i \in S}
<1>1. T \subseteq Nat /\ T # {}
  <2>1. \A i \in S : n - i \in Nat
    OBVIOUS
  <2>2. PICK i \in S : TRUE
    OBVIOUS
  <2>3. n - i \in T
    OBVIOUS
  <2> QED BY <2>1, <2>3
<1>2. Min(T) \in T /\ \A y \in T : Min(T) <= y
  BY <1>1, MinOf
<1>3. PICK x \in S : Min(T) = n - x
  BY <1>2
<1>4. ASSUME NEW y \in S PROVE y <= x
  <2>1. n - y \in T
    OBVIOUS
  <2>2. n - x <= n - y
    BY <1>2, <1>3, <2>1
  <2> QED BY <2>2
<1>5. Max(S) = x
  <2>1. S \subseteq Nat
    OBVIOUS
  <2> QED BY <1>4, <2>1, MaxIs
<1> QED BY <1>4, <1>5

IsASeq(x) == \E S : x \in Seq(S)

\* What a sequence becomes when a record is appended to it.
LEMMA AppendIs ==
    ASSUME NEW x, IsASeq(x), NEW e
    PROVE /\ IsASeq(Append(x, e))
          /\ Len(x) \in Nat /\ DOMAIN x = 1..Len(x)
          /\ Len(Append(x, e)) = Len(x) + 1
          /\ DOMAIN Append(x, e) = 1..(Len(x) + 1)
          /\ \A i \in 1..Len(x) : Append(x, e)[i] = x[i]
          /\ Append(x, e)[Len(x) + 1] = e
          /\ Range(Append(x, e)) = Range(x) \cup {e}
<1>1. PICK S : x \in Seq(S)
  BY DEF IsASeq
<1>2. x \in Seq(S \cup {e})
  BY <1>1
<1>3. Append(x, e) \in Seq(S \cup {e})
  BY <1>2
<1>4. /\ Len(x) \in Nat /\ DOMAIN x = 1..Len(x)
      /\ Len(Append(x, e)) = Len(x) + 1
      /\ DOMAIN Append(x, e) = 1..(Len(x) + 1)
      /\ \A i \in 1..Len(x) : Append(x, e)[i] = x[i]
      /\ Append(x, e)[Len(x) + 1] = e
  BY <1>2, <1>3
<1>5. Range(Append(x, e)) = Range(x) \cup {e}
  BY <1>4 DEF Range
<1> QED BY <1>3, <1>4, <1>5 DEF IsASeq

\* A sequence without its last item is a sequence.
LEMMA FrontIsASeq ==
    ASSUME NEW x, IsASeq(x) PROVE IsASeq(Front(x))
<1>1. PICK S : x \in Seq(S)
  BY DEF IsASeq
<1>2. Front(x) \in Seq(S)
  BY <1>1 DEF Front
<1> QED BY <1>2 DEF IsASeq

\* No two records have the same keyword.
DistinctKeys(r) == \A i, k \in DOMAIN r : r[i].key = r[k].key => i = k

\* parse_records refuses a repeated keyword: what it accepts is a sequence of
\* records whose keywords differ.
LEMMA RecordsRead ==
    ASSUME NEW last, NEW size, last.k = "data" => IsASeq(last.items),
           parse_records(last, size).finding = None
    PROVE LET r == parse_records(last, size).records
          IN  /\ last.k = "data" /\ r = last.items /\ IsASeq(r) /\ DistinctKeys(r)
              /\ \A i \in DOMAIN r : r[i].key # "path" => r[i].value # NonCanonical
<1> DEFINE syntax == [key |-> "syntax", value |-> <<>>]
           seen == IF last.k # "data" THEN <<syntax>>
                   ELSE IF size < last.used THEN Append(Front(last.items), syntax)
                   ELSE IF size > last.used THEN Append(last.items, syntax)
                   ELSE last.items
           hits == {i \in DOMAIN seen : PaxRecordFinding(seen, i) # None}
           read == /\ last.k = "data" /\ seen = last.items
<1>1. IsASeq(seen) /\ (~read => \E i \in DOMAIN seen : seen[i] = syntax)
  <2>1. CASE last.k # "data"
    <3>1. seen = <<syntax>>
      BY <2>1
    <3> HIDE DEF seen, syntax
    <3>2. seen \in Seq({syntax}) /\ 1 \in DOMAIN seen /\ seen[1] = syntax
      BY <3>1
    <3>3. IsASeq(seen)
      BY <3>2 DEF IsASeq
    <3> QED BY <3>2, <3>3
  <2>2. CASE last.k = "data" /\ size < last.used
    <3>1. seen = Append(Front(last.items), syntax)
      BY <2>2
    <3> HIDE DEF seen, syntax
    <3> QED BY <2>2, <3>1, FrontIsASeq, AppendIs
  <2>3. CASE last.k = "data" /\ ~(size < last.used) /\ size > last.used
    <3>1. seen = Append(last.items, syntax)
      BY <2>3
    <3> HIDE DEF seen, syntax
    <3> QED BY <2>3, <3>1, AppendIs
  <2>4. CASE last.k = "data" /\ ~(size < last.used) /\ ~(size > last.used)
    BY <2>4
  <2> QED BY <2>1, <2>2, <2>3, <2>4
<1>2. /\ parse_records(last, size).finding
            = IF size = 0 THEN "TarPaxRecord"
              ELSE IF hits # {} THEN PaxRecordFinding(seen, Min(hits)) ELSE None
      /\ parse_records(last, size).finding = None => parse_records(last, size).records = seen
  BY DEF parse_records
<1> HIDE DEF seen
<1>3. Len(seen) \in Nat /\ DOMAIN seen = 1..Len(seen)
  BY <1>1, AppendIs
<1>4. hits = {}
  <2> SUFFICES ASSUME hits # {} PROVE FALSE
    OBVIOUS
  <2>1. Min(hits) \in hits
    BY <1>3, MinOf
  <2> QED BY <1>2, <2>1 DEF None
<1>5. \A i \in DOMAIN seen : PaxRecordFinding(seen, i) = None
  BY <1>4
<1>6. ASSUME NEW i \in DOMAIN seen
      PROVE /\ seen[i].key # "syntax"
            /\ \A j \in 1..(i - 1) : seen[j].key # seen[i].key
            /\ seen[i].key # "path" => seen[i].value # NonCanonical
  BY <1>5 DEF PaxRecordFinding, None
<1>7. read
  BY <1>1, <1>6
<1>8. DistinctKeys(seen)
  <2> SUFFICES ASSUME NEW i \in DOMAIN seen, NEW k \in DOMAIN seen, i < k
               PROVE seen[i].key # seen[k].key
    BY <1>3 DEF DistinctKeys
  <2>1. i \in 1..(k - 1)
    BY <1>3
  <2> QED BY <2>1, <1>6
<1> QED BY <1>1, <1>2, <1>6, <1>7, <1>8

Dialects == {"ustar", "pax", "gnu"}

\* A chain of header checks that finds nothing met none of the flaws it tests.
LEMMA FirstFindingNone ==
    ASSUME NEW order, NEW flaws, IsASeq(order), \A i \in DOMAIN order : order[i][2] # None,
           FirstFinding(order, flaws) = None
    PROVE \A i \in DOMAIN order : order[i][1] \notin flaws
<1> DEFINE hits == {i \in DOMAIN order : order[i][1] \in flaws}
<1> SUFFICES ASSUME hits # {} PROVE FALSE
  OBVIOUS
<1>1. hits \subseteq Nat
  BY AppendIs
<1>2. Min(hits) \in hits
  BY <1>1, MinOf
<1>3. FirstFinding(order, flaws) = order[Min(hits)][2]
  BY DEF FirstFinding
<1> QED BY <1>2, <1>3

\* A check of a header: the flaw and the finding it gives.
Check == {"magic", "checksum", "feature", "type", "reserved", "linkname", "base256", "digits",
          "size256", "sizedigits", "device", "owner", "text", "utf8", "dirsize"}
         \X {"TarDialect", "TarChecksum", "TarFeatureUnsupported", "TarType", "TarNumeric",
             "PathUnicode"}

\* A reader that finds nothing wrong with a block read a header.
LEMMA HeaderIsHeader ==
    ASSUME NEW h, NEW d \in Dialects, h.k \in {"zero", "header", "data"}, h.k # "zero",
           parse_header(h, d) = None
    PROVE h.k = "header"
<1>1. /\ <<"magic", "TarDialect">> \in Check
      /\ <<"checksum", "TarChecksum">> \in Check
      /\ <<"feature", "TarFeatureUnsupported">> \in Check
      /\ <<"type", "TarType">> \in Check
      /\ <<"reserved", "TarDialect">> \in Check
      /\ <<"linkname", "TarType">> \in Check
      /\ <<"device", "TarType">> \in Check
      /\ <<"owner", "TarDialect">> \in Check
      /\ <<"text", "TarDialect">> \in Check
      /\ <<"utf8", "PathUnicode">> \in Check
      /\ <<"dirsize", "TarType">> \in Check
      /\ <<"base256", "TarFeatureUnsupported">> \in Check
      /\ <<"digits", "TarNumeric">> \in Check
      /\ <<"size256", "TarFeatureUnsupported">> \in Check
      /\ <<"sizedigits", "TarNumeric">> \in Check
  BY DEF Check
<1>1a. NumericChecks \in Seq(Check)
  <2>1. /\ parse_octal("base256") = "TarFeatureUnsupported" /\ parse_octal("digits") = "TarNumeric"
        /\ parse_octal("size256") = "TarFeatureUnsupported"
        /\ parse_octal("sizedigits") = "TarNumeric"
    BY DEF parse_octal
  <2> QED BY <1>1, <2>1 DEF NumericChecks
<1>2. ASSUME NEW a \in Seq(Check), NEW c \in Seq(Check), 1 \in DOMAIN a, a[1][1] = "magic",
             FirstFinding(a \o NumericChecks \o c, Flaws(h, d)) = None
      PROVE h.k = "header"
  <2> DEFINE order == a \o NumericChecks \o c
  <2>2. order \in Seq(Check) /\ 1 \in DOMAIN order /\ order[1][1] = "magic"
    BY <1>1a, <1>2
  <2>6. FirstFinding(order, Flaws(h, d)) = None
    BY <1>2
  <2> HIDE DEF order
  <2>3. \A i \in DOMAIN order : order[i][2] # None
    <3>1. \A i \in DOMAIN order : order[i] \in Check
      BY <2>2
    <3>2. \A p \in Check : p[2] # None
      BY DEF Check, None
    <3> QED BY <3>1, <3>2
  <2>4. IsASeq(order)
    BY <2>2 DEF IsASeq
  <2>5. "magic" \notin Flaws(h, d)
    <3>1. \A i \in DOMAIN order : order[i][1] \notin Flaws(h, d)
      BY <2>3, <2>4, <2>6, FirstFindingNone
    <3> QED BY <2>2, <3>1
  <2> QED BY <2>5 DEF Flaws
<1>3. CASE d = "ustar"
  <2> DEFINE a == << <<"magic", "TarDialect">>, <<"checksum", "TarChecksum">>,
                     <<"feature", "TarFeatureUnsupported">>, <<"type", "TarType">>,
                     <<"reserved", "TarDialect">>, <<"linkname", "TarType">> >>
             c == << <<"device", "TarType">>, <<"owner", "TarDialect">>,
                     <<"text", "TarDialect">>, <<"utf8", "PathUnicode">>,
                     <<"dirsize", "TarType">> >>
  <2>1. a \in Seq(Check) /\ c \in Seq(Check) /\ 1 \in DOMAIN a /\ a[1][1] = "magic"
    BY <1>1
  <2>2. parse_header(h, d) = FirstFinding(a \o NumericChecks \o c, Flaws(h, d))
    BY <1>3 DEF parse_header, UstarHeaderFinding
  <2> HIDE DEF a, c
  <2> QED BY <2>1, <2>2, <1>2
<1>4. CASE d = "pax"
  <2> DEFINE a == << <<"magic", "TarDialect">>, <<"checksum", "TarChecksum">>,
                     <<"feature", "TarFeatureUnsupported">>, <<"type", "TarType">>,
                     <<"reserved", "TarDialect">>, <<"linkname", "TarType">> >>
             c == << <<"dirsize", "TarType">>, <<"device", "TarType">>,
                     <<"owner", "TarDialect">>, <<"text", "TarDialect">> >>
  <2>1. a \in Seq(Check) /\ c \in Seq(Check) /\ 1 \in DOMAIN a /\ a[1][1] = "magic"
    BY <1>1
  <2>2. parse_header(h, d) = FirstFinding(a \o NumericChecks \o c, Flaws(h, d))
    BY <1>4 DEF parse_header, PaxHeaderFinding
  <2> HIDE DEF a, c
  <2> QED BY <2>1, <2>2, <1>2
<1>5. CASE d = "gnu"
  <2> DEFINE a == << <<"magic", "TarDialect">>, <<"checksum", "TarChecksum">>,
                     <<"feature", "TarFeatureUnsupported">>, <<"type", "TarType">>,
                     <<"linkname", "TarType">>, <<"reserved", "TarDialect">> >>
             c == << <<"dirsize", "TarType">>, <<"device", "TarType">>,
                     <<"owner", "TarDialect">>, <<"text", "TarDialect">> >>
  <2>1. a \in Seq(Check) /\ c \in Seq(Check) /\ 1 \in DOMAIN a /\ a[1][1] = "magic"
    BY <1>1
  <2>2. parse_header(h, d) = FirstFinding(a \o NumericChecks \o c, Flaws(h, d))
    BY <1>5 DEF parse_header, GnuHeaderFinding
  <2> HIDE DEF a, c
  <2> QED BY <2>1, <2>2, <1>2
<1> QED BY <1>3, <1>4, <1>5 DEF Dialects

-----------------------------------------------------------------------------
(***************************************************************************)
(* What one turn of a reader does to a scan                                *)
(***************************************************************************)
\* A scan has the fields of NewScan.
ScanFields == {"dialect", "len", "maxFiles", "maxMetadata", "offset", "members", "extensions",
               "globals", "pending", "metadata", "covering", "verdict"}
IsScan(s) == s = [x \in ScanFields |-> s[x]]

\* What no turn changes.
SameArchive(s, t) ==
    /\ t.dialect = s.dialect /\ t.len = s.len
    /\ t.maxFiles = s.maxFiles /\ t.maxMetadata = s.maxMetadata

\* A turn charges nothing, or what still fits the budget.
Charged(s, t) ==
    \/ t.metadata = s.metadata
    \/ \E a \in Nat : t.metadata = s.metadata + a /\ ~(s.metadata + a > s.maxMetadata)

SameRecords(s, t) ==
    /\ t.offset = s.offset /\ t.members = s.members /\ t.extensions = s.extensions
    /\ t.globals = s.globals /\ t.pending = s.pending

\* A turn that finds nothing: the archive ends or is refused.
Stops(s, t) == IsScan(t) /\ SameArchive(s, t) /\ Charged(s, t) /\ SameRecords(s, t)

\* A refusal leaves what was read as it is.
LEMMA RejectStops ==
    ASSUME NEW s, IsScan(s), NEW f PROVE Stops(s, Reject(s, f))
BY DEF IsScan, ScanFields, Stops, SameArchive, Charged, SameRecords, Reject

\* add_metadata charges what fits the budget or refuses, and reads nothing.
LEMMA ChargeStops ==
    ASSUME NEW s, IsScan(s), NEW a \in Nat
    PROVE Stops(s, add_metadata(s, a))
BY RejectStops DEF IsScan, ScanFields, Stops, SameArchive, Charged, SameRecords, add_metadata

\* So does the charge of a member.
LEMMA ChargeMemberStops ==
    ASSUME NEW s, IsScan(s) PROVE Stops(s, ChargeMember(s))
BY RejectStops, ChargeStops, BlockAssumption DEF ChargeMember

\* The two zero blocks, good or bad, add no member and no extension.
LEMMA TerminatorStops ==
    ASSUME NEW s, IsScan(s), NEW w PROVE Stops(s, Terminator(s, w))
<1>1. 2 * BLOCK_LEN \in Nat
  BY BlockAssumption
<1>2. Stops(s, add_metadata(s, 2 * BLOCK_LEN))
  BY <1>1, ChargeStops
<1> DEFINE charged == add_metadata(s, 2 * BLOCK_LEN)
<1>3. ASSUME NEW c PROVE Stops(s, [charged EXCEPT !.verdict = "accepted", !.covering = c])
  <2> HIDE DEF charged
  <2>1. Stops(s, charged)
    BY <1>2 DEF charged
  <2> DEFINE t == [charged EXCEPT !.verdict = "accepted", !.covering = c]
  <2>2. /\ IsScan(t) /\ SameArchive(charged, t) /\ SameRecords(charged, t)
        /\ t.metadata = charged.metadata
    <3>1. IsScan(charged)
      BY <2>1 DEF Stops
    <3>2. SameArchive(charged, t) /\ SameRecords(charged, t) /\ t.metadata = charged.metadata
      BY <3>1 DEF IsScan, ScanFields, SameArchive, SameRecords
    <3>3. IsScan(t)
      BY <3>1 DEF IsScan, ScanFields
    <3> QED BY <3>2, <3>3
  <2> HIDE DEF t
  <2>3. Stops(s, t)
    BY <2>1, <2>2 DEF Stops, SameArchive, Charged, SameRecords
  <2> QED BY <2>3 DEF t
<1> QED BY <1>2, <1>3, RejectStops DEF Terminator

\* A turn that records nothing; a scan that is over may have dropped its
\* pending overrides.
Keeps(s, t) ==
    /\ IsScan(t) /\ SameArchive(s, t) /\ Charged(s, t)
    /\ t.offset = s.offset /\ t.members = s.members /\ t.extensions = s.extensions
    /\ Running(t) => t.globals = s.globals /\ t.pending = s.pending

\* What the planners need of a member: the fields they set and read.
IsMember(m) == m = [x \in DOMAIN m |-> m[x]] /\ {"is_dir", "components"} \subseteq DOMAIN m

\* A turn that reads an ordinary member named name, of the given size.
ReadsMember(s, t, w, name, size) ==
    /\ IsScan(t) /\ SameArchive(s, t) /\ Charged(s, t)
    /\ t.extensions = s.extensions /\ t.globals = s.globals /\ t.pending = <<>>
    /\ t.offset \in Nat /\ t.offset > s.offset
    /\ \E m : /\ t.members = Append(s.members, m) /\ IsMember(m)
             /\ m.tar.header.offset = s.offset /\ m.raw_name = w.h.name
             /\ m.base_size = w.h.size /\ m.name = name /\ m.size = size

\* A member that is pushed is recorded at the offset of its header, under the
\* given name and size, and the reader moves past it.
LEMMA PushReads ==
    ASSUME NEW s, s.offset \in Nat, NEW c, Stops(s, c), NEW w, NEW size \in Nat, NEW name,
           NEW pathFrom, NEW sizeFrom, NEW t,
           t = PushMember([c EXCEPT !.pending = <<>>], w, size, name, pathFrom, sizeFrom)
    PROVE Keeps(s, t) \/ ReadsMember(s, t, w, name, size)
<1> DEFINE u == [c EXCEPT !.pending = <<>>]
<1>1. IsScan(c) /\ SameArchive(s, c) /\ Charged(s, c) /\ SameRecords(s, c)
  BY DEF Stops
<1>2. IsScan(u)
  BY <1>1 DEF IsScan, ScanFields
<1>3. /\ u.dialect = c.dialect /\ u.len = c.len /\ u.maxFiles = c.maxFiles
      /\ u.maxMetadata = c.maxMetadata /\ u.metadata = c.metadata
      /\ u.offset = c.offset /\ u.members = c.members /\ u.extensions = c.extensions
      /\ u.globals = c.globals /\ u.pending = <<>>
  BY <1>1 DEF IsScan, ScanFields
<1> DEFINE m == [tar |-> Record(u, w, size), raw_name |-> w.h.name,
                 name |-> name, base_size |-> w.h.size, size |-> size,
                 is_dir |-> w.h.type = "dir", components |-> <<>>,
                 strip |-> FALSE, content |-> Content(w, size),
                 path_source |-> pathFrom, size_source |-> sizeFrom]
           next == u.offset + BLOCK_LEN + round_up_block(size)
<1>4. \/ t = Reject(u, "TarTruncated") \/ t = Reject(u, "TarPadding")
      \/ t = [u EXCEPT !.members = Append(@, m), !.offset = next]
  BY DEF PushMember
<1>5. m.tar.header.offset = s.offset /\ m.raw_name = w.h.name
      /\ m.base_size = w.h.size /\ m.name = name /\ m.size = size
  BY <1>1, <1>3 DEF Record, Range2, SameRecords
<1>5a. IsMember(m)
  BY DEF IsMember
<1>6. next \in Nat /\ next > s.offset
  BY <1>1, <1>3, RoundUpNat, BlockAssumption DEF SameRecords
<1> HIDE DEF u, m, next
<1>7. CASE \E f \in {"TarTruncated", "TarPadding"} : t = Reject(u, f)
  <2>1. PICK f \in {"TarTruncated", "TarPadding"} : t = Reject(u, f)
    BY <1>7
  <2>2. Stops(u, t) /\ t.verdict = f
    <3>1. Stops(u, t)
      BY <2>1, <1>2, RejectStops
    <3>2. t.verdict = f
      BY <2>1, <1>2 DEF Reject, IsScan, ScanFields
    <3> QED BY <3>1, <3>2
  <2>3. ~Running(t)
    BY <2>1, <2>2 DEF Running
  <2>4. t.metadata = u.metadata
    BY <2>1, <1>2 DEF Reject, IsScan, ScanFields
  <2> QED BY <1>1, <1>3, <2>2, <2>3, <2>4 DEF Stops, Keeps, SameArchive, Charged, SameRecords
<1>8. CASE t = [u EXCEPT !.members = Append(@, m), !.offset = next]
  <2>1. IsScan(t)
    BY <1>8, <1>2 DEF IsScan, ScanFields
  <2>2. /\ t.dialect = u.dialect /\ t.len = u.len /\ t.maxFiles = u.maxFiles
        /\ t.maxMetadata = u.maxMetadata /\ t.metadata = u.metadata
        /\ t.offset = next /\ t.members = Append(u.members, m) /\ t.extensions = u.extensions
        /\ t.globals = u.globals /\ t.pending = u.pending
    BY <1>8, <1>2 DEF IsScan, ScanFields
  <2>3. t.members = Append(s.members, m)
    BY <2>2, <1>1, <1>3 DEF SameRecords
  <2> QED BY <1>1, <1>3, <1>5, <1>5a, <1>6, <2>1, <2>2, <2>3
          DEF ReadsMember, SameArchive, Charged, SameRecords
<1> QED BY <1>4, <1>7, <1>8

\* A turn that reads an extension: x is what it records of it, and the
\* globals and the pending overrides follow from its records.
ReadsExtension(s, t, x) ==
    /\ IsScan(t) /\ SameArchive(s, t) /\ Charged(s, t)
    /\ t.members = s.members /\ t.extensions = Append(s.extensions, x) /\ s.pending = <<>>
    /\ t.offset \in Nat /\ t.offset > s.offset
    /\ x.tar.header.offset = s.offset /\ End(x.tar.padding) = t.offset
    /\ IsASeq(x.records) /\ DistinctKeys(x.records)
    /\ \A v \in ValuesIn(x, "path") : IsName(v)

ReadsPax(s, t, x) ==
    /\ ReadsExtension(s, t, x)
    /\ \A i \in DOMAIN x.records : x.records[i].key = "size" => x.records[i].value \in Nat
    /\ \/ /\ x.kind = "Global" /\ t.pending = <<>>
          /\ t.globals = update_from(s.globals,
                                     OverridesFrom("Global", x.records, Len(s.extensions)))
       \/ /\ x.kind = "Local" /\ t.globals = s.globals
          /\ t.pending = <<OverridesFrom("Local", x.records, Len(s.extensions))>>

ReadsCarrier(s, t, x) ==
    /\ ReadsExtension(s, t, x)
    /\ x.kind = "Carrier" /\ DOMAIN x.records = {1} /\ x.records[1].key = "path"
    /\ t.globals = s.globals
    /\ \E from : t.pending = << [value |-> x.records[1].value, from |-> from] >>

\* The size a header declares is a number, and so is its padded length.
LEMMA WindowSize ==
    ASSUME NEW d, NEW w, IsWindow(d, w), w.h.k = "header"
    PROVE /\ w.h.size \in Nat /\ round_up_block(w.h.size) \in Nat
          /\ BLOCK_LEN \in Nat /\ BLOCK_LEN > 0
<1>1. w.h.size \in 0..MaxU64
  BY DEF IsWindow
<1> DEFINE size == w.h.size
<1> HIDE DEF size
<1>2. size \in Nat
  BY <1>1, WidthAssumption DEF size
<1>3. round_up_block(size) \in Nat
  BY <1>2, RoundUpNat
<1> QED BY <1>2, <1>3, BlockAssumption DEF size

\* A pax header is refused or read: it sets the globals, or it is pending.
LEMMA PaxExtensionReads ==
    ASSUME NEW s, IsScan(s), s.offset \in Nat, NEW w, IsWindow("pax", w), w.h.k = "header"
    PROVE Keeps(s, PaxExtension(s, w)) \/ \E x : ReadsPax(s, PaxExtension(s, w), x)
<1> DEFINE size == w.h.size
           charged == add_metadata(s, BLOCK_LEN + round_up_block(size))
           parsed == parse_records(w.body, size)
           kind == IF w.h.type = "g" THEN "Global" ELSE "Local"
           update == OverridesFrom(kind, parsed.records, Len(s.extensions))
           x == [kind |-> kind, tar |-> Record(s, w, size), raw_name |-> w.h.name,
                 payload |-> w.body, records |-> parsed.records]
           globals == IF kind = "Global" THEN update_from(charged.globals, update)
                      ELSE charged.globals
           pending == IF kind = "Local" THEN <<update>> ELSE charged.pending
           next == s.offset + BLOCK_LEN + round_up_block(size)
           t == PaxExtension(s, w)
<1>1. size \in Nat /\ round_up_block(size) \in Nat /\ BLOCK_LEN \in Nat /\ BLOCK_LEN > 0
  BY WindowSize
<1>2. Stops(s, charged)
  BY <1>1, ChargeStops
<1>3. \/ \E f : t = Reject(s, f)
      \/ t = charged
      \/ /\ s.pending = <<>> /\ parsed.finding = None
         /\ t = [charged EXCEPT !.extensions = Append(@, x), !.globals = globals,
                                !.pending = pending, !.offset = next]
  BY DEF PaxExtension
<1>4. CASE \E f : t = Reject(s, f)
  BY <1>4, RejectStops DEF Stops, Keeps, SameRecords
<1>5. CASE t = charged
  BY <1>2, <1>5 DEF Stops, Keeps, SameRecords
<1>6. CASE /\ s.pending = <<>> /\ parsed.finding = None
           /\ t = [charged EXCEPT !.extensions = Append(@, x), !.globals = globals,
                                  !.pending = pending, !.offset = next]
  <2>1. w.body.k = "data" => IsASeq(w.body.items)
    BY DEF IsWindow, IsASeq
  <2>2. /\ w.body.k = "data" /\ parsed.records = w.body.items
        /\ IsASeq(parsed.records) /\ DistinctKeys(parsed.records)
        /\ \A i \in DOMAIN parsed.records :
              parsed.records[i].key # "path" => parsed.records[i].value # NonCanonical
    BY <1>6, <2>1, RecordsRead
  <2>3. \A i \in DOMAIN parsed.records :
          parsed.records[i].key = "size" => parsed.records[i].value \in Nat
    BY <2>2 DEF IsWindow
  <2>4. /\ next \in Nat /\ next > s.offset
        /\ x.tar.header.offset = s.offset /\ End(x.tar.padding) = next
        /\ x.records = parsed.records /\ x.kind = kind
    BY <1>1 DEF Record, Range2, End
  <2>4a. \A v \in ValuesIn(x, "path") : IsName(v)
    BY <2>2, <2>4 DEF IsWindow, ValuesIn
  <2> HIDE DEF x, charged, parsed, next, globals, pending, t
  <2>5. IsScan(charged) /\ SameArchive(s, charged) /\ Charged(s, charged)
        /\ SameRecords(s, charged)
    BY <1>2 DEF Stops
  <2>6. IsScan(t)
    BY <1>6, <2>5 DEF IsScan, ScanFields
  <2>7. /\ t.dialect = charged.dialect /\ t.len = charged.len
        /\ t.maxFiles = charged.maxFiles /\ t.maxMetadata = charged.maxMetadata
        /\ t.metadata = charged.metadata /\ t.offset = next /\ t.members = charged.members
        /\ t.extensions = Append(charged.extensions, x)
        /\ t.globals = globals /\ t.pending = pending
    BY <1>6, <2>5 DEF IsScan, ScanFields
  <2>8. ReadsExtension(s, t, x)
    BY <1>6, <2>2, <2>4, <2>4a, <2>5, <2>6, <2>7
       DEF ReadsExtension, SameArchive, Charged, SameRecords
  <2>9. ReadsPax(s, t, x)
    BY <1>6, <2>3, <2>4, <2>5, <2>7, <2>8 DEF ReadsPax, globals, pending, SameRecords
  <2> QED BY <2>9 DEF t
<1> QED BY <1>3, <1>4, <1>5, <1>6

\* A long-name carrier is refused or read: its one name is pending.
LEMMA GnuCarrierReads ==
    ASSUME NEW s, IsScan(s), s.offset \in Nat, NEW w, IsWindow("gnu", w), w.h.k = "header"
    PROVE Keeps(s, GnuCarrier(s, w)) \/ \E x : ReadsCarrier(s, GnuCarrier(s, w), x)
<1> DEFINE size == w.h.size
           charged == add_metadata(s, BLOCK_LEN + round_up_block(size))
           x == [kind |-> "Carrier", tar |-> Record(s, w, size), raw_name |-> w.h.name,
                 payload |-> w.body, records |-> w.body.items]
           from == [kind |-> "Carrier", extension |-> Len(s.extensions), record |-> 1]
           pending == << [value |-> w.body.items[1].value, from |-> from] >>
           next == s.offset + BLOCK_LEN + round_up_block(size)
           t == GnuCarrier(s, w)
<1>1. size \in Nat /\ round_up_block(size) \in Nat /\ BLOCK_LEN \in Nat /\ BLOCK_LEN > 0
  BY WindowSize
<1>2. Stops(s, charged)
  BY <1>1, ChargeStops
<1>3. \/ \E f : t = Reject(s, f)
      \/ t = charged
      \/ /\ s.pending = <<>> /\ parse_carrier_payload(w.body, size) = None
         /\ t = [charged EXCEPT !.extensions = Append(@, x), !.pending = pending,
                                !.offset = next]
  BY DEF GnuCarrier
<1>4. CASE \E f : t = Reject(s, f)
  BY <1>4, RejectStops DEF Stops, Keeps, SameRecords
<1>5. CASE t = charged
  BY <1>2, <1>5 DEF Stops, Keeps, SameRecords
<1>6. CASE /\ s.pending = <<>> /\ parse_carrier_payload(w.body, size) = None
           /\ t = [charged EXCEPT !.extensions = Append(@, x), !.pending = pending,
                                  !.offset = next]
  <2>1. w.body.k = "data" /\ Len(w.body.items) = 1
    BY <1>6 DEF parse_carrier_payload, None
  <2>2. w.body.items \in Seq(Range(w.body.items))
    BY <2>1 DEF IsWindow
  <2>3. IsASeq(w.body.items) /\ DOMAIN w.body.items = {1}
    BY <2>1, <2>2 DEF IsASeq
  <2>4. w.body.items[1].key = "path" /\ DistinctKeys(w.body.items)
    BY <2>1, <2>3 DEF IsWindow, DistinctKeys
  <2>5. /\ next \in Nat /\ next > s.offset
        /\ x.tar.header.offset = s.offset /\ End(x.tar.padding) = next
        /\ x.records = w.body.items /\ x.kind = "Carrier"
    BY <1>1 DEF Record, Range2, End
  <2>5a. \A v \in ValuesIn(x, "path") : IsName(v)
    BY <2>1, <2>5 DEF IsWindow, ValuesIn
  <2> HIDE DEF x, charged, next, pending, t
  <2>6. IsScan(charged) /\ SameArchive(s, charged) /\ Charged(s, charged)
        /\ SameRecords(s, charged)
    BY <1>2 DEF Stops
  <2>7. IsScan(t)
    BY <1>6, <2>6 DEF IsScan, ScanFields
  <2>8. /\ t.dialect = charged.dialect /\ t.len = charged.len
        /\ t.maxFiles = charged.maxFiles /\ t.maxMetadata = charged.maxMetadata
        /\ t.metadata = charged.metadata /\ t.offset = next /\ t.members = charged.members
        /\ t.extensions = Append(charged.extensions, x)
        /\ t.globals = charged.globals /\ t.pending = pending
    BY <1>6, <2>6 DEF IsScan, ScanFields
  <2>9. ReadsExtension(s, t, x)
    BY <1>6, <2>3, <2>4, <2>5, <2>5a, <2>6, <2>7, <2>8
       DEF ReadsExtension, SameArchive, Charged, SameRecords
  <2>10. \E f : t.pending = << [value |-> x.records[1].value, from |-> f] >>
    BY <2>5, <2>8 DEF pending
  <2>11. ReadsCarrier(s, t, x)
    BY <2>3, <2>4, <2>5, <2>6, <2>8, <2>9, <2>10 DEF ReadsCarrier, SameRecords
  <2> QED BY <2>11 DEF t
<1> QED BY <1>3, <1>4, <1>5, <1>6

\* What the reader of a dialect takes a member's name and size from.
LocalOf(s) == IF s.pending = <<>> THEN NoOverrides ELSE s.pending[1]
PathOf(s, w) ==
    CASE s.dialect = "ustar" -> w.h.name
      [] s.dialect = "pax" -> resolve_path(w.h.name, s.globals, LocalOf(s)).value
      [] s.dialect = "gnu" -> IF s.pending = <<>> THEN w.h.name ELSE s.pending[1].value
SizeOf(s, w) ==
    IF s.dialect = "pax" THEN resolve_size(w.h.size, s.globals, LocalOf(s)).value ELSE w.h.size

\* What one turn of the reader's loop does to a scan.
LEMMA TurnReads ==
    ASSUME NEW s, IsScan(s), s.offset \in Nat, s.dialect \in Dialects, NEW w,
           IsWindow(s.dialect, w), s.dialect = "ustar" => s.pending = <<>>,
           w.h.k = "header" => SizeOf(s, w) \in Nat
    PROVE LET t == TarStep(s, w)
          IN  \/ Keeps(s, t)
              \/ /\ w.h.k = "header" /\ ~(s.offset + BLOCK_LEN > s.len)
                 /\ ReadsMember(s, t, w, PathOf(s, w), SizeOf(s, w))
              \/ s.dialect = "pax" /\ \E x : ReadsPax(s, t, x)
              \/ s.dialect = "gnu" /\ \E x : ReadsCarrier(s, t, x)
<1> DEFINE t == TarStep(s, w)
<1>1. \A c : Stops(s, c) => Keeps(s, c)
  BY DEF Stops, Keeps, SameRecords
<1>2. \A f : Keeps(s, Reject(s, f))
  BY <1>1, RejectStops
<1>3. Keeps(s, Terminator(s, w))
  BY <1>1, TerminatorStops
<1>4. Stops(s, ChargeMember(s)) /\ Keeps(s, ChargeMember(s))
  BY <1>1, ChargeMemberStops
<1>5. w.h.k # "zero" /\ parse_header(w.h, s.dialect) = None => w.h.k = "header"
  BY HeaderIsHeader DEF IsWindow
<1>6. CASE s.offset + BLOCK_LEN > s.len
  BY <1>2, <1>6 DEF TarStep
<1>7. CASE ~(s.offset + BLOCK_LEN > s.len) /\ s.dialect = "ustar"
  <2>1. t = UstarStep(s, w)
    BY <1>7 DEF TarStep
  <2>2. \/ Keeps(s, t)
        \/ /\ w.h.k = "header"
           /\ t = PushMember(ChargeMember(s), w, w.h.size, w.h.name, FromHeader, FromHeader)
    BY <2>1, <1>2, <1>3, <1>4, <1>5, <1>7 DEF UstarStep
  <2>3. ChargeMember(s) = [ChargeMember(s) EXCEPT !.pending = <<>>]
    <3> DEFINE c == ChargeMember(s)
    <3>1. IsScan(c) /\ c.pending = <<>>
      BY <1>4, <1>7 DEF Stops, SameRecords
    <3> HIDE DEF c
    <3>2. c = [c EXCEPT !.pending = <<>>]
      BY <3>1 DEF IsScan, ScanFields
    <3> QED BY <3>2 DEF c
  <2>4. PathOf(s, w) = w.h.name /\ SizeOf(s, w) = w.h.size
    BY <1>7 DEF PathOf, SizeOf
  <2> HIDE DEF t
  <2>5. CASE /\ w.h.k = "header"
             /\ t = PushMember(ChargeMember(s), w, w.h.size, w.h.name, FromHeader, FromHeader)
    <3>1. w.h.size \in Nat
      BY <2>4, <2>5
    <3>2. t = PushMember([ChargeMember(s) EXCEPT !.pending = <<>>], w, w.h.size, w.h.name,
                         FromHeader, FromHeader)
      BY <2>3, <2>5
    <3>3. Keeps(s, t) \/ ReadsMember(s, t, w, w.h.name, w.h.size)
      BY <1>4, <3>1, <3>2, PushReads
    <3> QED BY <1>7, <2>4, <2>5, <3>3 DEF t
  <2> QED BY <2>2, <2>5 DEF t
<1>8. CASE ~(s.offset + BLOCK_LEN > s.len) /\ s.dialect = "pax"
  <2>1. t = PaxStep(s, w)
    BY <1>8 DEF TarStep
  <2>2. \/ Keeps(s, t)
        \/ w.h.k = "header" /\ t = PaxExtension(s, w)
        \/ w.h.k = "header" /\ t = PaxMember(s, w)
    BY <2>1, <1>2, <1>3, <1>5, <1>8 DEF PaxStep
  <2>3. CASE w.h.k = "header" /\ t = PaxExtension(s, w)
    BY <1>8, <2>3, PaxExtensionReads
  <2>4. CASE w.h.k = "header" /\ t = PaxMember(s, w)
    <3> DEFINE path == resolve_path(w.h.name, s.globals, LocalOf(s))
               size == resolve_size(w.h.size, s.globals, LocalOf(s))
    <3>1. \/ t = ChargeMember(s) \/ \E f : t = Reject(s, f)
          \/ t = PushMember([ChargeMember(s) EXCEPT !.pending = <<>>], w, size.value,
                            path.value, path.from, size.from)
      BY <2>4 DEF PaxMember, LocalOf
    <3>2. PathOf(s, w) = path.value /\ SizeOf(s, w) = size.value
      BY <1>8 DEF PathOf, SizeOf
    <3> HIDE DEF path, size, t
    <3>3. CASE t = PushMember([ChargeMember(s) EXCEPT !.pending = <<>>], w, size.value,
                              path.value, path.from, size.from)
      <4>1. size.value \in Nat
        BY <2>4, <3>2
      <4>2. Keeps(s, t) \/ ReadsMember(s, t, w, path.value, size.value)
        BY <1>4, <3>3, <4>1, PushReads
      <4> QED BY <1>8, <2>4, <3>2, <4>2 DEF t
    <3> QED BY <1>2, <1>4, <2>4, <3>1, <3>3 DEF t
  <2> QED BY <2>2, <2>3, <2>4
<1>9. CASE ~(s.offset + BLOCK_LEN > s.len) /\ s.dialect = "gnu"
  <2>1. t = GnuStep(s, w)
    BY <1>9 DEF TarStep
  <2>2. \/ Keeps(s, t)
        \/ w.h.k = "header" /\ t = GnuCarrier(s, w)
        \/ w.h.k = "header" /\ t = GnuMember(s, w)
    BY <2>1, <1>2, <1>3, <1>5, <1>9 DEF GnuStep
  <2>3. CASE w.h.k = "header" /\ t = GnuCarrier(s, w)
    BY <1>9, <2>3, GnuCarrierReads
  <2>4. CASE w.h.k = "header" /\ t = GnuMember(s, w)
    <3> DEFINE path == IF s.pending = <<>> THEN [value |-> w.h.name, from |-> FromHeader]
                       ELSE s.pending[1]
    <3>1. \/ t = ChargeMember(s) \/ \E f : t = Reject(s, f)
          \/ t = PushMember([ChargeMember(s) EXCEPT !.pending = <<>>], w, w.h.size,
                            path.value, path.from, FromHeader)
      BY <2>4 DEF GnuMember
    <3>2. PathOf(s, w) = path.value /\ SizeOf(s, w) = w.h.size
      BY <1>9 DEF PathOf, SizeOf
    <3> HIDE DEF path, t
    <3>3. CASE t = PushMember([ChargeMember(s) EXCEPT !.pending = <<>>], w, w.h.size,
                              path.value, path.from, FromHeader)
      <4>1. w.h.size \in Nat
        BY <2>4, <3>2
      <4>2. Keeps(s, t) \/ ReadsMember(s, t, w, path.value, w.h.size)
        BY <1>4, <3>3, <4>1, PushReads
      <4> QED BY <1>9, <2>4, <3>2, <4>2 DEF t
    <3> QED BY <1>2, <1>4, <2>4, <3>1, <3>3 DEF t
  <2> QED BY <2>2, <2>3, <2>4
<1> QED BY <1>6, <1>7, <1>8, <1>9 DEF Dialects

-----------------------------------------------------------------------------
(***************************************************************************)
(* The overrides a reader carries and the extensions it has read           *)
(***************************************************************************)
Fields == {"path", "size"}

\* An override o of a field says what the records of extension x, the n-th
\* counted from zero, say of it.
OverrideOf(x, f, o, n) ==
    IF ValuesIn(x, f) = {} THEN o = <<>>
    ELSE o # <<>> /\ ValuesIn(x, f) = {o[1].value} /\ o[1].from.extension = n

\* An extension whose keywords differ has at most one value for a field.
LEMMA OneValue ==
    ASSUME NEW x, DistinctKeys(x.records), NEW k \in DOMAIN x.records
    PROVE ValuesIn(x, x.records[k].key) = {x.records[k].value}
BY DEF ValuesIn, DistinctKeys

\* The overrides made from an extension are the values it assigns.
LEMMA OverridesMatch ==
    ASSUME NEW x, IsASeq(x.records), DistinctKeys(x.records), NEW kind, NEW n,
           NEW f \in Fields
    PROVE OverrideOf(x, f, OverridesFrom(kind, x.records, n)[f], n)
<1> DEFINE hits == {i \in DOMAIN x.records : x.records[i].key = f}
<1>1. OverridesFrom(kind, x.records, n)[f]
        = IF hits = {} THEN <<>>
          ELSE << [value |-> x.records[Max(hits)].value,
                   from |-> [kind |-> kind, extension |-> n, record |-> Max(hits)]] >>
  BY DEF OverridesFrom, Fields
<1>2. CASE hits = {}
  <2>1. ValuesIn(x, f) = {}
    BY <1>2 DEF ValuesIn
  <2> QED BY <1>1, <1>2, <2>1 DEF OverrideOf
<1>3. CASE hits # {}
  <2>1. PICK k \in DOMAIN x.records : x.records[k].key = f
    BY <1>3
  <2>2. hits = {k} /\ hits \subseteq Nat
    BY <2>1, AppendIs DEF DistinctKeys
  <2>3. Max(hits) = k
    <3> HIDE DEF hits
    <3> QED BY <2>2, MaxIs
  <2>4. ValuesIn(x, f) = {x.records[k].value}
    BY <2>1, OneValue
  <2> DEFINE o == OverridesFrom(kind, x.records, n)[f]
  <2>5. o # <<>> /\ o[1].value = x.records[k].value /\ o[1].from.extension = n
    <3> HIDE DEF hits
    <3> QED BY <1>1, <1>3, <2>3
  <2> HIDE DEF o
  <2>6. OverrideOf(x, f, o, n)
    BY <2>4, <2>5 DEF OverrideOf
  <2> QED BY <2>6 DEF o
<1> QED BY <1>2, <1>3

\* The override o of a field that the global extensions among es leave.
GlobalOf(es, f, o) ==
    IF o = <<>> THEN \A i \in DOMAIN es : es[i].kind = "Global" => ValuesIn(es[i], f) = {}
    ELSE LET g == o[1].from.extension + 1
         IN  /\ g \in DOMAIN es /\ es[g].kind = "Global" /\ ValuesIn(es[g], f) = {o[1].value}
             /\ \A i \in DOMAIN es : i > g /\ es[i].kind = "Global" => ValuesIn(es[i], f) = {}

\* Where everything read so far lies: before the reader's position.
PlacesInv(s) ==
    /\ \A i \in DOMAIN s.extensions :
         LET r == s.extensions[i].tar
         IN  /\ r.header.offset \in Nat /\ End(r.padding) \in Nat
             /\ r.header.offset < End(r.padding) /\ End(r.padding) <= s.offset
    /\ \A m \in Range(s.members) : m.tar.header.offset \in Nat /\ m.tar.header.offset < s.offset

\* The pending overrides are those of the extension that ends here, if one does.
PendingInv(s) ==
    LET es == s.extensions
        n == Len(es)
    IN  IF s.pending = <<>>
        THEN \A i \in DOMAIN es : es[i].kind # "Global" => End(es[i].tar.padding) # s.offset
        ELSE /\ n \in DOMAIN es /\ es[n].kind # "Global" /\ End(es[n].tar.padding) = s.offset
             /\ \A i \in DOMAIN es : i # n => End(es[i].tar.padding) # s.offset
             /\ s.dialect = "pax" => \A f \in Fields : OverrideOf(es[n], f, s.pending[1][f], n - 1)
             /\ s.dialect = "gnu" => ValuesIn(es[n], "path") = {s.pending[1].value}

\* What the reader holds for the next member.
OverridesInv(s) ==
    /\ PendingInv(s)
    /\ s.dialect = "ustar" => s.extensions = <<>> /\ s.pending = <<>>
    /\ s.dialect = "pax" =>
         /\ \A f \in Fields : GlobalOf(s.extensions, f, s.globals[f])
         /\ \A i \in DOMAIN s.extensions : ValuesIn(s.extensions[i], "size") \subseteq Nat
    /\ s.dialect = "gnu" => \A i \in DOMAIN s.extensions :
         s.extensions[i].kind # "Global" /\ ValuesIn(s.extensions[i], "size") = {}

\* A member has the name and size the extensions before it give it.
Bound(es, m) ==
    /\ {m.name} = ReferenceValue(es, m.tar.header.offset, "path", m.raw_name)
    /\ {m.size} = ReferenceValue(es, m.tar.header.offset, "size", m.base_size)

\* The inductive invariant of a TAR reader's scan.
ScanInv(s) ==
    /\ IsScan(s) /\ s.dialect \in Dialects /\ s.offset \in Nat
    /\ IsASeq(s.members) /\ IsASeq(s.extensions)
    /\ PlacesInv(s)
    /\ \A m \in Range(s.members) : Bound(s.extensions, m)
    /\ Running(s) => OverridesInv(s)

\* A field of the next member as a pax reader resolves it.
FieldOf(s, f, base) ==
    IF LocalOf(s)[f] # <<>> THEN LocalOf(s)[f][1].value
    ELSE IF s.globals[f] # <<>> THEN s.globals[f][1].value ELSE base

\* That is its value by the precedence of the formats.
LEMMA FieldBound ==
    ASSUME NEW s, ScanInv(s), Running(s), s.dialect = "pax", NEW f \in Fields, NEW base
    PROVE {FieldOf(s, f, base)} = ReferenceValue(s.extensions, s.offset, f, base)
<1> DEFINE es == s.extensions
           local == LocalOf(s)[f]
           global == s.globals[f]
           ls == LocalsFor(es, s.offset, f)
           gs == GlobalsFor(es, s.offset, f)
           n == Len(es)
<1>1. /\ IsASeq(es) /\ PendingInv(s) /\ GlobalOf(es, f, global)
      /\ \A i \in DOMAIN es : es[i].tar.header.offset < s.offset
  <2>1. IsASeq(es) /\ PendingInv(s) /\ GlobalOf(es, f, global)
    BY DEF ScanInv, OverridesInv
  <2>2. \A i \in DOMAIN es : es[i].tar.header.offset < s.offset
    BY DEF ScanInv, PlacesInv
  <2> QED BY <2>1, <2>2
<1>2. n \in Nat /\ DOMAIN es = 1..n
  BY <1>1, AppendIs
<1>3. /\ local = <<>> => ls = {}
      /\ local # <<>> => ls # {} /\ ValuesIn(es[Max(ls)], f) = {local[1].value}
  <2>1. CASE s.pending = <<>>
    <3>1. local = <<>>
      BY <2>1 DEF LocalOf, NoOverrides, Fields
    <3>2. ls = {}
      BY <1>1, <2>1 DEF PendingInv, LocalsFor
    <3> QED BY <3>1, <3>2
  <2>2. CASE s.pending # <<>>
    <3>1. /\ n \in DOMAIN es /\ es[n].kind # "Global" /\ End(es[n].tar.padding) = s.offset
          /\ \A i \in DOMAIN es : i # n => End(es[i].tar.padding) # s.offset
          /\ OverrideOf(es[n], f, local, n - 1)
      BY <1>1, <2>2 DEF PendingInv, LocalOf
    <3>2. ls = IF ValuesIn(es[n], f) = {} THEN {} ELSE {n}
      BY <1>1, <3>1 DEF LocalsFor
    <3> HIDE DEF es, ls, local, n
    <3>3. ValuesIn(es[n], f) # {} => Max(ls) = n
      BY <1>2, <3>2, MaxIs
    <3> QED BY <3>1, <3>2, <3>3 DEF OverrideOf
  <2> QED BY <2>1, <2>2
<1>4. /\ global = <<>> => gs = {}
      /\ global # <<>> => gs # {} /\ ValuesIn(es[Max(gs)], f) = {global[1].value}
  <2>1. CASE global = <<>>
    BY <1>1, <2>1 DEF GlobalOf, GlobalsFor
  <2>2. CASE global # <<>>
    <3> DEFINE g == global[1].from.extension + 1
    <3>1. /\ g \in DOMAIN es /\ es[g].kind = "Global" /\ ValuesIn(es[g], f) = {global[1].value}
          /\ \A i \in DOMAIN es : i > g /\ es[i].kind = "Global" => ValuesIn(es[i], f) = {}
      BY <1>1, <2>2 DEF GlobalOf
    <3> HIDE DEF es, global, g
    <3>2. g \in gs /\ gs \subseteq Nat
      <4>1. ValuesIn(es[g], f) # {}
        BY <3>1
      <4>2. g \in gs
        BY <1>1, <3>1, <4>1 DEF GlobalsFor
      <4>3. gs \subseteq DOMAIN es
        BY DEF GlobalsFor
      <4> QED BY <1>2, <4>2, <4>3
    <3>3. \A i \in gs : i <= g
      BY <1>2, <3>1 DEF GlobalsFor
    <3> HIDE DEF gs
    <3>4. Max(gs) = g
      BY <3>2, <3>3, MaxIs
    <3> QED BY <2>2, <3>1, <3>2, <3>4
  <2> QED BY <2>1, <2>2
<1> QED BY <1>3, <1>4 DEF ReferenceValue, FieldOf

\* A member pushed under the resolved name and size is bound to what the
\* precedence of the formats gives it.
LEMMA MemberBound ==
    ASSUME NEW s, ScanInv(s), Running(s), NEW w, NEW m, m.tar.header.offset = s.offset,
           m.raw_name = w.h.name, m.base_size = w.h.size, m.name = PathOf(s, w),
           m.size = SizeOf(s, w)
    PROVE Bound(s.extensions, m)
<1> DEFINE es == s.extensions
<1>1. IsASeq(es) /\ OverridesInv(s) /\ s.dialect \in Dialects
      /\ \A i \in DOMAIN es : es[i].tar.header.offset < s.offset
  BY DEF ScanInv, PlacesInv
<1>2. CASE s.dialect = "ustar"
  <2>1. DOMAIN es = {}
    BY <1>1, <1>2 DEF OverridesInv
  <2>2. \A f : LocalsFor(es, s.offset, f) = {} /\ GlobalsFor(es, s.offset, f) = {}
    BY <2>1 DEF LocalsFor, GlobalsFor
  <2> QED BY <1>2, <2>2 DEF Bound, ReferenceValue, PathOf, SizeOf
<1>3. CASE s.dialect = "pax"
  <2>1. {m.name} = ReferenceValue(es, s.offset, "path", m.raw_name)
    <3>1. "path" \in Fields
      BY DEF Fields
    <3>2. PathOf(s, w) = FieldOf(s, "path", w.h.name)
      BY <1>3 DEF PathOf, resolve_path, FieldOf
    <3>3. {FieldOf(s, "path", w.h.name)} = ReferenceValue(s.extensions, s.offset, "path", w.h.name)
      BY <1>3, <3>1, FieldBound
    <3> QED BY <3>2, <3>3
  <2>2. {m.size} = ReferenceValue(es, s.offset, "size", m.base_size)
    <3>1. "size" \in Fields
      BY DEF Fields
    <3>2. SizeOf(s, w) = FieldOf(s, "size", w.h.size)
      BY <1>3 DEF SizeOf, resolve_size, FieldOf
    <3>3. {FieldOf(s, "size", w.h.size)} = ReferenceValue(s.extensions, s.offset, "size", w.h.size)
      BY <1>3, <3>1, FieldBound
    <3> QED BY <3>2, <3>3
  <2> QED BY <2>1, <2>2 DEF Bound
<1>4. CASE s.dialect = "gnu"
  <2>1. \A i \in DOMAIN es : es[i].kind # "Global" /\ ValuesIn(es[i], "size") = {}
    BY <1>1, <1>4 DEF OverridesInv
  <2>2. /\ LocalsFor(es, s.offset, "size") = {} /\ GlobalsFor(es, s.offset, "size") = {}
        /\ GlobalsFor(es, s.offset, "path") = {}
    BY <2>1 DEF LocalsFor, GlobalsFor
  <2>3. {m.size} = ReferenceValue(es, s.offset, "size", m.base_size)
    BY <1>4, <2>2 DEF ReferenceValue, SizeOf
  <2>4. {m.name} = ReferenceValue(es, s.offset, "path", m.raw_name)
    <3> DEFINE ls == LocalsFor(es, s.offset, "path")
    <3>1. CASE s.pending = <<>>
      <4>1. ls = {}
        BY <1>1, <3>1 DEF OverridesInv, PendingInv, LocalsFor
      <4> QED BY <1>4, <2>2, <3>1, <4>1 DEF ReferenceValue, PathOf
    <3>2. CASE s.pending # <<>>
      <4> DEFINE n == Len(es)
      <4>1. /\ n \in DOMAIN es /\ End(es[n].tar.padding) = s.offset
            /\ \A i \in DOMAIN es : i # n => End(es[i].tar.padding) # s.offset
            /\ ValuesIn(es[n], "path") = {s.pending[1].value}
        BY <1>1, <1>4, <3>2 DEF OverridesInv, PendingInv
      <4>2. ValuesIn(es[n], "path") # {}
        BY <4>1
      <4>3. ls = {n} /\ n \in Nat
        BY <1>1, <2>1, <4>1, <4>2, AppendIs DEF LocalsFor
      <4>4. Max(ls) = n
        <5> HIDE DEF ls, n
        <5> QED BY <4>3, MaxIs
      <4>5. PathOf(s, w) = s.pending[1].value
        BY <1>4, <3>2 DEF PathOf
      <4> QED BY <4>1, <4>3, <4>4, <4>5 DEF ReferenceValue
    <3> QED BY <3>1, <3>2
  <2> QED BY <2>3, <2>4 DEF Bound
<1> QED BY <1>1, <1>2, <1>3, <1>4 DEF Dialects

\* The size a reader resolves is a number (resolve_size).
LEMMA SizeIsNat ==
    ASSUME NEW s, ScanInv(s), Running(s), NEW w, IsWindow(s.dialect, w), w.h.k = "header"
    PROVE SizeOf(s, w) \in Nat
<1>1. w.h.size \in Nat
  BY WidthAssumption DEF IsWindow
<1>2. CASE s.dialect # "pax"
  BY <1>1, <1>2 DEF SizeOf
<1>3. CASE s.dialect = "pax"
  <2> DEFINE es == s.extensions
             local == LocalOf(s)["size"]
             global == s.globals["size"]
  <2>1. /\ "size" \in Fields /\ PendingInv(s) /\ GlobalOf(es, "size", global)
        /\ \A i \in DOMAIN es : ValuesIn(es[i], "size") \subseteq Nat
    BY <1>3 DEF ScanInv, OverridesInv, Fields
  <2>2. local # <<>> => local[1].value \in Nat
    <3>1. CASE s.pending = <<>>
      BY <3>1 DEF LocalOf, NoOverrides
    <3>2. CASE s.pending # <<>>
      <4>1. Len(es) \in DOMAIN es /\ OverrideOf(es[Len(es)], "size", local, Len(es) - 1)
        BY <1>3, <2>1, <3>2 DEF PendingInv, LocalOf
      <4> HIDE DEF local, es
      <4>2. local # <<>> => local[1].value \in ValuesIn(es[Len(es)], "size")
        BY <4>1 DEF OverrideOf
      <4> QED BY <2>1, <4>1, <4>2
    <3> QED BY <3>1, <3>2
  <2>3. global # <<>> => global[1].value \in Nat
    <3> SUFFICES ASSUME global # <<>> PROVE global[1].value \in Nat
      OBVIOUS
    <3>1. PICK g \in DOMAIN es : ValuesIn(es[g], "size") = {global[1].value}
      BY <2>1 DEF GlobalOf
    <3> QED BY <2>1, <3>1
  <2>4. SizeOf(s, w) = IF local # <<>> THEN local[1].value
                       ELSE IF global # <<>> THEN global[1].value ELSE w.h.size
    BY <1>3 DEF SizeOf, resolve_size
  <2> QED BY <1>1, <2>2, <2>3, <2>4
<1> QED BY <1>2, <1>3

\* An extension that comes after a member does not apply to it.
LEMMA BoundStays ==
    ASSUME NEW es, IsASeq(es), NEW x, NEW m, m.tar.header.offset \in Nat,
           x.tar.header.offset \in Nat, m.tar.header.offset <= x.tar.header.offset,
           Bound(es, m)
    PROVE Bound(Append(es, x), m)
<1> DEFINE fs == Append(es, x)
           o == m.tar.header.offset
           n == Len(es)
<1>1. /\ n \in Nat /\ DOMAIN es = 1..n /\ DOMAIN fs = 1..(n + 1)
      /\ \A i \in 1..n : fs[i] = es[i]
      /\ fs[n + 1] = x
  BY AppendIs
<1> HIDE DEF fs, n
<1>2. ASSUME NEW f PROVE /\ LocalsFor(fs, o, f) = LocalsFor(es, o, f)
                         /\ GlobalsFor(fs, o, f) = GlobalsFor(es, o, f)
  <2>1. ~(fs[n + 1].tar.header.offset < o)
    BY <1>1
  <2>2. \A i \in DOMAIN fs : i \in DOMAIN es \/ i = n + 1
    BY <1>1
  <2>3. \A i \in DOMAIN es : i \in DOMAIN fs
    BY <1>1
  <2>4. LocalsFor(fs, o, f) = LocalsFor(es, o, f)
    BY <1>1, <2>1, <2>2, <2>3 DEF LocalsFor
  <2>5. GlobalsFor(fs, o, f) = GlobalsFor(es, o, f)
    BY <1>1, <2>1, <2>2, <2>3 DEF GlobalsFor
  <2> QED BY <2>4, <2>5
<1>3. ASSUME NEW S, S \subseteq DOMAIN es, S # {} PROVE fs[Max(S)] = es[Max(S)]
  BY <1>1, <1>3, MaxOf
<1>4. ASSUME NEW f, NEW base
      PROVE ReferenceValue(fs, o, f, base) = ReferenceValue(es, o, f, base)
  <2>1. LocalsFor(es, o, f) \subseteq DOMAIN es /\ GlobalsFor(es, o, f) \subseteq DOMAIN es
    BY DEF LocalsFor, GlobalsFor
  <2>2. LocalsFor(es, o, f) # {} => fs[Max(LocalsFor(es, o, f))] = es[Max(LocalsFor(es, o, f))]
    BY <1>3, <2>1
  <2>3. GlobalsFor(es, o, f) # {} => fs[Max(GlobalsFor(es, o, f))] = es[Max(GlobalsFor(es, o, f))]
    BY <1>3, <2>1
  <2> QED BY <1>2, <2>2, <2>3 DEF ReferenceValue
<1>5. Bound(fs, m)
  BY <1>4 DEF Bound
<1> QED BY <1>5 DEF fs

\* What every turn that reads an extension keeps, whatever the extension says.
ExtendedBy(s, t, x) ==
    LET n == Len(s.extensions)
    IN  /\ IsScan(t) /\ t.dialect = s.dialect /\ t.offset \in Nat
        /\ IsASeq(t.members) /\ IsASeq(t.extensions) /\ PlacesInv(t)
        /\ \A m \in Range(t.members) : Bound(t.extensions, m)
        /\ n \in Nat /\ DOMAIN s.extensions = 1..n /\ DOMAIN t.extensions = 1..(n + 1)
        /\ Len(t.extensions) = n + 1 /\ t.extensions[n + 1] = x
        /\ \A i \in 1..n : /\ t.extensions[i] = s.extensions[i]
                           /\ End(t.extensions[i].tar.padding) # t.offset
        /\ End(x.tar.padding) = t.offset

\* A turn that reads an extension keeps the places and binds no member anew.
LEMMA ExtensionKeeps ==
    ASSUME NEW s, ScanInv(s), NEW t, NEW x, ReadsExtension(s, t, x)
    PROVE ExtendedBy(s, t, x)
<1> DEFINE es == s.extensions
           n == Len(es)
<1>1. /\ IsScan(t) /\ t.dialect = s.dialect /\ t.offset \in Nat /\ t.offset > s.offset
      /\ t.members = s.members /\ t.extensions = Append(es, x)
      /\ x.tar.header.offset = s.offset /\ End(x.tar.padding) = t.offset
  BY DEF ReadsExtension, SameArchive
<1>2. /\ IsASeq(s.members) /\ IsASeq(es) /\ PlacesInv(s) /\ s.offset \in Nat
      /\ \A m \in Range(s.members) : Bound(es, m)
  BY DEF ScanInv
<1>3. /\ IsASeq(t.extensions) /\ n \in Nat /\ DOMAIN es = 1..n
      /\ DOMAIN t.extensions = 1..(n + 1) /\ Len(t.extensions) = n + 1
      /\ t.extensions[n + 1] = x /\ \A i \in 1..n : t.extensions[i] = es[i]
  BY <1>1, <1>2, AppendIs
<1>4. \A i \in 1..n : /\ es[i].tar.header.offset \in Nat /\ End(es[i].tar.padding) \in Nat
                      /\ es[i].tar.header.offset < End(es[i].tar.padding)
                      /\ End(es[i].tar.padding) <= s.offset
  BY <1>2, <1>3 DEF PlacesInv
<1> HIDE DEF es, n
<1>5. \A m \in Range(s.members) : m.tar.header.offset \in Nat /\ m.tar.header.offset < s.offset
  BY <1>2 DEF PlacesInv
<1>6. PlacesInv(t)
  <2>1. ASSUME NEW i \in 1..(n + 1)
        PROVE LET r == t.extensions[i].tar
              IN  /\ r.header.offset \in Nat /\ End(r.padding) \in Nat
                  /\ r.header.offset < End(r.padding) /\ End(r.padding) <= t.offset
    <3>1. CASE i \in 1..n
      BY <1>1, <1>2, <1>3, <1>4, <3>1
    <3>2. CASE i = n + 1
      BY <1>1, <1>2, <1>3, <3>2
    <3> QED BY <1>3, <3>1, <3>2
  <2>2. \A m \in Range(t.members) : m.tar.header.offset \in Nat /\ m.tar.header.offset < t.offset
    BY <1>1, <1>2, <1>5
  <2> QED BY <1>3, <2>1, <2>2 DEF PlacesInv
<1>7. \A m \in Range(t.members) : Bound(t.extensions, m)
  <2> SUFFICES ASSUME NEW m \in Range(s.members) PROVE Bound(Append(es, x), m)
    BY <1>1
  <2>1. m.tar.header.offset <= x.tar.header.offset
    BY <1>1, <1>2, <1>5
  <2> QED BY <1>1, <1>2, <1>5, <2>1, BoundStays
<1>8. \A i \in 1..n : End(t.extensions[i].tar.padding) # t.offset
  BY <1>1, <1>2, <1>3, <1>4
<1> QED BY <1>1, <1>2, <1>3, <1>6, <1>7, <1>8 DEF ExtendedBy, es, n

\* A global override after one more extension that does not change it.
LEMMA GlobalStays ==
    ASSUME NEW es, NEW fs, NEW n \in Nat, DOMAIN es = 1..n, DOMAIN fs = 1..(n + 1),
           \A i \in 1..n : fs[i] = es[i], NEW f, NEW o, GlobalOf(es, f, o),
           fs[n + 1].kind = "Global" => ValuesIn(fs[n + 1], f) = {}
    PROVE GlobalOf(fs, f, o)
<1>1. \A i \in DOMAIN fs : i = n + 1 \/ (i \in DOMAIN es /\ fs[i] = es[i])
  <2> SUFFICES ASSUME NEW i \in DOMAIN fs, i # n + 1 PROVE i \in DOMAIN es /\ fs[i] = es[i]
    OBVIOUS
  <2>1. i \in 1..n
    OBVIOUS
  <2> QED BY <2>1
<1>2. CASE o = <<>>
  BY <1>1, <1>2 DEF GlobalOf
<1>3. CASE o # <<>>
  <2> DEFINE g == o[1].from.extension + 1
  <2>1. /\ g \in DOMAIN es /\ es[g].kind = "Global" /\ ValuesIn(es[g], f) = {o[1].value}
        /\ \A i \in DOMAIN es : i > g /\ es[i].kind = "Global" => ValuesIn(es[i], f) = {}
    BY <1>3 DEF GlobalOf
  <2>2. g \in DOMAIN fs /\ fs[g] = es[g]
    <3> HIDE DEF g
    <3> QED BY <2>1
  <2>3. \A i \in DOMAIN fs : i > g /\ fs[i].kind = "Global" => ValuesIn(fs[i], f) = {}
    <3> HIDE DEF g
    <3> QED BY <1>1, <2>1
  <2> QED BY <1>3, <2>1, <2>2, <2>3 DEF GlobalOf
<1> QED BY <1>2, <1>3

\* A turn that reads a pax header keeps the invariant.
LEMMA PaxStepKeeps ==
    ASSUME NEW s, ScanInv(s), Running(s), s.dialect = "pax", NEW t, NEW x, ReadsPax(s, t, x)
    PROVE ScanInv(t)
<1> DEFINE es == s.extensions
           fs == t.extensions
           n == Len(es)
           update == OverridesFrom("Global", x.records, n)
<1>1. ReadsExtension(s, t, x)
  BY DEF ReadsPax
<1>2. /\ IsScan(t) /\ t.dialect = "pax" /\ t.offset \in Nat
      /\ IsASeq(t.members) /\ IsASeq(fs) /\ PlacesInv(t)
      /\ \A m \in Range(t.members) : Bound(fs, m)
      /\ n \in Nat /\ DOMAIN es = 1..n /\ DOMAIN fs = 1..(n + 1)
      /\ Len(fs) = n + 1 /\ fs[n + 1] = x
      /\ \A i \in 1..n : fs[i] = es[i] /\ End(fs[i].tar.padding) # t.offset
      /\ End(x.tar.padding) = t.offset
  <2>1. ExtendedBy(s, t, x)
    BY <1>1, ExtensionKeeps
  <2> QED BY <2>1 DEF ExtendedBy
<1>3. /\ IsASeq(x.records) /\ DistinctKeys(x.records) /\ s.pending = <<>>
      /\ \A f \in Fields : GlobalOf(es, f, s.globals[f])
      /\ \A i \in DOMAIN es : ValuesIn(es[i], "size") \subseteq Nat
  BY <1>1 DEF ReadsExtension, ScanInv, OverridesInv
<1>4. ValuesIn(x, "size") \subseteq Nat
  BY DEF ReadsPax, ValuesIn
<1>5. \A i \in DOMAIN fs : ValuesIn(fs[i], "size") \subseteq Nat
  BY <1>2, <1>3, <1>4
<1>6. \/ /\ x.kind = "Global" /\ t.pending = <<>> /\ t.globals = update_from(s.globals, update)
      \/ /\ x.kind = "Local" /\ t.globals = s.globals
         /\ t.pending = <<OverridesFrom("Local", x.records, n)>>
  BY DEF ReadsPax
<1> HIDE DEF es, fs, n, update
<1>7. \A f \in Fields : GlobalOf(fs, f, t.globals[f])
  <2> SUFFICES ASSUME NEW f \in Fields PROVE GlobalOf(fs, f, t.globals[f])
    OBVIOUS
  <2>1. CASE x.kind = "Global"
    <3>1. t.globals[f] = IF update[f] # <<>> THEN update[f] ELSE s.globals[f]
      BY <1>6, <2>1 DEF update_from, Fields
    <3>2. OverrideOf(x, f, update[f], n)
      BY <1>3, OverridesMatch DEF update
    <3>3. CASE update[f] = <<>>
      <4>1. ValuesIn(fs[n + 1], f) = {}
        BY <1>2, <3>2, <3>3 DEF OverrideOf
      <4> QED BY <1>2, <1>3, <3>1, <3>3, <4>1, GlobalStays
    <3>4. CASE update[f] # <<>>
      <4>1. ValuesIn(x, f) = {update[f][1].value} /\ update[f][1].from.extension = n
        BY <3>2, <3>4 DEF OverrideOf
      <4>2. \A i \in DOMAIN fs : ~(i > n + 1)
        BY <1>2
      <4>3. n + 1 \in DOMAIN fs
        BY <1>2
      <4>4. GlobalOf(fs, f, update[f])
        BY <1>2, <2>1, <3>4, <4>1, <4>2, <4>3 DEF GlobalOf
      <4> QED BY <3>1, <3>4, <4>4
    <3> QED BY <3>3, <3>4
  <2>2. CASE x.kind = "Local"
    BY <1>2, <1>3, <1>6, <2>2, GlobalStays
  <2> QED BY <1>6, <2>1, <2>2
<1>8. PendingInv(t)
  <2>1. CASE x.kind = "Global"
    BY <1>2, <1>6, <2>1 DEF PendingInv, fs
  <2>2. CASE x.kind = "Local"
    <3> DEFINE o == OverridesFrom("Local", x.records, n)
    <3>1. t.pending = <<o>> /\ t.pending # <<>> /\ t.pending[1] = o
      BY <1>6, <2>2
    <3>2. \A f \in Fields : OverrideOf(x, f, o[f], n)
      BY <1>3, OverridesMatch
    <3> HIDE DEF o
    <3>3. Len(fs) \in DOMAIN fs /\ fs[Len(fs)] = x /\ Len(fs) - 1 = n
      BY <1>2
    <3>4. \A i \in DOMAIN fs : i # Len(fs) => End(fs[i].tar.padding) # t.offset
      BY <1>2
    <3> QED BY <1>2, <2>2, <3>1, <3>2, <3>3, <3>4 DEF PendingInv, fs
  <2> QED BY <1>6, <2>1, <2>2
<1>9. OverridesInv(t)
  BY <1>2, <1>5, <1>7, <1>8 DEF OverridesInv, fs
<1> QED BY <1>2, <1>9 DEF ScanInv, fs, Dialects

\* A turn that reads a long-name carrier keeps the invariant.
LEMMA CarrierStepKeeps ==
    ASSUME NEW s, ScanInv(s), Running(s), s.dialect = "gnu", NEW t, NEW x,
           ReadsCarrier(s, t, x)
    PROVE ScanInv(t)
<1> DEFINE es == s.extensions
           fs == t.extensions
           n == Len(es)
<1>1. ReadsExtension(s, t, x)
  BY DEF ReadsCarrier
<1>2. /\ IsScan(t) /\ t.dialect = "gnu" /\ t.offset \in Nat
      /\ IsASeq(t.members) /\ IsASeq(fs) /\ PlacesInv(t)
      /\ \A m \in Range(t.members) : Bound(fs, m)
      /\ n \in Nat /\ DOMAIN es = 1..n /\ DOMAIN fs = 1..(n + 1)
      /\ Len(fs) = n + 1 /\ fs[n + 1] = x
      /\ \A i \in 1..n : fs[i] = es[i] /\ End(fs[i].tar.padding) # t.offset
      /\ End(x.tar.padding) = t.offset
  <2>1. ExtendedBy(s, t, x)
    BY <1>1, ExtensionKeeps
  <2> QED BY <2>1 DEF ExtendedBy
<1>3. /\ x.kind = "Carrier" /\ DistinctKeys(x.records)
      /\ DOMAIN x.records = {1} /\ x.records[1].key = "path"
  BY <1>1 DEF ReadsCarrier, ReadsExtension
<1>4. ValuesIn(x, "path") = {x.records[1].value} /\ ValuesIn(x, "size") = {}
  BY <1>3 DEF ValuesIn
<1>5. t.pending # <<>> /\ t.pending[1].value = x.records[1].value
  BY DEF ReadsCarrier
<1>6. \A i \in DOMAIN es : es[i].kind # "Global" /\ ValuesIn(es[i], "size") = {}
  BY DEF ScanInv, OverridesInv
<1> HIDE DEF es, fs, n
<1>7. \A i \in DOMAIN fs : (i \in DOMAIN es /\ fs[i] = es[i]) \/ fs[i] = x
  <2>1. \A i \in 1..(n + 1) : i = n + 1 \/ i \in 1..n
    BY <1>2
  <2> QED BY <1>2, <2>1
<1>8. \A i \in DOMAIN fs : fs[i].kind # "Global" /\ ValuesIn(fs[i], "size") = {}
  BY <1>3, <1>4, <1>6, <1>7
<1>9. PendingInv(t)
  <2>1. Len(fs) \in DOMAIN fs /\ fs[Len(fs)] = x
    BY <1>2
  <2>2. \A i \in DOMAIN fs : i # Len(fs) => End(fs[i].tar.padding) # t.offset
    BY <1>2
  <2> QED BY <1>2, <1>3, <1>4, <1>5, <2>1, <2>2 DEF PendingInv, fs
<1>10. OverridesInv(t)
  BY <1>2, <1>8, <1>9 DEF OverridesInv, fs
<1> QED BY <1>2, <1>10 DEF ScanInv, fs, Dialects

\* A turn that reads a member keeps the invariant.
LEMMA MemberStepKeeps ==
    ASSUME NEW s, ScanInv(s), Running(s), NEW t, NEW w,
           ReadsMember(s, t, w, PathOf(s, w), SizeOf(s, w))
    PROVE ScanInv(t)
<1>1. PICK m : /\ t.members = Append(s.members, m)
               /\ m.tar.header.offset = s.offset /\ m.raw_name = w.h.name
               /\ m.base_size = w.h.size /\ m.name = PathOf(s, w) /\ m.size = SizeOf(s, w)
  BY DEF ReadsMember
<1>2. /\ IsScan(t) /\ t.dialect = s.dialect /\ t.offset \in Nat /\ t.offset > s.offset
      /\ t.extensions = s.extensions /\ t.globals = s.globals /\ t.pending = <<>>
  BY DEF ReadsMember, SameArchive
<1>3. /\ s.dialect \in Dialects /\ s.offset \in Nat /\ IsASeq(s.members)
      /\ IsASeq(s.extensions) /\ PlacesInv(s) /\ OverridesInv(s)
      /\ \A o \in Range(s.members) : Bound(s.extensions, o)
  BY DEF ScanInv
<1>4. IsASeq(t.members) /\ Range(t.members) = Range(s.members) \cup {m}
  BY <1>1, <1>3, AppendIs
<1>5. Bound(s.extensions, m)
  BY <1>1, MemberBound
<1>6. PlacesInv(t)
  <2>1. \A i \in DOMAIN s.extensions :
          LET r == s.extensions[i].tar
          IN  /\ r.header.offset \in Nat /\ End(r.padding) \in Nat
              /\ r.header.offset < End(r.padding) /\ End(r.padding) <= t.offset
    BY <1>2, <1>3 DEF PlacesInv
  <2>2. \A o \in Range(s.members) : o.tar.header.offset \in Nat /\ o.tar.header.offset < t.offset
    BY <1>2, <1>3 DEF PlacesInv
  <2>3. \A o \in Range(t.members) : o.tar.header.offset \in Nat /\ o.tar.header.offset < t.offset
    BY <1>1, <1>2, <1>3, <1>4, <2>2
  <2> QED BY <1>2, <2>1, <2>3 DEF PlacesInv
<1>7. PendingInv(t)
  <2>1. \A i \in DOMAIN s.extensions : End(s.extensions[i].tar.padding) # t.offset
    BY <1>2, <1>3 DEF PlacesInv
  <2> QED BY <1>2, <2>1 DEF PendingInv
<1>8. OverridesInv(t)
  BY <1>2, <1>3, <1>7 DEF OverridesInv
<1> QED BY <1>2, <1>3, <1>4, <1>5, <1>6, <1>8 DEF ScanInv

\* Every turn keeps the invariant.
LEMMA ScanStep ==
    ASSUME NEW s, ScanInv(s), Running(s), NEW w, IsWindow(s.dialect, w)
    PROVE ScanInv(TarStep(s, w))
<1> DEFINE t == TarStep(s, w)
<1>1. /\ IsScan(s) /\ s.offset \in Nat /\ s.dialect \in Dialects
      /\ s.dialect = "ustar" => s.pending = <<>>
  BY DEF ScanInv, OverridesInv
<1>2. w.h.k = "header" => SizeOf(s, w) \in Nat
  BY SizeIsNat
<1>3. \/ Keeps(s, t)
      \/ ReadsMember(s, t, w, PathOf(s, w), SizeOf(s, w))
      \/ s.dialect = "pax" /\ \E x : ReadsPax(s, t, x)
      \/ s.dialect = "gnu" /\ \E x : ReadsCarrier(s, t, x)
  BY <1>1, <1>2, TurnReads
<1> HIDE DEF t
<1>4. CASE Keeps(s, t)
  <2>1. /\ IsScan(t) /\ t.dialect = s.dialect /\ t.offset = s.offset /\ t.members = s.members
        /\ t.extensions = s.extensions
        /\ Running(t) => t.globals = s.globals /\ t.pending = s.pending
    BY <1>4 DEF Keeps, SameArchive
  <2>2. /\ IsASeq(s.members) /\ IsASeq(s.extensions) /\ PlacesInv(s) /\ OverridesInv(s)
        /\ \A m \in Range(s.members) : Bound(s.extensions, m)
    BY DEF ScanInv
  <2>3. PlacesInv(t)
    BY <2>1, <2>2 DEF PlacesInv
  <2>4. Running(t) => OverridesInv(t)
    BY <2>1, <2>2 DEF OverridesInv, PendingInv
  <2> QED BY <1>1, <2>1, <2>2, <2>3, <2>4 DEF ScanInv, t
<1>5. CASE ReadsMember(s, t, w, PathOf(s, w), SizeOf(s, w))
  BY <1>5, MemberStepKeeps DEF t
<1>6. CASE s.dialect = "pax" /\ \E x : ReadsPax(s, t, x)
  BY <1>6, PaxStepKeeps DEF t
<1>7. CASE s.dialect = "gnu" /\ \E x : ReadsCarrier(s, t, x)
  BY <1>7, CarrierStepKeeps DEF t
<1> QED BY <1>3, <1>4, <1>5, <1>6, <1>7 DEF t

\* The invariant holds before the first turn.
LEMMA NewScanInv ==
    ASSUME NEW d \in Dialects, NEW len, NEW maxFiles, NEW maxMetadata
    PROVE /\ ScanInv(NewScan(d, len, maxFiles, maxMetadata))
          /\ NewScan(d, len, maxFiles, maxMetadata).dialect = d
          /\ NewScan(d, len, maxFiles, maxMetadata).members = <<>>
<1> DEFINE s == NewScan(d, len, maxFiles, maxMetadata)
<1>1. IsScan(s)
  BY DEF IsScan, ScanFields, NewScan
<1>2. /\ s.dialect = d /\ s.offset = 0 /\ s.members = <<>> /\ s.extensions = <<>>
      /\ s.globals = NoOverrides /\ s.pending = <<>>
  BY DEF NewScan
<1> HIDE DEF s
<1>3. IsASeq(s.members) /\ IsASeq(s.extensions)
  <2>1. <<>> \in Seq({})
    OBVIOUS
  <2> QED BY <1>2, <2>1 DEF IsASeq
<1>4. Range(s.members) = {} /\ DOMAIN s.extensions = {}
  BY <1>2 DEF Range
<1>5. PlacesInv(s)
  BY <1>4 DEF PlacesInv
<1>6. \A f \in Fields : s.globals[f] = <<>>
  BY <1>2 DEF NoOverrides, Fields
<1>7. OverridesInv(s)
  BY <1>2, <1>4, <1>6 DEF OverridesInv, PendingInv, GlobalOf
<1> QED BY <1>1, <1>2, <1>3, <1>4, <1>5, <1>7 DEF ScanInv, s

-----------------------------------------------------------------------------
(***************************************************************************)
(* The invariant of the specification                                      *)
(***************************************************************************)
IsOutcome(o) == o = [x \in {"stage", "finding", "plan", "axes"} |-> o[x]]

\* The header of every member is where the source showed it.
SourceInv ==
    \A m \in Range(scan.members) :
        m.tar.header.offset \in DOMAIN src /\ src[m.tar.header.offset].h.name = m.raw_name

ScanKept ==
    /\ ScanInv(scan) /\ scan.dialect = job.dialect /\ SourceInv
    /\ phase = "reading" => Running(scan)

\* The inductive invariant of a TAR archive's way.
TarInv ==
    /\ job \in Jobs /\ IsOutcome(outcome)
    /\ phase \in {"submitted", "decoding", "reading", "parsed"} => ~Planned
    /\ job.kind = "tar" /\ (phase \in {"reading", "parsed"} \/ Planned) => ScanKept

\* The invariant holds when an archive is submitted.
LEMMA TarInit == Init => TarInv
BY DEF Init, TarInv, NoOutcome, IsOutcome, Planned

\* A new scan satisfies what is asked of it.
LEMMA ScanStarts ==
    ASSUME TarInv, job.kind = "tar", job' = job,
           NEW len, NEW files, NEW metadata, scan' = NewScan(job.dialect, len, files, metadata),
           phase' = Reading(scan')
    PROVE ScanKept'
<1>1. job.dialect \in Dialects
  BY JobsAssumption DEF TarInv, Dialects
<1>2. ScanInv(scan') /\ scan'.dialect = job.dialect /\ scan'.members = <<>>
  BY <1>1, NewScanInv
<1>3. Range(scan'.members) = {}
  BY <1>2 DEF Range
<1> QED BY <1>2, <1>3 DEF ScanKept, SourceInv, Reading

\* ReadTurn keeps the invariant: the window it reads stays at its offset.
LEMMA TurnKeeps == TarInv /\ ReadTurn => TarInv'
<1> SUFFICES ASSUME TarInv, ReadTurn PROVE TarInv'
  OBVIOUS
<1>1. /\ phase = "reading" /\ UNCHANGED <<job, outcome>>
      /\ phase' = Reading(scan') /\ phase' \in {"reading", "parsed"}
  BY DEF ReadTurn, Reading
<1>2. job \in Jobs /\ IsOutcome(outcome) /\ ~Planned
  BY <1>1 DEF TarInv
<1>3. ASSUME job.kind = "tar" PROVE ScanKept'
  <2>1. ScanInv(scan) /\ scan.dialect = job.dialect /\ SourceInv /\ Running(scan)
    BY <1>1, <1>3 DEF TarInv, ScanKept
  <2>2. PICK w \in TarWindows(job) :
          /\ scan' = TarStep(scan, w)
          /\ src' = Both(src, Pieces(job, scan, w))
    BY <1>3 DEF ReadTurn, Windows, Step
  <2>3. IsWindow(scan.dialect, w)
    BY <1>2, <1>3, <2>1, <2>2, JobsAssumption
  <2>4. ScanInv(scan')
    BY <2>1, <2>2, <2>3, ScanStep
  <2>5. /\ IsScan(scan) /\ scan.offset \in Nat /\ scan.dialect \in Dialects
        /\ IsASeq(scan.members) /\ PlacesInv(scan)
        /\ scan.dialect = "ustar" => scan.pending = <<>>
    BY <2>1 DEF ScanInv, OverridesInv
  <2>6. w.h.k = "header" => SizeOf(scan, w) \in Nat
    BY <2>1, <2>3, SizeIsNat
  <2>7. \/ Keeps(scan, scan')
        \/ /\ w.h.k = "header" /\ ~(scan.offset + BLOCK_LEN > scan.len)
           /\ ReadsMember(scan, scan', w, PathOf(scan, w), SizeOf(scan, w))
        \/ scan.dialect = "pax" /\ \E x : ReadsPax(scan, scan', x)
        \/ scan.dialect = "gnu" /\ \E x : ReadsCarrier(scan, scan', x)
    BY <2>2, <2>3, <2>5, <2>6, TurnReads
  <2>8. scan'.dialect = scan.dialect
    BY <2>7 DEF Keeps, ReadsMember, ReadsPax, ReadsCarrier, ReadsExtension, SameArchive
  <2>9. \/ scan'.members = scan.members
        \/ \E m : /\ scan'.members = Append(scan.members, m) /\ m.raw_name = w.h.name
                 /\ m.tar.header.offset = scan.offset /\ ~(scan.offset + BLOCK_LEN > scan.len)
    BY <2>7 DEF Keeps, ReadsMember, ReadsPax, ReadsCarrier, ReadsExtension
  <2>10. Pieces(job, scan, w) = IF scan.offset + BLOCK_LEN > scan.len THEN <<>>
                                ELSE [o \in {scan.offset} |-> w]
    BY <1>3 DEF Pieces
  <2>11. \A o \in DOMAIN src : o # scan.offset => o \in DOMAIN src' /\ src'[o] = src[o]
    BY <2>2, <2>10 DEF Both
  <2>12. ~(scan.offset + BLOCK_LEN > scan.len) =>
           scan.offset \in DOMAIN src' /\ src'[scan.offset] = w
    BY <2>2, <2>10 DEF Both
  <2>13. \A m \in Range(scan.members) :
           /\ m.tar.header.offset \in DOMAIN src'
           /\ src'[m.tar.header.offset].h.name = m.raw_name
    <3> SUFFICES ASSUME NEW m \in Range(scan.members)
                 PROVE /\ m.tar.header.offset \in DOMAIN src'
                       /\ src'[m.tar.header.offset].h.name = m.raw_name
      OBVIOUS
    <3>1. m.tar.header.offset # scan.offset
      BY <2>5 DEF PlacesInv
    <3> QED BY <2>1, <2>11, <3>1 DEF SourceInv
  <2>14. SourceInv'
    <3>1. CASE scan'.members = scan.members
      BY <2>13, <3>1 DEF SourceInv
    <3>2. CASE \E m : /\ scan'.members = Append(scan.members, m) /\ m.raw_name = w.h.name
                     /\ m.tar.header.offset = scan.offset /\ ~(scan.offset + BLOCK_LEN > scan.len)
      <4>1. PICK m : /\ scan'.members = Append(scan.members, m) /\ m.raw_name = w.h.name
                     /\ m.tar.header.offset = scan.offset /\ ~(scan.offset + BLOCK_LEN > scan.len)
        BY <3>2
      <4>2. Range(scan'.members) = Range(scan.members) \cup {m}
        BY <2>5, <4>1, AppendIs
      <4> QED BY <2>12, <2>13, <4>1, <4>2 DEF SourceInv
    <3> QED BY <2>9, <3>1, <3>2
  <2> QED BY <1>1, <2>1, <2>4, <2>8, <2>14 DEF ScanKept, Reading
<1> QED BY <1>1, <1>2, <1>3 DEF TarInv, Planned

\* Accept keeps the invariant: a bare archive starts a new scan.
LEMMA AcceptKeeps == TarInv /\ Accept => TarInv'
<1> SUFFICES ASSUME TarInv, Accept PROVE TarInv'
  OBVIOUS
<1>1. phase = "submitted" /\ UNCHANGED <<job, outcome>>
  BY DEF Accept
<1>2. job \in Jobs /\ IsOutcome(outcome) /\ ~Planned
  BY <1>1 DEF TarInv
<1>3. CASE job.kind = "7z" \/ Wrapped(job)
  <2>1. phase' = "decoding"
    BY <1>3 DEF Accept
  <2> QED BY <1>1, <1>2, <2>1 DEF TarInv, Planned
<1>4. CASE ~(job.kind = "7z" \/ Wrapped(job))
  <2>1. scan' = Start(job) /\ phase' = Reading(scan')
    BY <1>4 DEF Accept
  <2>2. ASSUME job.kind = "tar" PROVE ScanKept'
    <3>1. scan' = NewScan(job.dialect, job.len, job.budget.max_files, job.budget.max_metadata)
      BY <2>1, <2>2 DEF Start
    <3> QED BY <1>1, <2>1, <2>2, <3>1, ScanStarts
  <2> QED BY <1>1, <1>2, <2>2 DEF TarInv, Planned
<1> QED BY <1>3, <1>4

\* What the four stream decoders have in common.
Decodes ==
    /\ phase = "decoding" /\ UNCHANGED job
    /\ \/ /\ \E d : scan' = DerivedScan(job, d)
          /\ phase' = Reading(scan') /\ outcome' = NoOutcome
       \/ /\ phase' = "ended"
          /\ \E f, a : outcome' = Ends("transform", f, a)

\* Each stream decoder starts the scan of what it derived or ends the job.
LEMMA DecodersDecode ==
    DecodeGzip \/ DecodeZstd \/ DecodeXz \/ DecodeBzip2 => Decodes
<1>1. DecodeGzip => Decodes
  BY DEF DecodeGzip, DecodeStream, Decodes
<1>2. DecodeZstd => Decodes
  BY DEF DecodeZstd, DecodeStream, Decodes
<1>3. DecodeXz => Decodes
  BY DEF DecodeXz, DecodeStream, Decodes
<1>4. DecodeBzip2 => Decodes
  BY DEF DecodeBzip2, DecodeStream, Decodes
<1> QED BY <1>1, <1>2, <1>3, <1>4

\* A decoder keeps the invariant: a derived archive starts a new scan.
LEMMA DecodeKeeps == TarInv /\ Decodes => TarInv'
<1> SUFFICES ASSUME TarInv, Decodes PROVE TarInv'
  OBVIOUS
<1>1. phase = "decoding" /\ job' = job /\ job \in Jobs
  BY DEF TarInv, Decodes
<1>2. CASE /\ \E d : scan' = DerivedScan(job, d)
           /\ phase' = Reading(scan') /\ outcome' = NoOutcome
  <2>1. IsOutcome(outcome') /\ ~Planned'
    BY <1>2 DEF NoOutcome, IsOutcome, Planned
  <2>2. ASSUME job.kind = "tar" PROVE ScanKept'
    BY <1>1, <1>2, <2>2, ScanStarts DEF DerivedScan
  <2> QED BY <1>1, <2>1, <2>2 DEF TarInv
<1>3. CASE phase' = "ended" /\ \E f, a : outcome' = Ends("transform", f, a)
  BY <1>1, <1>3 DEF TarInv, Ends, IsOutcome, Planned
<1> QED BY <1>2, <1>3 DEF Decodes

\* No other action changes the scan of a TAR archive before its plan is made.
LEMMA OtherKeeps ==
    ASSUME TarInv, \/ RefuseSubmission \/ ReadSevenZ \/ SourceFails \/ Plan
                   \/ Misrecord \/ Audit \/ Verify \/ UNCHANGED vars
    PROVE TarInv'
<1>1. CASE RefuseSubmission
  BY <1>1 DEF RefuseSubmission, TarInv, Ends, IsOutcome, Planned
<1>2. CASE ReadSevenZ
  BY <1>2 DEF ReadSevenZ, TarInv, Planned
<1>3. CASE SourceFails
  BY <1>3 DEF SourceFails, TarInv, Ends, IsOutcome, Planned
<1>4. CASE Plan
  <2>1. /\ phase = "parsed" /\ phase' \in {"planned", "ended"} /\ UNCHANGED <<job, scan, src>>
        /\ IsOutcome(outcome')
    BY <1>4 DEF Plan, IsOutcome
  <2> QED BY <2>1 DEF TarInv, ScanKept, SourceInv, Planned
<1>5. CASE Misrecord
  BY <1>5 DEF Misrecord, TarInv, ScanKept, SourceInv, Planned
<1>6. CASE Audit
  <2>1. /\ phase \in {"planned", "recorded"} /\ phase' = "audited"
        /\ UNCHANGED <<job, scan, src>>
        /\ \/ outcome' = outcome
           \/ \E a : outcome' = [outcome EXCEPT !.finding = "CoveringInconsistent", !.axes = a]
    BY <1>6 DEF Audit
  <2>2. IsOutcome(outcome') /\ outcome'.stage = outcome.stage
    BY <2>1 DEF TarInv, IsOutcome
  <2> QED BY <2>1, <2>2 DEF TarInv, ScanKept, SourceInv, Planned
<1>7. CASE Verify
  BY <1>7 DEF Verify, TarInv, ScanKept, SourceInv, Planned
<1>8. CASE UNCHANGED vars
  BY <1>8 DEF vars, TarInv, ScanKept, SourceInv, Planned
<1> QED BY <1>1, <1>2, <1>3, <1>4, <1>5, <1>6, <1>7, <1>8

\* Every step keeps the invariant.
LEMMA TarNext == TarInv /\ [Next]_vars => TarInv'
BY AcceptKeeps, DecodersDecode, DecodeKeeps, TurnKeeps, OtherKeeps DEF Next

\* Every reachable scan of a TAR reader satisfies its invariant, for every
\* archive and every sequence of windows (parse_ustar_portable_v1 and the pax
\* and old-GNU readers).
THEOREM TarInductive == Spec => []TarInv
BY TarInit, TarNext, PTL DEF Spec

\* A local extension or a long-name carrier applies to exactly the next member,
\* a global one until the next that names the same field, and the name a member
\* is recorded under is the one its header shows.
THEOREM ExtensionsBindNextMember == Spec => []BindsNextMember
<1>1. TarInv => BindsNextMember
  BY DEF TarInv, ScanKept, ScanInv, Bound, SourceInv, BindsNextMember, Planned
<1> QED BY <1>1, TarInductive, PTL

-----------------------------------------------------------------------------
(***************************************************************************)
(* Names and the topology                                                  *)
(***************************************************************************)

\* When no finding is reported, no check applied.
LEMMA FirstOfOK ==
    ASSUME NEW n \in Nat, NEW checks, DOMAIN checks = 1..n, FirstOf(checks) = OK,
           \A i \in 1..n : checks[i][1] => checks[i][2] # OK
    PROVE \A i \in 1..n : ~checks[i][1]
<1> DEFINE hits == {i \in DOMAIN checks : checks[i][1]}
<1> SUFFICES ASSUME hits # {} PROVE FALSE
  OBVIOUS
<1>1. hits \subseteq Nat
  OBVIOUS
<1>2. Min(hits) \in hits
  BY <1>1, MinOf
<1>3. FirstOf(checks) = checks[Min(hits)][2]
  BY DEF FirstOf
<1> QED BY <1>2, <1>3

\* The turn of the loop that drops "." components.
Keep(p, kept, c) == IF c = "." THEN kept ELSE Append(kept, c)
Jail == INSTANCE FoldTheorems WITH Op <- Keep

\* Dropping the "." components of a name leaves a sequence.
LEMMA KeptIsASeq ==
    ASSUME NEW name, IsASeq(name) PROVE IsASeq(Kept(name))
<1>1. PICK S : name \in Seq(S)
  BY DEF IsASeq
<1> DEFINE n == Len(name)
<1>2. n \in Nat /\ DOMAIN name = 1..n
  BY <1>1
<1>3. Kept(name) = Jail!Fold(0, <<>>, name)
  BY DEF Kept, Keep, Jail!Fold, FoldLeft, MapThenFoldSet, Jail!FoldLeft, Jail!MapThenFoldSet,
         Max, Jail!Max
<1>4. PICK h : Jail!IsRun(h, 0, <<>>, name, n) /\ Jail!Fold(0, <<>>, name) = h[n]
  BY <1>2, Jail!FoldRuns
<1> DEFINE T == {k \in Nat : k <= n => h[k] \in Seq(S)}
<1>5. 0 \in T
  <2>1. h[0] = <<>> /\ <<>> \in Seq(S)
    BY <1>4 DEF Jail!IsRun
  <2> QED BY <2>1
<1>6. ASSUME NEW k \in Nat, k \in T PROVE k + 1 \in T
  <2> SUFFICES ASSUME k + 1 <= n PROVE h[k + 1] \in Seq(S)
    OBVIOUS
  <2>1. h[k + 1] = Keep(0, h[k], name[k + 1])
    BY <1>2, <1>4 DEF Jail!IsRun
  <2>2. h[k] \in Seq(S) /\ name[k + 1] \in S
    BY <1>1, <1>2, <1>6
  <2> QED BY <2>1, <2>2 DEF Keep
<1>7. \A k \in Nat : k \in T
  <2> HIDE DEF T
  <2> QED BY <1>5, <1>6, Jail!SetInduction
<1>8. h[n] \in Seq(S)
  BY <1>2, <1>7
<1> QED BY <1>3, <1>4, <1>8 DEF IsASeq

\* A name the jail accepts keeps a component.
LEMMA NamesKept ==
    ASSUME NEW name, IsASeq(name), NEW d, NEW profile, validate_name(name, d, profile) = OK
    PROVE Kept(name) # <<>>
<1> DEFINE bad == {i \in DOMAIN name :
                    name[i] # "." /\ validate_component(name[i], profile) # OK}
  checks == << <<Holds(name, "nul"), "PathNul">>, <<Holds(name, "notnfc"), "PathUnicode">>,
                   <<Holds(name, "back"), "PathInvalidChar">>,
                   <<(Head(name) = "" /\ Len(name) > 1) \/ looks_like_drive(name),
                     "PathAbsolute">>,
                   <<bad # {}, IF bad = {} THEN OK
                               ELSE validate_component(name[Min(bad)], profile)>>,
                   <<Len(Kept(name)) = 0, "PathEmpty">>,
                   <<Len(Kept(name)) > d, "PathDepth">> >>
<1>1. FirstOf(checks) = OK
  BY DEF validate_name
<1>2. bad # {} => validate_component(name[Min(bad)], profile) # OK
  <2>1. bad \subseteq Nat
    BY AppendIs
  <2> QED BY <2>1, MinOf
<1> HIDE DEF bad
<1>3. DOMAIN checks = 1..7
  OBVIOUS
<1>4. \A i \in 1..7 : checks[i][1] => checks[i][2] # OK
  <2>1. checks[5][1] => checks[5][2] # OK
    BY <1>2
  <2>2. /\ checks[1][2] = "PathNul" /\ checks[2][2] = "PathUnicode"
        /\ checks[3][2] = "PathInvalidChar" /\ checks[4][2] = "PathAbsolute"
        /\ checks[6][2] = "PathEmpty" /\ checks[7][2] = "PathDepth"
    OBVIOUS
  <2> HIDE DEF checks
  <2>3. \A i \in 1..7 : i = 1 \/ i = 2 \/ i = 3 \/ i = 4 \/ i = 5 \/ i = 6 \/ i = 7
    OBVIOUS
  <2> QED BY <2>1, <2>2, <2>3 DEF OK
<1>5. \A i \in 1..7 : ~checks[i][1]
  <2> HIDE DEF checks
  <2> QED BY <1>1, <1>3, <1>4, FirstOfOK
<1>6. ~(Len(Kept(name)) = 0)
  <2>1. ~checks[6][1]
    <3> HIDE DEF checks
    <3> QED BY <1>5
  <2> QED BY <2>1
<1>7. Len(<<>>) = 0
  OBVIOUS
<1> QED BY <1>6, <1>7

\* The path of a name the jail accepts is a nonempty sequence.
LEMMA JailedPath ==
    ASSUME NEW name, IsASeq(name), NEW d, NEW profile,
           jail_name_for_profile(name, d, profile).finding = OK
    PROVE /\ IsASeq(jail_name_for_profile(name, d, profile).components)
          /\ jail_name_for_profile(name, d, profile).components # <<>>
<1>1. /\ jail_name_for_profile(name, d, profile).finding = validate_name(name, d, profile)
      /\ jail_name_for_profile(name, d, profile).components = Kept(name)
  BY DEF jail_name_for_profile
<1> QED BY <1>1, KeptIsASeq, NamesKept

\* What an admitted path does not meet.
Clear(seen, path, is_dir, profile) ==
    LET fold == profile_case_fold(path, profile)
    IN  \A e \in seen :
          /\ e.fold # fold
          /\ path # <<>> => (StrictAncestor(e.fold, fold) => e.dir)
          /\ path # <<>> => (StrictAncestor(fold, e.fold) => is_dir)

\* A path the topology accepts meets no admitted path.
LEMMA TopologyClear ==
    ASSUME NEW seen, NEW path, NEW is_dir, NEW profile,
           TopologyFinding(seen, path, is_dir, profile) = OK
    PROVE Clear(seen, path, is_dir, profile)
<1> DEFINE exact == {[path |-> e.path, dir |-> e.dir] : e \in seen}
           folds == {[path |-> e.fold, dir |-> e.dir] : e \in seen}
           fold == profile_case_fold(path, profile)
           checks == << <<\E e \in exact : e.path = path, "PathConflict">>,
                        <<\E e \in folds : e.path = fold, "PathCaseFold">>,
                        <<path # <<>> /\ path_conflict(exact, path, is_dir), "PathConflict">>,
                        <<path # <<>> /\ path_conflict(folds, fold, is_dir), "PathCaseFold">> >>
<1>1. FirstOf(checks) = OK
  BY DEF TopologyFinding
<1>2. DOMAIN checks = 1..4
  OBVIOUS
<1>3. \A i \in 1..4 : checks[i][1] => checks[i][2] # OK
  <2>1. /\ checks[1][2] = "PathConflict" /\ checks[2][2] = "PathCaseFold"
        /\ checks[3][2] = "PathConflict" /\ checks[4][2] = "PathCaseFold"
    OBVIOUS
  <2> HIDE DEF checks
  <2>2. \A i \in 1..4 : i = 1 \/ i = 2 \/ i = 3 \/ i = 4
    OBVIOUS
  <2> QED BY <2>1, <2>2 DEF OK
<1>4. ~checks[2][1] /\ ~checks[4][1]
  <2> HIDE DEF checks
  <2>1. \A i \in 1..4 : ~checks[i][1]
    BY <1>1, <1>2, <1>3, FirstOfOK
  <2> QED BY <2>1
<1>5. ~\E e \in folds : e.path = fold
  BY <1>4
<1>6. ~(path # <<>> /\ path_conflict(folds, fold, is_dir))
  BY <1>4
<1>7. ASSUME NEW e \in seen
      PROVE /\ e.fold # fold
            /\ path # <<>> => (StrictAncestor(e.fold, fold) => e.dir)
            /\ path # <<>> => (StrictAncestor(fold, e.fold) => is_dir)
  <2> DEFINE g == [path |-> e.fold, dir |-> e.dir]
  <2>1. g \in folds /\ g.path = e.fold /\ g.dir = e.dir
    OBVIOUS
  <2> HIDE DEF folds, fold, g
  <2>2. e.fold # fold
    BY <1>5, <2>1
  <2>3. ASSUME path # <<>>, StrictAncestor(e.fold, fold) PROVE e.dir
    BY <1>6, <2>1, <2>3 DEF path_conflict
  <2>4. ASSUME path # <<>>, StrictAncestor(fold, e.fold) PROVE is_dir
    BY <1>6, <2>1, <2>4 DEF path_conflict
  <2> QED BY <2>2, <2>3, <2>4
<1> QED BY <1>7 DEF Clear

\* A name without its trailing slash is a sequence.
LEMMA StrippedIsASeq ==
    ASSUME NEW name, IsASeq(name)
    PROVE IsASeq(StripTrailingSlash(name))
BY FrontIsASeq DEF StripTrailingSlash

\* So is what prepare_tar_member_name hands to the jail.
LEMMA PreparedIsASeq ==
    ASSUME NEW name, IsASeq(name), NEW is_dir
    PROVE IsASeq(prepare_tar_member_name(name, is_dir).name)
<1> DEFINE stripped == IF is_dir THEN StripTrailingSlash(name) ELSE name
<1>1. IsASeq(stripped)
  BY StrippedIsASeq
<1>2. prepare_tar_member_name(name, is_dir).name
        = SubSeq(stripped, LeadingDots(stripped) + 1, Len(stripped))
  BY DEF prepare_tar_member_name
<1> HIDE DEF stripped
<1>3. PICK S : stripped \in Seq(S)
  BY <1>1 DEF IsASeq
<1> DEFINE n == Len(stripped) - 1
           K == {k \in 1..n : \A i \in 1..k : stripped[i] = "."}
<1>4. LeadingDots(stripped) \in Nat
  <2> DEFINE Z == {0} \cup K
  <2>1. LeadingDots(stripped) = Max(Z)
    BY DEF LeadingDots
  <2>2. n \in Int /\ K \subseteq 1..n
    BY <1>3
  <2> HIDE DEF K, n
  <2>3. CASE K = {}
    <3>1. Z \subseteq Nat /\ 0 \in Z /\ \A y \in Z : y <= 0
      BY <2>3
    <3>2. Max(Z) = 0
      <4> HIDE DEF Z
      <4> QED BY <3>1, MaxIs
    <3> QED BY <2>1, <3>2
  <2>4. CASE K # {}
    <3>1. n \in Nat
      <4>1. PICK k : k \in 1..n
        BY <2>2, <2>4
      <4> QED BY <2>2, <4>1
    <3>2. Max(K) \in K /\ \A y \in K : y <= Max(K)
      BY <2>2, <2>4, <3>1, MaxOf
    <3>3. Max(K) \in Nat /\ Z \subseteq Nat /\ Max(K) \in Z /\ \A y \in Z : y <= Max(K)
      <4>1. K \subseteq Nat
        BY <2>2
      <4>2. Z \subseteq Nat /\ Max(K) \in Z
        BY <3>2, <4>1
      <4>3. Max(K) \in Nat
        BY <3>2, <4>1, Zenon
      <4>4. \A x \in Nat : 0 <= x
        OBVIOUS
      <4> QED BY <3>2, <4>2, <4>3, <4>4
    <3>4. Max(Z) = Max(K)
      <4> HIDE DEF Z
      <4> QED BY <3>3, MaxIs
    <3> HIDE DEF Z
    <3> QED BY <2>1, <3>3, <3>4
  <2> QED BY <2>3, <2>4
<1>5. SubSeq(stripped, LeadingDots(stripped) + 1, Len(stripped)) \in Seq(S)
  <2> DEFINE a == LeadingDots(stripped) + 1
  <2>1. a \in Nat /\ a >= 1
    BY <1>4
  <2> HIDE DEF a
  <2>2. SubSeq(stripped, a, Len(stripped)) \in Seq(S)
    BY <1>3, <2>1
  <2> QED BY <2>2 DEF a
<1> QED BY <1>2, <1>5 DEF IsASeq

\* A path admit_tar_path accepts meets no admitted path; only a directory is the root.
LEMMA TarPathClear ==
    ASSUME NEW name, IsASeq(name), NEW is_dir, NEW d, NEW seen,
           admit_tar_path(name, is_dir, d, seen).finding = OK
    PROVE LET path == admit_tar_path(name, is_dir, d, seen).components
          IN  /\ Clear(seen, path, is_dir, Portable)
              /\ IsASeq(path) /\ (path = <<>> => is_dir)
<1> DEFINE prepared == prepare_tar_member_name(name, is_dir)
           jailed == jail_name_for_profile(prepared.name, d, Portable)
           path == IF prepared.archive_root THEN <<>> ELSE jailed.components
           topology == TopologyFinding(seen, path, is_dir, Portable)
           checks == << <<~prepared.archive_root /\ jailed.finding # OK, jailed.finding>>,
                        <<~prepared.archive_root /\ portable_name_violation(jailed),
                          "PathInvalidChar">>,
                        <<topology # OK, topology>> >>
<1>1. FirstOf(checks) = OK /\ admit_tar_path(name, is_dir, d, seen).components = path
  BY DEF admit_tar_path
<1>2. prepared.archive_root => is_dir
  BY DEF prepare_tar_member_name
<1>3. IsASeq(prepared.name)
  BY PreparedIsASeq
<1> HIDE DEF prepared, topology
<1>4. DOMAIN checks = 1..3
  OBVIOUS
<1>5. \A i \in 1..3 : checks[i][1] => checks[i][2] # OK
  <2>1. checks[1][1] => checks[1][2] # OK
    OBVIOUS
  <2>2. checks[2][2] = "PathInvalidChar"
    OBVIOUS
  <2>3. checks[3][1] => checks[3][2] # OK
    OBVIOUS
  <2> HIDE DEF checks
  <2>4. \A i \in 1..3 : i = 1 \/ i = 2 \/ i = 3
    OBVIOUS
  <2> QED BY <2>1, <2>2, <2>3, <2>4 DEF OK
<1>6. ~checks[1][1] /\ ~checks[3][1]
  <2> HIDE DEF checks
  <2>1. \A i \in 1..3 : ~checks[i][1]
    BY <1>1, <1>4, <1>5, FirstOfOK
  <2> QED BY <2>1
<1>7. prepared.archive_root \/ jailed.finding = OK
  BY <1>6
<1>8. topology = OK
  BY <1>6
<1>9. Clear(seen, path, is_dir, Portable)
  BY <1>8, TopologyClear DEF topology
<1>10. IsASeq(path) /\ (path = <<>> => is_dir)
  <2>1. CASE prepared.archive_root
    <3>1. <<>> \in Seq({})
      OBVIOUS
    <3> QED BY <1>2, <2>1, <3>1 DEF IsASeq
  <2>2. CASE ~prepared.archive_root
    BY <1>3, <1>7, <2>2, JailedPath
  <2> QED BY <2>1, <2>2
<1> QED BY <1>1, <1>9, <1>10

-----------------------------------------------------------------------------
(***************************************************************************)
(* What a plan keeps, in every format                                      *)
(***************************************************************************)
PlanFields == {"findings", "planned", "seen", "total", "stopped"}
IsPlan(p) == p = [x \in PlanFields |-> p[x]]

Folded(m, profile) == profile_case_fold(m.components, profile)

\* The paths of ms form one tree.
Tree(ms, profile) ==
    \A i, j \in DOMAIN ms : i # j =>
        /\ Folded(ms[i], profile) # Folded(ms[j], profile)
        /\ StrictAncestor(Folded(ms[i], profile), Folded(ms[j], profile)) => ms[i].is_dir

\* Every planned path is among those the topology saw.
PlanInv(profile, p) ==
    /\ IsPlan(p) /\ IsASeq(p.planned) /\ Tree(p.planned, profile)
    /\ \A m \in Range(p.planned) :
         /\ IsASeq(m.components)
         /\ [path |-> m.components, fold |-> Folded(m, profile), dir |-> m.is_dir] \in p.seen

\* A member that is refused leaves the admitted ones as they are.
PlansNothing(p, q) == IsPlan(q) /\ q.planned = p.planned /\ q.seen = p.seen

\* A member that is admitted.
PlansMember(profile, p, q, m) ==
    /\ IsPlan(q) /\ IsASeq(m.components)
    /\ Clear(p.seen, m.components, m.is_dir, profile)
    /\ m.components = <<>> => m.is_dir
    /\ q.planned = Append(p.planned, m)
    /\ q.seen = Admit(p.seen, m.components, m.is_dir, profile)

Plans(profile, p, q) == PlansNothing(p, q) \/ \E m : PlansMember(profile, p, q, m)

\* Case folding keeps the number of components.
LEMMA FoldLength ==
    ASSUME NEW path, IsASeq(path), NEW profile
    PROVE /\ Len(profile_case_fold(path, profile)) \in Nat
          /\ path = <<>> => Len(profile_case_fold(path, profile)) = 0
<1>1. PICK S : path \in Seq(S)
  BY DEF IsASeq
<1> DEFINE n == Len(path)
           F(i) == FoldComponent(path[i], profile)
           f == [i \in 1..n |-> F(i)]
<1>2. n \in Nat /\ DOMAIN path = 1..n
  BY <1>1
<1>3. profile_case_fold(path, profile) = f
  BY <1>2 DEF profile_case_fold
<1>4. Len(f) = n
  <2> HIDE DEF F, n
  <2> QED BY <1>2
<1>5. path = <<>> => n = 0
  OBVIOUS
<1> HIDE DEF f, n
<1> QED BY <1>2, <1>3, <1>4, <1>5

\* Admitting a path that meets none of the admitted ones keeps the tree.
LEMMA AdmitKeeps ==
    ASSUME NEW profile, NEW p, PlanInv(profile, p), NEW q, NEW m, PlansMember(profile, p, q, m)
    PROVE PlanInv(profile, q)
<1> DEFINE ms == p.planned
           k == Len(ms)
           F(x) == Folded(x, profile)
           E(x) == [path |-> x.components, fold |-> F(x), dir |-> x.is_dir]
<1>1. /\ IsASeq(ms) /\ Tree(ms, profile)
      /\ \A x \in Range(ms) : IsASeq(x.components) /\ E(x) \in p.seen
  BY DEF PlanInv
<1>2. /\ IsPlan(q) /\ IsASeq(m.components) /\ Clear(p.seen, m.components, m.is_dir, profile)
      /\ m.components = <<>> => m.is_dir
      /\ q.planned = Append(ms, m) /\ q.seen = p.seen \cup {E(m)}
  BY DEF PlansMember, Admit, Folded
<1>3. /\ IsASeq(q.planned) /\ k \in Nat /\ DOMAIN ms = 1..k /\ DOMAIN q.planned = 1..(k + 1)
      /\ \A i \in 1..k : q.planned[i] = ms[i]
      /\ q.planned[k + 1] = m /\ Range(q.planned) = Range(ms) \cup {m}
  BY <1>1, <1>2, AppendIs
<1>4. \A x \in Range(q.planned) : IsASeq(x.components) /\ E(x) \in q.seen
  <2> HIDE DEF E
  <2> QED BY <1>1, <1>2, <1>3
<1>5. ASSUME NEW x \in Range(ms)
      PROVE /\ F(x) # F(m)
            /\ StrictAncestor(F(x), F(m)) => x.is_dir
            /\ StrictAncestor(F(m), F(x)) => m.is_dir
  <2>1. E(x) \in p.seen /\ E(x).fold = F(x) /\ E(x).dir = x.is_dir
    BY <1>1
  <2> HIDE DEF E
  <2>2. /\ F(x) # F(m)
        /\ m.components # <<>> => /\ StrictAncestor(F(x), F(m)) => x.is_dir
                                  /\ StrictAncestor(F(m), F(x)) => m.is_dir
    <3>1. PICK e \in p.seen : e.fold = F(x) /\ e.dir = x.is_dir
      BY <2>1
    <3>2. e.fold # profile_case_fold(m.components, profile)
      BY <1>2 DEF Clear
    <3>3. ASSUME m.components # <<>>,
                 StrictAncestor(e.fold, profile_case_fold(m.components, profile))
          PROVE e.dir
      BY <1>2, <3>3 DEF Clear
    <3>4. ASSUME m.components # <<>>,
                 StrictAncestor(profile_case_fold(m.components, profile), e.fold)
          PROVE m.is_dir
      BY <1>2, <3>4 DEF Clear
    <3> QED BY <3>1, <3>2, <3>3, <3>4 DEF Folded
  <2>3. CASE m.components = <<>>
    <3>1. Len(F(m)) = 0 /\ Len(F(x)) \in Nat
      BY <1>1, <1>2, <2>3, FoldLength DEF Folded
    <3>2. ~StrictAncestor(F(x), F(m))
      BY <3>1 DEF StrictAncestor
    <3> QED BY <1>2, <2>2, <2>3, <3>2
  <2> QED BY <2>2, <2>3
<1>6. \A i \in 1..k : q.planned[i] \in Range(ms) /\ q.planned[i] = ms[i]
  BY <1>3 DEF Range
<1>7. Tree(q.planned, profile)
  <2> SUFFICES ASSUME NEW i \in DOMAIN q.planned, NEW j \in DOMAIN q.planned, i # j
               PROVE /\ F(q.planned[i]) # F(q.planned[j])
                     /\ StrictAncestor(F(q.planned[i]), F(q.planned[j])) => q.planned[i].is_dir
    BY DEF Tree
  <2>1. (i \in 1..k \/ i = k + 1) /\ (j \in 1..k \/ j = k + 1)
    BY <1>3
  <2> HIDE DEF F, k
  <2>2. CASE i \in 1..k /\ j \in 1..k
    BY <1>1, <1>3, <1>6, <2>2 DEF Tree, F
  <2>3. CASE i \in 1..k /\ j = k + 1
    BY <1>3, <1>5, <1>6, <2>3
  <2>4. CASE i = k + 1 /\ j \in 1..k
    BY <1>3, <1>5, <1>6, <2>4
  <2> QED BY <2>1, <2>2, <2>3, <2>4
<1> QED BY <1>2, <1>3, <1>4, <1>7 DEF PlanInv

\* A planner's turn keeps the plan's invariant.
LEMMA PlansKeep ==
    ASSUME NEW profile, NEW p, PlanInv(profile, p), NEW q, Plans(profile, p, q)
    PROVE PlanInv(profile, q)
BY AdmitKeeps DEF Plans, PlansNothing, PlanInv

\* The invariant holds before the first member.
LEMMA NewPlanInv == ASSUME NEW profile PROVE PlanInv(profile, NewPlan) /\ NewZipPlan = NewPlan
<1>1. NewPlan.planned = <<>> /\ NewZipPlan = NewPlan /\ IsPlan(NewPlan)
  BY DEF NewPlan, NewZipPlan, IsPlan, PlanFields
<1>2. IsASeq(<<>>) /\ Range(<<>>) = {} /\ DOMAIN <<>> = {}
  <2>1. <<>> \in Seq({}) /\ DOMAIN <<>> = {}
    OBVIOUS
  <2> QED BY <2>1 DEF IsASeq, Range
<1>3. Tree(<<>>, profile)
  BY <1>2 DEF Tree
<1> QED BY <1>1, <1>2, <1>3 DEF PlanInv

\* The ways in which the planners refuse a member.
LEMMA Refuses ==
    ASSUME NEW p, IsPlan(p), NEW q,
           \/ q = p \/ \E f : q = [p EXCEPT !.findings = f]
           \/ \E f : q = [[p EXCEPT !.findings = f] EXCEPT !.stopped = TRUE]
           \/ \E f, t : q = [[p EXCEPT !.findings = f] EXCEPT !.total = t]
           \/ \E f, t : q = [[p EXCEPT !.total = t] EXCEPT !.findings = f]
    PROVE PlansNothing(p, q)
<1>1. ASSUME NEW f, NEW t
      PROVE /\ PlansNothing(p, p)
            /\ PlansNothing(p, [p EXCEPT !.findings = f])
            /\ PlansNothing(p, [[p EXCEPT !.findings = f] EXCEPT !.stopped = TRUE])
            /\ PlansNothing(p, [[p EXCEPT !.findings = f] EXCEPT !.total = t])
            /\ PlansNothing(p, [[p EXCEPT !.total = t] EXCEPT !.findings = f])
  BY DEF IsPlan, PlanFields, PlansNothing
<1>2. CASE q = p
  BY <1>1, <1>2
<1>3. CASE \E f : q = [p EXCEPT !.findings = f]
  BY <1>1, <1>3
<1>4. CASE \E f : q = [[p EXCEPT !.findings = f] EXCEPT !.stopped = TRUE]
  BY <1>1, <1>4
<1>5. CASE \E f, t : q = [[p EXCEPT !.findings = f] EXCEPT !.total = t]
  <2>1. PICK f, t : q = [[p EXCEPT !.findings = f] EXCEPT !.total = t]
    BY <1>5
  <2> QED BY <1>1, <2>1
<1>6. CASE \E f, t : q = [[p EXCEPT !.total = t] EXCEPT !.findings = f]
  BY <1>1, <1>6
<1> QED BY <1>2, <1>3, <1>4, <1>5, <1>6

\* The way in which the planners admit one.
LEMMA Admits ==
    ASSUME NEW p, IsPlan(p), NEW profile, NEW t, NEW m, NEW is_dir, m.is_dir = is_dir,
           NEW path, m.components = path, IsASeq(path), Clear(p.seen, path, is_dir, profile),
           path = <<>> => is_dir
    PROVE PlansMember(profile, p, [[p EXCEPT !.total = t] EXCEPT
                                     !.planned = Append(@, m), !.seen = Admit(@, path, is_dir, profile)],
                      m)
<1> DEFINE a == Append(p.planned, m)
           e == Admit(p.seen, path, is_dir, profile)
           q == [[p EXCEPT !.total = t] EXCEPT !.planned = a, !.seen = e]
<1>1. q = [[p EXCEPT !.total = t] EXCEPT !.planned = Append(@, m),
                                         !.seen = Admit(@, path, is_dir, profile)]
  BY DEF IsPlan, PlanFields
<1> HIDE DEF a, e
<1>2. IsPlan(q) /\ q.planned = a /\ q.seen = e
  BY DEF IsPlan, PlanFields
<1> HIDE DEF q
<1>3. PlansMember(profile, p, q, m)
  BY <1>2 DEF PlansMember, a, e
<1> QED BY <1>1, <1>3

\* The turn of plan_tar_domains.
LEMMA TarPlans ==
    ASSUME NEW budget, NEW p, IsPlan(p), NEW m, IsMember(m), IsASeq(m.name)
    PROVE Plans(Portable, p, PlanMember(budget, p, m))
<1> DEFINE adm == admit_tar_path(m.name, m.is_dir, budget.max_depth, p.seen)
           n == [m EXCEPT !.components = adm.components, !.strip = adm.strip]
           q == PlanMember(budget, p, m)
           r == [[p EXCEPT !.total = p.total + m.size] EXCEPT
                   !.planned = Append(@, n), !.seen = Admit(@, adm.components, m.is_dir, Portable)]
<1>1. \/ q = p \/ \E f : q = [p EXCEPT !.findings = f]
      \/ \E f : q = [[p EXCEPT !.findings = f] EXCEPT !.stopped = TRUE]
      \/ \E f, t : q = [[p EXCEPT !.total = t] EXCEPT !.findings = f]
      \/ adm.finding = OK /\ q = r
  <2>1. q = PlanAdmitted(budget, p, m, adm)
    BY DEF PlanMember
  <2> HIDE DEF adm, q
  <2> DEFINE over == m.size > budget.max_member
             ratio == budget.max_ratio # <<>> /\ ratio_exceeds(m.size, m.size, budget.max_ratio[1])
             stop == p.total + m.size > MaxU64 \/ p.total + m.size > budget.max_total
  <2>2. CASE p.stopped
    BY <2>1, <2>2 DEF PlanAdmitted
  <2>3. CASE ~p.stopped /\ over
    BY <2>1, <2>3 DEF PlanAdmitted
  <2>4. CASE ~p.stopped /\ ~over /\ ratio
    BY <2>1, <2>4 DEF PlanAdmitted
  <2>5. CASE ~p.stopped /\ ~over /\ ~ratio /\ stop
    BY <2>1, <2>5 DEF PlanAdmitted
  <2>6. CASE ~p.stopped /\ ~over /\ ~ratio /\ ~stop /\ adm.finding # OK
    BY <2>1, <2>6 DEF PlanAdmitted
  <2>7. CASE ~p.stopped /\ ~over /\ ~ratio /\ ~stop /\ adm.finding = OK
    BY <2>1, <2>7 DEF PlanAdmitted
  <2> QED BY <2>2, <2>3, <2>4, <2>5, <2>6, <2>7
<1>2. ASSUME adm.finding = OK PROVE PlansMember(Portable, p, r, n)
  <2>1. /\ Clear(p.seen, adm.components, m.is_dir, Portable)
        /\ IsASeq(adm.components) /\ (adm.components = <<>> => m.is_dir)
    BY <1>2, TarPathClear
  <2> HIDE DEF adm
  <2>2. n.components = adm.components /\ n.is_dir = m.is_dir
    BY DEF IsMember
  <2> HIDE DEF n
  <2> QED BY <2>1, <2>2, Admits
<1> HIDE DEF q, r, n, adm
<1>3. Plans(Portable, p, q)
  <2>1. CASE ~(adm.finding = OK /\ q = r)
    BY <1>1, <2>1, Refuses, Zenon DEF Plans
  <2>2. CASE adm.finding = OK /\ q = r
    BY <1>2, <2>2, Zenon DEF Plans
  <2> QED BY <2>1, <2>2
<1> QED BY <1>3 DEF q

\* A path the ZIP planner accepts is not empty and meets no admitted path.
LEMMA ZipPathClear ==
    ASSUME NEW m, NEW name, IsASeq(name), NEW d, NEW seen, NEW profile, NEW jailed,
           jailed = jail_name_for_profile(name, d, JailProfile(profile)),
           ZipPathFinding(m, jailed, seen, profile) = OK
    PROVE /\ Clear(seen, jailed.components, m.is_dir, JailProfile(profile))
          /\ IsASeq(jailed.components) /\ jailed.components # <<>>
<1> DEFINE topology == TopologyFinding(seen, jailed.components, m.is_dir, JailProfile(profile))
           checks == << <<jailed.finding # OK, jailed.finding>>,
                        <<profile = "WheelUtf8V1" /\ jailed.actions > 0, "PathInvalidChar">>,
                        <<profile = "PortableUtf8V1" /\ portable_name_violation(jailed),
                          "PathInvalidChar">>,
                        <<\E e \in seen : e.path = jailed.components, "ZipDiffB1Dup">>,
                        <<topology # OK, topology>> >>
<1>1. FirstOf(checks) = OK
  BY DEF ZipPathFinding
<1> HIDE DEF topology
<1>2. DOMAIN checks = 1..5
  OBVIOUS
<1>3. \A i \in 1..5 : checks[i][1] => checks[i][2] # OK
  <2>1. /\ checks[1][1] => checks[1][2] # OK
        /\ checks[5][1] => checks[5][2] # OK
    OBVIOUS
  <2>2. /\ checks[2][2] = "PathInvalidChar" /\ checks[3][2] = "PathInvalidChar"
        /\ checks[4][2] = "ZipDiffB1Dup"
    OBVIOUS
  <2> HIDE DEF checks
  <2>3. \A i \in 1..5 : i = 1 \/ i = 2 \/ i = 3 \/ i = 4 \/ i = 5
    OBVIOUS
  <2> QED BY <2>1, <2>2, <2>3 DEF OK
<1>4. ~checks[1][1] /\ ~checks[5][1]
  <2> HIDE DEF checks
  <2>1. \A i \in 1..5 : ~checks[i][1]
    BY <1>1, <1>2, <1>3, FirstOfOK
  <2> QED BY <2>1
<1>5. jailed.finding = OK /\ topology = OK
  BY <1>4
<1>6. IsASeq(jailed.components) /\ jailed.components # <<>>
  BY <1>5, JailedPath
<1>7. Clear(seen, jailed.components, m.is_dir, JailProfile(profile))
  BY <1>5, TopologyClear DEF topology
<1> QED BY <1>6, <1>7

\* The turn of plan_snapshot.
LEMMA ZipPlans ==
    ASSUME NEW budget, NEW profile, NEW p, IsPlan(p), NEW m, IsMember(m), IsASeq(m.name)
    PROVE Plans(JailProfile(profile), p, PlanZipMember(budget, profile, p, m))
<1> DEFINE name == IF m.is_dir THEN Front(m.name) ELSE m.name
           jailed == jail_name_for_profile(name, budget.max_depth, JailProfile(profile))
           refusal == FirstOf(<< <<"crypt" \in m.flags, "ZipEncrypted">>,
                                 <<m.method \notin {0, 8}, "MethodUnsupported">>,
                                 <<m.uncomp_size > budget.max_member, "QuotaMember">>,
                                 <<budget.max_ratio # <<>>
                                     /\ ZipRatioExceeds(m.uncomp_size, m.comp_size, budget.max_ratio[1]),
                                   "QuotaRatio">> >>)
           total == p.total + m.uncomp_size
           path == ZipPathFinding(m, jailed, p.seen, profile)
           n == [m EXCEPT !.components = jailed.components, !.actions = jailed.actions]
           q == PlanZipMember(budget, profile, p, m)
           r == [[p EXCEPT !.total = total] EXCEPT
                   !.planned = Append(@, n),
                   !.seen = Admit(@, jailed.components, m.is_dir, JailProfile(profile))]
<1>1. q = IF p.stopped THEN p
          ELSE IF refusal # OK THEN [p EXCEPT !.findings = Append(@, refusal)]
          ELSE IF total > MaxU64
          THEN [[p EXCEPT !.findings = Append(@, "QuotaOverflow")] EXCEPT !.stopped = TRUE]
          ELSE IF total > budget.max_total
          THEN [[p EXCEPT !.findings = Append(@, "QuotaTotal")] EXCEPT !.stopped = TRUE]
          ELSE IF path # OK THEN [[p EXCEPT !.findings = Append(@, path)] EXCEPT !.total = total]
          ELSE [p EXCEPT !.total = total, !.planned = Append(@, n),
                         !.seen = Admit(@, jailed.components, m.is_dir, JailProfile(profile))]
  BY DEF PlanZipMember
<1>2. IsASeq(name)
  BY FrontIsASeq
<1>3. ASSUME path = OK PROVE PlansMember(JailProfile(profile), p, r, n)
  <2>1. /\ Clear(p.seen, jailed.components, m.is_dir, JailProfile(profile))
        /\ IsASeq(jailed.components) /\ jailed.components # <<>>
    <3> HIDE DEF name
    <3> QED BY <1>2, <1>3, ZipPathClear
  <2> HIDE DEF jailed, total
  <2>2. n.components = jailed.components /\ n.is_dir = m.is_dir
    BY DEF IsMember
  <2> HIDE DEF n
  <2> QED BY <2>1, <2>2, Admits
<1> HIDE DEF q, n, jailed, refusal, path, total
<1>4. CASE p.stopped \/ refusal # OK \/ total > MaxU64 \/ total > budget.max_total \/ path # OK
  <2>1. \/ q = p \/ \E f : q = [p EXCEPT !.findings = f]
        \/ \E f : q = [[p EXCEPT !.findings = f] EXCEPT !.stopped = TRUE]
        \/ \E f, t : q = [[p EXCEPT !.findings = f] EXCEPT !.total = t]
    BY <1>1, <1>4
  <2>2. PlansNothing(p, q)
    BY <2>1, Refuses, Zenon
  <2> QED BY <2>2 DEF Plans, q
<1>5. CASE ~(p.stopped \/ refusal # OK \/ total > MaxU64 \/ total > budget.max_total \/ path # OK)
  <2>1. q = r
    BY <1>1, <1>5
  <2> HIDE DEF r
  <2>2. Plans(JailProfile(profile), p, q)
    BY <1>3, <1>5, <2>1, Zenon DEF Plans
  <2> QED BY <2>2 DEF q
<1> QED BY <1>4, <1>5

\* A path the 7z planner accepts is not empty and meets no admitted path.
LEMMA SevenZPathClear ==
    ASSUME NEW name, IsASeq(name), NEW d, NEW seen, NEW is_dir, NEW jailed, NEW topology,
           jailed = jail_name_for_profile(name, d, Portable),
           topology = TopologyFinding(seen, jailed.components, is_dir, Portable),
           FirstOf(<< <<jailed.finding # OK, jailed.finding>>,
                      <<portable_name_violation(jailed), "PathInvalidChar">>,
                      <<topology # OK, topology>> >>) = OK
    PROVE /\ Clear(seen, jailed.components, is_dir, Portable)
          /\ IsASeq(jailed.components) /\ jailed.components # <<>>
<1> DEFINE checks == << <<jailed.finding # OK, jailed.finding>>,
                        <<portable_name_violation(jailed), "PathInvalidChar">>,
                        <<topology # OK, topology>> >>
<1>1. FirstOf(checks) = OK
  OBVIOUS
<1>2. DOMAIN checks = 1..3
  OBVIOUS
<1>3. \A i \in 1..3 : checks[i][1] => checks[i][2] # OK
  <2>1. /\ checks[1][1] => checks[1][2] # OK
        /\ checks[3][1] => checks[3][2] # OK
    OBVIOUS
  <2>2. checks[2][2] = "PathInvalidChar"
    OBVIOUS
  <2> HIDE DEF checks
  <2>3. \A i \in 1..3 : i = 1 \/ i = 2 \/ i = 3
    OBVIOUS
  <2> QED BY <2>1, <2>2, <2>3 DEF OK
<1>4. ~checks[1][1] /\ ~checks[3][1]
  <2> HIDE DEF checks
  <2>1. \A i \in 1..3 : ~checks[i][1]
    BY <1>1, <1>2, <1>3, FirstOfOK
  <2> QED BY <2>1
<1>5. jailed.finding = OK /\ topology = OK
  BY <1>4
<1> QED BY <1>5, JailedPath, TopologyClear

\* The turn of the 7z planner.
LEMMA SevenZPlans ==
    ASSUME NEW budget, NEW p, IsPlan(p), NEW m, IsMember(m), IsASeq(m.name)
    PROVE Plans(Portable, p, PlanSevenZMember(budget, p, m))
<1> DEFINE name == IF m.is_dir THEN StripTrailingSlash(m.name) ELSE m.name
           jailed == jail_name_for_profile(name, budget.max_depth, Portable)
           topology == TopologyFinding(p.seen, jailed.components, m.is_dir, Portable)
           path == FirstOf(<< <<jailed.finding # OK, jailed.finding>>,
                              <<portable_name_violation(jailed), "PathInvalidChar">>,
                              <<topology # OK, topology>> >>)
           refused == FirstOf(<< <<m.size > budget.max_member, "QuotaMember">>,
                                 <<budget.max_ratio # << >>
                                   /\ ratio_exceeds(m.size, m.size, budget.max_ratio[1]), "QuotaRatio">> >>)
           total == p.total + m.size
           stop == FirstOf(<< <<total > MaxU64, "QuotaOverflow">>,
                              <<total > budget.max_total, "QuotaTotal">> >>)
           n == [m EXCEPT !.components = jailed.components, !.strip = name # m.name]
           q == PlanSevenZMember(budget, p, m)
           r == [[p EXCEPT !.total = total] EXCEPT
                   !.planned = Append(@, n),
                   !.seen = Admit(@, jailed.components, m.is_dir, Portable)]
<1>1. q = IF p.stopped THEN p
          ELSE IF refused # OK THEN [p EXCEPT !.findings = Append(@, refused)]
          ELSE IF stop # OK
          THEN [[p EXCEPT !.findings = Append(@, stop)] EXCEPT !.stopped = TRUE]
          ELSE IF path # OK THEN [[p EXCEPT !.total = total] EXCEPT !.findings = Append(@, path)]
          ELSE r
  BY DEF PlanSevenZMember
<1>2. IsASeq(name)
  BY StrippedIsASeq
<1>3. ASSUME path = OK PROVE PlansMember(Portable, p, r, n)
  <2>1. /\ Clear(p.seen, jailed.components, m.is_dir, Portable)
        /\ IsASeq(jailed.components) /\ jailed.components # <<>>
    <3> HIDE DEF name
    <3> QED BY <1>2, <1>3, SevenZPathClear
  <2> HIDE DEF jailed, total
  <2>2. n.components = jailed.components /\ n.is_dir = m.is_dir
    BY DEF IsMember
  <2> HIDE DEF n
  <2> QED BY <2>1, <2>2, Admits
<1> HIDE DEF q, n, r, jailed, refused, stop, path, total
<1>4. CASE p.stopped \/ refused # OK \/ stop # OK \/ path # OK
  <2>1. \/ q = p \/ \E f : q = [p EXCEPT !.findings = f]
        \/ \E f : q = [[p EXCEPT !.findings = f] EXCEPT !.stopped = TRUE]
        \/ \E f, t : q = [[p EXCEPT !.total = t] EXCEPT !.findings = f]
    BY <1>1, <1>4
  <2>2. PlansNothing(p, q)
    BY <2>1, Refuses, Zenon
  <2> QED BY <2>2 DEF Plans, q
<1>5. CASE ~(p.stopped \/ refused # OK \/ stop # OK \/ path # OK)
  <2>1. q = r
    BY <1>1, <1>5
  <2>2. Plans(Portable, p, q)
    BY <1>3, <1>5, <2>1, Zenon DEF Plans
  <2> QED BY <2>2 DEF q
<1> QED BY <1>4, <1>5

\* A planner's loop keeps the plan's invariant.
LEMMA RunPlans ==
    ASSUME NEW profile, NEW n \in Nat, NEW h, h[0] = NewPlan,
           \A k \in Nat : k < n /\ IsPlan(h[k]) => Plans(profile, h[k], h[k + 1])
    PROVE PlanInv(profile, h[n])
<1> DEFINE T == {k \in Nat : k <= n => PlanInv(profile, h[k])}
<1>1. 0 \in T
  BY NewPlanInv
<1>2. ASSUME NEW k \in Nat, k \in T PROVE k + 1 \in T
  <2> SUFFICES ASSUME k + 1 <= n PROVE PlanInv(profile, h[k + 1])
    OBVIOUS
  <2>1. k < n /\ PlanInv(profile, h[k])
    BY <1>2
  <2>2. Plans(profile, h[k], h[k + 1])
    BY <2>1 DEF PlanInv
  <2> QED BY <2>1, <2>2, PlansKeep
<1>3. \A k \in Nat : k \in T
  <2> HIDE DEF T
  <2> QED BY <1>1, <1>2, Jail!SetInduction
<1> QED BY <1>3

\* What the planners need of the members they are given.
Nameable(ms) == IsASeq(ms) /\ \A m \in Range(ms) : IsMember(m) /\ IsASeq(m.name)

\* What the planner meets at its k-th turn.
LEMMA NameableAt ==
    ASSUME NEW ms, Nameable(ms)
    PROVE /\ Len(ms) \in Nat /\ DOMAIN ms = 1..Len(ms)
          /\ \A k \in Nat : k < Len(ms) => IsMember(ms[k + 1]) /\ IsASeq(ms[k + 1].name)
<1>1. Len(ms) \in Nat /\ DOMAIN ms = 1..Len(ms)
  BY AppendIs DEF Nameable
<1>2. ASSUME NEW k \in Nat, k < Len(ms) PROVE ms[k + 1] \in Range(ms)
  <2>1. k + 1 \in DOMAIN ms
    BY <1>1, <1>2
  <2> QED BY <2>1 DEF Range
<1> QED BY <1>1, <1>2 DEF Nameable

\* The loops of the three planners.
TarFold == INSTANCE FoldTheorems WITH Op <- PlanMember
SevenZFold == INSTANCE FoldTheorems WITH Op <- PlanSevenZMember
ZipOp(x, p, m) == PlanZipMember(x[1], x[2], p, m)
ZipFold == INSTANCE FoldTheorems WITH Op <- ZipOp

\* The plan of a TAR archive is a tree.
LEMMA TarPlanInv ==
    ASSUME NEW s, NEW budget, Nameable(s.members)
    PROVE PlanInv(Portable, PlanMembers(s, budget))
<1> DEFINE ms == s.members
           n == Len(ms)
<1>1. n \in Nat /\ DOMAIN ms = 1..n
  BY NameableAt
<1>2. PlanMembers(s, budget) = TarFold!Fold(budget, NewPlan, ms)
  BY DEF PlanMembers, TarFold!Fold, FoldLeft, MapThenFoldSet, TarFold!FoldLeft,
         TarFold!MapThenFoldSet, Max, TarFold!Max
<1>3. PICK h : TarFold!IsRun(h, budget, NewPlan, ms, n)
               /\ TarFold!Fold(budget, NewPlan, ms) = h[n]
  BY <1>1, TarFold!FoldRuns
<1>4. h[0] = NewPlan
      /\ \A k \in Nat : k < n => h[k + 1] = PlanMember(budget, h[k], ms[k + 1])
  BY <1>3 DEF TarFold!IsRun
<1>5. \A k \in Nat : k < n /\ IsPlan(h[k]) => Plans(Portable, h[k], h[k + 1])
  BY <1>4, NameableAt, TarPlans
<1> HIDE DEF n
<1> QED BY <1>1, <1>2, <1>3, <1>4, <1>5, RunPlans

\* The fold of PlanSevenZ.
SevenZPlan(ms, budget) ==
    FoldLeft(LAMBDA p, m : PlanSevenZMember(budget, p, m), NewPlan, ms)

\* The plan of a 7z archive is a tree.
LEMMA SevenZPlanInv ==
    ASSUME NEW ms, NEW budget, Nameable(ms) PROVE PlanInv(Portable, SevenZPlan(ms, budget))
<1> DEFINE n == Len(ms)
           plan == SevenZPlan(ms, budget)
<1>1. n \in Nat /\ DOMAIN ms = 1..n
  BY NameableAt
<1>2. plan = SevenZFold!Fold(budget, NewPlan, ms)
  BY DEF SevenZPlan, SevenZFold!Fold, FoldLeft, MapThenFoldSet, SevenZFold!FoldLeft,
         SevenZFold!MapThenFoldSet, Max, SevenZFold!Max
<1> HIDE DEF plan
<1>3. PICK h : SevenZFold!IsRun(h, budget, NewPlan, ms, n)
               /\ SevenZFold!Fold(budget, NewPlan, ms) = h[n]
  BY <1>1, SevenZFold!FoldRuns
<1>4. h[0] = NewPlan
      /\ \A k \in Nat : k < n => h[k + 1] = PlanSevenZMember(budget, h[k], ms[k + 1])
  BY <1>3 DEF SevenZFold!IsRun
<1>5. \A k \in Nat : k < n /\ IsPlan(h[k]) => Plans(Portable, h[k], h[k + 1])
  BY <1>4, NameableAt, SevenZPlans
<1> HIDE DEF n
<1>6. PlanInv(Portable, plan)
  BY <1>1, <1>2, <1>3, <1>4, <1>5, RunPlans
<1> QED BY <1>6 DEF plan

\* The fold of plan_snapshot.
ZipPlanOf(ms, budget, profile) ==
    FoldLeft(LAMBDA p, m : PlanZipMember(budget, profile, p, m), NewZipPlan, ms)

\* The plan of a ZIP archive is a tree under the folding of its profile.
LEMMA ZipPlanInv ==
    ASSUME NEW ms, NEW budget, NEW profile, Nameable(ms)
    PROVE PlanInv(JailProfile(profile), ZipPlanOf(ms, budget, profile))
<1> DEFINE n == Len(ms)
           x == <<budget, profile>>
           plan == ZipPlanOf(ms, budget, profile)
<1>1. n \in Nat /\ DOMAIN ms = 1..n
  BY NameableAt
<1>2. plan = ZipFold!Fold(x, NewZipPlan, ms)
  <2>1. x[1] = budget /\ x[2] = profile
    OBVIOUS
  <2> HIDE DEF x
  <2> QED BY <2>1 DEF ZipPlanOf, ZipFold!Fold, FoldLeft, MapThenFoldSet, ZipFold!FoldLeft,
                ZipFold!MapThenFoldSet, Max, ZipFold!Max, ZipOp
<1> HIDE DEF plan
<1>3. PICK h : ZipFold!IsRun(h, x, NewZipPlan, ms, n)
               /\ ZipFold!Fold(x, NewZipPlan, ms) = h[n]
  BY <1>1, ZipFold!FoldRuns
<1>4. h[0] = NewPlan
      /\ \A k \in Nat : k < n => h[k + 1] = PlanZipMember(budget, profile, h[k], ms[k + 1])
  BY <1>3, NewPlanInv DEF ZipFold!IsRun, ZipOp
<1>5. \A k \in Nat : k < n /\ IsPlan(h[k]) => Plans(JailProfile(profile), h[k], h[k + 1])
  BY <1>4, NameableAt, ZipPlans
<1> HIDE DEF n, x
<1>6. PlanInv(JailProfile(profile), plan)
  BY <1>1, <1>2, <1>3, <1>4, <1>5, RunPlans
<1> QED BY <1>6 DEF plan

-----------------------------------------------------------------------------
(***************************************************************************)
(* What the readers hand to the planners                                   *)
(***************************************************************************)
\* A TAR reader records the names its windows show.
NamesInv(s) ==
    /\ \A m \in Range(s.members) : IsMember(m) /\ IsName(m.raw_name)
    /\ \A i \in DOMAIN s.extensions : \A v \in ValuesIn(s.extensions[i], "path") : IsName(v)

\* A turn of a TAR reader records nothing but names.
LEMMA NamesTurn ==
    ASSUME NEW s, ScanInv(s), Running(s), NamesInv(s), NEW w, IsWindow(s.dialect, w)
    PROVE NamesInv(TarStep(s, w))
<1> DEFINE t == TarStep(s, w)
<1>1. /\ IsScan(s) /\ s.offset \in Nat /\ s.dialect \in Dialects
      /\ s.dialect = "ustar" => s.pending = <<>>
      /\ IsASeq(s.members) /\ IsASeq(s.extensions)
  BY DEF ScanInv, OverridesInv
<1>2. w.h.k = "header" => SizeOf(s, w) \in Nat
  BY SizeIsNat
<1>3. \/ Keeps(s, t)
      \/ w.h.k = "header" /\ ReadsMember(s, t, w, PathOf(s, w), SizeOf(s, w))
      \/ \E x : ReadsExtension(s, t, x)
  BY <1>1, <1>2, TurnReads DEF ReadsPax, ReadsCarrier
<1> HIDE DEF t
<1>4. CASE Keeps(s, t)
  BY <1>4 DEF Keeps, NamesInv, t
<1>5. CASE w.h.k = "header" /\ ReadsMember(s, t, w, PathOf(s, w), SizeOf(s, w))
  <2>1. PICK m : t.members = Append(s.members, m) /\ IsMember(m) /\ m.raw_name = w.h.name
    BY <1>5 DEF ReadsMember
  <2>2. Range(t.members) = Range(s.members) \cup {m}
    BY <1>1, <2>1, AppendIs
  <2>3. IsName(m.raw_name)
    BY <1>5, <2>1 DEF IsWindow
  <2>4. t.extensions = s.extensions
    BY <1>5 DEF ReadsMember
  <2> QED BY <2>1, <2>2, <2>3, <2>4 DEF NamesInv, t
<1>6. CASE \E x : ReadsExtension(s, t, x)
  <2>1. PICK x : ReadsExtension(s, t, x)
    BY <1>6
  <2>2. /\ t.members = s.members /\ t.extensions = Append(s.extensions, x)
        /\ \A v \in ValuesIn(x, "path") : IsName(v)
    BY <2>1 DEF ReadsExtension
  <2>3. \A i \in DOMAIN t.extensions :
          t.extensions[i] = x \/ (i \in DOMAIN s.extensions /\ t.extensions[i] = s.extensions[i])
    <3> DEFINE n == Len(s.extensions)
    <3>1. /\ n \in Nat /\ DOMAIN s.extensions = 1..n /\ DOMAIN t.extensions = 1..(n + 1)
          /\ \A i \in 1..n : t.extensions[i] = s.extensions[i]
          /\ t.extensions[n + 1] = x
      BY <1>1, <2>2, AppendIs
    <3> HIDE DEF n
    <3>2. \A i \in 1..(n + 1) : i \in 1..n \/ i = n + 1
      BY <3>1
    <3> QED BY <3>1, <3>2
  <2> QED BY <2>2, <2>3 DEF NamesInv, t
<1> QED BY <1>3, <1>4, <1>5, <1>6

\* A new TAR scan has recorded nothing.
LEMMA NewNames ==
    ASSUME NEW d, NEW len, NEW maxFiles, NEW maxMetadata
    PROVE NamesInv(NewScan(d, len, maxFiles, maxMetadata))
<1> DEFINE s == NewScan(d, len, maxFiles, maxMetadata)
<1>1. s.members = <<>> /\ s.extensions = <<>>
  BY DEF NewScan
<1> HIDE DEF s
<1>2. Range(s.members) = {} /\ DOMAIN s.extensions = {}
  BY <1>1 DEF Range
<1> QED BY <1>2 DEF NamesInv, s

\* The name a member is planned under is one of those.
LEMMA TarNameable ==
    ASSUME NEW s, ScanInv(s), NamesInv(s) PROVE Nameable(s.members)
<1> DEFINE es == s.extensions
<1>1. IsASeq(s.members) /\ IsASeq(es) /\ \A m \in Range(s.members) : Bound(es, m)
  BY DEF ScanInv
<1>2. ASSUME NEW m \in Range(s.members) PROVE IsName(m.name)
  <2> DEFINE o == m.tar.header.offset
             ls == LocalsFor(es, o, "path")
             gs == GlobalsFor(es, o, "path")
  <2>1. {m.name} = ReferenceValue(es, o, "path", m.raw_name)
    BY <1>1 DEF Bound
  <2>2. Len(es) \in Nat /\ DOMAIN es = 1..Len(es)
    BY <1>1, AppendIs
  <2>3. ls \subseteq DOMAIN es /\ gs \subseteq DOMAIN es
    BY DEF LocalsFor, GlobalsFor
  <2>4. (ls # {} => Max(ls) \in DOMAIN es) /\ (gs # {} => Max(gs) \in DOMAIN es)
    <3> HIDE DEF ls, gs
    <3>1. ls # {} => Max(ls) \in ls
      BY <2>2, <2>3, MaxOf
    <3>2. gs # {} => Max(gs) \in gs
      BY <2>2, <2>3, MaxOf
    <3> QED BY <2>3, <3>1, <3>2
  <2>5. CASE ls # {}
    <3>1. m.name \in ValuesIn(es[Max(ls)], "path")
      BY <2>1, <2>5 DEF ReferenceValue
    <3> QED BY <2>4, <2>5, <3>1 DEF NamesInv
  <2>6. CASE ls = {} /\ gs # {}
    <3>1. m.name \in ValuesIn(es[Max(gs)], "path")
      BY <2>1, <2>6 DEF ReferenceValue
    <3> QED BY <2>4, <2>6, <3>1 DEF NamesInv
  <2>7. CASE ls = {} /\ gs = {}
    <3>1. m.name = m.raw_name
      BY <2>1, <2>7 DEF ReferenceValue
    <3> QED BY <3>1 DEF NamesInv
  <2> QED BY <2>5, <2>6, <2>7
<1>3. ASSUME NEW m \in Range(s.members) PROVE IsMember(m) /\ IsASeq(m.name)
  BY <1>2 DEF NamesInv, IsName, IsASeq
<1> QED BY <1>1, <1>3 DEF Nameable

ZipFields == {"profile", "len", "maxFiles", "maxMetadata", "stage", "end", "pos", "members",
              "metadata", "zip64Seen", "maxVersion", "verdict"}
IsZipScan(s) == s = [x \in ZipFields |-> s[x]] /\ Nameable(s.members)

\* A new ZIP scan has the fields of one and no members.
LEMMA NewZipScanIs ==
    ASSUME NEW profile, NEW len, NEW maxFiles, NEW maxMetadata
    PROVE IsZipScan(NewZipScan(profile, len, maxFiles, maxMetadata))
<1> DEFINE s == NewZipScan(profile, len, maxFiles, maxMetadata)
<1>1. s = [x \in ZipFields |-> s[x]] /\ s.members = <<>>
  BY DEF NewZipScan, ZipFields
<1> HIDE DEF s
<1>2. IsASeq(<<>>) /\ Range(<<>>) = {}
  <2>1. <<>> \in Seq({})
    OBVIOUS
  <2> QED BY <2>1 DEF IsASeq, Range
<1> QED BY <1>1, <1>2 DEF IsZipScan, Nameable, s

\* A ZIP reader that refuses keeps what it has read.
LEMMA ZipRejectIs ==
    ASSUME NEW s, IsZipScan(s), NEW f PROVE IsZipScan(ZipReject(s, f))
BY DEF IsZipScan, ZipFields, ZipReject

\* A member that is pushed has the name of its central header.
LEMMA ZipPushIs ==
    ASSUME NEW s, IsZipScan(s), NEW w, IsName(w.cdh.name), NEW v, NEW width
    PROVE IsZipScan(PushZipMember(s, w, v, width))
<1> DEFINE m == ZipMember(s, w, v, width)
           a == Append(s.members, m)
           t == PushZipMember(s, w, v, width)
<1>1. IsMember(m) /\ m.name = w.cdh.name
  <2>1. m.name = w.cdh.name
    BY DEF ZipMember
  <2>2. "is_dir" \in DOMAIN m /\ "components" \in DOMAIN m
    BY DEF ZipMember
  <2>3. m = [x \in DOMAIN m |-> m[x]]
    BY ZenonT(180) DEF ZipMember
  <2> HIDE DEF m
  <2> QED BY <2>1, <2>2, <2>3 DEF IsMember
<1>2. IsASeq(m.name)
  BY <1>1 DEF IsName, IsASeq
<1> HIDE DEF m
<1>3. Nameable(a)
  <2>1. IsASeq(s.members) /\ \A x \in Range(s.members) : IsMember(x) /\ IsASeq(x.name)
    BY DEF IsZipScan, Nameable
  <2>2. IsASeq(a) /\ Range(a) = Range(s.members) \cup {m}
    BY <2>1, AppendIs
  <2> HIDE DEF a
  <2> QED BY <1>1, <1>2, <2>1, <2>2 DEF Nameable
<1>4. \/ \E f : t = ZipReject(s, f)
      \/ \E b, c, d, e : t = [s EXCEPT !.members = a, !.metadata = b, !.pos = c,
                                       !.maxVersion = d, !.zip64Seen = e]
  BY DEF PushZipMember, m, IsZipScan, ZipFields
<1> HIDE DEF a, t
<1>5. ASSUME NEW b, NEW c, NEW d, NEW e
      PROVE IsZipScan([s EXCEPT !.members = a, !.metadata = b, !.pos = c,
                                !.maxVersion = d, !.zip64Seen = e])
  BY <1>3 DEF IsZipScan, ZipFields
<1>6. IsZipScan(t)
  <2>1. CASE \E f : t = ZipReject(s, f)
    BY <2>1, ZipRejectIs, Zenon
  <2>2. CASE \E b, c, d, e : t = [s EXCEPT !.members = a, !.metadata = b, !.pos = c,
                                           !.maxVersion = d, !.zip64Seen = e]
    <3>1. PICK b, c, d, e : t = [s EXCEPT !.members = a, !.metadata = b, !.pos = c,
                                          !.maxVersion = d, !.zip64Seen = e]
      BY <2>2
    <3> QED BY <1>5, <3>1
  <2> QED BY <1>4, <2>1, <2>2
<1> QED BY <1>6 DEF t

\* A turn of a ZIP reader records nothing but named members.
LEMMA ZipTurn ==
    ASSUME NEW s, IsZipScan(s), NEW w,
           s.stage # "end" /\ ~ZipExhausted(s) => IsName(w.cdh.name)
    PROVE IsZipScan(ZipStep(s, w))
<1>1. CASE s.stage = "end"
  <2>1. ZipStep(s, w) = ZipEndStep(s, w)
    BY <1>1 DEF ZipStep, ZipExhausted
  <2>2. \/ \E f : ZipEndStep(s, w) = ZipReject(s, f)
        \/ \E e, c : ZipEndStep(s, w) = [s EXCEPT !.stage = "members", !.end = e, !.metadata = c]
    BY DEF ZipEndStep
  <2>3. ASSUME NEW e, NEW c
        PROVE IsZipScan([s EXCEPT !.stage = "members", !.end = e, !.metadata = c])
    BY DEF IsZipScan, ZipFields
  <2>4. CASE \E f : ZipEndStep(s, w) = ZipReject(s, f)
    BY <2>1, <2>4, ZipRejectIs, Zenon
  <2>5. CASE \E e, c : ZipEndStep(s, w) = [s EXCEPT !.stage = "members", !.end = e, !.metadata = c]
    <3>1. PICK e, c : ZipEndStep(s, w) = [s EXCEPT !.stage = "members", !.end = e, !.metadata = c]
      BY <2>5
    <3>2. IsZipScan([s EXCEPT !.stage = "members", !.end = e, !.metadata = c])
      BY <2>3
    <3> QED BY <2>1, <3>1, <3>2, Zenon
  <2> QED BY <2>2, <2>4, <2>5
<1>2. CASE s.stage # "end" /\ ZipExhausted(s)
  <2>1. ZipStep(s, w) = ZipFinish(s)
    BY <1>2 DEF ZipStep
  <2>2. \E f : ZipFinish(s) = ZipReject(s, f)
    BY DEF ZipFinish, ZipReject
  <2> QED BY <2>1, <2>2, ZipRejectIs
<1>3. CASE s.stage # "end" /\ ~ZipExhausted(s)
  <2>1. \/ ZipStep(s, w) = Zip64MemberStep(s, w)
        \/ ZipStep(s, w) = Zip32MemberStep(s, w)
    BY <1>3 DEF ZipStep
  <2>2. \/ \E f : ZipStep(s, w) = ZipReject(s, f)
        \/ \E v, width : ZipStep(s, w) = PushZipMember(s, w, v, width)
    BY <2>1 DEF Zip64MemberStep, Zip32MemberStep
  <2> QED BY <1>3, <2>2, ZipRejectIs, ZipPushIs
<1> QED BY <1>1, <1>2, <1>3

\* A 7z archive's file records: one of them gives every file a name.
FilesFields == {"kind", "streamless", "empty_file", "names", "attributes", "mtime", "name_bytes",
                "dummy"}
IsFiles(f) == f = [x \in FilesFields |-> f[x]]

GoodNames(names, count) ==
    IsASeq(names) /\ DOMAIN names = 1..count /\ \A k \in DOMAIN names : IsName(names[k])

FilesInv(count, f) ==
    IsFiles(f) /\ (f.kind = OK /\ f.names # <<>> => GoodNames(f.names[1], count))

\* The turn of parse_files_info.
FilesTurn(count, f, r) ==
    IF f.kind # OK THEN f
    ELSE LET g == FilesRecord(f, r)
             named == IF r.id = "name" /\ ~r.external THEN decode_names(r.names, count) ELSE OK
         IN  [g EXCEPT !.kind = FirstOf(<< <<@ # OK, @>>, <<named # OK, named>>,
                                           <<~r.exact, structure>> >>)]

\* decode_names accepts as many names as there are files.
LEMMA NamesDecoded ==
    ASSUME NEW names, NEW count, decode_names(names, count) = OK PROVE Len(names) = count
<1> DEFINE checks == << <<\E i \in DOMAIN names : names[i] \in {<<"">>, <<"notutf16">>}, structure>>,
                        <<Len(names) # count, structure>> >>
<1>1. FirstOf(checks) = OK
  BY DEF decode_names
<1>2. DOMAIN checks = 1..2 /\ checks[1][2] = structure /\ checks[2][2] = structure
  OBVIOUS
<1>3. ~checks[2][1]
  <2> HIDE DEF checks
  <2>1. \A i \in 1..2 : i = 1 \/ i = 2
    OBVIOUS
  <2>2. \A i \in 1..2 : checks[i][2] # OK
    BY <1>2, <2>1 DEF structure, OK
  <2>3. \A i \in 1..2 : ~checks[i][1]
    BY <1>1, <1>2, <2>2, FirstOfOK
  <2> QED BY <2>3
<1> QED BY <1>3

\* A file record of another kind leaves the names as they are.
LEMMA OtherRecord ==
    ASSUME NEW f, IsFiles(f), NEW r, r.id # "name"
    PROVE IsFiles(FilesRecord(f, r)) /\ FilesRecord(f, r).names = f.names
<1> DEFINE g == FilesRecord(f, r)
<1>1. \/ g = f
      \/ \E k : g = [f EXCEPT !.kind = k]
      \/ \E v : g = [f EXCEPT !["streamless"] = v]
      \/ \E v : g = [f EXCEPT !["empty_file"] = v]
      \/ \E v : g = [f EXCEPT !.mtime = v]
      \/ \E v : g = [f EXCEPT !.attributes = v]
      \/ \E v : g = [f EXCEPT !.dummy = v]
  <2>1. CASE r.id = "emptyStream"
    BY <2>1 DEF FilesRecord
  <2>2. CASE r.id = "emptyFile"
    BY <2>2 DEF FilesRecord
  <2>3. CASE r.id = "mtime"
    BY <2>3 DEF FilesRecord
  <2>4. CASE r.id \in {"ctime", "atime"}
    BY <2>4 DEF FilesRecord
  <2>5. CASE r.id = "attributes"
    BY <2>5 DEF FilesRecord
  <2>6. CASE r.id = "dummy"
    BY <2>6 DEF FilesRecord
  <2>7. CASE r.id \notin {"emptyStream", "emptyFile", "name", "mtime", "ctime", "atime",
                          "attributes", "dummy"}
    BY <2>7 DEF FilesRecord
  <2> QED BY <2>1, <2>2, <2>3, <2>4, <2>5, <2>6, <2>7
<1> HIDE DEF g
<1>2. IsFiles(g) /\ g.names = f.names
  BY <1>1 DEF IsFiles, FilesFields
<1> QED BY <1>2 DEF g

\* A turn of parse_files_info keeps the names complete.
LEMMA FilesTurnKeeps ==
    ASSUME NEW count, NEW f, FilesInv(count, f), NEW r,
           r.id = "name" => /\ IsASeq(r.names) /\ \A k \in DOMAIN r.names : IsName(r.names[k])
    PROVE FilesInv(count, FilesTurn(count, f, r))
<1>1. CASE f.kind # OK
  BY <1>1 DEF FilesTurn
<1>2. CASE f.kind = OK
  <2> DEFINE g == FilesRecord(f, r)
             named == IF r.id = "name" /\ ~r.external THEN decode_names(r.names, count) ELSE OK
             checks == << <<g.kind # OK, g.kind>>, <<named # OK, named>>, <<~r.exact, structure>> >>
             kind == FirstOf(checks)
             t == FilesTurn(count, f, r)
  <2>1. IsFiles(g)
    <3>1. CASE r.id # "name"
      BY <3>1, OtherRecord DEF FilesInv
    <3>2. CASE r.id = "name"
      <4>1. \/ \E k : g = [f EXCEPT !.kind = k]
            \/ \E a, b : g = [f EXCEPT !.names = a, !.name_bytes = b]
        BY <3>2 DEF FilesRecord
      <4> HIDE DEF g
      <4> QED BY <4>1 DEF FilesInv, IsFiles, FilesFields
    <3> QED BY <3>1, <3>2
  <2>2. t = [g EXCEPT !.kind = kind]
    <3>1. t = [g EXCEPT !.kind = FirstOf(<< <<@ # OK, @>>, <<named # OK, named>>,
                                            <<~r.exact, structure>> >>)]
      BY <1>2 DEF FilesTurn
    <3> HIDE DEF g, named
    <3> QED BY <2>1, <3>1 DEF IsFiles, FilesFields
  <2>3. IsFiles(t) /\ t.kind = kind /\ t.names = g.names
    <3> HIDE DEF g, t, kind
    <3> QED BY <2>1, <2>2 DEF IsFiles, FilesFields
  <2>4. ASSUME kind = OK PROVE g.kind = OK /\ named = OK
    <3> HIDE DEF g, named
    <3>1. FirstOf(checks) = OK /\ DOMAIN checks = 1..3 /\ checks[3][2] = structure
      BY <2>4
    <3>2. (checks[1][1] => checks[1][2] # OK) /\ (checks[2][1] => checks[2][2] # OK)
      OBVIOUS
    <3>3. ~checks[1][1] /\ ~checks[2][1]
      <4> HIDE DEF checks
      <4>1. \A i \in 1..3 : i = 1 \/ i = 2 \/ i = 3
        OBVIOUS
      <4>2. \A i \in 1..3 : checks[i][1] => checks[i][2] # OK
        BY <3>1, <3>2, <4>1 DEF structure, OK
      <4>3. \A i \in 1..3 : ~checks[i][1]
        BY <3>1, <4>2, FirstOfOK
      <4> QED BY <4>3
    <3> QED BY <3>3
  <2>5. ASSUME kind = OK, g.names # <<>> PROVE GoodNames(g.names[1], count)
    <3>1. CASE r.id # "name"
      <4>1. g.names = f.names
        BY <3>1, OtherRecord DEF FilesInv
      <4> HIDE DEF g
      <4> QED BY <1>2, <2>5, <4>1 DEF FilesInv
    <3>2. CASE r.id = "name"
      <4>1. \/ g = [f EXCEPT !.kind = structure] \/ g = [f EXCEPT !.kind = unsupported]
            \/ ~r.external /\ g = [f EXCEPT !.names = <<r.names>>, !.name_bytes = Len(r.names)]
        BY <3>2 DEF FilesRecord
      <4>2. named = OK /\ g.kind = OK
        BY <2>4, <2>5
      <4>3. ~r.external => decode_names(r.names, count) = OK
        BY <3>2, <4>2
      <4> HIDE DEF g, named
      <4>4. ~r.external /\ g.names = <<r.names>>
        BY <4>1, <4>2 DEF FilesInv, IsFiles, FilesFields, structure, unsupported, OK
      <4>5. Len(r.names) = count
        BY <4>3, <4>4, NamesDecoded
      <4>6. IsASeq(r.names) /\ DOMAIN r.names = 1..count
        BY <3>2, <4>5, AppendIs
      <4>7. g.names[1] = r.names
        BY <4>4
      <4> QED BY <3>2, <4>6, <4>7 DEF GoodNames
    <3> QED BY <3>1, <3>2
  <2> HIDE DEF g, t, kind
  <2>6. FilesInv(count, t)
    BY <2>3, <2>5 DEF FilesInv
  <2> QED BY <2>6 DEF t
<1> QED BY <1>1, <1>2

FilesFold == INSTANCE FoldTheorems WITH Op <- FilesTurn

\* File records that are accepted name every file.
LEMMA FilesRead ==
    ASSUME NEW z, IsSevenZImage(z), NEW max_files, parse_files_info(z, max_files).kind = OK
    PROVE LET f == parse_files_info(z, max_files) IN GoodNames(f.names[1], z.files.count)
<1> DEFINE count == z.files.count
           rs == z.files.records
           f == FilesFold!Fold(count, NoFiles, rs)
           checks == << <<count > max_files, "QuotaFiles">>, <<count > z.files.room, structure>>,
                        <<f.kind # OK, f.kind>>, <<f.names = << >>, structure>> >>
<1>1. parse_files_info(z, max_files)
        = [f EXCEPT !.kind = FirstOf(<< <<count > max_files, "QuotaFiles">>,
                                      <<count > z.files.room, structure>>,
                                      <<@ # OK, @>>, <<f.names = << >>, structure>> >>)]
  BY DEF parse_files_info, FilesTurn, FilesFold!Fold, FoldLeft, MapThenFoldSet,
         FilesFold!FoldLeft, FilesFold!MapThenFoldSet, Max, FilesFold!Max
<1>2. PICK S : rs \in Seq(S)
  BY DEF IsSevenZImage
<1> DEFINE n == Len(rs)
<1>3. n \in Nat /\ DOMAIN rs = 1..n
  BY <1>2
<1>4. PICK h : FilesFold!IsRun(h, count, NoFiles, rs, n) /\ f = h[n]
  <2> HIDE DEF n, rs, count
  <2> QED BY <1>3, FilesFold!FoldRuns
<1> HIDE DEF f
<1> DEFINE T == {k \in Nat : k <= n => FilesInv(count, h[k])}
<1>5. 0 \in T
  <2>1. h[0] = NoFiles
    BY <1>4 DEF FilesFold!IsRun
  <2>2. FilesInv(count, NoFiles)
    BY DEF FilesInv, IsFiles, FilesFields, NoFiles
  <2> QED BY <2>1, <2>2
<1>6. ASSUME NEW k \in Nat, k \in T PROVE k + 1 \in T
  <2> SUFFICES ASSUME k + 1 <= n PROVE FilesInv(count, h[k + 1])
    OBVIOUS
  <2> DEFINE r == rs[k + 1]
  <2>1. k < n /\ k + 1 \in DOMAIN rs /\ FilesInv(count, h[k])
    BY <1>3, <1>6
  <2>2. h[k + 1] = FilesTurn(count, h[k], r)
    BY <1>4, <2>1 DEF FilesFold!IsRun
  <2>3. r.id = "name" => IsASeq(r.names) /\ \A i \in DOMAIN r.names : IsName(r.names[i])
    BY <2>1 DEF IsSevenZImage, IsASeq
  <2> HIDE DEF r
  <2> QED BY <2>1, <2>2, <2>3, FilesTurnKeeps
<1>7. \A k \in Nat : k \in T
  <2> HIDE DEF T
  <2> QED BY <1>5, <1>6, Jail!SetInduction
<1>8. FilesInv(count, f)
  BY <1>3, <1>4, <1>7
<1> HIDE DEF T
<1>9. /\ parse_files_info(z, max_files).kind = FirstOf(checks)
      /\ parse_files_info(z, max_files).names = f.names
  <2> HIDE DEF count
  <2> QED BY <1>1, <1>8 DEF FilesInv, IsFiles, FilesFields
<1>10. f.kind = OK /\ f.names # <<>>
  <2>1. FirstOf(checks) = OK /\ DOMAIN checks = 1..4
    BY <1>9
  <2>2. /\ checks[1][2] = "QuotaFiles" /\ checks[2][2] = structure /\ checks[4][2] = structure
        /\ checks[3][1] => checks[3][2] # OK
    OBVIOUS
  <2>3. ~checks[3][1] /\ ~checks[4][1]
    <3> HIDE DEF checks
    <3>1. \A i \in 1..4 : i = 1 \/ i = 2 \/ i = 3 \/ i = 4
      OBVIOUS
    <3>2. \A i \in 1..4 : checks[i][1] => checks[i][2] # OK
      BY <2>2, <3>1 DEF structure, OK
    <3>3. \A i \in 1..4 : ~checks[i][1]
      BY <2>1, <3>2, FirstOfOK
    <3> QED BY <3>3
  <2> QED BY <2>3
<1> QED BY <1>8, <1>9, <1>10 DEF FilesInv

HeaderFold == INSTANCE FoldTheorems WITH Op <- HeaderProperty

\* A header that is accepted had its file records accepted.
LEMMA HeaderRead ==
    ASSUME NEW z, IsSevenZImage(z), NEW max_files, NEW props,
           props = HeaderProperties(z, max_files), props.kind = OK, "files" \in props.seen
    PROVE parse_files_info(z, max_files).kind = OK
<1> DEFINE files == parse_files_info(z, max_files).kind
           x == [streams |-> parse_streams_info(z), files |-> files]
           none == [seen |-> {}, kind |-> OK]
           n == Len(z.props)
           Good(s) == s.kind = OK /\ "files" \in s.seen => files = OK
<1>1. props = HeaderFold!Fold(x, none, z.props)
  <2>1. props = FoldLeft(LAMBDA s, id : HeaderProperty(x, s, id), none, z.props)
    BY DEF HeaderProperties
  <2> HIDE DEF x, none
  <2> QED BY <2>1 DEF HeaderFold!Fold, FoldLeft, MapThenFoldSet, HeaderFold!FoldLeft,
                      HeaderFold!MapThenFoldSet, Max, HeaderFold!Max
<1>2. n \in Nat /\ DOMAIN z.props = 1..n
  BY DEF IsSevenZImage
<1>3. PICK h : HeaderFold!IsRun(h, x, none, z.props, n) /\ props = h[n]
  <2> HIDE DEF n, x, none
  <2> QED BY <1>1, <1>2, HeaderFold!FoldRuns
<1> DEFINE T == {k \in Nat : k <= n => Good(h[k])}
<1>4. 0 \in T
  <2>1. h[0] = none
    BY <1>3 DEF HeaderFold!IsRun
  <2>2. "files" \notin none.seen
    OBVIOUS
  <2> HIDE DEF none
  <2> QED BY <2>1, <2>2
<1>5. ASSUME NEW k \in Nat, k \in T PROVE k + 1 \in T
  <2> SUFFICES ASSUME k + 1 <= n PROVE Good(h[k + 1])
    OBVIOUS
  <2> DEFINE s == h[k]
             id == z.props[k + 1]
  <2>1. Good(s) /\ h[k + 1] = HeaderProperty(x, s, id)
    BY <1>2, <1>3, <1>5 DEF HeaderFold!IsRun
  <2>2. "files" \in DOMAIN x /\ x["files"] = files
    OBVIOUS
  <2> HIDE DEF s, id, x, files
  <2>3. CASE s.kind # OK
    BY <2>1, <2>3 DEF HeaderProperty
  <2>4. CASE s.kind = OK /\ id # "files"
    BY <2>1, <2>4 DEF HeaderProperty
  <2>5. CASE s.kind = OK /\ id = "files" /\ id \in s.seen
    BY <2>1, <2>5 DEF HeaderProperty, structure, unsupported, OK
  <2>6. CASE s.kind = OK /\ id = "files" /\ id \notin s.seen
    <3>1. h[k + 1].kind = x["files"]
      BY <2>1, <2>2, <2>6 DEF HeaderProperty
    <3> QED BY <2>2, <3>1
  <2> QED BY <2>3, <2>4, <2>5, <2>6
<1>6. \A k \in Nat : k \in T
  <2> HIDE DEF T
  <2> QED BY <1>4, <1>5, Jail!SetInduction
<1>7. Good(h[n])
  BY <1>2, <1>6
<1> QED BY <1>3, <1>7

\* A 7z archive that is accepted has a name for every member.
LEMMA SevenZNameable ==
    ASSUME NEW z, IsSevenZImage(z), NEW len, NEW max_files, NEW max_metadata,
           parse_copy_portable_v1(z, len, max_files, max_metadata).kind = OK
    PROVE Nameable(parse_copy_portable_v1(z, len, max_files, max_metadata).members)
<1> DEFINE result == parse_copy_portable_v1(z, len, max_files, max_metadata)
           head == SignatureFinding(z, len, max_metadata)
           props == HeaderProperties(z, max_files)
           f == parse_files_info(z, max_files)
           folders == Folders(z, props.seen)
           checks == << <<props.kind # OK, props.kind>>, <<z.rest, structure>>,
                        <<"files" \notin props.seen \/ z.files.count = 0, unsupported>>,
                        <<"streams" \in props.seen /\ Len(z.folders) # z.pack.n, structure>> >>
           ms == SevenZMembers(z, f, folders)
<1>1. head = OK /\ result = SevenZHeader(z, props, max_files)
  <2> HIDE DEF head, props
  <2>1. result = IF head # OK THEN SevenZFails(head) ELSE SevenZHeader(z, props, max_files)
    BY DEF parse_copy_portable_v1, head, props
  <2> QED BY <2>1 DEF SevenZFails
<1>2. FirstOf(checks) = OK /\ result = SevenZContents(z, f, folders)
  <2> DEFINE after == FirstOf(checks)
  <2>1. result = IF after # OK THEN SevenZFails(after) ELSE SevenZContents(z, f, folders)
    BY <1>1 DEF SevenZHeader
  <2> HIDE DEF after, result, f, folders
  <2>2. after = OK /\ result = SevenZContents(z, f, folders)
    BY <2>1 DEF SevenZFails, result
  <2> QED BY <2>2 DEF after
<1> HIDE DEF props, result
<1>3. props.kind = OK /\ "files" \in props.seen
  <2>1. DOMAIN checks = 1..4
    OBVIOUS
  <2>2. /\ checks[2][2] = structure /\ checks[3][2] = unsupported /\ checks[4][2] = structure
        /\ checks[1][1] => checks[1][2] # OK
    OBVIOUS
  <2>3. ~checks[1][1] /\ ~checks[3][1]
    <3> HIDE DEF checks
    <3>1. \A i \in 1..4 : i = 1 \/ i = 2 \/ i = 3 \/ i = 4
      OBVIOUS
    <3>2. \A i \in 1..4 : checks[i][1] => checks[i][2] # OK
      BY <2>2, <3>1 DEF structure, unsupported, OK
    <3>3. \A i \in 1..4 : ~checks[i][1]
      BY <1>2, <2>1, <3>2, FirstOfOK
    <3> QED BY <3>3
  <2> QED BY <2>3
<1>4. GoodNames(f.names[1], z.files.count)
  <2>1. f.kind = OK
    BY <1>3, HeaderRead DEF props
  <2> QED BY <2>1, FilesRead
<1>5. result.members = ms
  <2> HIDE DEF f, folders, ms
  <2> QED BY <1>2 DEF SevenZContents, SevenZFails, ms, result
<1> HIDE DEF f, folders
<1>6. /\ DOMAIN ms = 1..z.files.count /\ ms = [i \in DOMAIN ms |-> ms[i]]
      /\ \A i \in 1..z.files.count : IsMember(ms[i]) /\ ms[i].name = f.names[1][i]
  <2>1. DOMAIN ms = 1..z.files.count /\ ms = [i \in DOMAIN ms |-> ms[i]]
    BY DEF SevenZMembers
  <2>2. ASSUME NEW i \in 1..z.files.count
        PROVE IsMember(ms[i]) /\ ms[i].name = f.names[1][i]
    <3> DEFINE less == Streamless(f, z.files.count)
               subs == FlattenSeq([j \in DOMAIN folders |-> folders[j].substreams])
               rank == Cardinality({j \in 1..i : less[j] = less[i]})
               empty == f.empty_file # << >> /\ f.empty_file[1][rank]
               size == IF less[i] THEN 0 ELSE subs[rank].payload.len
               payload == IF less[i] THEN ByteRange(HeaderStart(z), 0) ELSE subs[rank].payload
               crc == IF less[i] THEN "none" ELSE subs[rank].declared_crc
               attributes == IF f.attributes = << >> THEN "none" ELSE f.attributes[1][i]
               mtime == IF f.mtime = << >> THEN "none" ELSE f.mtime[1][i]
               is_dir == less[i] /\ ~empty
               name == f.names[1][i]
    <3>1. ms[i] = [name |-> name, components |-> << >>, strip |-> FALSE, is_dir |-> is_dir,
                   size |-> size, payload |-> payload, declared_crc |-> crc,
                   attributes |-> attributes, mtime |-> mtime]
      BY DEF SevenZMembers
    <3> HIDE DEF ms, name, is_dir, size, payload, crc, attributes, mtime
    <3>2. IsMember(ms[i]) /\ ms[i].name = name
      BY <3>1 DEF IsMember
    <3> QED BY <3>2 DEF name
  <2> QED BY <2>1, <2>2
<1> HIDE DEF ms
<1>7. IsASeq(ms)
  <2>1. z.files.count \in Nat
    BY DEF IsSevenZImage
  <2>2. ms \in Seq(Range(ms))
    BY <1>6, <2>1 DEF Range
  <2> QED BY <2>2 DEF IsASeq
<1>8. \A m \in Range(ms) : IsMember(m) /\ IsASeq(m.name)
  <2> SUFFICES ASSUME NEW i \in DOMAIN ms PROVE IsMember(ms[i]) /\ IsASeq(ms[i].name)
    BY DEF Range
  <2>1. IsName(f.names[1][i])
    BY <1>4, <1>6 DEF GoodNames
  <2> QED BY <1>6, <2>1 DEF IsName, IsASeq
<1> QED BY <1>5, <1>7, <1>8 DEF Nameable, result

-----------------------------------------------------------------------------
(***************************************************************************)
(* The invariant of the specification                                      *)
(***************************************************************************)
PlanProfile == IF job.kind = "zip" THEN JailProfile(scan.profile) ELSE Portable

\* What the planner of the job's format will be given.
ReadyInv ==
    /\ job.kind = "tar" /\ phase \in {"reading", "parsed"} => NamesInv(scan)
    /\ job.kind = "zip" /\ phase \in {"reading", "parsed"} => IsZipScan(scan)
    /\ job.kind = "7z" => phase # "reading"
    /\ job.kind = "7z" /\ phase = "parsed" /\ outer[1].result.kind = OK =>
         Nameable(outer[1].result.members)

AdmissionInv ==
    TarInv /\ ReadyInv /\ (Planned => Tree(outcome.plan.planned, PlanProfile))

\* What Plan stores is a tree, in each of the three formats.
LEMMA PlanIsTree ==
    ASSUME AdmissionInv, phase = "parsed", NEW ratio, NEW p,
           p = PlanJob(job, outer, scan, ratio),
           p.stage = "planned"
    PROVE Tree(p.plan.planned, PlanProfile)
<1>1. job \in Jobs /\ job.kind \in {"tar", "zip", "7z"}
  BY JobsAssumption DEF AdmissionInv, TarInv
<1>2. CASE job.kind = "tar"
  <2> DEFINE plan == PlanMembers(scan, job.budget)
  <2>1. ScanInv(scan) /\ NamesInv(scan)
    BY <1>2 DEF AdmissionInv, TarInv, ScanKept, ReadyInv
  <2>2. p = plan_tar_domains(scan, ratio, job.budget, Charge(job, outer))
    <3>1. p = PlanTar(scan, ratio, job.budget, Charge(job, outer))
      BY <1>2 DEF PlanJob
    <3>2. scan.dialect \in {"ustar", "pax", "gnu"}
      BY <2>1 DEF ScanInv, Dialects
    <3> QED BY <3>1, <3>2 DEF PlanTar, plan_tar_pax, plan_tar_gnu_longname
  <2>3. p.plan = plan
    <3> HIDE DEF plan
    <3> QED BY <2>2 DEF plan_tar_domains, Admission, plan
  <2>4. PlanInv(Portable, plan)
    BY <2>1, TarNameable, TarPlanInv
  <2> HIDE DEF plan
  <2> QED BY <1>2, <2>3, <2>4 DEF PlanInv, PlanProfile
<1>3. CASE job.kind = "zip"
  <2> DEFINE plan == ZipPlanOf(scan.members, job.budget, scan.profile)
  <2>1. Nameable(scan.members)
    BY <1>3 DEF AdmissionInv, ReadyInv, IsZipScan
  <2>2. p = plan_snapshot(scan, job.magic, job.budget)
    BY <1>3 DEF PlanJob
  <2>3. p = CASE detect_magic(job.magic, scan.profile) # "zip"
                   -> [stage |-> "refused", finding |-> "FormatUnsupported", plan |-> NewZipPlan]
              [] detect_magic(job.magic, scan.profile) = "zip" /\ scan.verdict # "accepted"
                   -> [stage |-> "refused", finding |-> scan.verdict, plan |-> NewZipPlan]
              [] OTHER -> [stage |-> IF plan.findings # <<>> THEN "denied" ELSE "planned",
                           finding |-> IF plan.findings # <<>> THEN Head(plan.findings) ELSE OK,
                           plan |-> plan]
    BY <2>2 DEF plan_snapshot, ZipPlanOf
  <2>4. PlanInv(JailProfile(scan.profile), plan)
    BY <2>1, ZipPlanInv
  <2> HIDE DEF plan
  <2>5. p.plan = plan
    BY <2>3
  <2> QED BY <1>3, <2>4, <2>5 DEF PlanInv, PlanProfile
<1>4. CASE job.kind = "7z"
  <2> DEFINE parsed == outer[1].result
             plan == SevenZPlan(parsed.members, job.budget)
  <2>1. p = IF parsed.kind # OK
            THEN [stage |-> "refused", finding |-> parsed.kind, plan |-> NewPlan]
            ELSE Admission(plan)
    BY <1>4 DEF PlanJob, PlanSevenZ, SevenZPlan
  <2> HIDE DEF plan
  <2>2. parsed.kind = OK /\ p.plan = plan
    BY <2>1 DEF Admission
  <2>3. Nameable(parsed.members)
    BY <1>4, <2>2 DEF AdmissionInv, ReadyInv
  <2>4. PlanInv(Portable, plan)
    BY <2>3, SevenZPlanInv DEF plan
  <2> QED BY <1>4, <2>2, <2>4 DEF PlanInv, PlanProfile
<1> QED BY <1>1, <1>2, <1>3, <1>4

\* The invariant holds when an archive is submitted.
LEMMA AdmissionInit == Init => AdmissionInv
BY TarInit DEF Init, AdmissionInv, ReadyInv, NoOutcome, Planned

\* Accept keeps the invariant.
LEMMA AdmissionAccept == AdmissionInv /\ Accept => AdmissionInv'
<1> SUFFICES ASSUME AdmissionInv, Accept PROVE AdmissionInv'
  OBVIOUS
<1>1. phase = "submitted" /\ UNCHANGED <<job, outer, outcome>> /\ TarInv
  BY DEF Accept, AdmissionInv
<1>2. TarInv'
  BY <1>1, AcceptKeeps
<1>3. ~Planned'
  BY <1>1 DEF TarInv, Planned
<1>4. CASE job.kind = "7z" \/ Wrapped(job)
  <2>1. phase' = "decoding"
    BY <1>4 DEF Accept
  <2> QED BY <1>2, <1>3, <2>1 DEF AdmissionInv, ReadyInv
<1>5. CASE ~(job.kind = "7z" \/ Wrapped(job))
  <2>1. scan' = Start(job) /\ job.kind # "7z"
    BY <1>5 DEF Accept
  <2>2. job.kind = "tar" => NamesInv(scan')
    BY <2>1, NewNames DEF Start
  <2>3. job.kind = "zip" => IsZipScan(scan')
    BY <2>1, NewZipScanIs DEF Start
  <2> QED BY <1>1, <1>2, <1>3, <2>1, <2>2, <2>3 DEF AdmissionInv, ReadyInv
<1> QED BY <1>4, <1>5

\* A stream decoder keeps the invariant.
LEMMA AdmissionDecode ==
    AdmissionInv /\ (DecodeGzip \/ DecodeZstd \/ DecodeXz \/ DecodeBzip2) => AdmissionInv'
<1> SUFFICES ASSUME AdmissionInv, DecodeGzip \/ DecodeZstd \/ DecodeXz \/ DecodeBzip2
             PROVE AdmissionInv'
  OBVIOUS
<1>1. Decodes /\ TarInv
  BY DecodersDecode DEF AdmissionInv
<1>2. TarInv'
  BY <1>1, DecodeKeeps
<1>3. job.codec # "none"
  BY DEF DecodeGzip, DecodeZstd, DecodeXz, DecodeBzip2, DecodeStream
<1>4. job' = job /\ job.kind = "tar"
  BY <1>1, <1>3, JobsAssumption DEF TarInv, Decodes
<1>5. CASE \E d : scan' = DerivedScan(job, d) /\ outcome' = NoOutcome
  <2>1. NamesInv(scan')
    BY <1>5, NewNames DEF DerivedScan
  <2>2. ~Planned'
    BY <1>5 DEF NoOutcome, Planned
  <2> QED BY <1>2, <1>4, <2>1, <2>2 DEF AdmissionInv, ReadyInv
<1>6. CASE phase' = "ended" /\ \E f, a : outcome' = Ends("transform", f, a)
  <2>1. ~Planned'
    BY <1>6 DEF Ends, Planned
  <2> QED BY <1>2, <1>6, <2>1 DEF AdmissionInv, ReadyInv
<1> QED BY <1>1, <1>5, <1>6 DEF Decodes

\* A turn of a TAR or ZIP reader keeps the invariant.
LEMMA AdmissionTurn == AdmissionInv /\ ReadTurn => AdmissionInv'
<1> SUFFICES ASSUME AdmissionInv, ReadTurn PROVE AdmissionInv'
  OBVIOUS
<1>1. phase = "reading" /\ UNCHANGED <<job, outer, outcome>> /\ TarInv /\ ReadyInv
  BY DEF ReadTurn, AdmissionInv
<1>2. TarInv'
  BY <1>1, TurnKeeps
<1>3. ~Planned' /\ job \in Jobs /\ job.kind # "7z"
  BY <1>1 DEF TarInv, Planned, ReadyInv
<1>4. ASSUME job.kind = "tar" PROVE NamesInv(scan')
  <2>1. ScanInv(scan) /\ scan.dialect = job.dialect /\ Running(scan) /\ NamesInv(scan)
    BY <1>1, <1>4 DEF TarInv, ScanKept, ReadyInv
  <2>2. PICK w \in TarWindows(job) : scan' = TarStep(scan, w)
    BY <1>4 DEF ReadTurn, Windows, Step
  <2>3. IsWindow(scan.dialect, w)
    BY <1>3, <1>4, <2>1, <2>2, JobsAssumption
  <2> QED BY <2>1, <2>2, <2>3, NamesTurn
<1>5. ASSUME job.kind = "zip" PROVE IsZipScan(scan')
  <2>1. IsZipScan(scan)
    BY <1>1, <1>5 DEF ReadyInv
  <2>2. PICK w \in Windows(job, scan) : scan' = ZipStep(scan, w)
    BY <1>5 DEF ReadTurn, Step
  <2>3. ASSUME scan.stage # "end" /\ ~ZipExhausted(scan) PROVE IsName(w.cdh.name)
    <3>1. w \in ZipRecords(job, scan.members = << >>) /\ (scan.members = << >>) \in BOOLEAN
      BY <1>5, <2>2, <2>3 DEF Windows
    <3> QED BY <1>3, <1>5, <3>1, JobsAssumption
  <2> QED BY <2>1, <2>2, <2>3, ZipTurn
<1> QED BY <1>1, <1>2, <1>3, <1>4, <1>5 DEF AdmissionInv, ReadyInv

\* Reading a 7z archive keeps the invariant.
LEMMA AdmissionSevenZ == AdmissionInv /\ ReadSevenZ => AdmissionInv'
<1> SUFFICES ASSUME AdmissionInv, ReadSevenZ PROVE AdmissionInv'
  OBVIOUS
<1>1. /\ phase = "decoding" /\ job.kind = "7z" /\ phase' = "parsed"
      /\ UNCHANGED <<job, outcome>> /\ TarInv /\ job \in Jobs
  BY DEF ReadSevenZ, AdmissionInv, TarInv
<1>2. TarInv'
  BY <1>1, OtherKeeps
<1>3. ~Planned'
  BY <1>1 DEF TarInv, Planned
<1>4. PICK o \in Images(job) :
        outer' = <<[img |-> o.img, len |-> o.len,
                    result |-> parse_copy_portable_v1(o.img, o.len, job.budget.max_files,
                                                      job.budget.max_metadata)]>>
  BY DEF ReadSevenZ
<1>5. IsSevenZImage(o.img)
  BY <1>1, JobsAssumption
<1> DEFINE r == parse_copy_portable_v1(o.img, o.len, job.budget.max_files,
                                       job.budget.max_metadata)
<1>6. r.kind = OK => Nameable(r.members)
  BY <1>5, SevenZNameable
<1> HIDE DEF r
<1>7. outer'[1].result = r
  BY <1>4 DEF r
<1> QED BY <1>1, <1>2, <1>3, <1>6, <1>7 DEF AdmissionInv, ReadyInv

\* Planning keeps the invariant.
LEMMA AdmissionPlan == AdmissionInv /\ Plan => AdmissionInv'
<1> SUFFICES ASSUME AdmissionInv, Plan PROVE AdmissionInv'
  OBVIOUS
<1>1. /\ phase = "parsed" /\ phase' \in {"planned", "ended"} /\ UNCHANGED <<job, scan>>
      /\ TarInv
  BY DEF Plan, AdmissionInv
<1>2. TarInv'
  BY <1>1, OtherKeeps
<1>3. PICK ratio, p :
               /\ p = PlanJob(job, outer, scan, ratio)
               /\ outcome' = [stage |-> p.stage, finding |-> p.finding, plan |-> p.plan,
                              axes |-> PlanAxes(job, scan, p)]
  BY DEF Plan
<1>4. outcome'.stage = p.stage /\ outcome'.plan = p.plan
  BY <1>3
<1>5. PlanProfile' = PlanProfile
  BY <1>1 DEF PlanProfile
<1>6. Planned' => Tree(outcome'.plan.planned, PlanProfile')
  BY <1>1, <1>3, <1>4, <1>5, PlanIsTree DEF Planned
<1> QED BY <1>1, <1>2, <1>6 DEF AdmissionInv, ReadyInv

\* Nothing else changes a scan or a plan.
LEMMA AdmissionOther ==
    ASSUME AdmissionInv, \/ RefuseSubmission \/ SourceFails \/ Misrecord \/ Audit \/ Verify
                         \/ UNCHANGED vars
    PROVE AdmissionInv'
<1>1. TarInv /\ TarInv'
  BY OtherKeeps DEF AdmissionInv
<1>2. CASE RefuseSubmission \/ SourceFails
  <2>1. phase' = "ended" /\ ~Planned'
    BY <1>2 DEF RefuseSubmission, SourceFails, Ends, Planned
  <2> QED BY <1>1, <2>1 DEF AdmissionInv, ReadyInv
<1>3. CASE Misrecord \/ Audit \/ Verify \/ UNCHANGED vars
  <2>1. UNCHANGED <<job, outer, scan>>
    BY <1>3 DEF Misrecord, Audit, Verify, vars
  <2>2. phase' = phase \/ phase' \in {"recorded", "audited", "ended"}
    BY <1>3 DEF Misrecord, Audit, Verify, vars
  <2>3. outcome'.stage = outcome.stage /\ outcome'.plan = outcome.plan
    <3>1. \/ outcome' = outcome
          \/ \E a : outcome' = [outcome EXCEPT !.finding = "CoveringInconsistent", !.axes = a]
      BY <1>3 DEF Misrecord, Audit, Verify, vars
    <3> QED BY <1>1, <3>1 DEF TarInv, IsOutcome
  <2>4. PlanProfile' = PlanProfile /\ (Planned' <=> Planned)
    BY <2>1, <2>3 DEF PlanProfile, Planned
  <2>5. ReadyInv'
    BY <2>1, <2>2 DEF AdmissionInv, ReadyInv
  <2> QED BY <1>1, <2>3, <2>4, <2>5 DEF AdmissionInv
<1> QED BY <1>2, <1>3

\* Every step keeps the invariant.
LEMMA AdmissionNext == AdmissionInv /\ [Next]_vars => AdmissionInv'
BY AdmissionAccept, AdmissionDecode, AdmissionTurn, AdmissionSevenZ, AdmissionPlan,
   AdmissionOther DEF Next

\* Whatever a reader accepted has names the planners can jail, and every ready
\* plan is a tree, for every archive of every format (parse_copy_portable_v1,
\* the TAR and ZIP readers and the member loops of apply.rs).
THEOREM AdmissionInductive == Spec => []AdmissionInv
BY AdmissionInit, AdmissionNext, PTL DEF Spec

\* The admitted paths form one tree: no two of them are equal after case
\* folding and none that is a file is above another one, whatever names the
\* archive holds and however many (the topology maps of plan_snapshot,
\* plan_tar_domains and the 7z planner).
THEOREM AdmittedPathsFormTree == Spec => []AdmittedIsTree
<1>1. AdmissionInv => AdmittedIsTree
  BY DEF AdmissionInv, AdmittedIsTree, Tree, Folded, PlanProfile
<1> QED BY <1>1, AdmissionInductive, PTL

-----------------------------------------------------------------------------
(***************************************************************************)
(* What a stream decoder that accepts has made sure of                     *)
(***************************************************************************)
\* Of two checks none applied when no finding is reported.
LEMMA AllPass2 ==
    ASSUME NEW a1, NEW b1, NEW a2, NEW b2,
           FirstOf(<< <<a1, b1>>, <<a2, b2>> >>) = OK,
           /\ (a1 => b1 # OK) /\ (a2 => b2 # OK)
    PROVE ~(a1 \/ a2)
<1> DEFINE checks == << <<a1, b1>>, <<a2, b2>> >>
<1>1. /\ DOMAIN checks = 1..2 /\ FirstOf(checks) = OK
      /\ checks[1] = <<a1, b1>> /\ checks[2] = <<a2, b2>>
  OBVIOUS
<1> HIDE DEF checks
<1>2. \A i \in 1..2 : checks[i][1] => checks[i][2] # OK
  <2>1. \A i \in 1..2 : i = 1 \/ i = 2
    OBVIOUS
  <2> QED BY <1>1, <2>1
<1>3. \A i \in 1..2 : ~checks[i][1]
  BY <1>1, <1>2, FirstOfOK
<1> QED BY <1>1, <1>3

\* Of three checks none applied when no finding is reported.
LEMMA AllPass3 ==
    ASSUME NEW a1, NEW b1, NEW a2, NEW b2, NEW a3, NEW b3,
           FirstOf(<< <<a1, b1>>, <<a2, b2>>, <<a3, b3>> >>) = OK,
           /\ (a1 => b1 # OK) /\ (a2 => b2 # OK) /\ (a3 => b3 # OK)
    PROVE ~(a1 \/ a2 \/ a3)
<1> DEFINE checks == << <<a1, b1>>, <<a2, b2>>, <<a3, b3>> >>
<1>1. /\ DOMAIN checks = 1..3 /\ FirstOf(checks) = OK
      /\ checks[1] = <<a1, b1>> /\ checks[2] = <<a2, b2>> /\ checks[3] = <<a3, b3>>
  OBVIOUS
<1> HIDE DEF checks
<1>2. \A i \in 1..3 : checks[i][1] => checks[i][2] # OK
  <2>1. \A i \in 1..3 : i = 1 \/ i = 2 \/ i = 3
    OBVIOUS
  <2> QED BY <1>1, <2>1
<1>3. \A i \in 1..3 : ~checks[i][1]
  BY <1>1, <1>2, FirstOfOK
<1> QED BY <1>1, <1>3

\* Of four checks none applied when no finding is reported.
LEMMA AllPass4 ==
    ASSUME NEW a1, NEW b1, NEW a2, NEW b2, NEW a3, NEW b3, NEW a4, NEW b4,
           FirstOf(<< <<a1, b1>>, <<a2, b2>>, <<a3, b3>>, <<a4, b4>> >>) = OK,
           /\ (a1 => b1 # OK) /\ (a2 => b2 # OK) /\ (a3 => b3 # OK) /\ (a4 => b4 # OK)
    PROVE ~(a1 \/ a2 \/ a3 \/ a4)
<1> DEFINE checks == << <<a1, b1>>, <<a2, b2>>, <<a3, b3>>, <<a4, b4>> >>
<1>1. /\ DOMAIN checks = 1..4 /\ FirstOf(checks) = OK
      /\ checks[1] = <<a1, b1>> /\ checks[2] = <<a2, b2>> /\ checks[3] = <<a3, b3>>
      /\ checks[4] = <<a4, b4>>
  OBVIOUS
<1> HIDE DEF checks
<1>2. \A i \in 1..4 : checks[i][1] => checks[i][2] # OK
  <2>1. \A i \in 1..4 : i = 1 \/ i = 2 \/ i = 3 \/ i = 4
    OBVIOUS
  <2> QED BY <1>1, <2>1
<1>3. \A i \in 1..4 : ~checks[i][1]
  BY <1>1, <1>2, FirstOfOK
<1> QED BY <1>1, <1>3

\* Of five checks none applied when no finding is reported.
LEMMA AllPass5 ==
    ASSUME NEW a1, NEW b1, NEW a2, NEW b2, NEW a3, NEW b3, NEW a4, NEW b4, NEW
           a5, NEW b5,
           FirstOf(<< <<a1, b1>>, <<a2, b2>>, <<a3, b3>>, <<a4, b4>>, <<a5, b5>> >>) = OK,
           /\ (a1 => b1 # OK) /\ (a2 => b2 # OK) /\ (a3 => b3 # OK) /\ (a4 => b4 # OK)
           /\ (a5 => b5 # OK)
    PROVE ~(a1 \/ a2 \/ a3 \/ a4 \/ a5)
<1> DEFINE checks == << <<a1, b1>>, <<a2, b2>>, <<a3, b3>>, <<a4, b4>>, <<a5, b5>> >>
<1>1. /\ DOMAIN checks = 1..5 /\ FirstOf(checks) = OK
      /\ checks[1] = <<a1, b1>> /\ checks[2] = <<a2, b2>> /\ checks[3] = <<a3, b3>>
      /\ checks[4] = <<a4, b4>> /\ checks[5] = <<a5, b5>>
  OBVIOUS
<1> HIDE DEF checks
<1>2. \A i \in 1..5 : checks[i][1] => checks[i][2] # OK
  <2>1. \A i \in 1..5 : i = 1 \/ i = 2 \/ i = 3 \/ i = 4 \/ i = 5
    OBVIOUS
  <2> QED BY <1>1, <2>1
<1>3. \A i \in 1..5 : ~checks[i][1]
  BY <1>1, <1>2, FirstOfOK
<1> QED BY <1>1, <1>3

\* Of seven checks none applied when no finding is reported.
LEMMA AllPass7 ==
    ASSUME NEW a1, NEW b1, NEW a2, NEW b2, NEW a3, NEW b3, NEW a4, NEW b4, NEW
           a5, NEW b5, NEW a6, NEW b6, NEW a7, NEW b7,
           FirstOf(<< <<a1, b1>>, <<a2, b2>>, <<a3, b3>>, <<a4, b4>>, <<a5, b5>>,
                      <<a6, b6>>, <<a7, b7>> >>) = OK,
           /\ (a1 => b1 # OK) /\ (a2 => b2 # OK) /\ (a3 => b3 # OK) /\ (a4 => b4 # OK)
           /\ (a5 => b5 # OK) /\ (a6 => b6 # OK) /\ (a7 => b7 # OK)
    PROVE ~(a1 \/ a2 \/ a3 \/ a4 \/ a5 \/ a6 \/ a7)
<1> DEFINE checks == << <<a1, b1>>, <<a2, b2>>, <<a3, b3>>, <<a4, b4>>, <<a5, b5>>,
                        <<a6, b6>>, <<a7, b7>> >>
<1>1. /\ DOMAIN checks = 1..7 /\ FirstOf(checks) = OK
      /\ checks[1] = <<a1, b1>> /\ checks[2] = <<a2, b2>> /\ checks[3] = <<a3, b3>>
      /\ checks[4] = <<a4, b4>> /\ checks[5] = <<a5, b5>> /\ checks[6] = <<a6, b6>>
      /\ checks[7] = <<a7, b7>>
  OBVIOUS
<1> HIDE DEF checks
<1>2. \A i \in 1..7 : checks[i][1] => checks[i][2] # OK
  <2>1. \A i \in 1..7 : i = 1 \/ i = 2 \/ i = 3 \/ i = 4 \/ i = 5 \/ i = 6 \/ i = 7
    OBVIOUS
  <2> QED BY <1>1, <2>1
<1>3. \A i \in 1..7 : ~checks[i][1]
  BY <1>1, <1>2, FirstOfOK
<1> QED BY <1>1, <1>3

\* Of nine checks none applied when no finding is reported.
LEMMA AllPass9 ==
    ASSUME NEW a1, NEW b1, NEW a2, NEW b2, NEW a3, NEW b3, NEW a4, NEW b4, NEW
           a5, NEW b5, NEW a6, NEW b6, NEW a7, NEW b7, NEW a8, NEW b8, NEW a9,
           NEW b9,
           FirstOf(<< <<a1, b1>>, <<a2, b2>>, <<a3, b3>>, <<a4, b4>>, <<a5, b5>>,
                      <<a6, b6>>, <<a7, b7>>, <<a8, b8>>, <<a9, b9>> >>) = OK,
           /\ (a1 => b1 # OK) /\ (a2 => b2 # OK) /\ (a3 => b3 # OK) /\ (a4 => b4 # OK)
           /\ (a5 => b5 # OK) /\ (a6 => b6 # OK) /\ (a7 => b7 # OK) /\ (a8 => b8 # OK)
           /\ (a9 => b9 # OK)
    PROVE ~(a1 \/ a2 \/ a3 \/ a4 \/ a5 \/ a6 \/ a7 \/ a8 \/ a9)
<1> DEFINE checks == << <<a1, b1>>, <<a2, b2>>, <<a3, b3>>, <<a4, b4>>, <<a5, b5>>,
                        <<a6, b6>>, <<a7, b7>>, <<a8, b8>>, <<a9, b9>> >>
<1>1. /\ DOMAIN checks = 1..9 /\ FirstOf(checks) = OK
      /\ checks[1] = <<a1, b1>> /\ checks[2] = <<a2, b2>> /\ checks[3] = <<a3, b3>>
      /\ checks[4] = <<a4, b4>> /\ checks[5] = <<a5, b5>> /\ checks[6] = <<a6, b6>>
      /\ checks[7] = <<a7, b7>> /\ checks[8] = <<a8, b8>> /\ checks[9] = <<a9, b9>>
  OBVIOUS
<1> HIDE DEF checks
<1>2. \A i \in 1..9 : checks[i][1] => checks[i][2] # OK
  <2>1. \A i \in 1..9 : i = 1 \/ i = 2 \/ i = 3 \/ i = 4 \/ i = 5 \/ i = 6 \/ i = 7 \/ i = 8 \/ i = 9
    OBVIOUS
  <2> QED BY <1>1, <2>1
<1>3. \A i \in 1..9 : ~checks[i][1]
  BY <1>1, <1>2, FirstOfOK
<1> QED BY <1>1, <1>3

\* Of ten checks none applied when no finding is reported.
LEMMA AllPass10 ==
    ASSUME NEW a1, NEW b1, NEW a2, NEW b2, NEW a3, NEW b3, NEW a4, NEW b4, NEW
           a5, NEW b5, NEW a6, NEW b6, NEW a7, NEW b7, NEW a8, NEW b8, NEW a9,
           NEW b9, NEW a10, NEW b10,
           FirstOf(<< <<a1, b1>>, <<a2, b2>>, <<a3, b3>>, <<a4, b4>>, <<a5, b5>>,
                      <<a6, b6>>, <<a7, b7>>, <<a8, b8>>, <<a9, b9>>, <<a10, b10>> >>) = OK,
           /\ (a1 => b1 # OK) /\ (a2 => b2 # OK) /\ (a3 => b3 # OK) /\ (a4 => b4 # OK)
           /\ (a5 => b5 # OK) /\ (a6 => b6 # OK) /\ (a7 => b7 # OK) /\ (a8 => b8 # OK)
           /\ (a9 => b9 # OK) /\ (a10 => b10 # OK)
    PROVE ~(a1 \/ a2 \/ a3 \/ a4 \/ a5 \/ a6 \/ a7 \/ a8 \/ a9 \/ a10)
<1> DEFINE checks == << <<a1, b1>>, <<a2, b2>>, <<a3, b3>>, <<a4, b4>>, <<a5, b5>>,
                        <<a6, b6>>, <<a7, b7>>, <<a8, b8>>, <<a9, b9>>, <<a10, b10>> >>
<1>1. /\ DOMAIN checks = 1..10 /\ FirstOf(checks) = OK
      /\ checks[1] = <<a1, b1>> /\ checks[2] = <<a2, b2>> /\ checks[3] = <<a3, b3>>
      /\ checks[4] = <<a4, b4>> /\ checks[5] = <<a5, b5>> /\ checks[6] = <<a6, b6>>
      /\ checks[7] = <<a7, b7>> /\ checks[8] = <<a8, b8>> /\ checks[9] = <<a9, b9>>
      /\ checks[10] = <<a10, b10>>
  OBVIOUS
<1> HIDE DEF checks
<1>2. \A i \in 1..10 : checks[i][1] => checks[i][2] # OK
  <2>1. \A i \in 1..10 : i = 1 \/ i = 2 \/ i = 3 \/ i = 4 \/ i = 5 \/ i = 6 \/ i = 7 \/ i = 8 \/ i = 9 \/ i = 10
    OBVIOUS
  <2> QED BY <1>1, <2>1
<1>3. \A i \in 1..10 : ~checks[i][1]
  BY <1>1, <1>2, FirstOfOK
<1> QED BY <1>1, <1>3

\* What a decoder that accepts a stream has made sure of: the output fits its
\* cap, the wrapper the metadata budget, and the two charges add up to the source.
Paid(out, metadata, charge, len, limits) ==
    /\ out \in Nat /\ out <= limits.max_output
    /\ metadata \in Int /\ metadata <= limits.max_metadata
    /\ charge + metadata = len

\* The two caps a decoder is given.
AreLimits(limits) == limits.max_metadata \in Nat /\ limits.max_output \in Nat

\* A gzip header that is accepted ends within its limit.
LEMMA GzipHeaderFits ==
    ASSUME NEW m, IsGzipMember(m), NEW len \in Nat, NEW limit \in Int,
           parse_header_at(m, 0, len, limit).kind = OK
    PROVE LET n == parse_header_at(m, 0, len, limit).len IN n \in Nat /\ n <= limit
<1> DEFINE extra == 0 + FIXED_HEADER_LEN
           name == extra + XLen(m)
           comment == name + CLen(m.name)
           hcrc == comment + CLen(m.comment)
           a1 == 0 + FIXED_HEADER_LEN > limit
           a2 == 0 + FIXED_HEADER_LEN > len
           a3 == ~m.magic
           a4 == ~m.method
           a5 == m.reserved
           b6 == ExtraField(m, extra, len, limit)
           a6 == b6 # OK
           b7 == read_c_string(m.name, name, len, limit)
           a7 == b7 # OK
           b8 == read_c_string(m.comment, comment, len, limit)
           a8 == b8 # OK
           b9 == reserve_header(hcrc, 2, len, limit)
           a9 == m.hcrc # "none" /\ b9 # OK
           a10 == m.hcrc = "bad"
<1>1. /\ FirstOf(<< <<a1, "HeaderLimit">>, <<a2, "Truncated">>, <<a3, "Magic">>,
                    <<a4, "CompressionMethod">>, <<a5, "ReservedFlags">>, <<a6, b6>>, <<a7, b7>>,
                    <<a8, b8>>, <<a9, b9>>, <<a10, "HeaderChecksum">> >>) = OK
      /\ parse_header_at(m, 0, len, limit).len = hcrc + (IF m.hcrc = "none" THEN 0 ELSE 2) - 0
  BY DEF parse_header_at
<1>0. /\ Flagged(m.extra) => m.extra[1].xlen \in Nat
      /\ Flagged(m.name) => m.name[1] \in Nat
      /\ Flagged(m.comment) => m.comment[1] \in Nat
  BY Zenon DEF IsGzipMember
<1>2. /\ XLen(m) \in Nat /\ CLen(m.name) \in Nat /\ CLen(m.comment) \in Nat
      /\ name \in Nat /\ comment \in Nat /\ hcrc \in Nat /\ extra \in Nat
  BY <1>0 DEF XLen, CLen, FIXED_HEADER_LEN
<1>3. (a6 => b6 # OK) /\ (a7 => b7 # OK) /\ (a8 => b8 # OK) /\ (a9 => b9 # OK)
  OBVIOUS
<1>4. ~a1 /\ ~a6 /\ ~a7 /\ ~a8 /\ ~a9
  <2> HIDE DEF a1, a2, a3, a4, a5, a6, b6, a7, b7, a8, b8, a9, b9, a10
  <2>1. /\ "HeaderLimit" # OK /\ "Truncated" # OK /\ "Magic" # OK /\ "CompressionMethod" # OK
        /\ "ReservedFlags" # OK /\ "HeaderChecksum" # OK
    BY DEF OK
  <2> QED BY <1>1, <1>3, <2>1, AllPass10
<1>5. /\ ~(0 + FIXED_HEADER_LEN > limit)
      /\ ExtraField(m, extra, len, limit) = OK
      /\ read_c_string(m.name, name, len, limit) = OK
      /\ read_c_string(m.comment, comment, len, limit) = OK
      /\ m.hcrc # "none" => reserve_header(hcrc, 2, len, limit) = OK
  BY <1>4
<1>6. name <= limit
  <2>1. CASE ~Flagged(m.extra)
    BY <1>5, <2>1 DEF XLen, FIXED_HEADER_LEN
  <2>2. CASE Flagged(m.extra)
    <3> DEFINE x == m.extra[1]
               d1 == reserve_header(extra, 2, len, limit)
               c1 == d1 # OK
               c2 == extra + 2 + x.xlen > limit
               d3 == validate_extra_subfields(x, extra + 2, len)
               c3 == d3 # OK
               c4 == extra + 2 + x.xlen > len
    <3>1. FirstOf(<< <<c1, d1>>, <<c2, "HeaderLimit">>, <<c3, d3>>, <<c4, "Truncated">> >>) = OK
      BY <1>5, <2>2 DEF ExtraField
    <3>2. (c1 => d1 # OK) /\ (c3 => d3 # OK)
      OBVIOUS
    <3>3. ~c2
      <4> HIDE DEF c1, d1, c2, c3, d3, c4
      <4>1. "HeaderLimit" # OK /\ "Truncated" # OK
        BY DEF OK
      <4> QED BY <3>1, <3>2, <4>1, AllPass4
    <3> QED BY <1>0, <1>2, <2>2, <3>3 DEF XLen
  <2> QED BY <2>1, <2>2
<1>7. \A f, at : /\ at \in Nat /\ at <= limit /\ (Flagged(f) => f[1] \in Nat)
                 /\ read_c_string(f, at, len, limit) = OK
                 => at + CLen(f) <= limit
  <2> SUFFICES ASSUME NEW f, NEW at \in Nat, at <= limit, Flagged(f), f[1] \in Nat,
                      read_c_string(f, at, len, limit) = OK
               PROVE at + f[1] <= limit
    BY DEF CLen
  <2>1. at + f[1] <= Min({limit, len})
    BY DEF read_c_string, OK
  <2>2. Min({limit, len}) \in {limit, len} /\ Min({limit, len}) <= limit
    <3> DEFINE lo == IF limit <= len THEN limit ELSE len
    <3>1. lo \in {limit, len} /\ \A y \in {limit, len} : lo <= y
      OBVIOUS
    <3>2. \E v \in {limit, len} : \A y \in {limit, len} : v <= y
      BY <3>1
    <3>3. Min({limit, len}) \in {limit, len} /\ \A y \in {limit, len} : Min({limit, len}) <= y
      BY <3>2, Zenon DEF Min
    <3> QED BY <3>3
  <2> QED BY <2>1, <2>2
<1>8. comment <= limit
  BY <1>0, <1>2, <1>5, <1>6, <1>7
<1>9. hcrc <= limit
  BY <1>0, <1>2, <1>5, <1>7, <1>8
<1>10. m.hcrc # "none" => hcrc + 2 <= limit
  BY <1>2, <1>5 DEF reserve_header, OK
<1> HIDE DEF hcrc
<1> QED BY <1>1, <1>2, <1>9, <1>10

\* gzip: one member is the whole source.
LEMMA GzipPaid ==
    ASSUME NEW x, IsGzipImage(x), NEW len \in Nat, NEW limits, AreLimits(limits),
           decode_single_member(x, len, limits).kind = OK
    PROVE LET d == decode_single_member(x, len, limits)
              w == d.wrapper[1]
          IN  Paid(d.out, gzip_wrapper_metadata(w), charge_gzip(w), len, limits)
<1> DEFINE m == Head(x.members)
           limit == limits.max_metadata - TRAILER_LEN
           h == parse_header_at(m, 0, len, limit)
           d == decode_single_member(x, len, limits)
           w == d.wrapper[1]
           end == h.len + m.comp + TRAILER_LEN
           a1 == limits.max_metadata < TRAILER_LEN
           a2 == h.kind # OK
           b2 == h.kind
           a3 == len - h.len < TRAILER_LEN
           a4 == m.out > limits.max_output
           a5 == StreamBroken(m, h.len, len)
           b6 == finish_member(m, h.len, len)
           a6 == b6 # OK
           a7 == end # len
           b7 == scan_trailing_members(x, end, len, limits, h.len + TRAILER_LEN, m.out)
<1>1. IsGzipMember(m)
  BY DEF IsGzipImage, Flagged
<1>1a. m.comp \in Nat /\ m.out \in Nat
  BY <1>1, Zenon DEF IsGzipMember
<1>2. d = StreamEnds(MemberFinding(x, m, h, len, limits), GzipWrapperEvidence(m, h), m.out)
  BY DEF decode_single_member
<1>3. MemberFinding(x, m, h, len, limits)
        = FirstOf(<< <<a1, "HeaderLimit">>, <<a2, b2>>, <<a3, "Truncated">>, <<a4, "OutputLimit">>,
                     <<a5, "DeflateStream">>, <<a6, b6>>, <<a7, b7>> >>)
  BY DEF MemberFinding
<1>4. /\ MemberFinding(x, m, h, len, limits) = OK /\ d.out = m.out
      /\ w = GzipWrapperEvidence(m, h)
  <2> HIDE DEF m, h
  <2> QED BY <1>2 DEF StreamEnds, StreamFails, StreamYields
<1>5. (a2 => b2 # OK) /\ (a6 => b6 # OK) /\ b7 # OK
  <2> HIDE DEF m, h, end
  <2>1. b7 # OK
    BY DEF scan_trailing_members, OK
  <2> QED BY <2>1
<1>6. ~a2 /\ ~a4 /\ ~a7
  <2> HIDE DEF a1, a2, b2, a3, a4, a5, a6, b6, a7, b7
  <2>1. "HeaderLimit" # OK /\ "Truncated" # OK /\ "OutputLimit" # OK /\ "DeflateStream" # OK
    BY DEF OK
  <2> QED BY <1>3, <1>4, <1>5, <2>1, AllPass7
<1>7. h.kind = OK /\ ~(m.out > limits.max_output) /\ end = len
  BY <1>6
<1>8. limit \in Int
  BY DEF AreLimits, TRAILER_LEN
<1>9. h.len \in Nat /\ h.len <= limit
  BY <1>1, <1>7, <1>8, GzipHeaderFits
<1>10. gzip_wrapper_metadata(w) = h.len + TRAILER_LEN /\ charge_gzip(w) = m.comp
  <2> HIDE DEF m, h
  <2> QED BY <1>4 DEF gzip_wrapper_metadata, charge_gzip, GzipWrapperEvidence, ByteRange
<1> HIDE DEF m, h, d, w
<1>11. Paid(d.out, gzip_wrapper_metadata(w), charge_gzip(w), len, limits)
  BY <1>1a, <1>4, <1>7, <1>9, <1>10 DEF Paid, AreLimits, TRAILER_LEN
<1> QED BY <1>11 DEF d, w

\* Zstandard: one frame is the whole source.
LEMMA ZstdPaid ==
    ASSUME NEW x, IsZstdImage(x), NEW len \in Nat, NEW limits, AreLimits(limits),
           decode_single_frame(x, len, limits).kind = OK
    PROVE LET d == decode_single_frame(x, len, limits)
              w == d.wrapper[1]
          IN  Paid(d.out, zstd_wrapper_metadata(w), charge_zstd(w), len, limits)
<1> DEFINE h == FrameHeaderLen(x)
           t == ZstdTrailerLen(x)
           d == decode_single_frame(x, len, limits)
           w == d.wrapper[1]
           end == h + x.comp + t
           b1 == parse_frame_header(x, len)
           a1 == b1 # OK
           a2 == h + t > limits.max_metadata
           a3 == ~x.agrees
           a4 == x.out > limits.max_output
           b5 == classify_zstd_error(x, h, len)
           a5 == b5 # OK
           b6 == ZstdFinish(x)
           a6 == b6 # OK
           a7 == end # len
           b7 == classify_zstd_trailing(x, end, len)
           kind == FirstOf(<< <<a1, b1>>, <<a2, "HeaderLimit">>, <<a3, "DecoderDisagreement">>,
                              <<a4, "OutputLimit">>, <<a5, b5>>, <<a6, b6>>, <<a7, b7>> >>)
<1>1. h \in Nat /\ t \in Nat /\ x.comp \in Nat /\ x.out \in Nat
  <2>1. FcsLen(x) \in Nat
    BY DEF IsZstdImage, FcsLen
  <2> QED BY <2>1 DEF IsZstdImage, FrameHeaderLen, ZstdTrailerLen, CHECKSUM_LEN
<1>2. d = IF kind # OK THEN StreamFails(kind) ELSE StreamYields(ZstdWrapperEvidence(x), x.out)
  BY DEF decode_single_frame
<1>3. kind = OK /\ d.out = x.out /\ w = ZstdWrapperEvidence(x)
  <2> HIDE DEF kind
  <2> QED BY <1>2 DEF StreamFails, StreamYields
<1>4. (a1 => b1 # OK) /\ (a5 => b5 # OK) /\ (a6 => b6 # OK) /\ b7 # OK
  BY DEF classify_zstd_trailing, OK
<1>5. ~a2 /\ ~a4 /\ ~a7
  <2> HIDE DEF a1, b1, a2, a3, a4, a5, b5, a6, b6, a7, b7
  <2>1. "HeaderLimit" # OK /\ "DecoderDisagreement" # OK /\ "OutputLimit" # OK
    BY DEF OK
  <2> QED BY <1>3, <1>4, <2>1, AllPass7
<1>6. ~(h + t > limits.max_metadata) /\ ~(x.out > limits.max_output) /\ end = len
  BY <1>5
<1>7. zstd_wrapper_metadata(w) = h + t /\ charge_zstd(w) = x.comp
  BY <1>3 DEF zstd_wrapper_metadata, charge_zstd, ZstdWrapperEvidence, ByteRange
<1> HIDE DEF h, t, d, w
<1>8. Paid(d.out, zstd_wrapper_metadata(w), charge_zstd(w), len, limits)
  BY <1>1, <1>3, <1>6, <1>7 DEF Paid, AreLimits
<1> QED BY <1>8 DEF d, w

-----------------------------------------------------------------------------
(***************************************************************************)
(* Sums                                                                    *)
(***************************************************************************)
\* The turn of SumOf.
Plus(p, n, k) == n + k
SumFold == INSTANCE FoldTheorems WITH Op <- Plus

\* A sum is the last of its partial sums.
LEMMA SumRuns ==
    ASSUME NEW n \in Nat, NEW s, DOMAIN s = 1..n
    PROVE \E h : SumFold!IsRun(h, 0, 0, s, n) /\ SumOf(s) = h[n]
<1>1. SumOf(s) = SumFold!Fold(0, 0, s)
  BY DEF SumOf, Plus, SumFold!Fold, FoldLeft, MapThenFoldSet, SumFold!FoldLeft,
         SumFold!MapThenFoldSet, Max, SumFold!Max
<1> QED BY <1>1, SumFold!FoldRuns

\* The sum of nothing.
LEMMA SumNone == ASSUME NEW s, DOMAIN s = 1..0 PROVE SumOf(s) = 0
BY SumRuns DEF SumFold!IsRun

\* One more term.
LEMMA SumMore ==
    ASSUME NEW n \in Nat, NEW s, DOMAIN s = 1..n, NEW t, DOMAIN t = 1..(n + 1),
           \A i \in 1..n : t[i] = s[i]
    PROVE SumOf(t) = SumOf(s) + t[n + 1]
<1>1. PICK h : SumFold!IsRun(h, 0, 0, s, n) /\ SumOf(s) = h[n]
  BY SumRuns
<1>2. PICK g : SumFold!IsRun(g, 0, 0, t, n + 1) /\ SumOf(t) = g[n + 1]
  BY SumRuns
<1> DEFINE T == {k \in Nat : k <= n => g[k] = h[k]}
<1>3. 0 \in T
  BY <1>1, <1>2 DEF SumFold!IsRun
<1>4. ASSUME NEW k \in Nat, k \in T PROVE k + 1 \in T
  <2> SUFFICES ASSUME k + 1 <= n PROVE g[k + 1] = h[k + 1]
    OBVIOUS
  <2>1. g[k + 1] = g[k] + t[k + 1]
    BY <1>2 DEF SumFold!IsRun, Plus
  <2>2. h[k + 1] = h[k] + s[k + 1]
    BY <1>1 DEF SumFold!IsRun, Plus
  <2>3. k + 1 \in 1..n /\ k <= n
    OBVIOUS
  <2> QED BY <1>4, <2>1, <2>2, <2>3
<1>5. g[n] = h[n]
  <2> HIDE DEF T
  <2>1. n \in T
    BY <1>3, <1>4, SumFold!SetInduction
  <2> QED BY <2>1 DEF T
<1>6. g[n + 1] = g[n] + t[n + 1]
  BY <1>2 DEF SumFold!IsRun, Plus
<1> QED BY <1>1, <1>2, <1>5, <1>6

\* A sum of counts is a count.
LEMMA SumNat ==
    ASSUME NEW n \in Nat, NEW s, DOMAIN s = 1..n, \A i \in 1..n : s[i] \in Nat
    PROVE SumOf(s) \in Nat
<1>1. PICK h : SumFold!IsRun(h, 0, 0, s, n) /\ SumOf(s) = h[n]
  BY SumRuns
<1> DEFINE T == {k \in Nat : k <= n => h[k] \in Nat}
<1>2. 0 \in T
  BY <1>1 DEF SumFold!IsRun
<1>3. ASSUME NEW k \in Nat, k \in T PROVE k + 1 \in T
  <2> SUFFICES ASSUME k + 1 <= n PROVE h[k + 1] \in Nat
    OBVIOUS
  <2>1. h[k + 1] = h[k] + s[k + 1]
    BY <1>1 DEF SumFold!IsRun, Plus
  <2>2. k + 1 \in 1..n /\ k <= n
    OBVIOUS
  <2> QED BY <1>3, <2>1, <2>2
<1>4. n \in T
  <2> HIDE DEF T
  <2> QED BY <1>2, <1>3, SumFold!SetInduction
<1> QED BY <1>1, <1>4

-----------------------------------------------------------------------------
(***************************************************************************)
(* xz and bzip2                                                            *)
(***************************************************************************)
\* What the blocks of an xz stream are charged for as metadata and as compressed.
Framed(blocks) == SumOf([i \in DOMAIN blocks |-> FrameMetadata(blocks[i])])
Packed(blocks) == SumOf([i \in DOMAIN blocks |-> blocks[i].compressed.len])

\* What parse_container has read: its blocks fill the source up to the position.
ContainerFields == {"kind", "at", "blocks"}
XzRead(s) ==
    /\ s = [f \in ContainerFields |-> s[f]]
    /\ s.kind = OK => /\ IsASeq(s.blocks) /\ Framed(s.blocks) \in Int /\ Packed(s.blocks) \in Int
                      /\ s.at = STREAM_HEADER_LEN + Framed(s.blocks) + Packed(s.blocks)

\* The turn of parse_container.
XzTurn(p, s, i) == NextBlock(p[1], p[2], s, i)

XzFold == INSTANCE FoldTheorems WITH Op <- XzTurn

\* A block that is accepted starts at the position and its parts follow each
\* other.
LEMMA BlockFills ==
    ASSUME NEW x, IsXzImage(x), NEW i \in DOMAIN x.index.records, NEW at \in Int, NEW end,
           parse_block(x, i, at, end).kind = OK
    PROVE LET f == parse_block(x, i, at, end).frame
          IN  /\ FrameMetadata(f) \in Int /\ f.compressed.len \in Int
              /\ FrameEnd(f) = at + FrameMetadata(f) + f.compressed.len
<1> DEFINE b == x.blocks[i]
           r == x.index.records[i]
           sum == check_len(x.check)
           comp == r.unpadded - b.hlen - sum
           padding == NextMultipleOf4(b.hlen + comp) - b.hlen - comp
           declared == b.declared
           a1 == i > Len(x.blocks) \/ at # BlockAt(x, i)
           a2 == at + b.hlen > end \/ ~b.crc \/ b.reserved
           a3 == b.filters # 1 \/ Len(declared) = 1
           a4 == b.filter # "lzma2"
           a5 == b.props # 1 \/ b.dict > 40
           a6 == dict_size(b.dict) > MAX_DICT_BYTES
           a7 == ~b.hpad \/ comp < 1
           a8 == declared \notin {<< >>, <<comp, r.out>>}
           a9 == at + b.hlen + comp + padding + sum > end \/ ~b.pad
           f == parse_block(x, i, at, end).frame
<1>1. FirstOf(<< <<a1, "StreamStructure">>, <<a2, "StreamStructure">>, <<a3, "FilterUnsupported">>,
                 <<a4, "FilterUnsupported">>, <<a5, "StreamStructure">>, <<a6, "DictBounds">>,
                 <<a7, "StreamStructure">>, <<a8, "DeclaredSize">>, <<a9, "StreamStructure">> >>) = OK
  BY DEF parse_block
<1>2. ~a1
  <2> HIDE DEF a1, a2, a3, a4, a5, a6, a7, a8, a9
  <2>1. "StreamStructure" # OK /\ "FilterUnsupported" # OK /\ "DictBounds" # OK /\ "DeclaredSize" # OK
    BY DEF OK
  <2> QED BY <1>1, <2>1, AllPass9
<1>3. sum \in Nat
  BY DEF check_len
<1>4. b.hlen \in Nat /\ r.unpadded \in Nat
  <2>1. i \in DOMAIN x.blocks
    BY <1>2 DEF IsXzImage
  <2> QED BY <2>1 DEF IsXzImage, Range
<1> HIDE DEF b, r, sum
<1>5. comp \in Int /\ padding \in Int
  BY <1>3, <1>4 DEF NextMultipleOf4
<1>6. /\ f.header = ByteRange(at, b.hlen) /\ f.compressed = ByteRange(at + b.hlen, comp)
      /\ f.padding = ByteRange(at + b.hlen + comp, padding)
      /\ f.check = ByteRange(at + b.hlen + comp + padding, sum)
  BY DEF parse_block, b, r, sum
<1> HIDE DEF comp, padding, f
<1>7. /\ f.header.len = b.hlen /\ f.compressed.len = comp /\ f.padding.len = padding
      /\ f.check.len = sum /\ f.check.offset = at + b.hlen + comp + padding
  BY <1>6 DEF ByteRange
<1>8. /\ FrameMetadata(f) = b.hlen + padding + sum
      /\ FrameEnd(f) = at + b.hlen + comp + padding + sum
  BY <1>7 DEF FrameMetadata, FrameEnd, RangeEnd
<1>9. /\ FrameMetadata(f) \in Int /\ f.compressed.len \in Int
      /\ FrameEnd(f) = at + FrameMetadata(f) + f.compressed.len
  BY <1>3, <1>4, <1>5, <1>7, <1>8
<1> QED BY <1>9 DEF f

\* One turn keeps the account.
LEMMA XzTurnReads ==
    ASSUME NEW x, IsXzImage(x), NEW index, NEW s, XzRead(s), NEW i \in DOMAIN x.index.records
    PROVE XzRead(XzTurn(<<x, index>>, s, i))
<1> DEFINE b == parse_block(x, i, s.at, index)
           t == XzTurn(<<x, index>>, s, i)
<1>1. t = IF s.kind # OK THEN s
          ELSE IF b.kind # OK THEN [s EXCEPT !.kind = b.kind]
          ELSE [s EXCEPT !.at = FrameEnd(b.frame), !.blocks = Append(s.blocks, b.frame)]
  BY DEF XzTurn, NextBlock
<1>2. CASE s.kind # OK
  BY <1>1, <1>2
<1>3. CASE s.kind = OK /\ b.kind # OK
  <2> HIDE DEF b
  <2>1. t = [s EXCEPT !.kind = b.kind]
    BY <1>1, <1>3
  <2> QED BY <1>3, <2>1 DEF XzRead, ContainerFields
<1>4. CASE s.kind = OK /\ b.kind = OK
  <2> DEFINE f == b.frame
             bs == s.blocks
             n == Len(bs)
  <2>1. /\ IsASeq(bs) /\ Framed(bs) \in Int /\ Packed(bs) \in Int
        /\ s.at = STREAM_HEADER_LEN + Framed(bs) + Packed(bs) /\ s.at \in Int
    BY <1>4 DEF XzRead, STREAM_HEADER_LEN
  <2>2. /\ FrameMetadata(f) \in Int /\ f.compressed.len \in Int
        /\ FrameEnd(f) = s.at + FrameMetadata(f) + f.compressed.len
    BY <1>4, <2>1, BlockFills
  <2>3. t = [s EXCEPT !.at = FrameEnd(f), !.blocks = Append(bs, f)]
    BY <1>1, <1>4
  <2> HIDE DEF f, b, t
  <2>4. /\ n \in Nat /\ DOMAIN bs = 1..n /\ IsASeq(Append(bs, f))
        /\ DOMAIN Append(bs, f) = 1..(n + 1) /\ Append(bs, f)[n + 1] = f
        /\ \A k \in 1..n : Append(bs, f)[k] = bs[k]
    <3>1. PICK S : bs \in Seq(S)
      BY <2>1 DEF IsASeq
    <3>2. Append(bs, f) \in Seq(S \cup {f})
      BY <3>1
    <3> QED BY <3>1, <3>2 DEF IsASeq
  <2> DEFINE cs == Append(bs, f)
  <2> HIDE DEF cs
  <2>5. Framed(cs) = Framed(bs) + FrameMetadata(f)
    <3> DEFINE p == [k \in DOMAIN bs |-> FrameMetadata(bs[k])]
               q == [k \in DOMAIN cs |-> FrameMetadata(cs[k])]
    <3>1. /\ DOMAIN p = 1..n /\ DOMAIN q = 1..(n + 1) /\ q[n + 1] = FrameMetadata(f)
          /\ \A k \in 1..n : q[k] = p[k]
      BY <2>4 DEF cs
    <3> HIDE DEF p, q
    <3>2. SumOf(q) = SumOf(p) + q[n + 1]
      BY <2>4, <3>1, SumMore
    <3> QED BY <3>1, <3>2 DEF Framed, p, q
  <2>6. Packed(cs) = Packed(bs) + f.compressed.len
    <3> DEFINE p == [k \in DOMAIN bs |-> bs[k].compressed.len]
               q == [k \in DOMAIN cs |-> cs[k].compressed.len]
    <3>1. /\ DOMAIN p = 1..n /\ DOMAIN q = 1..(n + 1) /\ q[n + 1] = f.compressed.len
          /\ \A k \in 1..n : q[k] = p[k]
      BY <2>4 DEF cs
    <3> HIDE DEF p, q
    <3>2. SumOf(q) = SumOf(p) + q[n + 1]
      BY <2>4, <3>1, SumMore
    <3> QED BY <3>1, <3>2 DEF Packed, p, q
  <2>7. /\ t = [g \in ContainerFields |-> t[g]] /\ t.at = FrameEnd(f) /\ t.blocks = cs
    BY <2>3 DEF XzRead, ContainerFields, cs
  <2>8. IsASeq(cs)
    BY <2>4 DEF cs
  <2>9. XzRead(t)
    BY <2>1, <2>2, <2>5, <2>6, <2>7, <2>8 DEF XzRead, STREAM_HEADER_LEN
  <2> QED BY <2>9 DEF t
<1> QED BY <1>2, <1>3, <1>4

\* A container that is accepted accounts for every byte of the stream.
LEMMA ContainerFills ==
    ASSUME NEW x, IsXzImage(x), NEW len \in Nat, NEW limits, AreLimits(limits), NEW c,
           c = parse_container(x, len, limits), c.kind = OK
    PROVE LET metadata == STREAM_HEADER_LEN + STREAM_FOOTER_LEN + c.index.len + Framed(c.blocks)
          IN  /\ metadata \in Int /\ metadata <= limits.max_metadata
              /\ Packed(c.blocks) + metadata = len
<1> DEFINE footer == len - STREAM_FOOTER_LEN
           index == footer - x.index.backward
           items == [i \in DOMAIN x.index.records |-> i]
           base == [kind |-> OK, at |-> STREAM_HEADER_LEN, blocks |-> << >>]
           p == <<x, index>>
           n == Len(x.index.records)
           done == XzFold!Fold(p, base, items)
           metadata == STREAM_HEADER_LEN + STREAM_FOOTER_LEN + x.index.backward + Framed(done.blocks)
           a1 == x.footer # {} \/ index < STREAM_HEADER_LEN \/ ~x.index.indicator
           a2 == x.index.records = << >>
           a3 == Len(x.index.records) > MAX_BLOCKS
           a4 == ~x.index.pad \/ x.index.backward # IndexLen(x) \/ ~x.index.crc
           a5 == done.kind # OK
           b5 == done.kind
           a6 == done.at # index
           a7 == metadata > limits.max_metadata
           kind == FirstOf(<< <<a1, "StreamStructure">>, <<a2, "EmptyStream">>, <<a3, "BlockBounds">>,
                              <<a4, "StreamStructure">>, <<a5, b5>>, <<a6, "StreamStructure">>,
                              <<a7, "HeaderLimit">> >>)
<1>1. c.kind = kind /\ c.blocks = done.blocks /\ c.index = ByteRange(index, x.index.backward)
  <2> DEFINE read == FoldLeft(LAMBDA s, i : NextBlock(x, index, s, i), base, items)
  <2>1. read = done
    <3>1. p[1] = x /\ p[2] = index
      OBVIOUS
    <3> HIDE DEF p, base, items, index
    <3> QED BY <3>1 DEF XzFold!Fold, FoldLeft, MapThenFoldSet, XzFold!FoldLeft,
                       XzFold!MapThenFoldSet, Max, XzFold!Max, XzTurn
  <2>2. /\ c.blocks = read.blocks /\ c.index = ByteRange(index, x.index.backward)
        /\ c.kind = FirstOf(<< <<a1, "StreamStructure">>, <<a2, "EmptyStream">>, <<a3, "BlockBounds">>,
                               <<a4, "StreamStructure">>, <<read.kind # OK, read.kind>>,
                               <<read.at # index, "StreamStructure">>,
                               <<STREAM_HEADER_LEN + STREAM_FOOTER_LEN + x.index.backward
                                   + Framed(read.blocks) > limits.max_metadata, "HeaderLimit">> >>)
    BY DEF parse_container, Framed
  <2> HIDE DEF read, done, a1, a2, a3, a4
  <2> QED BY <2>1, <2>2
<1>2. n \in Nat /\ DOMAIN x.index.records = 1..n /\ DOMAIN items = 1..n /\ x.index.backward \in Nat
  BY DEF IsXzImage
<1>3. XzRead(done)
  <2>1. PICK h : XzFold!IsRun(h, p, base, items, n) /\ done = h[n]
    <3> HIDE DEF p, base, items
    <3> QED BY <1>2, XzFold!FoldRuns
  <2> DEFINE T == {k \in Nat : k <= n => XzRead(h[k])}
  <2>2. 0 \in T
    <3>1. h[0] = base
      BY <2>1 DEF XzFold!IsRun
    <3>2. Framed(<<>>) = 0 /\ Packed(<<>>) = 0
      <4>1. ASSUME NEW s, DOMAIN s = {} PROVE SumOf(s) = 0
        BY <4>1, SumNone
      <4> QED BY <4>1 DEF Framed, Packed
    <3>3. IsASeq(<<>>)
      <4>1. <<>> \in Seq({})
        OBVIOUS
      <4> QED BY <4>1 DEF IsASeq
    <3>4. XzRead(base)
      BY <3>2, <3>3 DEF XzRead, ContainerFields, STREAM_HEADER_LEN
    <3> QED BY <3>1, <3>4
  <2>3. ASSUME NEW k \in Nat, k \in T PROVE k + 1 \in T
    <3> SUFFICES ASSUME k + 1 <= n PROVE XzRead(h[k + 1])
      OBVIOUS
    <3>1. h[k + 1] = XzTurn(p, h[k], items[k + 1])
      BY <2>1 DEF XzFold!IsRun
    <3>2. k + 1 \in DOMAIN x.index.records /\ items[k + 1] = k + 1 /\ XzRead(h[k])
      BY <1>2, <2>3
    <3> QED BY <3>1, <3>2, XzTurnReads
  <2>4. n \in T
    <3> HIDE DEF T
    <3> QED BY <1>2, <2>2, <2>3, SumFold!SetInduction
  <2> QED BY <1>2, <2>1, <2>4
<1> HIDE DEF done
<1>4. ~a5 /\ ~a6 /\ ~a7
  <2> HIDE DEF a1, a2, a3, a4, a6, a7
  <2>1. /\ "StreamStructure" # OK /\ "EmptyStream" # OK /\ "BlockBounds" # OK
        /\ "HeaderLimit" # OK /\ (a5 => b5 # OK)
    BY DEF OK
  <2> HIDE DEF a5, b5
  <2> QED BY <1>1, <2>1, AllPass7
<1>5. done.kind = OK /\ done.at = index /\ ~(metadata > limits.max_metadata)
  BY <1>4
<1>6. /\ Framed(done.blocks) \in Int /\ Packed(done.blocks) \in Int
      /\ index = STREAM_HEADER_LEN + Framed(done.blocks) + Packed(done.blocks)
  BY <1>3, <1>5 DEF XzRead
<1>7. c.index.len = x.index.backward
  BY <1>1 DEF ByteRange
<1> DEFINE F == Framed(done.blocks)
           P == Packed(done.blocks)
           m == limits.max_metadata
           w == x.index.backward
<1>8. F \in Int /\ P \in Int /\ m \in Int /\ w \in Int /\ Framed(c.blocks) = F /\ Packed(c.blocks) = P
      /\ (len - 12) - w = 12 + F + P /\ ~(12 + 12 + w + F > m)
  <2>1. F \in Int /\ P \in Int /\ index = STREAM_HEADER_LEN + F + P
    BY <1>6
  <2>2. m \in Int /\ w \in Int /\ ~(metadata > m)
    BY <1>1, <1>2, <1>5 DEF AreLimits
  <2>3. Framed(c.blocks) = F /\ Packed(c.blocks) = P
    BY <1>1, <1>5
  <2>4. (len - 12) - w = 12 + F + P
    BY <2>1 DEF STREAM_HEADER_LEN, STREAM_FOOTER_LEN
  <2>5. ~(12 + 12 + w + F > m)
    BY <2>2 DEF STREAM_HEADER_LEN, STREAM_FOOTER_LEN
  <2> HIDE DEF F, P, m, w
  <2> QED BY <2>1, <2>2, <2>3, <2>4, <2>5
<1> HIDE DEF F, P, m, w
<1>9. 12 + 12 + w + F \in Int /\ 12 + 12 + w + F <= m /\ P + (12 + 12 + w + F) = len
  BY <1>8
<1> QED BY <1>7, <1>8, <1>9 DEF m, w, STREAM_HEADER_LEN, STREAM_FOOTER_LEN

\* xz: one stream is the whole source.
LEMMA XzPaid ==
    ASSUME NEW x, IsXzImage(x), NEW len \in Nat, NEW limits, AreLimits(limits),
           decode_single_stream(x, len, limits).kind = OK
    PROVE LET d == decode_single_stream(x, len, limits)
              w == d.wrapper[1]
          IN  Paid(d.out, xz_wrapper_metadata(w), charge_xz(w), len, limits)
<1> DEFINE head == parse_stream_header(x, len)
           c == parse_container(x, len, limits)
           d == decode_single_stream(x, len, limits)
           w == d.wrapper[1]
           a1 == x.out > limits.max_output
           a2 == x.codec # OK
           b2 == classify_xz_error(x.codec)
           a3 == XzEnd(x) > len
           a4 == XzEnd(x) < len
           b4 == classify_xz_trailing(x, XzEnd(x), len)
           a5 == ~x.totals
           kind == IF head # OK THEN head
                   ELSE FirstOf(<< <<a1, "OutputLimit">>, <<a2, b2>>, <<a3, "Truncated">>, <<a4, b4>>,
                                   <<a5, "DecoderDisagreement">> >>)
           e1 == c.kind # OK
           f1 == c.kind
           e2 == XzTotal(c.blocks) # x.out
           e3 == ~verify_block_checks(x, c.blocks)
           agrees == FirstOf(<< <<e1, f1>>, <<e2, "DecoderDisagreement">>, <<e3, "CheckMismatch">> >>)
<1>1. d = IF kind # OK THEN StreamFails(kind) ELSE ContainerAgrees(x, c)
  BY DEF decode_single_stream
<1>2. ContainerAgrees(x, c) = StreamEnds(agrees, XzWrapperEvidence(x, c), x.out)
  BY DEF ContainerAgrees
<1>3. kind = OK /\ agrees = OK /\ d.out = x.out /\ w = XzWrapperEvidence(x, c)
  <2> HIDE DEF kind, agrees, c
  <2> QED BY <1>1, <1>2 DEF StreamFails, StreamYields, StreamEnds
<1>4. ~(x.out > limits.max_output)
  <2>1. FirstOf(<< <<a1, "OutputLimit">>, <<a2, b2>>, <<a3, "Truncated">>, <<a4, b4>>,
                   <<a5, "DecoderDisagreement">> >>) = OK
    <3> HIDE DEF a1, a2, b2, a3, a4, b4, a5
    <3> QED BY <1>3
  <2>2. b2 # OK /\ b4 # OK
    BY DEF classify_xz_error, classify_xz_trailing, OK
  <2>3. ~a1
    <3> HIDE DEF a1, a2, b2, a3, a4, b4, a5
    <3>1. "OutputLimit" # OK /\ "Truncated" # OK /\ "DecoderDisagreement" # OK
      BY DEF OK
    <3> QED BY <2>1, <2>2, <3>1, AllPass5
  <2> QED BY <2>3
<1>5. c.kind = OK
  <2> HIDE DEF c
  <2>1. ~e1
    <3>1. "DecoderDisagreement" # OK /\ "CheckMismatch" # OK /\ (e1 => f1 # OK)
      BY DEF OK
    <3> HIDE DEF e1, f1, e2, e3
    <3> QED BY <1>3, <3>1, AllPass3
  <2> QED BY <2>1
<1>6. /\ xz_wrapper_metadata(w)
           = STREAM_HEADER_LEN + STREAM_FOOTER_LEN + c.index.len + Framed(c.blocks)
      /\ charge_xz(w) = Packed(c.blocks)
  <2> HIDE DEF c, w
  <2>1. w.index = c.index /\ w.blocks = c.blocks
    BY <1>3 DEF XzWrapperEvidence
  <2> QED BY <2>1 DEF xz_wrapper_metadata, charge_xz, Framed, Packed
<1>7. x.out \in Nat
  BY DEF IsXzImage
<1> DEFINE metadata == STREAM_HEADER_LEN + STREAM_FOOTER_LEN + c.index.len + Framed(c.blocks)
<1>8. metadata \in Int /\ metadata <= limits.max_metadata /\ Packed(c.blocks) + metadata = len
  BY <1>5, ContainerFills
<1> HIDE DEF metadata, d, w, c
<1>9. Paid(d.out, xz_wrapper_metadata(w), charge_xz(w), len, limits)
  BY <1>3, <1>4, <1>6, <1>7, <1>8 DEF Paid, AreLimits, metadata
<1> QED BY <1>9 DEF d, w

\* The offsets of a bzip2 container are as many as there are magics before the
\* footer, and the bits its frames take are counted.
LEMMA MagicsCounted ==
    ASSUME NEW x, IsBzip2Image(x)
    PROVE /\ FooterAt(x) \in Nat
          /\ \A footer \in Int : Len(scan_block_magics(x, footer)) \in Nat
<1> DEFINE n == Len(x.blocks)
<1>1. n \in Nat /\ DOMAIN x.blocks = 1..n /\ \A i \in 1..n : x.blocks[i].bits \in Nat
  BY DEF IsBzip2Image, Range
<1>2. \A i \in 1..(n + 1) : BlockBitAt(x, i) \in Nat
  <2> SUFFICES ASSUME NEW i \in 1..(n + 1) PROVE BlockBitAt(x, i) \in Nat
    OBVIOUS
  <2> DEFINE s == [j \in 1..(i - 1) |-> BLOCK_FRAME_BITS + x.blocks[j].bits]
  <2>1. i - 1 \in Nat /\ DOMAIN s = 1..(i - 1) /\ \A j \in 1..(i - 1) : s[j] \in Nat
    BY <1>1 DEF BLOCK_FRAME_BITS
  <2> HIDE DEF s
  <2>2. SumOf(s) \in Nat
    BY <2>1, SumNat
  <2> QED BY <2>2 DEF BlockBitAt, s
<1>3. FooterAt(x) \in Nat
  BY <1>1, <1>2 DEF FooterAt
<1>4. ASSUME NEW footer \in Int PROVE Len(scan_block_magics(x, footer)) \in Nat
  <2> DEFINE S == {at \in {BlockBitAt(x, i) : i \in DOMAIN x.blocks} \cup x.chance :
                     at >= 32 /\ at + 48 <= footer}
             top == IF footer \in Nat THEN footer ELSE 0
  <2>1. S \subseteq Nat
    BY <1>1, <1>2 DEF IsBzip2Image
  <2>2. top \in Nat /\ \A at \in S : at <= top
    BY <2>1
  <2>3. IsFiniteSet(S)
    <3> HIDE DEF S, top
    <3> QED BY <2>1, <2>2, FS_BoundedSetOfNaturals
  <2>4. Cardinality(S) \in Nat
    BY <2>3, FS_CardinalityType
  <2>5. scan_block_magics(x, footer) = Ascending(S)
    BY DEF scan_block_magics
  <2> HIDE DEF S
  <2>6. Len(Ascending(S)) = Cardinality(S)
    BY <2>4 DEF Ascending
  <2> QED BY <2>4, <2>5, <2>6
<1> QED BY <1>3, <1>4

\* bzip2: one stream is the whole source.
LEMMA Bzip2Paid ==
    ASSUME NEW x, IsBzip2Image(x), NEW len \in Nat, NEW limits, AreLimits(limits),
           decode_bzip2_stream(x, len, limits).kind = OK
    PROVE LET d == decode_bzip2_stream(x, len, limits)
              w == d.wrapper[1]
          IN  Paid(d.out, bzip2_wrapper_metadata(w), charge_bzip2(w, len), len, limits)
<1> DEFINE head == parse_stream_prefix(x, len)
           c == parse_bzip2_container(x, len, limits)
           d == decode_bzip2_stream(x, len, limits)
           w == d.wrapper[1]
           a1 == x.out > limits.max_output
           a2 == x.codec # OK
           b2 == classify_bzip2_error(x.codec)
           a3 == Bzip2End(x) > len
           a4 == Bzip2End(x) < len
           b4 == classify_bzip2_trailing(x, Bzip2End(x), len)
           a5 == ~x.totals
           kind == IF head # OK THEN head
                   ELSE FirstOf(<< <<a1, "OutputLimit">>, <<a2, b2>>, <<a3, "Truncated">>, <<a4, b4>>,
                                   <<a5, "DecoderDisagreement">> >>)
           e1 == c.kind # OK
           f1 == c.kind
           e2 == ~SingleBlockSum(x, c.crcs)
           agrees == FirstOf(<< <<e1, f1>>, <<e2, "CheckMismatch">> >>)
<1>1. d = IF kind # OK THEN StreamFails(kind) ELSE Bzip2ContainerAgrees(x, c)
  BY DEF decode_bzip2_stream
<1>2. Bzip2ContainerAgrees(x, c) = StreamEnds(agrees, Bzip2WrapperEvidence(x, c), x.out)
  BY DEF Bzip2ContainerAgrees
<1>3. kind = OK /\ agrees = OK /\ d.out = x.out /\ w = Bzip2WrapperEvidence(x, c)
  <2> HIDE DEF kind, agrees, c
  <2> QED BY <1>1, <1>2 DEF StreamFails, StreamYields, StreamEnds
<1>4. ~(x.out > limits.max_output)
  <2>1. FirstOf(<< <<a1, "OutputLimit">>, <<a2, b2>>, <<a3, "Truncated">>, <<a4, b4>>,
                   <<a5, "DecoderDisagreement">> >>) = OK
    <3> HIDE DEF a1, a2, b2, a3, a4, b4, a5
    <3> QED BY <1>3
  <2>2. b2 # OK /\ b4 # OK
    BY DEF classify_bzip2_error, classify_bzip2_trailing, OK
  <2>3. ~a1
    <3> HIDE DEF a1, a2, b2, a3, a4, b4, a5
    <3>1. "OutputLimit" # OK /\ "Truncated" # OK /\ "DecoderDisagreement" # OK
      BY DEF OK
    <3> QED BY <2>1, <2>2, <3>1, AllPass5
  <2> QED BY <2>3
<1>5. c.kind = OK
  <2> HIDE DEF c
  <2>1. ~e1
    <3>1. "CheckMismatch" # OK /\ (e1 => f1 # OK)
      BY DEF OK
    <3> HIDE DEF e1, f1, e2
    <3> QED BY <1>3, <3>1, AllPass2
  <2> QED BY <2>1
<1> DEFINE pad == PaddingOf(x)
           footer == 8 * len - pad - FOOTER_BITS
           offsets == scan_block_magics(x, footer)
           frames == [i \in DOMAIN offsets |-> read_block_frame(x, offsets[i])]
           crcs == [i \in DOMAIN frames |-> frames[i].crc]
           Fits(i) == offsets[i] + BLOCK_FRAME_BITS <= footer
           bits == Bzip2MetadataBits(Len(offsets), pad)
           g1 == x.shifts # {} \/ ~x.pad0
           g2 == offsets = << >> \/ offsets[1] # 32
           g3 == Len(offsets) > BZIP2_MAX_BLOCKS
           g4 == CeilBytes(bits) > limits.max_metadata
           g5 == \E i \in DOMAIN frames : Fits(i) /\ frames[i].rnd
           g6 == \E i \in DOMAIN offsets : ~Fits(i)
           g7 == ChainFold(crcs) # x.combined
<1>6. /\ FirstOf(<< <<g1, "StreamStructure">>, <<g2, "StreamStructure">>, <<g3, "BlockBounds">>,
                    <<g4, "HeaderLimit">>, <<g5, "RandomizedBlock">>, <<g6, "StreamStructure">>,
                    <<g7, "StreamStructure">> >>) = c.kind
      /\ c.padding_bits = pad /\ c.offsets = offsets
  BY DEF parse_bzip2_container
<1>7. ~(CeilBytes(bits) > limits.max_metadata)
  <2>1. ~g4
    <3> HIDE DEF g1, g2, g3, g4, g5, g6, g7, c
    <3>1. /\ "StreamStructure" # OK /\ "BlockBounds" # OK /\ "HeaderLimit" # OK
          /\ "RandomizedBlock" # OK
      BY DEF OK
    <3> QED BY <1>5, <1>6, <3>1, AllPass7
  <2> QED BY <2>1
<1>8. pad \in Int
  BY MagicsCounted DEF PaddingOf, Bzip2End, CeilBytes, FOOTER_BITS
<1>9. Len(offsets) \in Nat
  <2>1. footer \in Int
    BY <1>8 DEF FOOTER_BITS
  <2> HIDE DEF footer
  <2> QED BY <2>1, MagicsCounted
<1>10. bzip2_wrapper_metadata(w) = CeilBytes(bits)
  <2> HIDE DEF c, w, pad, offsets
  <2>1. w.block_bit_offsets = offsets /\ w.padding_bits = pad
    BY <1>3, <1>6 DEF Bzip2WrapperEvidence
  <2> QED BY <2>1 DEF bzip2_wrapper_metadata
<1> HIDE DEF pad, offsets
<1>11. CeilBytes(bits) \in Int
  BY <1>8, <1>9 DEF CeilBytes, Bzip2MetadataBits, BLOCK_FRAME_BITS, FOOTER_BITS
<1>12. x.out \in Nat
  BY DEF IsBzip2Image
<1> HIDE DEF bits, d, w
<1>13. Paid(d.out, bzip2_wrapper_metadata(w), charge_bzip2(w, len), len, limits)
  BY <1>3, <1>4, <1>7, <1>10, <1>11, <1>12 DEF Paid, AreLimits, charge_bzip2
<1> QED BY <1>13 DEF d, w

-----------------------------------------------------------------------------
(***************************************************************************)
(* The budgets of a derived archive                                        *)
(***************************************************************************)
\* What the wrapper was charged for and the archive in it has left.
ScanPaid ==
    LET d == outer[1].result
        metadata == WrapperMetadata(job, d.wrapper[1])
    IN  /\ Paid(d.out, metadata, Charge(job, outer)[1], outer[1].len, Limits(job))
        /\ scan.len = d.out /\ scan.maxMetadata = job.budget.max_metadata - metadata
        /\ scan.metadata \in Int /\ scan.metadata <= scan.maxMetadata

\* The inductive invariant: a derived archive is only read once its wrapper is
\* paid for, and the reader never charges more than the wrapper left.
BudgetInv == TarInv /\ (Wrapped(job) /\ scan # <<>> => ScanPaid)

\* What the four decoders hand on: nothing, or a new scan of a paid stream.
Derives ==
    \/ scan' = <<>>
    \/ \E o, d : /\ outer' = <<[img |-> o.img, len |-> o.len, result |-> d]>>
                 /\ scan' = DerivedScan(job, d)
                 /\ Paid(d.out, WrapperMetadata(job, d.wrapper[1]), Charge(job, outer')[1], o.len,
                         Limits(job))

\* The images a codec's decoder may meet have that codec's shape.
LEMMA ImagesShaped ==
    ASSUME job \in Jobs, Wrapped(job), NEW o \in Images(job)
    PROVE /\ o.len \in Nat /\ IsStreamImage(job.codec, o.img) /\ AreLimits(Limits(job))
BY JobsAssumption DEF Wrapped, AreLimits, Limits

\* Each decoder hands on what it has paid for (apply_tar_gzip_with_options
\* and its three siblings).
LEMMA DecodersDerive ==
    ASSUME job \in Jobs, DecodeGzip \/ DecodeZstd \/ DecodeXz \/ DecodeBzip2
    PROVE job' = job /\ Wrapped(job) /\ Derives
<1> USE DEF Wrapped
<1>1. CASE DecodeGzip
  <2>1. job.codec = "gzip" /\ job' = job
    BY <1>1 DEF DecodeGzip, DecodeStream
  <2>2. PICK o, d :
          /\ o \in Images(job) /\ d = decode_single_member(o.img, o.len, Limits(job))
          /\ outer' = <<[img |-> o.img, len |-> o.len, result |-> d]>>
          /\ scan' = <<>> \/ (d.kind = OK /\ scan' = DerivedScan(job, d))
    BY <1>1 DEF DecodeGzip, DecodeStream
  <2>3. ASSUME d.kind = OK
        PROVE Paid(d.out, gzip_wrapper_metadata(d.wrapper[1]), charge_gzip(d.wrapper[1]), o.len, Limits(job))
    BY <2>1, <2>2, <2>3, ImagesShaped, GzipPaid DEF IsStreamImage
  <2>4. /\ WrapperMetadata(job, d.wrapper[1]) = gzip_wrapper_metadata(d.wrapper[1])
        /\ Charge(job, outer')[1] = charge_gzip(d.wrapper[1])
    BY <2>1, <2>2 DEF WrapperMetadata, Charge
  <2> QED BY <2>1, <2>2, <2>3, <2>4 DEF Derives
<1>2. CASE DecodeZstd
  <2>1. job.codec = "zstd" /\ job' = job
    BY <1>2 DEF DecodeZstd, DecodeStream
  <2>2. PICK o, d :
          /\ o \in Images(job) /\ d = decode_single_frame(o.img, o.len, Limits(job))
          /\ outer' = <<[img |-> o.img, len |-> o.len, result |-> d]>>
          /\ scan' = <<>> \/ (d.kind = OK /\ scan' = DerivedScan(job, d))
    BY <1>2 DEF DecodeZstd, DecodeStream
  <2>3. ASSUME d.kind = OK
        PROVE Paid(d.out, zstd_wrapper_metadata(d.wrapper[1]), charge_zstd(d.wrapper[1]), o.len, Limits(job))
    BY <2>1, <2>2, <2>3, ImagesShaped, ZstdPaid DEF IsStreamImage
  <2>4. /\ WrapperMetadata(job, d.wrapper[1]) = zstd_wrapper_metadata(d.wrapper[1])
        /\ Charge(job, outer')[1] = charge_zstd(d.wrapper[1])
    BY <2>1, <2>2 DEF WrapperMetadata, Charge
  <2> QED BY <2>1, <2>2, <2>3, <2>4 DEF Derives
<1>3. CASE DecodeXz
  <2>1. job.codec = "xz" /\ job' = job
    BY <1>3 DEF DecodeXz, DecodeStream
  <2>2. PICK o, d :
          /\ o \in Images(job) /\ d = decode_single_stream(o.img, o.len, Limits(job))
          /\ outer' = <<[img |-> o.img, len |-> o.len, result |-> d]>>
          /\ scan' = <<>> \/ (d.kind = OK /\ scan' = DerivedScan(job, d))
    BY <1>3 DEF DecodeXz, DecodeStream
  <2>3. ASSUME d.kind = OK
        PROVE Paid(d.out, xz_wrapper_metadata(d.wrapper[1]), charge_xz(d.wrapper[1]), o.len, Limits(job))
    BY <2>1, <2>2, <2>3, ImagesShaped, XzPaid DEF IsStreamImage
  <2>4. /\ WrapperMetadata(job, d.wrapper[1]) = xz_wrapper_metadata(d.wrapper[1])
        /\ Charge(job, outer')[1] = charge_xz(d.wrapper[1])
    BY <2>1, <2>2 DEF WrapperMetadata, Charge
  <2> QED BY <2>1, <2>2, <2>3, <2>4 DEF Derives
<1>4. CASE DecodeBzip2
  <2>1. job.codec = "bzip2" /\ job' = job
    BY <1>4 DEF DecodeBzip2, DecodeStream
  <2>2. PICK o, d :
          /\ o \in Images(job) /\ d = decode_bzip2_stream(o.img, o.len, Limits(job))
          /\ outer' = <<[img |-> o.img, len |-> o.len, result |-> d]>>
          /\ scan' = <<>> \/ (d.kind = OK /\ scan' = DerivedScan(job, d))
    BY <1>4 DEF DecodeBzip2, DecodeStream
  <2>3. ASSUME d.kind = OK
        PROVE Paid(d.out, bzip2_wrapper_metadata(d.wrapper[1]), charge_bzip2(d.wrapper[1], o.len), o.len,
                   Limits(job))
    BY <2>1, <2>2, <2>3, ImagesShaped, Bzip2Paid DEF IsStreamImage
  <2>4. /\ WrapperMetadata(job, d.wrapper[1]) = bzip2_wrapper_metadata(d.wrapper[1])
        /\ Charge(job, outer')[1] = charge_bzip2(d.wrapper[1], o.len)
    BY <2>1, <2>2 DEF WrapperMetadata, Charge
  <2> QED BY <2>1, <2>2, <2>3, <2>4 DEF Derives
<1> QED BY <1>1, <1>2, <1>3, <1>4

\* A decoder settles the wrapper's account.
LEMMA DecodePays ==
    ASSUME job \in Jobs, job' = job, Derives, scan' # <<>> PROVE ScanPaid'
<1>1. PICK o, d : /\ outer' = <<[img |-> o.img, len |-> o.len, result |-> d]>>
                  /\ scan' = DerivedScan(job, d)
                  /\ Paid(d.out, WrapperMetadata(job, d.wrapper[1]), Charge(job, outer')[1], o.len,
                          Limits(job))
  BY DEF Derives
<1> DEFINE metadata == WrapperMetadata(job, d.wrapper[1])
           charge == Charge(job, outer')[1]
<1>2. outer'[1].result = d /\ outer'[1].len = o.len
  BY <1>1
<1>3. /\ scan'.len = d.out /\ scan'.metadata = 0
      /\ scan'.maxMetadata = job.budget.max_metadata - metadata
  BY <1>1 DEF DerivedScan, NewScan
<1> HIDE DEF metadata, charge
<1>4. job.budget.max_metadata \in Nat
  BY JobsAssumption
<1>5. metadata \in Int /\ metadata <= job.budget.max_metadata
  BY <1>1 DEF Paid, Limits, metadata
<1>6. scan'.metadata \in Int /\ scan'.metadata <= scan'.maxMetadata
  BY <1>3, <1>4, <1>5
<1> QED BY <1>1, <1>2, <1>3, <1>6 DEF ScanPaid, metadata

\* A turn of the reader charges within what the wrapper left.
LEMMA TurnPays ==
    ASSUME BudgetInv, ReadTurn, Wrapped(job) PROVE ScanPaid'
<1>1. /\ phase = "reading" /\ UNCHANGED <<job, outer>> /\ job \in Jobs
  BY DEF ReadTurn, BudgetInv, TarInv
<1>2. job.kind = "tar" /\ job.budget.max_metadata \in Nat
  BY <1>1, JobsAssumption DEF Wrapped
<1>3. ScanInv(scan) /\ scan.dialect = job.dialect /\ Running(scan)
  BY <1>1, <1>2 DEF BudgetInv, TarInv, ScanKept
<1>4. PICK w \in TarWindows(job) : scan' = TarStep(scan, w)
  BY <1>2 DEF ReadTurn, Windows, Step
<1>5. IsWindow(scan.dialect, w)
  BY <1>1, <1>2, <1>3, <1>4, JobsAssumption
<1>6. /\ IsScan(scan) /\ scan.offset \in Nat /\ scan.dialect \in Dialects
      /\ scan.dialect = "ustar" => scan.pending = <<>>
  BY <1>3 DEF ScanInv, OverridesInv
<1>7. w.h.k = "header" => SizeOf(scan, w) \in Nat
  BY <1>3, <1>5, SizeIsNat
<1>8. \/ Keeps(scan, scan')
      \/ /\ w.h.k = "header" /\ ~(scan.offset + BLOCK_LEN > scan.len)
         /\ ReadsMember(scan, scan', w, PathOf(scan, w), SizeOf(scan, w))
      \/ scan.dialect = "pax" /\ \E x : ReadsPax(scan, scan', x)
      \/ scan.dialect = "gnu" /\ \E x : ReadsCarrier(scan, scan', x)
  BY <1>4, <1>5, <1>6, <1>7, TurnReads
<1>9. SameArchive(scan, scan') /\ Charged(scan, scan')
  BY <1>8 DEF Keeps, ReadsMember, ReadsPax, ReadsCarrier, ReadsExtension
<1>10. scan # <<>>
  <2>1. "len" \in DOMAIN scan
    BY <1>6 DEF IsScan, ScanFields
  <2> QED BY <2>1
<1>11. ScanPaid
  BY <1>10 DEF BudgetInv
<1> DEFINE metadata == WrapperMetadata(job, outer[1].result.wrapper[1])
<1>12. /\ metadata \in Int /\ scan.maxMetadata = job.budget.max_metadata - metadata
       /\ scan.metadata \in Int /\ scan.metadata <= scan.maxMetadata
  BY <1>11 DEF ScanPaid, Paid
<1> HIDE DEF metadata
<1>13. scan'.metadata \in Int /\ scan'.metadata <= scan'.maxMetadata
  BY <1>2, <1>9, <1>12 DEF SameArchive, Charged
<1> QED BY <1>1, <1>9, <1>11, <1>13 DEF ScanPaid, SameArchive

\* Every step keeps the account.
LEMMA BudgetNext == BudgetInv /\ [Next]_vars => BudgetInv'
<1> SUFFICES ASSUME BudgetInv, [Next]_vars PROVE BudgetInv'
  OBVIOUS
<1>1. TarInv' /\ job \in Jobs
  BY TarNext DEF BudgetInv, TarInv
<1>2. CASE DecodeGzip \/ DecodeZstd \/ DecodeXz \/ DecodeBzip2
  BY <1>1, <1>2, DecodersDerive, DecodePays DEF BudgetInv
<1>3. CASE ReadTurn
  <2>1. job' = job
    BY <1>3 DEF ReadTurn
  <2> QED BY <1>1, <1>3, <2>1, TurnPays DEF BudgetInv
<1>4. CASE Accept
  <2>1. job' = job /\ (Wrapped(job) => scan' = <<>>)
    BY <1>4 DEF Accept
  <2> QED BY <1>1, <2>1 DEF BudgetInv
<1>5. CASE ReadSevenZ
  <2>1. job' = job /\ ~Wrapped(job)
    BY <1>1, <1>5, JobsAssumption DEF ReadSevenZ, Wrapped
  <2> QED BY <1>1, <2>1 DEF BudgetInv
<1>6. CASE UNCHANGED <<job, outer, scan>>
  BY <1>1, <1>6 DEF BudgetInv, ScanPaid
<1>7. RefuseSubmission \/ SourceFails \/ Plan \/ Misrecord \/ Audit \/ Verify \/ UNCHANGED vars
        => UNCHANGED <<job, outer, scan>>
  BY DEF RefuseSubmission, SourceFails, Plan, Misrecord, Audit, Verify, vars
<1> QED BY <1>2, <1>3, <1>4, <1>5, <1>6, <1>7 DEF Next

\* For every budget and every stream: a derived archive that is read fits the
\* derived budget, the wrapper and the archive in it share one metadata budget
\* (the checked_sub of apply_tar_gzip_with_options and its siblings, which never
\* fails its expect), and what is charged as compressed and what as metadata add
\* up to the source.
THEOREM DerivedStaysWithinBudget == Spec => []DerivedWithinBudget
<1>1. Init => BudgetInv
  BY TarInit DEF Init, BudgetInv
<1>2. BudgetInv => DerivedWithinBudget
  <2> SUFFICES ASSUME BudgetInv, Wrapped(job), scan # <<>> PROVE DerivedWithinBudget
    BY DEF DerivedWithinBudget
  <2> DEFINE d == outer[1].result
             metadata == WrapperMetadata(job, d.wrapper[1])
             charge == Charge(job, outer)[1]
  <2>1. /\ metadata \in Int /\ metadata <= job.budget.max_metadata
        /\ charge + metadata = outer[1].len /\ d.out <= job.budget.max_derived
        /\ scan.len = d.out /\ scan.maxMetadata = job.budget.max_metadata - metadata
        /\ scan.metadata \in Int /\ scan.metadata <= scan.maxMetadata
    BY DEF BudgetInv, ScanPaid, Paid, Limits
  <2>2. job.budget.max_metadata \in Nat
    BY JobsAssumption DEF BudgetInv, TarInv
  <2> HIDE DEF metadata, charge, d
  <2>3. metadata + scan.metadata <= job.budget.max_metadata
    BY <2>1, <2>2
  <2> QED BY <2>1, <2>3 DEF DerivedWithinBudget, metadata, charge, d
<1> QED BY <1>1, <1>2, BudgetNext, PTL DEF Spec
================================================================================
