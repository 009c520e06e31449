---------------------------- MODULE MCInterpretation ----------------------------
(****************************************************************************)
(* Small archives.  A job fixes the format, the length and the budget, and  *)
(* names the alphabet its windows come from, so that each job is about one  *)
(* question: names, overrides, malformed headers, or limits.                *)
(****************************************************************************)
EXTENDS MCStreams

B == BLOCK_LEN

Budget == [max_files |-> 3, max_metadata |-> 40, max_member |-> 5, max_total |-> 6,
           max_ratio |-> << >>, max_depth |-> 2, max_derived |-> 45]

TarJob(dialect, blocks, alphabet) ==
    [kind |-> "tar", codec |-> "none", dialect |-> dialect, len |-> blocks * B, budget |-> Budget,
     submission |-> "ok", alphabet |-> alphabet]

TarJobs ==
    {TarJob(d, 3, "flaws") : d \in {"ustar", "pax", "gnu"}}
    \cup {TarJob("ustar", 5, "flaws"), TarJob("ustar", 4, "names")}
    \cup {TarJob("pax", 8, "overrides"), TarJob("gnu", 7, "overrides")}
    \cup {[TarJob("ustar", 3, "flaws") EXCEPT !.submission = f]
             : f \in {"policy", "QuotaArchive", "SourceIo"}}

\* A stream of out bytes; a budget m for its metadata and the archive's.
WrappedJob(codec, dialect, out, m, alphabet) ==
    [TarJob(dialect, 0, alphabet) EXCEPT !.codec = codec, !.len = out, !.budget.max_metadata = m]

\* What the smallest good wrapper of a codec costs, and what an archive of
\* one member costs after it.
WrapperCost(codec) == CASE codec = "gzip" -> 18 [] codec = "zstd" -> 6 [] codec = "xz" -> 48
                        [] codec = "bzip2" -> 25
ArchiveCost == 3 * B

WrappedJobs ==
    {WrappedJob(c, "ustar", 3 * B, 100, "wrapped") : c \in {"gzip", "zstd", "xz", "bzip2"}}
    \cup {WrappedJob("gzip", d, 3 * B, 100, "wrapped") : d \in {"pax", "gnu"}}
    \cup {WrappedJob(c, "ustar", 3 * B, WrapperCost(c) + k, "wrapped")
             : c \in {"gzip", "zstd", "xz", "bzip2"},
               k \in {-1, 0, ArchiveCost - 1, ArchiveCost, ArchiveCost + 1}}
    \cup {WrappedJob("gzip", "ustar", 9 * B, 100, "wrapped")}
    \cup {[WrappedJob("gzip", "ustar", 5 * B - r, 100, "limits")
              EXCEPT !.budget.max_ratio = << 1 >>, !.budget.max_files = 2, !.budget.max_total = 1]
             : r \in {0, 1}}

SevenZJobs ==
    {[kind |-> "7z", codec |-> "none", submission |-> "ok", budget |-> b]
        : b \in {[Budget EXCEPT !.max_files = 5, !.max_metadata = 52],
                 [Budget EXCEPT !.max_files = 4], [Budget EXCEPT !.max_files = 5],
                 [Budget EXCEPT !.max_files = 5, !.max_metadata = 52, !.max_total = 3],
                 [Budget EXCEPT !.max_files = 5, !.max_metadata = 52, !.max_member = 1],
                 [Budget EXCEPT !.max_files = 5, !.max_metadata = 52, !.max_ratio = << 1 >>]}}

MCImages(j) ==
    CASE j.kind = "7z" -> SevenZImages
      [] j.alphabet = "limits" ->
           {[img |-> [members |-> <<GzipMember(c, j.len)>>], len |-> 18 + c] : c \in {3, 30}}
      [] j.codec = "gzip" -> GzipImages(j.len) [] j.codec = "zstd" -> ZstdImages(j.len)
      [] j.codec = "xz" -> XzImages(j.len) [] j.codec = "bzip2" -> Bzip2Images(j.len)

Zero == [k |-> "zero", used |-> 0]
Data(used, items) == [k |-> "data", used |-> used, items |-> items]
PathRec(v) == [key |-> "path", value |-> v]
SizeRec(n) == [key |-> "size", value |-> n]

Magic(d) == IF d = "gnu" THEN "oldgnu" ELSE "ustar"
Header(d, type, size, name) ==
    [k |-> "header", magic |-> Magic(d), flaws |-> {}, type |-> type, size |-> size, name |-> name]

Window(h, body, rest0) == [h |-> h, body |-> body, rest0 |-> rest0]
BadEnds == {Window(Zero, l, r) : l \in {Zero, Data(B, << >>)}, r \in BOOLEAN}
Plain(h) == {Window(h, Zero, FALSE)}
Loaded(h, bodies) == {Window(h, b, FALSE) : b \in bodies}

Flawed(d) ==
    {[Header(d, "file", 0, <<"a">>) EXCEPT !.flaws = {f}]
        : f \in {"checksum", "reserved", "linkname", "base256", "digits", "size256", "sizedigits", "device", "owner", "text"}}
    \cup {[Header(d, t, 0, <<"a">>) EXCEPT !.magic = m]
            : t \in {"file", "link", "g", "x", "L", "odd"}, m \in {"ustar", "oldgnu"}}
    \cup {Header(d, "dir", 1, <<"a">>), Header(d, "file", 0, <<"notutf8">>),
          Header(d, "file", 1, <<"a">>), Header(d, "file", B + 1, <<"a">>),
          Header(d, "file", MaxU64, <<"a">>), Data(B, << >>)}

TarNames == {<<"a">>, <<"A">>, <<"a", "x">>, <<"a", "b", "c">>, <<"..">>, <<"a", "">>,
          <<".", "b">>, <<"b", ".">>, <<"sharp">>, <<"ss">>, <<"clock">>, <<"wide">>}

OverrideTurns(d) ==
    UNION {Loaded(Header(d, t, 1, <<"h">>), {Data(1, <<r>>) : r \in {PathRec(<<"p">>), SizeRec(1)}})
             : t \in {"g", "x"}}
    \cup Loaded(Header(d, "x", B + 1, <<"h">>),
                {Data(B + 1, <<PathRec(<<"q">>), SizeRec(0)>>), Data(B + 1, <<SizeRec(1), SizeRec(1)>>),
                 Data(B + 2, <<SizeRec(0), PathRec(<<"q">>)>>)})
    \cup Plain(Header(d, "x", MAX_EXTENSION_BYTES + 1, <<"h">>))
    \cup Loaded(Header(d, "file", B + 1, <<"m">>), {Data(B + 1, << >>), Data(B + 2, << >>)})
    \cup Loaded(Header(d, "file", 0, <<"m">>), {Data(1, << >>), Data(2, << >>)})
    \cup Loaded(Header(d, "file", 0, <<"n">>), {Data(1, << >>)})
    \cup Plain(Header(d, "dir", 0, <<"d">>))

CarrierTurns(d) ==
    Loaded(Header(d, "L", 2, <<"h">>), {Data(1, <<PathRec(v)>>) : v \in {<<"p">>, <<"q">>, <<"q", "">>}})
    \cup Loaded(Header(d, "L", 2, <<"h">>), {Data(2, <<PathRec(<<"p">>)>>), Zero})
    \cup Loaded(Header(d, "L", B + 2, <<"h">>), {Data(B + 1, <<PathRec(v)>>) : v \in {<<"r">>, <<".", "r", "">>}})
    \cup Plain(Header(d, "L", MAX_CARRIER_PAYLOAD_BYTES + 1, <<"h">>))
    \cup Loaded(Header(d, "file", 1, <<"m">>), {Data(1, << >>), Data(2, << >>)})
    \cup UNION {Plain(Header(d, "dir", 0, n)) : n \in {<<"d", "">>, <<".", "">>, <<"", "">>}}
    \cup Plain(Header(d, "file", 0, <<"m">>))

MCTarWindows(j) ==
    {Window(Zero, Zero, TRUE)} \cup
    (CASE j.alphabet = "flaws" ->
            BadEnds \cup
            UNION {IF h.k = "header" /\ h.size \in {1, B + 1}
                   THEN Loaded(h, {Data(h.size, << >>), Data(h.size + 1, << >>)}) ELSE Plain(h) : h \in Flawed(j.dialect)}
       [] j.alphabet = "names" ->
            UNION {Plain(Header(j.dialect, t, 0, n)) : t \in {"file", "dir"}, n \in TarNames}
       [] j.alphabet = "wrapped" ->
            UNION {Plain(Header(j.dialect, t, 0, <<"a">>)) : t \in {"file", "dir"}}
       [] j.alphabet = "limits" ->
            Loaded(Header(j.dialect, "file", 1, <<"a">>), {Data(1, << >>)})
            \cup Plain(Header(j.dialect, "file", 0, <<"b">>))
            \cup Plain(Header(j.dialect, "dir", 0, <<"d", "">>))
            \cup Plain(Header(j.dialect, "x", 0, <<"d", "">>))
       [] j.alphabet = "overrides" ->
            IF j.dialect = "pax" THEN OverrideTurns(j.dialect) ELSE CarrierTurns(j.dialect))

(****************************************************************************)
(* ZIP.  A job fixes the length; its end record says where the central      *)
(* directory starts.  An alphabet is the good windows and their neighbours, *)
(* each different in one field.                                             *)
(****************************************************************************)
ZipBudget == [Budget EXCEPT !.max_metadata = 60, !.max_member = 40, !.max_total = 50]

ZipJob(profile, len, cdSize, n, alphabet) ==
    [kind |-> "zip", codec |-> "none", submission |-> "ok", profile |-> profile, len |-> len,
     cdSize |-> cdSize, n |-> n,
     magic |-> "lfh", budget |-> ZipBudget, alphabet |-> alphabet]

Cap(n, max) == IF n < max THEN n ELSE max

\* The end records of a job with a pair or without.
EndWindow(j, pair, comment) ==
    LET off == j.len - EOCD_MIN - Len(comment)
        cdOff == off - j.cdSize - (IF pair THEN ZIP64_EOCD_LEN + ZIP64_LOCATOR_LEN ELSE 0)
    IN  [ends |-> <<[off |-> off, comment_len |-> Len(comment), comment |-> Range(comment),
                     eocd |-> [this_disk |-> 0, cd_disk |-> 0,
                               entries_on_disk |-> Cap(j.n, U16Max), total_entries |-> Cap(j.n, U16Max),
                               cd_size |-> Cap(j.cdSize, U32Max),
                               cd_offset |-> IF pair THEN U32Max ELSE Cap(cdOff, U32Max)],
                     locator |-> IF pair THEN <<[disk |-> 0, offset |-> cdOff + j.cdSize, disks |-> 1]>>
                                 ELSE << >>,
                     record |-> [sig |-> pair, extensible |-> FALSE, version |-> 45, disk |-> 0,
                                 entries_on_disk |-> j.n, total_entries |-> j.n,
                                 cd_size |-> j.cdSize, cd_offset |-> cdOff]]>>]

EndFlaws(w) ==
    {[w EXCEPT !.ends[1].eocd.this_disk = 1], [w EXCEPT !.ends[1].eocd.entries_on_disk = @ + 1],
     [w EXCEPT !.ends[1].eocd.total_entries = @ + 1, !.ends[1].eocd.entries_on_disk = @ + 1],
     [w EXCEPT !.ends[1].eocd.total_entries = U16Max, !.ends[1].eocd.entries_on_disk = U16Max],
     [w EXCEPT !.ends[1].eocd.cd_size = U32Max], [w EXCEPT !.ends[1].eocd.cd_offset = @ + 1],
     [w EXCEPT !.ends[1].comment_len = 1], [w EXCEPT !.ends = << >>],
     [w EXCEPT !.ends[1].record.version = 20], [w EXCEPT !.ends[1].record.extensible = TRUE],
     [w EXCEPT !.ends[1].record.disk = 1], [w EXCEPT !.ends[1].record.total_entries = @ + 1],
     [w EXCEPT !.ends[1].record.cd_size = @ + 1], [w EXCEPT !.ends[1].record.cd_offset = @ + 1]}
    \cup (IF w.ends[1].locator = << >> THEN {} ELSE
          {[w EXCEPT !.ends[1].locator[1].disks = 2], [w EXCEPT !.ends[1].locator[1].offset = @ + 1],
           [w EXCEPT !.ends[1].locator = << >>]})

CommentSigs == {<<"LFH">>, <<"EOCD">>, <<"ZIP64_LOCATOR">>, <<"plain">>}

NoDesc == [signed |-> FALSE, width |-> "none", crc |-> 0, comp |-> 0, uncomp |-> 0]

\* A stored member at an offset, local and central header alike.
Member(name, off, size) ==
    LET dir == IsDirName(name)
    IN  [cdh |-> [sig |-> TRUE, version |-> 20, flags |-> {}, method |-> 0,
                  attrs |-> IF dir THEN "unixdir" ELSE "regular", crc |-> IF dir THEN 0 ELSE 1,
                  comp |-> size, uncomp |-> size, name |-> name, extra |-> << >>,
                  comment_len |-> 0, comment |-> {}, disk_start |-> 0, lfh_offset |-> off],
         lfh |-> [sig |-> TRUE, version |-> 20, flags |-> {}, method |-> 0,
                  crc |-> IF dir THEN 0 ELSE 1, comp |-> size, uncomp |-> size, name |-> name,
                  extra |-> << >>],
         stream |-> FALSE, desc |-> NoDesc]

Extra(id, values) == [id |-> id, size |-> 2 * Len(values), values |-> values]
Extras == {<<Extra("ux", << >>)>>, <<Extra("ux", << >>), Extra("ux", << >>)>>,
           <<Extra("upath", << >>)>>, <<Extra("zip64", << >>)>>,
           <<[id |-> "over", size |-> 0, values |-> << >>]>>}

MemberFlaws(w) ==
    {[w EXCEPT !.cdh.sig = FALSE], [w EXCEPT !.lfh.sig = FALSE], [w EXCEPT !.cdh.disk_start = 1],
     [w EXCEPT !.cdh.comp = U32Max], [w EXCEPT !.lfh.comp = @ + 1], [w EXCEPT !.lfh.uncomp = U32Max],
     [w EXCEPT !.lfh.crc = @ + 1], [w EXCEPT !.lfh.method = 8], [w EXCEPT !.lfh.flags = {"desc"}],
     [w EXCEPT !.lfh.flags = {"crypt"}], [w EXCEPT !.lfh.name = <<"z">>],
     [w EXCEPT !.cdh.name = <<"a", "">>, !.lfh.name = <<"a", "">>],
     [w EXCEPT !.cdh.lfh_offset = @ + 1], [w EXCEPT !.cdh.comment = {"CDH"}, !.cdh.comment_len = 1]}
    \cup {[w EXCEPT !.cdh.flags = f, !.lfh.flags = f] : f \in {{"crypt"}, {"utf8"}, {"odd"}, {"desc"}}}
    \cup {[w EXCEPT !.cdh.method = m, !.lfh.method = m] : m \in {8, 12}}
    \cup {[w EXCEPT !.cdh.attrs = a] : a \in {"symlink", "special", "dirregular", "dosdir", "none"}}
    \cup {[w EXCEPT !.cdh.extra = x] : x \in Extras} \cup {[w EXCEPT !.lfh.extra = x] : x \in Extras}

\* With a data descriptor: the local fields may be placeholders.
Streaming(w, signed, width) ==
    LET d == [signed |-> signed, width |-> width, crc |-> w.cdh.crc, comp |-> w.cdh.comp,
              uncomp |-> w.cdh.uncomp]
        v == [w EXCEPT !.cdh.flags = @ \cup {"desc"}, !.lfh.flags = @ \cup {"desc"}, !.desc = d]
    IN  {v, [v EXCEPT !.lfh.crc = 0, !.lfh.comp = 0, !.lfh.uncomp = 0], [v EXCEPT !.stream = TRUE],
         [v EXCEPT !.desc.crc = @ + 1], [v EXCEPT !.desc.comp = @ + 1]}

\* ZIP64 twins of a member: which fields saturate and which values follow.
Central64(w, off, mask, version) ==
    LET real == <<w.cdh.uncomp, w.cdh.comp, off>>
        vals == [k \in 1..Cardinality(mask) |->
                    real[CHOOSE i \in mask : Cardinality({j \in mask : j <= i}) = k]]
    IN  {[w EXCEPT !.cdh.extra = <<Extra("zip64", vals)>>, !.cdh.version = version,
                   !.cdh.uncomp = IF 1 \in sat THEN U32Max ELSE Cap(@, U32Max),
                   !.cdh.comp = IF 2 \in sat THEN U32Max ELSE Cap(@, U32Max),
                   !.cdh.lfh_offset = IF 3 \in sat THEN U32Max ELSE Cap(off, U32Max)]
            : sat \in SUBSET mask}

Local64(w, vals, comp, uncomp) ==
    [w EXCEPT !.lfh.extra = <<Extra("zip64", vals)>>, !.lfh.version = 45, !.lfh.comp = comp,
              !.lfh.uncomp = uncomp]

Zip64Locals(w) ==
    LET u == w.cdh.uncomp
        c == w.cdh.comp
    IN  {w, Local64(w, <<u, c>>, U32Max, U32Max), Local64(w, <<u, c>>, c, u),
         Local64(w, <<c, u + 1>>, U32Max, U32Max), Local64(w, <<0, 0>>, U32Max, U32Max),
         Local64(w, <<MaxU64, MaxU64>>, 0, 0),
         [Local64(w, <<u, c>>, U32Max, U32Max) EXCEPT !.lfh.version = 20]}

\* Every local shape with a plain central header, every central one with a
\* plain local header, and saturated headers on both sides.
Zip64Windows(off, size) ==
    LET base == Member(<<"a">>, off, size)
        short == {[base EXCEPT !.cdh.flags = {"desc"}, !.lfh.flags = {"desc"},
                               !.desc = [signed |-> s, width |-> "Zip32", crc |-> 1,
                                         comp |-> size, uncomp |-> size]] : s \in BOOLEAN}
        streams == {base} \cup Streaming(base, TRUE, "Zip64") \cup short
        locals == UNION {Zip64Locals(w) : w \in streams}
        saturated == Local64(base, <<size, size>>, U32Max, U32Max)
    IN  locals
        \cup UNION {Central64(w, off, mask, version)
                      : w \in {base, saturated}, mask \in SUBSET (1..3) \ {{}}, version \in {10, 20, 45}}

\* The windows that fill the space of a one-member or a second record.
LocalLen(w) ==
    DataOffset(w.lfh, 0) + 1 + (IF w.desc = NoDesc THEN 0 ELSE DescriptorLen(w.desc, w.desc.width))
Filling(ws, local, central) == {w \in ws : LocalLen(w) = local /\ CdhLen(w.cdh) = central}

Zip64First == Zip64Windows(0, 1)
Zip64Near == Zip64Windows(U32Max - 1, 1)
Zip64Far == Zip64Windows(U32Max, 1)

ZipNames == {<<"a">>, <<"A">>, <<"..">>, <<"uni">>, <<"notutf8">>, <<"sharp">>, <<"private">>,
             <<"clock">>, <<"a", "">>, <<".", "a">>}

MCZipEnds(j) ==
    CASE j.alphabet = "ends" ->
            LET good == {EndWindow(j, p, << >>) : p \in BOOLEAN}
                        \cup {EndWindow(j, p, c) : p \in BOOLEAN, c \in CommentSigs}
            IN  good \cup UNION {EndFlaws(w) : w \in good}
      [] j.alphabet = "zip64" -> {EndWindow(j, p, << >>) : p \in BOOLEAN}
      [] OTHER -> {EndWindow(j, FALSE, << >>)}

MCZipRecords(j, first) ==
    CASE j.alphabet = "ends" -> {Member(<<"a">>, 0, 0)}
      [] j.alphabet = "flaws" ->
            LET good == Member(<<"a">>, 0, 1)
                all == {good} \cup MemberFlaws(good)
            IN  all \cup UNION {Streaming(good, g, "Zip32") : g \in BOOLEAN}
                    \cup Streaming(good, TRUE, "Zip64")
      [] j.alphabet = "names" ->
            {[Member(n, o, 0) EXCEPT !.cdh.flags = f, !.lfh.flags = f]
                : n \in ZipNames, o \in {0, 8, 9}, f \in {{}, {"utf8"}}}
      [] j.alphabet = "limits" -> {Member(<<n>>, o, z) : n \in {"a", "b"}, o \in {0, 8, 9, 10},
                                                         z \in {0, 1, 2}}
      [] j.alphabet = "zip64" ->
            IF first /\ j.n > 1
            THEN {Member(<<"f">>, 0, j.first)}
            ELSE Filling(CASE j.at = 0 -> Zip64First [] j.at = U32Max - 1 -> Zip64Near
                           [] j.at = U32Max -> Zip64Far, j.local, j.central)

ZipProfiles == {"StrictAsciiV1", "StrictAsciiV2", "PortableUtf8V1", "WheelUtf8V1"}

ZipJobs ==
    {ZipJob(p, 8 + 12 + EOCD_MIN + x, 12, 1, "ends") : p \in {"StrictAsciiV2", Zip64Profile},
                                                      x \in {0, 1, 19, 20}}
    \cup {ZipJob(p, 9 + d + 12 + x + EOCD_MIN, 12 + x, 1, "flaws")
             : p \in ZipProfiles, d \in {0, 1, 3, 4}, x \in {0, 1}}
    \cup {ZipJob(p, 16 + k + 24 + k + EOCD_MIN, 24 + k, 2, "names") : p \in ZipProfiles, k \in {0, 1}}
    \cup {[ZipJob("StrictAsciiV1", 16 + k + 24 + EOCD_MIN, 24, 2, "limits")
              EXCEPT !.budget.max_total = 2, !.budget.max_member = 1, !.budget.max_ratio = << 1 >>,
                     !.budget.max_metadata = 25] : k \in {0, 1, 2, 3}}
    \cup {ZipJob(Zip64Profile, 9 + l + 12 + x + p + EOCD_MIN, 12 + x, 1, "zip64")
             @@ [at |-> 0, first |-> 0, local |-> 9 + l, central |-> 12 + x]
             : l \in {0, 4, 5, 6, 11}, x \in {0, 3, 5, 7}, p \in {0, 19}}
    \cup {ZipJob(Zip64Profile, 8 + f + 9 + l + 12 + 12 + x + 19 + EOCD_MIN, 24 + x, 2, "zip64")
             @@ [at |-> 8 + f, first |-> f, local |-> 9 + l, central |-> 12 + x]
             : f \in {U32Max - 9, U32Max - 8}, x \in {3, 7}, l \in {0, 5}}

MCJobs == TarJobs \cup WrappedJobs \cup SevenZJobs \cup ZipJobs

================================================================================
