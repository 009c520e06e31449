------------------------------- MODULE MCStreams -------------------------------
(****************************************************************************)
(* Small compressed streams and 7z archives: for each format the good       *)
(* shapes, their neighbours that differ in one field, and each cut short or *)
(* followed by more bytes.                                                  *)
(****************************************************************************)
EXTENDS Interpretation

\* Every image whole, one byte short and with bytes behind it.
Cuts(images, end(_)) ==
    {[img |-> x, len |-> end(x) + d] : x \in images, d \in {-1, 0, 1, 4}}

(****************************************************************************)
(* gzip                                                                     *)
(****************************************************************************)
GzipMember(comp, out) ==
    [magic |-> TRUE, method |-> TRUE, reserved |-> FALSE, fixed |-> "fixed", extra |-> << >>,
     name |-> << >>, comment |-> << >>, hcrc |-> "none", stream |-> TRUE, comp |-> comp,
     out |-> out, crc |-> TRUE, isize |-> gzip_isize(out)]

Sub(id, n) == [id |-> id, len |-> n]
Field(xlen, subs) == <<[xlen |-> xlen, subs |-> subs]>>

FullMember(comp, out) ==
    [GzipMember(comp, out) EXCEPT !.extra = Field(9, <<Sub(1, 0), Sub(2, 1)>>), !.name = <<3>>,
                                  !.comment = <<2>>, !.hcrc = "good"]

GzipGood(out) ==
    {GzipMember(5, out), FullMember(5, out), [GzipMember(5, out) EXCEPT !.name = <<1>>],
     [GzipMember(5, out) EXCEPT !.extra = Field(0, << >>)]}

GzipFlawed(m) ==
    {[m EXCEPT !.magic = FALSE], [m EXCEPT !.method = FALSE], [m EXCEPT !.reserved = TRUE],
     [m EXCEPT !.name = <<MaxU64>>], [m EXCEPT !.comment = <<MaxU64>>], [m EXCEPT !.hcrc = "bad"],
     [m EXCEPT !.stream = FALSE], [m EXCEPT !.crc = FALSE], [m EXCEPT !.isize = @ + 1],
     [m EXCEPT !.out = 60], [m EXCEPT !.out = 43]}
    \cup {[m EXCEPT !.extra = x] : x \in {Field(9, <<Sub(1, 0), Sub(1, 1)>>), Field(5, <<Sub(0, 1)>>),
                                         Field(4, <<Sub(1, 1)>>), Field(7, <<Sub(1, 0)>>)}}

GzipEnd(x) ==
    LET m == Last(x.members)
        Extent(k) == parse_header_at(x.members[k], 0, 0, 0).len + x.members[k].comp + TRAILER_LEN
    IN  SumOf([k \in DOMAIN x.members |-> IF CLen(x.members[k].name) = MaxU64
                                             \/ CLen(x.members[k].comment) = MaxU64
                                          THEN 40 ELSE Extent(k)])

GzipImages(out) ==
    LET one == GzipGood(out) \cup GzipFlawed(FullMember(5, out))
        second == {GzipMember(2, 1)} \cup GzipFlawed(GzipMember(2, 1))
    IN  Cuts({[members |-> <<m>>] : m \in one}, GzipEnd)
        \cup Cuts({[members |-> <<GzipMember(5, out), n>>] : n \in second}, GzipEnd)

(****************************************************************************)
(* Zstandard                                                                *)
(****************************************************************************)
Frame(out) ==
    [magic |-> "frame", bits |-> {}, single |-> FALSE, checksum |-> TRUE, fcs_flag |-> 0,
     window |-> 0, fcs |-> 0, agrees |-> TRUE, stream |-> TRUE, comp |-> 5, out |-> out,
     sum |-> TRUE, next |-> "other"]

ZstdGood(out) ==
    {[Frame(out) EXCEPT !.single = s, !.checksum = c, !.fcs_flag = k,
                        !.fcs = out - (IF k = 1 THEN FCS_BIAS ELSE 0), !.window = w]
        : s \in BOOLEAN, c \in BOOLEAN, k \in 0..3, w \in {0, 9}}

ZstdFlawed(f) ==
    {[f EXCEPT !.magic = "skippable"], [f EXCEPT !.magic = "other"], [f EXCEPT !.agrees = FALSE],
     [f EXCEPT !.stream = FALSE], [f EXCEPT !.sum = FALSE], [f EXCEPT !.fcs = @ + 1],
     [f EXCEPT !.out = 60], [f EXCEPT !.window = 24], [f EXCEPT !.window = 25],
     [f EXCEPT !.next = "frame"], [f EXCEPT !.next = "skippable"]}
    \cup {[f EXCEPT !.bits = {b}] : b \in {"reserved", "unused", "dictionary"}}
    \cup {[f EXCEPT !.single = TRUE, !.fcs = n, !.out = n] : n \in {64, 65}}

ZstdEnd(f) == FrameHeaderLen(f) + f.comp + ZstdTrailerLen(f)

ZstdImages(out) ==
    Cuts(ZstdGood(out) \cup ZstdFlawed([Frame(out) EXCEPT !.fcs_flag = 2, !.fcs = out]), ZstdEnd)

(****************************************************************************)
(* xz                                                                       *)
(****************************************************************************)
XzBlock(comp, out) ==
    [hlen |-> 12, crc |-> TRUE, reserved |-> FALSE, filters |-> 1, declared |-> << >>,
     filter |-> "lzma2", props |-> 1, dict |-> 0, hpad |-> TRUE, comp |-> comp, pad |-> TRUE,
     sum |-> TRUE, out |-> out]

XzRecord(b, check) == [unpadded |-> b.hlen + b.comp + check_len(check), out |-> b.out]

XzIndex(blocks, check) ==
    [indicator |-> TRUE, records |-> [i \in DOMAIN blocks |-> XzRecord(blocks[i], check)],
     pad |-> TRUE, crc |-> TRUE, backward |-> NextMultipleOf4(2 + 2 * Len(blocks)) + 4]

XzStreamOf(blocks, check) ==
    [magic |-> TRUE, reserved |-> FALSE, hcrc |-> TRUE, check |-> check, codec |-> OK,
     out |-> SumOf([i \in DOMAIN blocks |-> blocks[i].out]), totals |-> TRUE, blocks |-> blocks,
     index |-> XzIndex(blocks, check), footer |-> {}, next |-> "other"]

XzGood(out) ==
    LET whole == {XzBlock(c, out) : c \in {4, 5}}
        declared == {[b EXCEPT !.declared = <<b.comp, b.out>>] : b \in whole}
    IN  {XzStreamOf(<<b>>, "crc32") : b \in whole \cup declared}
        \cup {XzStreamOf(<<XzBlock(5, out)>>, "crc64"),
              XzStreamOf(<<XzBlock(5, out - 4), XzBlock(4, 4)>>, "crc32")}

XzBlockFlawed(b) ==
    {[b EXCEPT !.crc = FALSE], [b EXCEPT !.reserved = TRUE], [b EXCEPT !.filters = 2],
     [b EXCEPT !.declared = <<b.comp>>], [b EXCEPT !.declared = <<b.comp + 1, b.out>>],
     [b EXCEPT !.filter = "bcj"], [b EXCEPT !.props = 2], [b EXCEPT !.dict = 2],
     [b EXCEPT !.dict = 3], [b EXCEPT !.hpad = FALSE], [b EXCEPT !.pad = FALSE],
     [b EXCEPT !.sum = FALSE]}

XzFlawed(x) ==
    {[x EXCEPT !.magic = FALSE], [x EXCEPT !.reserved = TRUE], [x EXCEPT !.hcrc = FALSE],
     [x EXCEPT !.check = "none"], [x EXCEPT !.out = 60], [x EXCEPT !.totals = FALSE],
     [x EXCEPT !.out = @ + 4], [x EXCEPT !.footer = {"flags"}], [x EXCEPT !.next = "magic"],
     [x EXCEPT !.next = "zeros"], [x EXCEPT !.index.indicator = FALSE],
     [x EXCEPT !.index.pad = FALSE], [x EXCEPT !.index.crc = FALSE],
     [x EXCEPT !.index.backward = @ + 4], [x EXCEPT !.index.records[1].unpadded = @ + 1],
     [x EXCEPT !.index.records[1].out = @ + 1],
     [x EXCEPT !.index.records[1].out = @ + 1, !.index.records[2].out = @ - 1],
     [x EXCEPT !.blocks = << >>, !.index.records = << >>, !.out = 0],
     XzStreamOf(x.blocks \o <<XzBlock(4, 1)>>, x.check)}
    \cup {[x EXCEPT !.codec = k] : k \in {"data", "memory", "check", "filter", "mismatch", "end"}}
    \cup {[x EXCEPT !.blocks[2] = b] : b \in XzBlockFlawed(x.blocks[2])}

XzImages(out) ==
    Cuts(XzGood(out) \cup XzFlawed(XzStreamOf(<<XzBlock(5, out - 4), XzBlock(4, 4)>>, "crc32")), XzEnd)

(****************************************************************************)
(* bzip2                                                                    *)
(****************************************************************************)
Bzip2Block(bits, crc) == [bits |-> bits, rnd |-> FALSE, crc |-> crc, sum |-> TRUE]

Bzip2Of(blocks, out) ==
    [magic |-> TRUE, version |-> "h", level |-> 9, first |-> TRUE, blocks |-> blocks,
     chance |-> {}, shifts |-> {}, pad0 |-> TRUE, combined |-> [i \in DOMAIN blocks |-> blocks[i].crc],
     codec |-> OK, out |-> out, totals |-> TRUE, next |-> "other"]

Bzip2Good(out) ==
    {Bzip2Of(<<Bzip2Block(bits, "c1")>>, out) : bits \in 16..24}
    \cup {Bzip2Of(<<Bzip2Block(21, "c1"), Bzip2Block(60, "c2")>>, out)}

Bzip2Flawed(x) ==
    {[x EXCEPT !.magic = FALSE], [x EXCEPT !.version = "0"], [x EXCEPT !.version = "x"],
     [x EXCEPT !.level = 0], [x EXCEPT !.first = FALSE], [x EXCEPT !.shifts = {1}],
     [x EXCEPT !.pad0 = FALSE], [x EXCEPT !.combined = <<"c1">>], [x EXCEPT !.combined = <<"c2", "c1">>],
     [x EXCEPT !.codec = "Data"], [x EXCEPT !.codec = "DataMagic"], [x EXCEPT !.out = 60],
     [x EXCEPT !.totals = FALSE],
     [x EXCEPT !.next = "magic"], [x EXCEPT !.blocks[1].rnd = TRUE], [x EXCEPT !.blocks[2].rnd = TRUE],
     [x EXCEPT !.blocks[2].crc = "other"], [x EXCEPT !.blocks = << >>],
     [x EXCEPT !.blocks = Front(@), !.combined = Front(@), !.blocks[1].sum = FALSE],
     [x EXCEPT !.chance = {BlockBitAt(x, 2) + BLOCK_FRAME_BITS}],
     [x EXCEPT !.blocks = <<x.blocks[2]>>, !.combined = <<"c2">>, !.chance = {32 + BLOCK_FRAME_BITS}],
     Bzip2Of(x.blocks \o <<Bzip2Block(8, "c3")>>, x.out)}

Bzip2Images(out) ==
    Cuts(Bzip2Good(out) \cup Bzip2Flawed(Bzip2Of(<<Bzip2Block(21, "c1"), Bzip2Block(60, "c2")>>, out)),
         Bzip2End)

(****************************************************************************)
(* 7z: a file of its own pack stream, files sharing a folder, an empty file *)
(* and a directory.                                                         *)
(****************************************************************************)
NoValue == [exact |-> TRUE, external |-> FALSE, names |-> << >>, bits |-> << >>, words |-> << >>]
Names(v) == [NoValue EXCEPT !.names = v] @@ [id |-> "name"]
Bits(id, v) == [NoValue EXCEPT !.bits = v] @@ [id |-> id]
Words(id, v) == [NoValue EXCEPT !.words = v] @@ [id |-> id]
Coder(unpack, crc) == [coders |-> 1, flags |-> {}, copy |-> TRUE, unpack |-> unpack, crc |-> crc]

SevenZOf(names, sizes, folders, subs, records) ==
    [sig |-> TRUE, major |-> 0, minor |-> 4, start |-> TRUE, offset |-> SumOf(sizes), size |-> 20,
     crc |-> TRUE, first |-> "header",
     props |-> IF folders = << >> THEN <<"files">> ELSE <<"streams", "files">>, rest |-> FALSE,
     pack |-> [pos |-> 0, n |-> Len(sizes), sizes |-> sizes, crcs |-> [i \in DOMAIN sizes |-> "none"]],
     folders |-> folders, subs |-> subs,
     files |-> [count |-> Len(names), room |-> 10, records |-> <<Names(names)>> \o records]]

Shared(counts, sizes, digests) == <<[counts |-> counts, sizes |-> sizes, digests |-> digests]>>

Solid ==
    SevenZOf(<< <<"a">>, <<"b">>, <<"c">>, <<"d">>, <<"e">> >>, <<1, 3>>,
             <<Coder(1, "good"), Coder(3, "good")>>,
             Shared(<< <<1, 2>> >>, << << << >>, <<1>> >> >>, << <<"good", "none">> >>),
             <<Bits("emptyStream", <<FALSE, TRUE, FALSE, TRUE, FALSE>>),
               Bits("emptyFile", <<TRUE, FALSE>>),
               Words("attributes", <<"file", "file", "none", "dir", "file">>),
               Words("mtime", <<"none", "t", "none", "t", "none">>)>>)

SevenZGood ==
    {Solid, SevenZOf(<< <<"a">> >>, <<2>>, <<Coder(2, "none")>>, << >>, << >>),
     SevenZOf(<< <<"a">>, <<"d", "">> >>, << >>, << >>, << >>,
              <<Bits("emptyStream", <<TRUE, TRUE>>), Bits("emptyFile", <<TRUE, FALSE>>)>>),
     SevenZOf(<< <<"a">>, <<"A">> >>, <<1, 1>>, <<Coder(1, "good"), Coder(1, "none")>>, << >>, << >>),
     [Solid EXCEPT !.subs[1].digests = << >>], [Solid EXCEPT !.props = <<"files", "streams">>],
     [Solid EXCEPT !.pack.crcs[1] = "good"], [Solid EXCEPT !.folders[1].crc = "none",
                                             !.subs[1].digests = << <<"bad", "good", "good">> >>]}

SevenZFlawed(z) ==
    {[z EXCEPT !.sig = FALSE], [z EXCEPT !.major = 1], [z EXCEPT !.minor = 3], [z EXCEPT !.start = FALSE],
     [z EXCEPT !.offset = @ + 1], [z EXCEPT !.size = 0], [z EXCEPT !.size = 60], [z EXCEPT !.crc = FALSE],
     [z EXCEPT !.first = "encoded"], [z EXCEPT !.first = "other"], [z EXCEPT !.rest = TRUE],
     [z EXCEPT !.props = <<"files">>], [z EXCEPT !.props = <<"streams">>],
     [z EXCEPT !.props = Append(@, "files")], [z EXCEPT !.props = <<"archive">> \o @],
     [z EXCEPT !.pack.pos = 1], [z EXCEPT !.pack.n = 3], [z EXCEPT !.pack.crcs[2] = "bad"],
     [z EXCEPT !.folders[2].coders = 2], [z EXCEPT !.folders[2].copy = FALSE],
     [z EXCEPT !.folders[2].unpack = 4], [z EXCEPT !.folders[2].unpack = 1],
     [z EXCEPT !.folders[2].unpack = 0], [z EXCEPT !.folders[2].crc = "bad"],
     [z EXCEPT !.subs[1].counts = << <<1, 0>> >>], [z EXCEPT !.subs[1].sizes = << >>],
     [z EXCEPT !.subs[1].digests = << <<"bad", "good">> >>], [z EXCEPT !.subs = << >>],
     [z EXCEPT !.files.count = 6], [z EXCEPT !.files.room = 4], [z EXCEPT !.files.records = Tail(@)]}
    \cup {[z EXCEPT !.folders[2].flags = {f}] : f \in {"reserved", "complex", "attributes"}}
    \cup {[z EXCEPT !.files.records[k].exact = FALSE] : k \in {1, 3}}
    \cup {[z EXCEPT !.files.records[k].external = TRUE] : k \in {1, 4, 5}}
    \cup {[z EXCEPT !.files.records = Append(@, r)]
            : r \in {Bits("dummy", <<FALSE>>), Bits("dummy", <<TRUE>>), Bits("anti", << >>),
                     Words("ctime", << >>), Names(<< >>), Bits("emptyStream", <<TRUE, TRUE, TRUE, TRUE, TRUE>>)}}
    \cup {[z EXCEPT !.files.records[1].names[1] = n] : n \in {<<"">>, <<"notutf16">>, <<"..">>, <<"B">>,
                                                         <<"d", "x">>, <<"e", "x">>}}
    \cup {[z EXCEPT !.files.records[1].names = Front(@)],
          [z EXCEPT !.files.records[2].bits[1] = TRUE, !.files.records[3].bits = <<TRUE, TRUE, FALSE>>],
          [z EXCEPT !.files.records[2] = z.files.records[3]],
          [z EXCEPT !.files.records[4].words[1] = "dir"], [z EXCEPT !.files.records[4].words[4] = "file"]}

SevenZEnd(z) == HeaderStart(z) + z.size
SevenZImages == Cuts(SevenZGood \cup SevenZFlawed(Solid), SevenZEnd)

================================================================================
