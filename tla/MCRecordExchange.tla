---------------------------- MODULE MCRecordExchange ----------------------------
(****************************************************************************)
(* Whole small archives, built from one description per member: good ones   *)
(* under every profile, ones whose payload is not what it declares, and     *)
(* ones that are denied or refused before there is a plan.                  *)
(****************************************************************************)
EXTENDS RecordExchange

Budget == [max_files |-> 3, max_metadata |-> 80, max_depth |-> 2, max_member |-> 5, max_total |-> 8,
           max_ratio |-> <<2>>, max_archive |-> 150]

\* A stored file of n bytes; its payload comes in one read.
File(name, n, sha) ==
    [name |-> name, method |-> 0, comp |-> n, uncomp |-> n, crc |-> IF n = 0 THEN 0 ELSE 1, flags |-> {},
     attrs |-> IF IsDirName(name) THEN "unixdir" ELSE "regular", lextra |-> <<>>, cextra |-> <<>>,
     lflags |-> {}, sig |-> TRUE, signed |-> FALSE, zeroed |-> FALSE,
     payload |-> [chunks |-> IF n = 0 THEN <<>> ELSE <<n>>, fault |-> "none", consumed |-> n,
                  crc |-> IF n = 0 THEN 0 ELSE 1, sha |-> IF n = 0 THEN "empty" ELSE sha]]

Dir(name) == File(name, 0, "empty")

Deflated(name, comp, n, sha) ==
    [File(name, n, sha) EXCEPT !.method = 8, !.comp = comp, !.payload.consumed = comp,
                               !.payload.chunks = <<1, n - 1>>]

\* With a data descriptor, the local fields zero or not.
Streamed(f, signed, zeroed) ==
    [f EXCEPT !.flags = @ \cup {"desc"}, !.lflags = @ \cup {"desc"}, !.signed = signed,
              !.zeroed = zeroed]

WithFlags(f, flags) == [f EXCEPT !.flags = flags, !.lflags = flags]

LocalOf(f) ==
    [sig |-> f.sig, version |-> 20, flags |-> f.lflags, method |-> f.method,
     crc |-> IF f.zeroed THEN 0 ELSE f.crc, comp |-> IF f.zeroed THEN 0 ELSE f.comp,
     uncomp |-> IF f.zeroed THEN 0 ELSE f.uncomp, name |-> f.name, extra |-> f.lextra]

RecordLen(f) ==
    DataOffset(LocalOf(f), 0) + f.comp
    + (IF "desc" \in f.flags THEN IF f.signed THEN 4 ELSE 3 ELSE 0)

OffsetOf(files, i) == FoldLeft(LAMBDA n, f : n + RecordLen(f), 0, SubSeq(files, 1, i - 1))

WindowOf(files, i) ==
    LET f == files[i]
    IN  [cdh |-> [sig |-> TRUE, version |-> 20, flags |-> f.flags, method |-> f.method, attrs |-> f.attrs,
                  crc |-> f.crc, comp |-> f.comp, uncomp |-> f.uncomp, name |-> f.name,
                  extra |-> f.cextra, comment_len |-> 0, comment |-> {}, disk_start |-> 0,
                  lfh_offset |-> OffsetOf(files, i)],
         lfh |-> LocalOf(f), stream |-> FALSE,
         desc |-> [signed |-> f.signed, width |-> IF "desc" \in f.flags THEN "Zip32" ELSE "none",
                   crc |-> f.crc, comp |-> f.comp, uncomp |-> f.uncomp]]

EndOf(n, cdOff, cdSize) ==
    [ends |-> <<[off |-> cdOff + cdSize, comment_len |-> 0, comment |-> {},
                 eocd |-> [this_disk |-> 0, cd_disk |-> 0, entries_on_disk |-> n, total_entries |-> n,
                           cd_size |-> cdSize, cd_offset |-> cdOff],
                 locator |-> <<>>,
                 record |-> [sig |-> FALSE, extensible |-> FALSE, version |-> 0, disk |-> 0,
                             entries_on_disk |-> 0, total_entries |-> 0, cd_size |-> 0,
                             cd_offset |-> 0]]>>]

Keep(paths, member, total) == <<[paths |-> paths, max_member |-> member, max_total |-> total]>>

Archive(profile, files, effect, retention) ==
    LET ws == [i \in DOMAIN files |-> WindowOf(files, i)]
        cdOff == OffsetOf(files, Len(files) + 1)
        cdSize == FoldLeft(LAMBDA n, w : n + CdhLen(w.cdh), 0, ws)
        at == [i \in DOMAIN files |-> DataOffset(ws[i].lfh, ws[i].cdh.lfh_offset)]
    IN  [profile |-> profile, len |-> cdOff + cdSize + EOCD_MIN, sha |-> 0, magic |-> "lfh", budget |-> Budget,
         end |-> EndOf(Len(files), cdOff, cdSize), members |-> ws,
         payloads |-> [o \in Range(at) |-> files[CHOOSE i \in DOMAIN files : at[i] = o].payload],
         effect |-> effect, retention |-> retention]

Ux == [id |-> "ux", size |-> 2, values |-> <<>>]
Ut == [id |-> "ut", size |-> 1, values |-> <<>>]

A == File(<<"a">>, 2, "alpha")
B == Deflated(<<"d", "b">>, 2, 4, "beta")
Full == Deflated(<<"b">>, 3, 5, "beta")
Loose == <<[A EXCEPT !.lextra = <<Ux>>, !.cextra = <<Ux, Ut>>], Dir(<<"d", "">>), Streamed(B, TRUE, TRUE)>>
Closed == <<A, Dir(<<"d", "">>), Streamed(B, FALSE, FALSE)>>
Dotted == <<File(<<".", "a">>, 2, "alpha"), Streamed(File(<<"b">>, 3, "gamma"), TRUE, FALSE)>>
Unicode == <<WithFlags(File(<<"uni">>, 2, "alpha"), {"utf8"}), B>>

Good ==
    <<Archive("StrictAsciiV1", Loose, Inspect, Keep(<< <<"d", "b">>, <<"a">> >>, 4, 5)),
      Archive("StrictAsciiV1", Loose, Materialize, Keep(<< <<"a">>, <<"d">>, <<"a">>, <<"m">> >>, 4, 6)),
      Archive("StrictAsciiV2", Closed, Materialize, Keep(<< <<"..">>, <<"d", "b">>, <<"a">> >>, 4, 6)),
      Archive("StrictAsciiV2", Closed, Inspect, Keep(<< <<"a">> >>, 9, 9)),
      Archive("StrictAsciiV1", Dotted, Inspect, Keep(<< <<"a">>, <<"b">> >>, 2, 6)),
      Archive("PortableUtf8V1", Unicode, Inspect, Keep(<< <<"uni">> >>, 4, 4)),
      Archive("WheelUtf8V1", <<A, Full>>, Inspect, <<>>),
      Archive("StrictAsciiV1", <<>>, Inspect, <<>>),
      [Archive("StrictAsciiV1", <<A>>, Inspect, <<>>) EXCEPT !.profile = Zip64Profile]>>

\* The second of three members does not hold what it declares.
WrongPayloads ==
    <<[Full EXCEPT !.payload.chunks = <<5, 1>>], [Full EXCEPT !.payload.chunks = <<4>>],
      [Full EXCEPT !.payload.fault = "invalid"], [Full EXCEPT !.payload.consumed = 2],
      [Full EXCEPT !.payload.crc = 2], [Full EXCEPT !.payload.chunks = <<9>>, !.payload.fault = "invalid"],
      [File(<<"b">>, 2, "beta") EXCEPT !.payload.crc = 2]>>

Wrong ==
    [i \in DOMAIN WrongPayloads |->
        Archive("StrictAsciiV2", <<A, WrongPayloads[i], File(<<"c">>, 1, "gamma")>>,
                IF i % 2 = 0 THEN Inspect ELSE Materialize, Keep(<< <<"a">>, <<"b">> >>, 5, 8))]

NotPlanned ==
    [i \in 1..11 |->
        Archive("StrictAsciiV2",
                << <<A, A>>, <<File(<<"..">>, 1, "x")>>, <<File(<<"a">>, 6, "x")>>,
                   <<Deflated(<<"a">>, 1, 3, "x"), A>>, <<A, File(<<"b">>, 5, "x"), File(<<"c">>, 2, "x")>>,
                   <<WithFlags(A, {"crypt"})>>, <<[A EXCEPT !.method = 12]>>, <<[A EXCEPT !.sig = FALSE]>>,
                   <<[A EXCEPT !.lflags = {"utf8"}]>>, <<A, A, A, A>>,
                   <<[A EXCEPT !.lextra = <<Ux>>]>> >>[i],
                Inspect, <<>>)]
    \o <<[Archive("StrictAsciiV1", <<A>>, Inspect, <<>>) EXCEPT !.magic = "other"],
         [Archive("StrictAsciiV1", Loose, Inspect, <<>>) EXCEPT !.budget.max_metadata = 20],
         [Archive("StrictAsciiV1", <<A>>, Inspect, <<>>) EXCEPT !.end.ends[1].eocd.total_entries = U16Max,
                                                            !.end.ends[1].eocd.entries_on_disk = U16Max],
         Archive("PortableUtf8V1", <<File(<<"uni">>, 1, "x")>>, Inspect, <<>>)>>

\* No two sources have the same digest.
Numbered(jobs) == {[jobs[i] EXCEPT !.sha = i] : i \in DOMAIN jobs}
MCJobs == Numbered(Good \o Wrong \o NotPlanned)

MCAsks == {[path |-> p, max |-> n, kind |-> k]
             : p \in {<<"a">>, <<"d", "b">>, <<"b">>, <<"d">>, <<"m">>}, n \in {0, 1, 3, 5}, k \in ReadKinds}

MCPathOrder == <<"", ".", "..", "a", "b", "c", "d", "m", "uni", "z">>

================================================================================
