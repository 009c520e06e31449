--------------------------------- MODULE MCWheel ---------------------------------
(****************************************************************************)
(* Small wheels of one distribution: a complete one, that one with up to    *)
(* two payload members in either order, and that one with one thing changed *)
(* in its name, its metadata, its RECORD or its entry points.               *)
(****************************************************************************)
EXTENDS Wheel

Limits == [max_wheel_bytes |-> 2, max_metadata_bytes |-> 2, max_record_bytes |-> 3,
           max_entry_points_bytes |-> 2, max_semantic_bytes |-> 5, max_plan_inspection_bytes |-> 4,
           max_header_lines |-> 5, max_record_rows |-> 6, max_record_row_bytes |-> 7,
           max_expanded_tags |-> 2]

\* Release 1.0 and other ways to write a version.
Num(zeros, n) == [zeros |-> zeros, n |-> n]
Version(form, release) == [form |-> form, epoch |-> <<>>, release |-> release, tail |-> ""]
V10 == Version("canonical", <<Num(0, 1), Num(0, 0)>>)
Canonical10 == [epoch |-> 0, release |-> <<1, 0>>, tail |-> ""]

RootNames ==
    LET Root(suffix, dashed, name, version) ==
            [suffix |-> suffix, dashed |-> dashed, distribution |-> name, version |-> version]
    IN  [D |-> Root(".dist-info", TRUE, <<"demo">>, Canonical10),
         E |-> Root(".dist-info", TRUE, <<"other">>, Canonical10),
         F |-> Root(".dist-info", FALSE, <<>>, Canonical10),
         T |-> Root(".data", TRUE, <<"demo">>, Canonical10),
         U |-> Root(".data", TRUE, <<"demo">>, [Canonical10 EXCEPT !.release = <<1>>])]

\* The paths that occur, under the token RECORD spells them with.
Paths == [dW |-> <<"D", "WHEEL">>, dM |-> <<"D", "METADATA">>, dR |-> <<"D", "RECORD">>,
          dE |-> <<"D", "entry_points.txt">>, dJ |-> <<"D", "RECORD.jws">>,
          a |-> <<"a">>, ab |-> <<"a", "b">>, aJ |-> <<"a", "RECORD.jws">>, sharp |-> <<"sharp">>,
          py |-> <<"a", "__pycache__", "b">>, e |-> <<"E", "a">>, u |-> <<"U", "purelib", "b">>,
          t |-> <<"T", "a">>, tx |-> <<"T", "x", "a">>, tpA |-> <<"T", "purelib", "A">>,
          tpab |-> <<"T", "purelib", "a", "b">>, tpss |-> <<"T", "purelib", "ss", "b">>,
          tla |-> <<"T", "platlib", "a">>, tsa |-> <<"T", "scripts", "a">>,
          tsb |-> <<"T", "scripts", "b">>, tsab |-> <<"T", "scripts", "a", "b">>,
          tha |-> <<"T", "headers", "a">>, tda |-> <<"T", "data", "a">>,
          up |-> <<"..", "a">>, abs |-> <<"", "a">>, ghost |-> <<"ghost">>]

ComponentOrder ==
    <<"", "..", "A", "D", "E", "F", "METADATA", "RECORD", "RECORD.jws", "T", "U", "WHEEL",
      "__pycache__", "a", "b", "c", "data", "entry_points.txt", "ghost", "headers", "platlib", "purelib",
      "scripts", "ss", "unspelled", "x", "sharp">>

DecimalTokens == [zero |-> 0, one |-> 1, two |-> 2, nine |-> 9]

File(tok) == [path |-> Paths[tok], kind |-> "File", sha |-> tok, shebang |-> FALSE, exec |-> FALSE,
              size |-> 1]
Directory(path) == [path |-> path, kind |-> "Directory", sha |-> "", shebang |-> FALSE, exec |-> FALSE,
                    size |-> 0]

Base == <<File("dW"), File("dM"), File("dR")>>

\* tsb is a long executable script for a launcher, tsa a short one without.
PayloadMembers ==
    {File(tok) : tok \in {"a", "ab", "aJ", "dJ", "sharp", "py", "e", "u", "t", "tx", "tpA", "tpab", "tpss",
                          "tla", "tsa", "tsab", "tha", "tda"}}
    \cup {[File("tsb") EXCEPT !.size = 9, !.shebang = TRUE, !.exec = TRUE]}
    \cup {Directory(p) : p \in {<<"T", "scripts">>, <<"T", "scripts", "a">>, <<"T", "x">>, <<"T">>}}

\* What ZIP planning admits: one tree, also with case folded.
VerifiedTree(members) ==
    \A i, j \in DOMAIN members :
        i # j => /\ Fold(members[i].path) # Fold(members[j].path)
                 /\ members[i].kind = "File" =>
                        Fold(members[i].path) \notin path_ancestors(Fold(members[j].path))

SizeToken(n) == CHOOSE t \in DOMAIN DecimalTokens : DecimalTokens[t] = n
Row(m) == IF m.sha = "dR" THEN <<"dR", "c", "c", "n">>
          ELSE <<m.sha, "c", "sha256=", m.sha, "c", SizeToken(m.size), "n">>
RowsOf(members) ==
    LET listed == SelectSeq(members, LAMBDA m : m.kind = "File" /\ m.sha # "dJ")
    IN  [i \in DOMAIN listed |-> Row(listed[i])]

\* A header value, as a string, a tag triple, a name or a version.
Blank == [str |-> "", tags |-> <<>>, name |-> <<>>, version |-> V10]
Str(x) == [Blank EXCEPT !.str = x]
Tags(x) == [Blank EXCEPT !.tags = x]
Named(x) == [Blank EXCEPT !.name = x]
Versioned(x) == [Blank EXCEPT !.version = x]

Field(name, value) == [kind |-> "field", name |-> name, value |-> value]
Line(kind) == [kind |-> kind, name |-> "other", value |-> Blank]
Text(lines) == [size |-> 1, fault |-> "none", lines |-> lines]

PyAny == << <<"py3">>, <<"none">>, <<"any">> >>
WheelLines == <<Field("wheel-version", Str("1.0")), Field("root-is-purelib", Str("true")),
                Field("Tag", Tags(PyAny))>>
MetadataLines == <<Field("metadata-version", Str("2.4")), Field("Name", Named(<<"Demo">>)),
                   Field("version", Versioned(V10))>>

Filename == [unsafe |-> FALSE, whl |-> TRUE, fields |-> 5, distribution |-> <<"demo">>,
             version |-> V10, build |-> <<>>, tags |-> PyAny]

\* A wheel of these members, with a RECORD that accounts for them.
WheelOf(members) ==
    [container |-> TRUE, filename |-> Filename, members |-> members,
     files |-> [WHEEL |-> Text(WheelLines), METADATA |-> Text(MetadataLines),
                RECORD |-> [raw |-> FlattenSeq(RowsOf(members))], ENTRY |-> Text(<<>>)]]

Plain1 == WheelOf(Base \o <<File("a")>>)

\* Two payload members anywhere, around the semantic ones.
WithPayload ==
    {w \in {WheelOf(<<x>> \o Base \o <<y>>) : x, y \in PayloadMembers} : VerifiedTree(w.members)}

(****************************************************************************)
(* One thing changed.                                                       *)
(****************************************************************************)
Renamed(f, v) == [Plain1 EXCEPT !.filename[f] = v]
Names ==
    {Renamed("unsafe", TRUE), Renamed("whl", FALSE), Renamed("fields", 4),
     Renamed("distribution", <<"badchar">>), Renamed("distribution", <<"_", "demo">>),
     Renamed("distribution", <<"demo", "_", ".", "a">>), Renamed("build", <<"badtag">>),
     Renamed("tags", << <<"py2", "py3">>, <<"none">>, <<"any">> >>),
     Renamed("tags", << <<"py2", "py3">>, <<"none", "abi3">>, <<"any">> >>),
     Renamed("tags", << <<"py3", "">>, <<"none">>, <<"any">> >>),
     Renamed("tags", << <<"py3", "py3">>, <<"none">>, <<"any">> >>),
     Renamed("version", Version("canonical", <<Num(1, 1), Num(2, 0)>>)),
     Renamed("version", Version("canonical", <<Num(0, 1)>>)),
     Renamed("version", [V10 EXCEPT !.epoch = <<Num(0, 0)>>]),
     Renamed("version", [V10 EXCEPT !.epoch = <<Num(0, 1)>>]),
     Renamed("version", [V10 EXCEPT !.tail = "RC1"]),
     Renamed("version", Version("badchar", <<>>)), Renamed("version", Version("legacy", <<>>)),
     Renamed("version", Version("garbage", <<>>)),
     [Renamed("fields", 6) EXCEPT !.filename.build = <<"1">>],
     [[Renamed("fields", 6) EXCEPT !.filename.build = <<"1">>]
         EXCEPT !.files.WHEEL = Text(WheelLines \o <<Field("build", Str("1"))>>)],
     [Plain1 EXCEPT !.container = FALSE]}

Changes(lines) ==
    {SubSeq(lines, 1, k - 1) \o x \o SubSeq(lines, k, Len(lines)) : k \in 1..(Len(lines) + 1),
        x \in {<<Line("blank")>>, <<Line("continuation")>>, <<Line("nocolon")>>, <<Line("badname")>>,
               <<Line("barecr")>>, <<Line("long")>>, <<Line("field"), Line("field")>>,
               <<Line("field"), Line("field"), Line("field")>>}}
    \cup {SubSeq(lines, 1, k - 1) \o SubSeq(lines, k + 1, Len(lines)) : k \in 1..Len(lines)}
    \cup {lines \o <<lines[k]>> : k \in 1..Len(lines)}

ValuesChanged(lines, values) ==
    {[lines EXCEPT ![c[1]].value = c[2]] : c \in values}

HeaderTexts(lines, values) ==
    {Text(l) : l \in Changes(lines) \cup ValuesChanged(lines, values)}
    \cup {[Text(lines) EXCEPT !.fault = "nul"], [Text(lines) EXCEPT !.fault = "utf8"]}

Headers ==
    {[Plain1 EXCEPT !.files.WHEEL = t] : t \in HeaderTexts(WheelLines,
        {<<1, Str("1.9")>>, <<1, Str("x")>>, <<2, Str("false")>>, <<2, Str("yes")>>,
         <<3, Tags(<< <<"py3">> >>)>>, <<3, Tags(<< <<"py3", "py3">>, <<"none">>, <<"any">> >>)>>,
         <<3, Tags(<< <<"py3">>, <<"none">>, <<"any", "win">> >>)>>})}
    \cup {[Plain1 EXCEPT !.files.WHEEL = Text(WheelLines \o x)] : x \in
            {<<Field("TAG", Tags(<< <<"py2">>, <<"none">>, <<"any">> >>))>>, <<Field("build", Str("1"))>>,
             <<Field("generator", Str("g")), Field("generator", Str("g"))>>,
             <<Field("build", Str("1")), Field("build", Str("1"))>>}}
    \cup {[Plain1 EXCEPT !.files.METADATA = t] : t \in HeaderTexts(MetadataLines,
        {<<1, Str("1.0")>>, <<2, Named(<<"other">>)>>, <<2, Named(<<"demo", "-">>)>>,
         <<3, Versioned(Version("legacy", <<>>))>>, <<3, Versioned(Version("garbage", <<>>))>>,
         <<3, Versioned(Version("canonical", <<Num(0, 1)>>))>>})}

\* RECORD with one row left out, repeated or written differently, and one more.
Rows == RowsOf(Plain1.members)
WithRows(rows) == [Plain1 EXCEPT !.files.RECORD.raw = FlattenSeq(rows)]
Records ==
    {WithRows(SubSeq(Rows, 1, k - 1) \o SubSeq(Rows, k + 1, 4)) : k \in 1..4}
    \cup {WithRows(Rows \o <<Rows[k]>>) : k \in 1..4}
    \cup {WithRows(Rows \o << <<x, "c", "sha256=", x, "c", "one", "n">> >>) : x \in {"up", "abs", "ghost"}}
    \cup {WithRows([Rows EXCEPT ![4] = <<"a", "c">> \o h \o <<"c">> \o n \o <<"n">>]) :
             h \in {<<>>, <<"sha256=", "a">>, <<"sha256=", "dW">>, <<"sha256=", "a", "=">>,
                    <<"sha256=", "not64">>, <<"md5=", "a">>, <<"sha512=", "a">>, <<"blake=", "a">>},
             n \in {<<>>, <<"one">>, <<"two">>, <<"padded">>, <<"huge">>}}
    \cup {WithRows([Rows EXCEPT ![3] = <<"dR", "c", "sha256=", "dR", "c", "one", "n">>]),
          WithRows([Rows EXCEPT ![3] = <<"dR", "c", "c", "one", "n">>]),
          WithRows([Rows EXCEPT ![4] = SubSeq(Rows[4], 1, 6)]),
          WithRows([Rows EXCEPT ![4] = SubSeq(Rows[4], 1, 6) \o <<"r", "n">>]),
          WithRows([Rows EXCEPT ![3] = <<"q", "dR", "q", "c", "c", "r", "n">>]),
          WithRows([Rows EXCEPT ![3] = <<"dR", "bad", "c", "c", "n">>]),
          WithRows([Rows EXCEPT ![3] = <<"q", "dR", "c", "c", "n">>]),
          WithRows(<< <<"n">> >> \o Rows), WithRows(Rows \o Rows)}
    \cup {[w EXCEPT !.files.RECORD.raw = @ \o <<"dJ", "c", "sha256=", "dJ", "c", "one", "n">>] :
             w \in {WheelOf(Base \o <<File("dJ")>>)}}
    \cup {[WheelOf(Base \o <<File("aJ")>>) EXCEPT !.files.RECORD.raw = FlattenSeq(RowsOf(Base))]}

\* Semantic members missing, of the wrong kind or too large.
Selections ==
    {WheelOf(SubSeq(Base, 1, k - 1) \o SubSeq(Base, k + 1, 3)) : k \in 1..3}
    \cup {WheelOf([Base EXCEPT ![k] = Directory(@.path)]) : k \in 1..3}
    \cup {WheelOf([Base EXCEPT ![k].size = n]) : k \in 1..3, n \in {2, 9}}
    \cup {WheelOf([Base EXCEPT ![1].size = 2, ![2].size = 2, ![3].size = n]) : n \in {1, 2}}
    \cup {WheelOf(<<File("a")>>), WheelOf(<<[File("a") EXCEPT !.path = <<"F", "a">>]>>)}

Good == [reference |-> "module:attribute", extras |-> <<>>]
Point(name, object) == [kind |-> "point", group |-> "", name |-> name, object |-> object]
Group(g) == [kind |-> "group", group |-> g, name |-> <<>>, object |-> Good]
Other(kind) == [kind |-> kind, group |-> "", name |-> <<>>, object |-> Good]
EntryLines ==
    {<<Group(g), Point(n, Good)>> : g \in {"console_scripts", "gui_scripts", "plugins"},
        n \in {<<"a">>, <<"A">>, <<"c">>, <<"space">>, <<"..">>, <<"reserved">>, <<"a", "b">>, <<".", "c">>,
               <<"wide">>}}
    \cup {<<Group("console_scripts"), Point(<<"c">>, o)>> : o \in
            {[reference |-> "module", extras |-> <<>>], [Good EXCEPT !.extras = << <<"demo">> >>],
             [Good EXCEPT !.extras = << <<"demo">>, <<"Demo">> >>], [Good EXCEPT !.extras = << <<>> >>]}}
    \cup {<<Group("console_scripts"), Point(<<"a">>, Good)>> \o x : x \in
            {<<Point(<<"a">>, Good)>>, <<Group("gui_scripts"), Point(<<"a">>, Good)>>, <<Other("noequals")>>,
             <<Group("plugins"), Other("noequals")>>, <<Other("barecr")>>, <<Other("comment")>>,
             <<Group("gui_scripts"), Point(<<"A">>, Good)>>}}
    \cup {<<Point(<<"..">>, Good)>>}

WithEntries(extra, text) ==
    [WheelOf(Base \o <<[File("dE") EXCEPT !.size = text.size]>> \o extra) EXCEPT !.files.ENTRY = text]
EntryPoints ==
    {WithEntries(extra, Text(lines)) : extra \in {<<>>, <<File("tsa")>>}, lines \in EntryLines}
    \cup {WithEntries(<<>>, [Text(<<>>) EXCEPT !.fault = "utf8"]),
          WithEntries(<<>>, [Text(<<>>) EXCEPT !.size = 9])}

AllWheels == WithPayload \cup Names \cup Headers \cup Records \cup Selections \cup EntryPoints
             \cup {Plain1}

(****************************************************************************)
(* An installer's report: the plan carried out, or that with one change.    *)
(****************************************************************************)
OutputOf(entry) ==
    [scheme |-> entry.scheme, path |-> entry.path,
     sha |-> IF entry.transform = "Copy" THEN entry.sha[1] ELSE "written",
     size |-> IF entry.transform = "Copy" THEN entry.size[1] ELSE 2]
Extra(scheme, path) == [scheme |-> scheme, path |-> path, sha |-> "written", size |-> 1]

ReportsOf(list) ==
    LET all == [k \in DOMAIN list |-> OutputOf(list[k])]
        n == Len(all)
    IN  {all, Reverse(all)}
        \cup {SubSeq(all, 1, k - 1) \o SubSeq(all, k + 1, n) : k \in {1, n}}
        \cup {[all EXCEPT ![n].sha = x] : x \in {"written", "nothex"}}
        \cup {[all EXCEPT ![n].size = 7], [all EXCEPT ![n].path = Fold(@) \o <<"..">>], all \o <<all[1]>>}
        \cup {Append(all, Extra(s, p)) : s \in {"purelib", "scripts"},
                                         p \in {<<"D", "RECORD">>, <<"A">>, <<"a">>, <<"a", "c">>,
                                                <<"A", "b", "c">>, <<"D">>}}

ContextsConsidered == {[target |-> "posix", policy |-> "default"], [target |-> "blank", policy |-> "default"]}
==================================================================================
