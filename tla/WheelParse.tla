------------------------------- MODULE WheelParse -------------------------------
(****************************************************************************)
(* The parsers of the Python wheel consumer, wheel/parse.rs.                *)
(*                                                                          *)
(* Text is a sequence of tokens.  RECORD is read byte by byte, where "q" is *)
(* a quote, "c" a comma, "n" a line feed, "r" a carriage return, "bad" a    *)
(* byte that is not UTF-8, and any other token a run of ordinary text.  A   *)
(* header or entry-point file is a sequence of classified lines; a value    *)
(* carries what it reads as, [str, tags, name, version].  A distribution    *)
(* name is a sequence of words and separators, a version its PEP 440 parts, *)
(* a tag triple three sequences of alternatives.                            *)
(****************************************************************************)
EXTENDS PathJail

CONSTANTS
    WheelLimits,    \* the caps of model.rs, small
    Order           \* all components in byte order

\* A parser returns a value or the code of its one finding.
Parsed(v) == [finding |-> OK, value |-> v]
Refused(code) == [finding |-> code, value |-> <<>>]
Checked(finding, v) == IF finding = OK THEN Parsed(v) ELSE Refused(finding)

Rank(c) == CHOOSE i \in DOMAIN Order : Order[i] = c

\* Byte order of the joined paths: an ancestor comes before what is below it.
\* Comparing component by component is comparing the strings as long as no
\* directory's name begins the name of something beside it.
PathLess(a, b) ==
    \E k \in 0..Len(a) :
        /\ k < Len(b)
        /\ SubSeq(a, 1, k) = SubSeq(b, 1, k)
        /\ k < Len(a) => Rank(a[k + 1]) < Rank(b[k + 1])

(****************************************************************************)
(* Names, versions and tags.                                                *)
(****************************************************************************)
Separators == {"-", "_", "."}
Lowered == [Demo |-> "demo", TAG |-> "tag", Tag |-> "tag", Name |-> "name", RC1 |-> "rc1"]
Lower(c) == IF c \in DOMAIN Lowered THEN Lowered[c] ELSE c

\* A run of separators becomes one dash; leading ones are dropped.
normalize_distribution(name) ==
    LET Put(st, c) ==
            IF c \in Separators THEN [st EXCEPT !.separator = TRUE]
            ELSE [separator |-> FALSE,
                  out |-> st.out \o (IF st.separator /\ st.out # <<>> THEN <<"-">> ELSE <<>>)
                          \o <<Lower(c)>>]
    IN  FoldLeft(Put, [out |-> <<>>, separator |-> FALSE], name).out

valid_project_name(name) ==
    /\ name # <<>>
    /\ {name[1], name[Len(name)]} \cap (Separators \cup {"badchar"}) = {}
    /\ ~Holds(name, "badchar")

\* Leading zeros are dropped from every number, an epoch of zero altogether;
\* trailing zero components of the release stay.
canonicalize_supported_version(v) ==
    [epoch |-> IF v.epoch = <<>> THEN 0 ELSE v.epoch[1].n,
     release |-> [i \in DOMAIN v.release |-> v.release[i].n], tail |-> Lower(v.tail)]

normalize_version(v) ==
    CASE v.form = "canonical" -> Parsed(canonicalize_supported_version(v))
      [] v.form = "legacy" -> Refused("version-unsupported")
      [] OTHER -> Refused("version-invalid")

TagPartsFit(parts) == \A i \in DOMAIN parts : parts[i] \notin {"", "badchar"}

\* The cross product in the order of the three loops.  The reservation for it
\* is the one allocation of the parsers that may fail.
expand_tag_triple(triple, memory) ==
    LET a == Len(triple[2])
        p == Len(triple[3])
        count == Len(triple[1]) * a * p
    IN  Checked(FirstOf(<<
            <<\E i \in 1..3 : ~TagPartsFit(triple[i]), "tag-grammar">>,
            <<count > WheelLimits.max_expanded_tags, "tag-expansion-limit">>,
            <<~memory, "allocation">> >>),
          [k \in 1..count |-> <<triple[1][((k - 1) \div (a * p)) + 1],
                                triple[2][(((k - 1) \div p) % a) + 1],
                                triple[3][((k - 1) % p) + 1]>>])

\* A component of the file name uses only the characters the grammar allows.
validate_filename_component(value) == ~Holds(value, "badchar")

parse_wheel_filename(raw, memory) ==
    LET tags == expand_tag_triple(raw.tags, memory)
        version == normalize_version(raw.version)
        name == normalize_distribution(raw.distribution)
    IN  Checked(FirstOf(<<
            <<raw.unsafe, "filename-boundary">>, <<~raw.whl, "filename-suffix">>,
            <<raw.fields \notin {5, 6}, "filename-fields">>,
            <<~validate_filename_component(raw.distribution), "filename-distribution">>,
            <<~valid_project_name(raw.distribution), "distribution-grammar">>,
            <<raw.version.form = "badchar", "filename-version">>,
            <<raw.build # <<>> /\ raw.build[1] = "badtag", "build-tag">>,
            <<tags.finding # OK, tags.finding>>,
            <<name = <<>>, "distribution-empty">>,
            <<version.finding # OK, version.finding>> >>),
          [normalized_distribution |-> name, normalized_version |-> version.value,
           build |-> raw.build, expanded_tags |-> ToSet(tags.value)])

(****************************************************************************)
(* WHEEL and METADATA.                                                      *)
(****************************************************************************)
FieldNames == {"wheel-version", "root-is-purelib", "tag", "build", "generator",
               "metadata-version", "name", "version", "other"}

\* One line of a header file.  Nothing after the first blank line is looked
\* at; a continuation extends the value before it, which then is no longer
\* the text it began with.
HeaderLine(st, line) ==
    IF st.finding # OK \/ st.blank THEN st
    ELSE LET s == [st EXCEPT !.count = @ + 1]
         IN  IF line.kind = "barecr" THEN [s EXCEPT !.finding = "header-bare-cr"]
             ELSE IF st.count >= WheelLimits.max_header_lines \/ line.kind = "long"
             THEN [s EXCEPT !.finding = "header-limit"]
             ELSE CASE line.kind = "blank" -> [s EXCEPT !.blank = TRUE]
                    [] line.kind = "continuation" ->
                          IF st.last = <<>> THEN [s EXCEPT !.finding = "header-continuation"]
                          ELSE [s EXCEPT !.fields[st.last[1]][st.last[2]].folded = TRUE]
                    [] line.kind = "nocolon" -> [s EXCEPT !.finding = "header-syntax"]
                    [] line.kind = "badname" -> [s EXCEPT !.finding = "header-name"]
                    [] line.kind = "field" ->
                          LET n == Lower(line.name)
                          IN  [s EXCEPT !.fields[n] = Append(@, [text |-> line.value, folded |-> FALSE]),
                                        !.last = <<n, Len(st.fields[n]) + 1>>]

parse_headers(file, limit) ==
    LET read == FoldLeft(HeaderLine, [finding |-> OK, blank |-> FALSE, count |-> 0, last |-> <<>>,
                                      fields |-> [n \in FieldNames |-> <<>>]], file.lines)
    IN  Checked(FirstOf(<< <<file.size > limit, "header-limit">>, <<file.fault = "nul", "header-nul">>,
                           <<file.fault = "utf8", "header-utf8">>,
                           <<read.finding # OK, read.finding>> >>),
                read.fields)

exactly_one(values) ==
    FirstOf(<< <<values = <<>>, "header-missing">>, <<Len(values) > 1, "header-duplicate">> >>)

optional_one(values) == IF Len(values) > 1 THEN "header-duplicate" ELSE OK

\* What an optional field says: nothing, its text, or a folded text.
Optional(values) == IF values = <<>> THEN <<>> ELSE IF values[1].folded THEN <<"folded">>
                    ELSE <<values[1].text.str>>

wheel_version_finding(value) ==
    CASE ~value.folded /\ value.text.str = "1.0" -> OK
      [] ~value.folded /\ value.text.str = "1.9" -> "version-unsupported"
      [] OTHER -> "version-invalid"

\* Every Tag field expands; no tag may come twice, within a field or across.
WheelTags(values, memory) ==
    LET Insert(st, tag) ==
            IF st.finding # OK THEN st
            ELSE IF tag \in st.tags THEN [st EXCEPT !.finding = "tag-duplicate"]
            ELSE [tags |-> st.tags \cup {tag},
                  finding |-> IF Cardinality(st.tags) + 1 > WheelLimits.max_expanded_tags
                              THEN "tag-expansion-limit" ELSE OK]
        Field(st, value) ==
            LET triple == expand_tag_triple(value.text.tags, memory)
            IN  IF st.finding # OK THEN st
                ELSE IF Len(value.text.tags) # 3 THEN [st EXCEPT !.finding = "tag-invalid"]
                ELSE IF value.folded THEN [st EXCEPT !.finding = "tag-grammar"]
                ELSE IF triple.finding # OK THEN [st EXCEPT !.finding = triple.finding]
                ELSE FoldLeft(Insert, st, triple.value)
    IN  FoldLeft(Field, [tags |-> {}, finding |-> OK], values)

parse_wheel_headers(file, memory) ==
    LET headers == parse_headers(file, WheelLimits.max_wheel_bytes)
    IN  IF headers.finding # OK THEN headers
        ELSE LET f == headers.value
                 version == f["wheel-version"]
                 root == f["root-is-purelib"]
                 tags == WheelTags(f["tag"], memory)
             IN  Checked(FirstOf(<<
                     <<exactly_one(version) # OK, exactly_one(version)>>,
                     <<version # <<>> /\ wheel_version_finding(version[1]) # OK,
                       IF version = <<>> THEN OK ELSE wheel_version_finding(version[1])>>,
                     <<exactly_one(root) # OK, exactly_one(root)>>,
                     <<root # <<>> /\ (root[1].folded \/ root[1].text.str \notin {"true", "false"}),
                       "root-is-purelib">>,
                     <<f["tag"] = <<>>, "tag-missing">>,
                     <<tags.finding # OK, tags.finding>>,
                     <<optional_one(f["generator"]) # OK, "header-duplicate">>,
                     <<optional_one(f["build"]) # OK, "header-duplicate">> >>),
                   [root_is_purelib |-> root # <<>> /\ root[1].text.str = "true",
                    build |-> Optional(f["build"]), tags |-> tags.tags])

parse_core_metadata(file) ==
    LET headers == parse_headers(file, WheelLimits.max_metadata_bytes)
    IN  IF headers.finding # OK THEN headers
        ELSE LET f == headers.value
                 format == f["metadata-version"]
                 name == f["name"]
                 version == f["version"]
                 normal == IF version = <<>> \/ version[1].folded THEN Refused("version-invalid")
                           ELSE normalize_version(version[1].text.version)
             IN  Checked(FirstOf(<<
                     <<exactly_one(format) # OK, exactly_one(format)>>,
                     <<format # <<>> /\ (format[1].folded \/ format[1].text.str # "2.4"),
                       "metadata-version-unsupported">>,
                     <<exactly_one(name) # OK, exactly_one(name)>>,
                     <<exactly_one(version) # OK, exactly_one(version)>>,
                     <<name # <<>> /\ (name[1].folded \/ ~valid_project_name(name[1].text.name)),
                       "metadata-name-grammar">>,
                     <<normal.finding = "version-unsupported", "metadata-version-unsupported">>,
                     <<normal.finding # OK, "metadata-version-grammar">> >>),
                   [normalized_name |-> IF name = <<>> THEN <<>> ELSE normalize_distribution(name[1].text.name),
                    normalized_version |-> normal.value])

(****************************************************************************)
(* RECORD: comma-separated values, one byte at a time.                      *)
(****************************************************************************)
NewCsv == [finding |-> OK, rows |-> <<>>, fields |-> <<>>, field |-> <<>>, in_quotes |-> FALSE,
           quoted |-> FALSE, after_quote |-> FALSE, row_bytes |-> 0, skip |-> FALSE]

CsvFails(st, code) == [st EXCEPT !.finding = code]

push_record_field(st) ==
    IF Holds(st.field, "bad") THEN CsvFails(st, "record-csv")
    ELSE [st EXCEPT !.fields = Append(@, st.field), !.field = <<>>]

push_record_row(st) ==
    IF st.finding # OK THEN st
    ELSE IF Len(st.fields) # 3 THEN CsvFails(st, "record-csv")
    ELSE IF Len(st.rows) >= WheelLimits.max_record_rows THEN CsvFails(st, "record-limit")
    ELSE [st EXCEPT !.rows = Append(@, st.fields), !.fields = <<>>]

FieldEnds(st) == [st EXCEPT !.quoted = FALSE, !.after_quote = FALSE]
RowEnds(st) == [FieldEnds(push_record_row(push_record_field(st))) EXCEPT !.row_bytes = 0]

\* Inside quotes only a quote counts: doubled it is a quote, alone it closes.
QuotedByte(st, byte, next) ==
    IF byte # "q" THEN [st EXCEPT !.field = Append(@, byte)]
    ELSE IF next = "q" THEN [st EXCEPT !.field = Append(@, "q"), !.skip = TRUE, !.row_bytes = @ + 1]
    ELSE [st EXCEPT !.in_quotes = FALSE, !.after_quote = TRUE]

UnquotedByte(st, byte, next) ==
    CASE byte = "q" -> IF st.field = <<>> /\ ~st.quoted
                       THEN [st EXCEPT !.in_quotes = TRUE, !.quoted = TRUE]
                       ELSE CsvFails(st, "record-csv")
      [] byte = "c" -> FieldEnds(push_record_field(st))
      [] byte = "n" -> RowEnds(st)
      [] byte = "r" -> IF next # "n" THEN CsvFails(st, "record-csv")
                       ELSE IF st.row_bytes + 1 > WheelLimits.max_record_row_bytes
                       THEN CsvFails(st, "record-limit")
                       ELSE [RowEnds(st) EXCEPT !.skip = TRUE]
      [] OTHER -> [st EXCEPT !.field = Append(@, byte)]

\* Mutant: text after a closing quote is taken as more of the field.
PlainByteAfterQuote(st, byte, next) == UnquotedByte(st, byte, next)

\* Only a separator may follow a closing quote.
PlainByte(st, byte, next) ==
    IF st.after_quote /\ byte \notin {"c", "r", "n"} THEN CsvFails(st, "record-csv")
    ELSE UnquotedByte(st, byte, next)

CsvByte(st, byte, next) ==
    LET s == [st EXCEPT !.row_bytes = @ + 1]
    IN  IF st.finding # OK THEN st
        ELSE IF st.skip THEN [st EXCEPT !.skip = FALSE]
        ELSE IF s.row_bytes > WheelLimits.max_record_row_bytes THEN CsvFails(s, "record-limit")
        ELSE IF s.in_quotes THEN QuotedByte(s, byte, next)
        ELSE PlainByte(s, byte, next)

\* The last row may lack its terminator.
parse_record_rows(raw) ==
    LET next(i) == IF i < Len(raw) THEN raw[i + 1] ELSE "end"
        Step(st, i) == CsvByte(st, raw[i], next(i))
        read == FoldLeft(Step, NewCsv, [i \in 1..Len(raw) |-> i])
        done == IF read.finding # OK THEN read
                ELSE IF read.in_quotes THEN CsvFails(read, "record-csv")
                ELSE IF read.field # <<>> \/ read.fields # <<>> \/ read.quoted THEN RowEnds(read)
                ELSE read
    IN  Checked(done.finding, done.rows)

\* Unpadded URL-safe base64 of one digest, which is one token here.
decode_sha256_record(value) ==
    Checked(FirstOf(<< <<value = <<>> \/ value[1] # "sha256=", "record-hash-unsupported">>,
                       <<Holds(value, "="), "record-csv">>,
                       <<Len(value) # 2 \/ value[2] \in {"not64", "short"}, "record-csv">> >>),
            value[2])

(****************************************************************************)
(* entry_points.txt.                                                        *)
(****************************************************************************)
Groups == {"console_scripts", "gui_scripts"}

\* Legacy extras are project names, none twice.
validate_entry_point_object(object) ==
    LET extras == object.extras
    IN  /\ object.reference = "module:attribute"
        /\ \A i \in DOMAIN extras : valid_project_name(extras[i])
        /\ \A i, j \in DOMAIN extras :
              i # j => normalize_distribution(extras[i]) # normalize_distribution(extras[j])

validate_command_name(name, memory) ==
    LET jailed == jail_name_for_profile(name, 1, Portable)
    IN  FirstOf(<< <<~memory /\ jailed.finding = OK, "allocation">>,
                   <<\/ jailed.finding # OK
                     \/ Len(jailed.components) # 1
                     \/ portable_name_violation(jailed)
                     \/ Holds(name, "space"), "generated-target-name">> >>)

\* Lines outside the two script groups are not looked at.
EntryPointLine(st, line, memory) ==
    IF st.finding # OK THEN st
    ELSE IF line.kind = "barecr" THEN [st EXCEPT !.finding = "header-bare-cr"]
    ELSE IF line.kind = "group"
    THEN [st EXCEPT !.group = IF line.group \in Groups THEN line.group ELSE "none"]
    ELSE IF line.kind = "comment" \/ st.group = "none" THEN st
    ELSE IF line.kind = "noequals" THEN [st EXCEPT !.finding = "entry-point-syntax"]
    ELSE [st EXCEPT !.finding = FirstOf(<<
                        <<validate_command_name(line.name, memory) # OK,
                          validate_command_name(line.name, memory)>>,
                        <<~validate_entry_point_object(line.object), "entry-point-object">>,
                        <<\E i \in DOMAIN st.points : /\ st.points[i].group = st.group
                                                      /\ st.points[i].name = line.name,
                          "entry-point-duplicate">> >>),
                    !.points = Append(@, [group |-> st.group, name |-> line.name])]

\* By group and name, which no two points share.
PointLess(a, b) ==
    \/ a.group = "console_scripts" /\ b.group = "gui_scripts"
    \/ a.group = b.group /\ PathLess(a.name, b.name)

parse_entry_points(file, memory) ==
    LET Step(st, line) == EntryPointLine(st, line, memory)
        read == FoldLeft(Step, [finding |-> OK, group |-> "none", points |-> <<>>], file.lines)
    IN  Checked(FirstOf(<< <<file.size > WheelLimits.max_entry_points_bytes, "entry-points-size-limit">>,
                           <<file.fault = "utf8", "entry-points-utf8">>,
                           <<read.finding # OK, read.finding>> >>),
                SortSeq(read.points, PointLess))

\* What a parser's finding means for the wheel as a whole.
classify_parse(code) ==
    CASE code = "allocation" -> [status |-> "Infrastructure", code |-> "AllocationFailed"]
      [] code \in {"version-unsupported", "metadata-version-unsupported", "record-hash-unsupported",
                  "record-hash-evidence-unavailable"} ->
            [status |-> "Unsupported", code |-> code]
      [] OTHER -> [status |-> "Denied", code |-> code]
=================================================================================
