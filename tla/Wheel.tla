---------------------------------- MODULE Wheel ----------------------------------
(****************************************************************************)
(* The Python wheel consumer, wheel/evaluate.rs: a verified ZIP archive is  *)
(* judged as a wheel, its members are mapped to an install plan, and what   *)
(* an installer reports to have written is bound to that plan.              *)
(*                                                                          *)
(* The archive is behind a capability whose reads go to the pinned source   *)
(* or to a worker, so each of them may fail; so may an allocation.  RECORD  *)
(* scanning can also be stepped on its own, a byte at a time.               *)
(*                                                                          *)
(* Paths are sequences of components.  The hash of a record is the record.  *)
(****************************************************************************)
EXTENDS WheelParse

CONSTANTS
    Wheels,         \* the wheels considered: [container, filename, members, files]
    Bytes,          \* the bytes RECORD scanning is stepped with
    MaxBytes,       \* how many of them
    Roots,          \* root components: [suffix, dashed, distribution, version]
    Spelling,       \* what a text token of RECORD spells, as a path
    Decimals,       \* the canonical decimals, by token
    ReadFaults,     \* how a verified read may fail
    Reports(_),     \* what an installer may report of a plan
    Contexts        \* target model and installer policy: [target, policy]

VARIABLES
    wheel,      \* the wheel at hand, or <<>> while RECORD bytes are stepped
    phase,      \* the next step of evaluate
    artifact,   \* what was established so far
    entries,    \* the install entries so far
    inspected,  \* script bytes inspected so far
    verdict,    \* how the evaluation ended: [status, code]
    faulted,    \* a read or an allocation failed
    reported,   \* the outputs an installer reported
    realization,\* how its report was answered: [code, identity]
    raw         \* the RECORD bytes stepped so far

vars == <<wheel, phase, artifact, entries, inspected, verdict, faulted, reported, realization, raw>>

SCRIPT_PREFIX_BYTES == 4

Fail(code) == classify_parse(code)
Undecided == [status |-> "none", code |-> OK]
Admitted == [status |-> "Admitted", code |-> OK]

Fold(path) == profile_case_fold(path, Portable)
path_ancestors(path) == {SubSeq(path, 1, k) : k \in 1..(Len(path) - 1)}

(****************************************************************************)
(* Selection.                                                               *)
(****************************************************************************)
RootsWith(members, suffix) ==
    {c \in {members[i].path[1] : i \in DOMAIN members} : c \in DOMAIN Roots /\ Roots[c].suffix = suffix}

validate_named_root(root, filename) ==
    LET expected == [i \in DOMAIN filename.normalized_distribution |->
                        IF filename.normalized_distribution[i] = "-" THEN "_"
                        ELSE filename.normalized_distribution[i]]
    IN  FirstOf(<< <<~Roots[root].dashed, "artifact-root-name">>,
                   <<\/ Roots[root].distribution # expected
                     \/ Roots[root].version # filename.normalized_version,
                     "artifact-root-disagreement">> >>)

select_roots(members, filename) ==
    LET dist == RootsWith(members, ".dist-info")
        data == RootsWith(members, ".data")
        Named(set) == IF Cardinality(set) # 1 THEN OK
                      ELSE validate_named_root(CHOOSE c \in set : TRUE, filename)
    IN  Checked(FirstOf(<< <<Cardinality(dist) # 1, "dist-info-count">>,
                           <<Named(dist) # OK, Named(dist)>>,
                           <<Cardinality(data) > 1, "data-count">>,
                           <<Named(data) # OK, Named(data)>> >>),
                [dist_info |-> CHOOSE c \in dist : TRUE, data |-> IF data = {} THEN <<>> ELSE <<CHOOSE c \in data : TRUE>>])

MembersAt(members, path) == {i \in DOMAIN members : members[i].path = path}

require_regular(members, path) ==
    LET at == MembersAt(members, path)
    IN  FirstOf(<< <<at = {}, "semantic-member-missing">>,
                   <<\E i \in at : members[i].kind # "File", "semantic-member-kind">> >>)

\* Each semantic member within its cap, all of them within the aggregate.
preflight_semantic_bytes(members, paths, caps, aggregate) ==
    LET Size(k) == LET at == MembersAt(members, paths[k])
                   IN  IF at = {} THEN 0 ELSE members[CHOOSE i \in at : TRUE].size
        Sum(k) == FoldLeft(LAMBDA n, x : n + Size(x), 0, [x \in 1..k |-> x])
        Bad(k) == Size(k) > caps[k] \/ Sum(k) > aggregate
        bad == {k \in DOMAIN paths : Bad(k)}
    IN  IF bad = {} THEN OK
        ELSE IF Size(Min(bad)) > caps[Min(bad)] THEN "semantic-member-limit"
        ELSE "semantic-aggregate-limit"

SemanticPaths(dist) ==
    << <<dist, "WHEEL">>, <<dist, "METADATA">>, <<dist, "RECORD">>, <<dist, "entry_points.txt">> >>

SemanticCaps == <<WheelLimits.max_wheel_bytes, WheelLimits.max_metadata_bytes,
                  WheelLimits.max_record_bytes, WheelLimits.max_entry_points_bytes>>

\* The semantic members at these paths, once the roots are known.
SelectedAt(members, filename, roots, paths, has) ==
    LET count == IF has THEN 4 ELSE 3
        kinds == {k \in 1..count : require_regular(members, paths[k]) # OK}
    IN  Checked(IF kinds # {} THEN require_regular(members, paths[Min(kinds)])
                ELSE preflight_semantic_bytes(members, SubSeq(paths, 1, count), SemanticCaps,
                                              WheelLimits.max_semantic_bytes),
                [filename |-> filename, dist_info |-> roots.dist_info, data |-> roots.data,
                 record_path |-> paths[3], has_entry_points |-> has, headers |-> <<>>, record |-> {},
                 entry_points |-> <<>>, next |-> 1])

SelectedUnder(members, filename, roots) ==
    IF roots.finding # OK THEN roots
    ELSE SelectedAt(members, filename, roots.value, SemanticPaths(roots.value.dist_info),
                    MembersAt(members, SemanticPaths(roots.value.dist_info)[4]) # {})

SelectedFor(members, filename) ==
    IF filename.finding # OK THEN filename
    ELSE SelectedUnder(members, filename.value, select_roots(members, filename.value))

\* Everything evaluate decides before it reads a byte.
Selected(w, memory) ==
    IF ~w.container THEN Refused("container-profile")
    ELSE SelectedFor(w.members, parse_wheel_filename(w.filename, memory))

(****************************************************************************)
(* RECORD against the verified members.                                     *)
(****************************************************************************)
PathSpelled(field) ==
    IF field = <<>> THEN <<"">>
    ELSE IF Len(field) = 1 /\ field[1] \in DOMAIN Spelling THEN Spelling[field[1]]
    ELSE <<"unspelled">>

validate_record_path(path) ==
    IF \E i \in DOMAIN path : path[i] \in {"", ".", "..", "back", "nul"} THEN "record-path" ELSE OK

parse_record_size(field) ==
    IF field = <<"huge">> THEN Refused("record-size-overflow")
    ELSE IF Len(field) = 1 /\ field[1] \in DOMAIN Decimals THEN Parsed(Decimals[field[1]])
    ELSE Refused("record-size")

Signatures(record_path) == {<<record_path[1], "RECORD.jws">>, <<record_path[1], "RECORD.p7s">>}
RegularPaths(members) == {members[i].path : i \in {i \in DOMAIN members : members[i].kind = "File"}}
HashScheme(field) == IF field = <<>> THEN "" ELSE field[1]

\* One row: the first check it fails, or one more binding.
BindRow(members, record_path, st, row) ==
    LET path == PathSpelled(row[1])
        at == {i \in MembersAt(members, path) : members[i].kind = "File"}
        index == IF at = {} THEN 0 ELSE CHOOSE i \in at : TRUE
        self == path = record_path
        digest == decode_sha256_record(row[2])
        size == parse_record_size(row[3])
    IN  IF st.finding # OK THEN st
        ELSE [finding |-> FirstOf(<<
                <<validate_record_path(path) # OK, "record-path">>,
                <<\E b \in st.bindings : b.path = path, "record-duplicate">>,
                <<index = 0, "record-phantom">>,
                <<self /\ (row[2] # <<>> \/ row[3] # <<>>), "record-self-fields">>,
                <<path \in Signatures(record_path), "record-signature-listed">>,
                <<~self /\ HashScheme(row[2]) \in {"sha384=", "sha512="},
                  "record-hash-evidence-unavailable">>,
                <<~self /\ HashScheme(row[2]) \in {"md5=", "sha1="}, "record-hash-insecure">>,
                <<~self /\ digest.finding # OK, digest.finding>>,
                <<~self /\ index # 0 /\ digest.finding = OK /\ digest.value # members[index].sha,
                  "record-hash-mismatch">>,
                <<~self /\ size.finding # OK, size.finding>>,
                <<~self /\ index # 0 /\ size.finding = OK /\ size.value # members[index].size,
                  "record-size-mismatch">> >>),
              bindings |-> st.bindings \cup {[path |-> path, member |-> index]}]

\* Regular members that no row names; the least one is reported.
MissingFinding(members, record_path, bindings) ==
    LET missing == {p \in RegularPaths(members) \ Signatures(record_path) :
                        \A b \in bindings : b.path # p}
        least == CHOOSE p \in missing : \A q \in missing : ~PathLess(q, p)
    IN  IF missing = {} THEN OK
        ELSE IF least = record_path THEN "record-self-missing" ELSE "record-member-missing"

bind_record(members, record_path, rows) ==
    LET Step(st, row) == BindRow(members, record_path, st, row)
        read == FoldLeft(Step, [finding |-> OK, bindings |-> {}], rows)
    IN  Checked(IF read.finding # OK THEN read.finding
                ELSE MissingFinding(members, record_path, read.bindings), read.bindings)

(****************************************************************************)
(* The install plan.                                                        *)
(****************************************************************************)
Schemes == <<"purelib", "platlib", "scripts", "headers", "data">>
scheme_order(scheme) == CHOOSE i \in DOMAIN Schemes : Schemes[i] = scheme

UnderData(path, data) == data # <<>> /\ path[1] = data[1]

validate_data_shape(path, data) ==
    IF ~UnderData(path, data) \/ Len(path) = 1 THEN OK
    ELSE FirstOf(<< <<path[2] \notin ToSet(Schemes), "data-scheme">>,
                    <<path[2] = "scripts" /\ Len(path) > 2, "scripts-shape">> >>)

relocate_member(path, data, root_scheme) ==
    IF ~UnderData(path, data) THEN Parsed([scheme |-> root_scheme, path |-> path])
    ELSE IF Len(path) < 3 THEN Refused("data-shape")
    ELSE Checked(FirstOf(<< <<path[2] \notin ToSet(Schemes), "data-scheme">>,
                            <<path[2] = "scripts" /\ Len(path) # 3, "scripts-shape">> >>),
                 [scheme |-> path[2], path |-> SubSeq(path, 3, Len(path))])

RootScheme(a) == IF a.headers[1].root_is_purelib THEN "purelib" ELSE "platlib"

has_python_shebang(member) == member.shebang

\* What the loop of build_plan does with one member: skip it, refuse it, or
\* give it a target.
Placed(member, a) ==
    IF Holds(member.path, "__pycache__") THEN Refused("pycache-payload")
    ELSE IF member.kind = "Directory"
    THEN [finding |-> validate_data_shape(member.path, a.data), value |-> <<>>]
    ELSE IF member.path = a.record_path THEN Parsed(<<>>)
    ELSE LET target == relocate_member(member.path, a.data, RootScheme(a))
         IN  [finding |-> target.finding, value |-> <<target.value>>]

IsScript(placed) == placed.finding = OK /\ placed.value # <<>> /\ placed.value[1].scheme = "scripts"
ScriptBytes(member) == Min({member.size, SCRIPT_PREFIX_BYTES})

SourceEntry(i, member, target) ==
    [source |-> i, scheme |-> target.scheme, path |-> target.path, sha |-> <<member.sha>>,
     size |-> <<member.size>>,
     executable |-> IF member.exec THEN "SourceExecutable" ELSE "NotExecutable",
     transform |-> IF target.scheme = "scripts" /\ has_python_shebang(member)
                   THEN "RewritePythonShebang" ELSE "Copy"]

generated_entry(point) ==
    [source |-> 0, scheme |-> "scripts", path |-> point.name, sha |-> <<>>, size |-> <<>>,
     executable |-> "GeneratedWrapper",
     transform |-> IF point.group = "console_scripts" THEN "GenerateConsoleWrapper"
                   ELSE "GenerateGuiWrapper"]

EntryLess(a, b) ==
    LET x == scheme_order(a.scheme)
        y == scheme_order(b.scheme)
    IN  \/ x < y
        \/ x = y /\ PathLess(Fold(a.path), Fold(b.path))
        \/ x = y /\ Fold(a.path) = Fold(b.path) /\ PathLess(a.path, b.path)
        \/ x = y /\ a.path = b.path /\ a.source < b.source

\* Entries are looked at in the order given: what was seen before decides.
validate_plan_collisions(list) ==
    LET Step(st, e) ==
            IF st.finding # OK THEN st
            ELSE [finding |-> FirstOf(<<
                    <<<<e.scheme, e.path>> \in st.exact, "relocation-collision">>,
                    <<<<e.scheme, Fold(e.path)>> \in st.folded, "target-case-collision">>,
                    <<\E p \in path_ancestors(e.path) : <<e.scheme, p>> \in st.exact,
                      "relocation-topology">>,
                    <<\E p \in path_ancestors(Fold(e.path)) : <<e.scheme, p>> \in st.folded,
                      "target-case-topology">> >>),
                  exact |-> st.exact \cup {<<e.scheme, e.path>>},
                  folded |-> st.folded \cup {<<e.scheme, Fold(e.path)>>}]
    IN  FoldLeft(Step, [finding |-> OK, exact |-> {}, folded |-> {}], list).finding

\* Mutant: entries stay in archive order.
PlanUnordered(list) == list

\* The order validate_plan_collisions relies on.
PlanOrder(list) == SortSeq(list, EntryLess)

Plan(a, list) == PlanOrder(list \o [k \in DOMAIN a.entry_points |-> generated_entry(a.entry_points[k])])

(****************************************************************************)
(* What an installer reports.                                               *)
(****************************************************************************)
\* A failed allocation is a refusal here.
valid_relative_target(path, memory) ==
    LET jailed == jail_name_for_profile(path, MaxU64, Portable)
    IN  memory /\ jailed.finding = OK /\ ~portable_name_violation(jailed)

valid_context(ctx) == ctx.target # "blank" /\ ctx.policy # "blank"

\* The outputs one by one: canonical, and none twice.
OutputsFinding(outputs, memory) ==
    LET Step(st, o) ==
            IF st.finding # OK THEN st
            ELSE [finding |-> FirstOf(<<
                    <<~valid_relative_target(o.path, memory) \/ o.sha = "nothex", "realization-output">>,
                    <<<<o.scheme, o.path>> \in st.exact, "realization-duplicate">>,
                    <<<<o.scheme, Fold(o.path)>> \in st.folded, "realization-case-collision">> >>),
                  exact |-> st.exact \cup {<<o.scheme, o.path>>},
                  folded |-> st.folded \cup {<<o.scheme, Fold(o.path)>>}]
    IN  FoldLeft(Step, [finding |-> OK, exact |-> {}, folded |-> {}], outputs).finding

\* Mutant: the digest is taken to speak for the size.
CopyDigestAgrees(entry, output) == entry.transform = "Copy" => entry.sha = <<output.sha>>

\* A copy must be what was verified; a rewritten or generated file only be there.
CopyAgrees(entry, output) ==
    entry.transform = "Copy" => entry.sha = <<output.sha>> /\ entry.size = <<output.size>>

EntryFinding(entry, outputs) ==
    LET found == {i \in DOMAIN outputs : /\ outputs[i].scheme = entry.scheme
                                         /\ outputs[i].path = entry.path}
    IN  FirstOf(<< <<found = {}, "realization-missing-output">>,
                   <<\E i \in found : ~CopyAgrees(entry, outputs[i]), "realization-copy-mismatch">> >>)

validate_realization_topology(outputs) ==
    LET exact == {<<outputs[i].scheme, outputs[i].path>> : i \in DOMAIN outputs}
        folded == {<<outputs[i].scheme, Fold(outputs[i].path)>> : i \in DOMAIN outputs}
        Exact(i) == \E p \in path_ancestors(outputs[i].path) : <<outputs[i].scheme, p>> \in exact
        Folded(i) == \E p \in path_ancestors(Fold(outputs[i].path)) : <<outputs[i].scheme, p>> \in folded
        bad == {i \in DOMAIN outputs : Exact(i) \/ Folded(i)}
    IN  IF bad = {} THEN OK
        ELSE IF Exact(Min(bad)) THEN "realization-topology" ELSE "realization-case-topology"

validate_realization(list, ctx, outputs, memory) ==
    LET bad == {k \in DOMAIN list : EntryFinding(list[k], outputs) # OK}
    IN  FirstOf(<< <<~valid_context(ctx), "realization-context">>,
                   <<OutputsFinding(outputs, memory) # OK, OutputsFinding(outputs, memory)>>,
                   <<bad # {}, IF bad = {} THEN OK ELSE EntryFinding(list[Min(bad)], outputs)>>,
                   <<validate_realization_topology(outputs) # OK,
                     validate_realization_topology(outputs)>> >>)

OutputLess(a, b) ==
    \/ scheme_order(a.scheme) < scheme_order(b.scheme)
    \/ a.scheme = b.scheme /\ PathLess(a.path, b.path)

\* The identity does not depend on the order of the report.
realization_identity(a, list, ctx, outputs) ==
    [artifact |-> a, plan |-> list, context |-> ctx, outputs |-> SortSeq(outputs, OutputLess)]

(****************************************************************************)
(* Evaluation, a step per read.                                             *)
(****************************************************************************)
NoAnswer == [code |-> "none", identity |-> <<>>]

Init ==
    /\ wheel \in {<<>>} \cup {<<w>> : w \in Wheels}
    /\ phase = IF wheel = <<>> THEN "scan" ELSE "select"
    /\ artifact = <<>> /\ entries = <<>> /\ inspected = 0 /\ verdict = Undecided
    /\ faulted = FALSE /\ reported = <<>> /\ realization = NoAnswer /\ raw = <<>>

W == wheel[1]
Art == artifact[1]

Ends(v) == phase' = "evaluated" /\ verdict' = v
Proceeds(next) == phase' = next /\ UNCHANGED verdict

Select ==
    /\ phase = "select"
    /\ \E memory \in BOOLEAN : \E selected \in {Selected(W, memory)} :
          /\ memory \/ selected.finding = "allocation"
          /\ faulted' = ~memory
          /\ IF selected.finding = "container-profile"
             THEN Ends([status |-> "Unsupported", code |-> "container-profile"]) /\ UNCHANGED artifact
             ELSE IF selected.finding # OK THEN Ends(Fail(selected.finding)) /\ UNCHANGED artifact
             ELSE Proceeds("WHEEL") /\ artifact' = <<selected.value>>
    /\ UNCHANGED <<wheel, entries, inspected, reported, realization, raw>>

\* read_semantic hands out the member the verification measured, or fails.
NextRead == [WHEEL |-> "METADATA", METADATA |-> "RECORD", RECORD |-> "headers"]

ReadSemantic ==
    /\ phase \in DOMAIN NextRead
    /\ Proceeds(NextRead[phase])
    /\ UNCHANGED <<wheel, artifact, entries, inspected, faulted, reported, realization, raw>>

\* A read that fails says nothing of the wheel; its kind is passed on.
ReadFails ==
    /\ \/ phase \in DOMAIN NextRead \cup {"entry_points"}
       \/ /\ phase = "plan" /\ Art.next <= Len(W.members)
          /\ IsScript(Placed(W.members[Art.next], Art))
          /\ inspected + ScriptBytes(W.members[Art.next]) <= WheelLimits.max_plan_inspection_bytes
    /\ \E kind \in ReadFaults : Ends([status |-> "Infrastructure", code |-> kind])
    /\ faulted' = TRUE
    /\ UNCHANGED <<wheel, artifact, entries, inspected, reported, realization, raw>>

\* WHEEL and METADATA, and their agreement with the file name.
Agreement(filename, headers, metadata) ==
    FirstOf(<< <<filename.expanded_tags # headers.tags, "tag-disagreement">>,
               <<filename.build # headers.build, "build-disagreement">>,
               <<\/ filename.normalized_distribution # metadata.normalized_name
                 \/ filename.normalized_version # metadata.normalized_version,
                 "filename-metadata-disagreement">> >>)

CheckHeaders ==
    /\ phase = "headers"
    /\ \E memory \in BOOLEAN :
       \E headers \in {parse_wheel_headers(W.files.WHEEL, memory)} :
       \E metadata \in {parse_core_metadata(W.files.METADATA)} :
       \E finding \in {IF headers.finding # OK THEN headers.finding
                       ELSE IF metadata.finding # OK THEN metadata.finding
                       ELSE Agreement(Art.filename, headers.value, metadata.value)} :
          /\ memory \/ headers.finding = "allocation"
          /\ faulted' = ~memory
          /\ IF finding # OK THEN Ends(Fail(finding)) /\ UNCHANGED artifact
             ELSE Proceeds("record") /\ artifact' = <<[Art EXCEPT !.headers = <<headers.value>>]>>
    /\ UNCHANGED <<wheel, entries, inspected, reported, realization, raw>>

CheckRecord ==
    /\ phase = "record"
    /\ \E rows \in {parse_record_rows(W.files.RECORD.raw)} :
       \E bound \in {IF rows.finding # OK THEN rows
                     ELSE bind_record(W.members, Art.record_path, rows.value)} :
          IF bound.finding # OK THEN Ends(Fail(bound.finding)) /\ UNCHANGED artifact
          ELSE /\ Proceeds(IF Art.has_entry_points THEN "entry_points" ELSE "plan")
               /\ artifact' = <<[Art EXCEPT !.record = bound.value]>>
    /\ UNCHANGED <<wheel, entries, inspected, faulted, reported, realization, raw>>

ReadEntryPoints ==
    /\ phase = "entry_points"
    /\ \E memory \in BOOLEAN : \E points \in {parse_entry_points(W.files.ENTRY, memory)} :
          /\ memory \/ points.finding = "allocation"
          /\ faulted' = ~memory
          /\ IF points.finding # OK THEN Ends(Fail(points.finding)) /\ UNCHANGED artifact
             ELSE Proceeds("plan") /\ artifact' = <<[Art EXCEPT !.entry_points = points.value]>>
    /\ UNCHANGED <<wheel, entries, inspected, reported, realization, raw>>

\* One turn of build_plan's loop; a script's prefix is counted and then read.
PlanMember ==
    /\ phase = "plan" /\ Art.next <= Len(W.members)
    /\ LET member == W.members[Art.next]
           placed == Placed(member, Art)
           bytes == inspected + (IF IsScript(placed) THEN ScriptBytes(member) ELSE 0)
           finding == IF placed.finding # OK THEN placed.finding
                      ELSE IF bytes > WheelLimits.max_plan_inspection_bytes
                      THEN "script-aggregate-limit" ELSE OK
       IN  IF finding # OK THEN Ends(Fail(finding)) /\ UNCHANGED <<artifact, entries, inspected>>
           ELSE /\ Proceeds("plan")
                /\ artifact' = <<[Art EXCEPT !.next = @ + 1]>>
                /\ entries' = IF placed.value = <<>> THEN entries
                              ELSE Append(entries, SourceEntry(Art.next, member, placed.value[1]))
                /\ inspected' = bytes
    /\ UNCHANGED <<wheel, faulted, reported, realization, raw>>

FinishPlan ==
    /\ phase = "plan" /\ Art.next > Len(W.members)
    /\ LET list == Plan(Art, entries)
           finding == validate_plan_collisions(list)
       IN  /\ entries' = list
           /\ Ends(IF finding # OK THEN Fail(finding) ELSE Admitted)
    /\ UNCHANGED <<wheel, artifact, inspected, faulted, reported, realization, raw>>

\* realize_identity, on whatever an installer says it wrote.
Realize ==
    /\ phase = "evaluated" /\ verdict = Admitted
    /\ \E outputs \in Reports(entries), ctx \in Contexts, memory \in BOOLEAN :
          LET code == validate_realization(entries, ctx, outputs, memory)
          IN  /\ reported' = outputs
              /\ realization' =
                    [code |-> code,
                     identity |-> IF code # OK THEN <<>>
                                  ELSE <<realization_identity(Art, entries, ctx, outputs)>>]
    /\ phase' = "realized"
    /\ UNCHANGED <<wheel, artifact, entries, inspected, verdict, faulted, raw>>

\* RECORD scanning on its own: one more byte.
NextByte ==
    /\ phase = "scan" /\ Len(raw) < MaxBytes
    /\ \E b \in Bytes : raw' = Append(raw, b)
    /\ UNCHANGED <<wheel, phase, artifact, entries, inspected, verdict, faulted, reported, realization>>

Next == \/ Select \/ ReadSemantic \/ ReadFails \/ CheckHeaders \/ CheckRecord \/ ReadEntryPoints
        \/ PlanMember \/ FinishPlan \/ Realize \/ NextByte

Spec == Init /\ [][Next]_vars

(****************************************************************************)
(* Properties.                                                              *)
(****************************************************************************)
Payload(w, record_path) ==
    {i \in DOMAIN w.members : w.members[i].kind = "File" /\ w.members[i].path # record_path}

TargetsOf(w, a) ==
    [i \in Payload(w, a.record_path) |-> relocate_member(w.members[i].path, a.data, RootScheme(a))]

\* A set of files, as [scheme, path], can stand side by side on a target that
\* folds case: no two under one name, none where another needs a directory.
StandSideBySide(files) ==
    \A x, y \in files :
        x # y /\ x.scheme = y.scheme =>
            /\ Fold(x.path) # Fold(y.path)
            /\ Fold(x.path) \notin path_ancestors(Fold(y.path))

\* RECORD is a table of exactly the installed members: one row each, with the
\* verified digest and size, one empty row for itself, none for a signature.
RecordIsExact(w, record_path, rows) ==
    LET owed == RegularPaths(w.members) \ Signatures(record_path)
        Owes(p) == IF p = record_path THEN <<<<>>, <<>>>>
                   ELSE LET m == w.members[CHOOSE i \in MembersAt(w.members, p) : TRUE]
                        IN  <<<<"sha256=", m.sha>>,
                              <<CHOOSE t \in DOMAIN Decimals : Decimals[t] = m.size>>>>
    IN  /\ Len(rows) = Cardinality(owed)
        /\ \A p \in owed : \E r \in ToSet(rows) : PathSpelled(r[1]) = p /\ <<r[2], r[3]>> = Owes(p)

\* The profile, stated of the whole wheel at once: of what was selected and
\* parsed, and of the files it names as [scheme, path].
FilesConform(w, targets, named, files) ==
    /\ \A i \in DOMAIN targets : targets[i].finding = OK
    /\ MapThenSumSet(LAMBDA i : ScriptBytes(w.members[i]),
                     {i \in DOMAIN targets : targets[i].value.scheme = "scripts"})
           <= WheelLimits.max_plan_inspection_bytes
    /\ Cardinality(files) = Cardinality(DOMAIN targets) + Len(named)
    /\ StandSideBySide(files)

WholeConforms(w, a, metadata, rows, named) ==
    /\ a.filename.expanded_tags = a.headers[1].tags
    /\ a.filename.build = a.headers[1].build
    /\ a.filename.normalized_distribution = metadata.normalized_name
    /\ a.filename.normalized_version = metadata.normalized_version
    /\ RecordIsExact(w, a.record_path, rows)
    /\ \A i \in DOMAIN w.members :
          /\ ~Holds(w.members[i].path, "__pycache__")
          /\ w.members[i].kind = "Directory" => validate_data_shape(w.members[i].path, a.data) = OK
    /\ \E targets \in {TargetsOf(w, a)} :
          FilesConform(w, targets, named,
                       {targets[i].value : i \in DOMAIN targets}
                       \cup {[scheme |-> "scripts", path |-> named[k].name] : k \in DOMAIN named})

Conforms(w) ==
    /\ w.container
    /\ \E selected \in {Selected(w, TRUE)}, headers \in {parse_wheel_headers(w.files.WHEEL, TRUE)},
          metadata \in {parse_core_metadata(w.files.METADATA)},
          rows \in {parse_record_rows(w.files.RECORD.raw)}, points \in {parse_entry_points(w.files.ENTRY, TRUE)} :
          /\ OK = selected.finding /\ OK = headers.finding /\ OK = metadata.finding
          /\ OK = rows.finding
          /\ selected.value.has_entry_points => points.finding = OK
          /\ WholeConforms(w, [selected.value EXCEPT !.headers = <<headers.value>>], metadata.value, rows.value,
                           IF selected.value.has_entry_points THEN points.value ELSE <<>>)

\* evaluate works through its stages and stops at the first finding, with
\* reads in between that may fail.  Whatever the order: when nothing failed, a
\* wheel is admitted exactly when it conforms as a whole (RECORD accounts for
\* every member, the targets can stand side by side), and a failure around the
\* evaluation is never held against the wheel, nor a fault of the wheel called
\* a failure.
VerdictIsTheProfile ==
    phase \in {"evaluated", "realized"} =>
        /\ (verdict.status = "Infrastructure") = faulted
        /\ ~faulted => (verdict = Admitted) = Conforms(W)

\* What becomes of an admitted wheel.  Two members apart in the archive can
\* meet after relocation, and validate_plan_collisions asks of each entry only
\* what it saw before.  A realization identity is given only to a report under
\* which every payload member of the archive is present at the place the
\* profile gives it, with the digest and size that were verified unless it is
\* a script to be rewritten; all reported outputs can stand side by side; and
\* the identity lists each of them once, in an order of its own.
RealizationIsTheArchive ==
    realization.code = OK =>
        LET id == realization.identity[1]
            targets == TargetsOf(W, Art)
            files == {[scheme |-> o.scheme, path |-> o.path] : o \in ToSet(reported)}
        IN  /\ \A i \in DOMAIN targets :
                  LET m == W.members[i]
                      rewritten == targets[i].value.scheme = "scripts" /\ m.shebang
                  IN  \E o \in ToSet(reported) :
                          /\ [scheme |-> o.scheme, path |-> o.path] = targets[i].value
                          /\ ~rewritten => o.sha = m.sha /\ o.size = m.size
            /\ \A k \in DOMAIN Art.entry_points :
                  [scheme |-> "scripts", path |-> Art.entry_points[k].name] \in files
            /\ StandSideBySide(files)
            /\ ToSet(id.outputs) = ToSet(reported)
            /\ Len(id.outputs) = Cardinality(files)
            /\ \A i \in 1..(Len(id.outputs) - 1) : ~OutputLess(id.outputs[i + 1], id.outputs[i])

(****************************************************************************)
(* RECORD text by quote parity: a separator counts exactly when an even     *)
(* number of quotes stands before it.                                       *)
(****************************************************************************)
Ascending(set, n) == SelectSeq([i \in 1..n |-> i], LAMBDA i : i \in set)
QuotesBefore(text, i) == Cardinality({k \in 1..(i - 1) : text[k] = "q"})
Cuts(text) == {i \in DOMAIN text : text[i] \in {"c", "n", "r"} /\ QuotesBefore(text, i) % 2 = 0}

Segment(text, cuts, i) ==
    LET before == {k \in cuts : k < i}
    IN  SubSeq(text, IF before = {} THEN 1 ELSE Max(before) + 1, i - 1)

\* A field is plain or wholly quoted, its inner quotes doubled.
Plain(s) == \A i \in DOMAIN s : s[i] # "q"
Inner(s) == SubSeq(s, 2, Len(s) - 1)
Quoted(s) ==
    /\ Len(s) >= 2 /\ s[1] = "q" /\ s[Len(s)] = "q"
    /\ \A i \in DOMAIN Inner(s) : Inner(s)[i] = "q" =>
          \E lo, hi \in DOMAIN Inner(s) :
              /\ lo <= i /\ i <= hi /\ (hi - lo) % 2 = 1
              /\ \A k \in lo..hi : Inner(s)[k] = "q"
              /\ lo > 1 => Inner(s)[lo - 1] # "q"
              /\ hi < Len(Inner(s)) => Inner(s)[hi + 1] # "q"
Unquoted(s) ==
    IF Plain(s) THEN s
    ELSE LET t == Inner(s)
             kept == Ascending({i \in DOMAIN t : t[i] # "q" \/ QuotesBefore(t, i) % 2 = 0}, Len(t))
         IN  [k \in DOMAIN kept |-> t[kept[k]]]

\* The field ends: every cut but the line feed of a CR LF, and the end of the
\* text unless it follows a row end.
FieldCuts(text) ==
    LET cuts == Cuts(text)
    IN  {i \in cuts : ~(text[i] = "n" /\ i - 1 \in cuts /\ text[i - 1] = "r")}
        \cup (IF text = <<>> \/ (Len(text) \in cuts /\ text[Len(text)] = "n") THEN {} ELSE {Len(text) + 1})

\* parse_record_rows looks one byte ahead and keeps three flags; what it
\* accepts and what it reads must be what the whole text says: every field
\* plain or wholly quoted, three to a row, rows and their lengths within the
\* caps, a carriage return only before a line feed.
RecordTextIsRead ==
    phase = "scan" =>
        LET read == parse_record_rows(raw)
            cuts == Cuts(raw)
            ends == Ascending(FieldCuts(raw), Len(raw) + 1)
            fields == [k \in DOMAIN ends |-> Segment(raw, cuts, ends[k])]
            RowEnd(k) == ends[k] > Len(raw) \/ raw[ends[k]] # "c"
            rowEnds == Ascending({k \in DOMAIN ends : RowEnd(k)}, Len(ends))
            LastByte(k) == IF ends[k] > Len(raw) THEN Len(raw)
                           ELSE ends[k] + (IF raw[ends[k]] = "r" THEN 1 ELSE 0)
            wellFormed ==
                /\ QuotesBefore(raw, Len(raw) + 1) % 2 = 0
                /\ \A i \in cuts : raw[i] = "r" => i < Len(raw) /\ raw[i + 1] = "n"
                /\ \A k \in DOMAIN fields : /\ Plain(fields[k]) \/ Quoted(fields[k])
                                            /\ ~Holds(fields[k], "bad")
                /\ \A j \in DOMAIN rowEnds : rowEnds[j] = 3 * j
                /\ Len(ends) = 3 * Len(rowEnds)
            withinCaps ==
                /\ Len(rowEnds) <= WheelLimits.max_record_rows
                /\ \A j \in DOMAIN rowEnds :
                      LastByte(rowEnds[j]) - (IF j = 1 THEN 0 ELSE LastByte(rowEnds[j - 1]))
                          <= WheelLimits.max_record_row_bytes
        IN  /\ (read.finding = OK) = (wellFormed /\ withinCaps)
            /\ read.finding = OK =>
                  read.value = [j \in DOMAIN rowEnds |-> [c \in 1..3 |-> Unquoted(fields[3 * (j - 1) + c])]]
==================================================================================
