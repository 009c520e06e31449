-------------------------------- MODULE PathJail --------------------------------
(****************************************************************************)
(* Member-name admission of crates/sealr: jail.rs and the destination       *)
(* topology that apply.rs builds while it plans an archive.                 *)
(*                                                                          *)
(* A name is the sequence that split('/') yields, so "" is <<"">>, "d/" is  *)
(* <<"d", "">> and "/" is <<"", "">>.  A component is a token for the class *)
(* of strings the jail treats alike:                                        *)
(*   "nul"      holds a NUL            "notnfc"    is not NFC-normalized    *)
(*   "back"     holds a backslash      "drive"     is a drive, such as C:   *)
(*   "ads"      holds another colon    "illegal"   holds one of <>"|?*      *)
(*   "trail"    ends in a dot or space "control"   holds a control character*)
(*   "reserved" is a device name       "bidi"      holds U+061C             *)
(*   "clock"    is a device name that only the portable profile reserves    *)
(*   "private"  holds an unassigned or private-use scalar                   *)
(*   "wide"     is longer than 255 UTF-8 bytes or UTF-16 units              *)
(* and every other token is an ordinary component.                          *)
(****************************************************************************)
EXTENDS Integers, Sequences, FiniteSets, FiniteSetsExt, SequencesExt

CONSTANTS
    MaxU64      \* the largest value of the readers' u64

Portable == "PortableUtf8V1"
StrictAscii == "StrictAsciiV1"

OK == "ok"

\* What split yields is never empty.
IsName(name) == name \in Seq(Range(name)) /\ name # <<>>

\* Findings in the order of the checks; the first that applies is reported.
FirstOf(checks) ==
    LET hits == {i \in DOMAIN checks : checks[i][1]}
    IN  IF hits = {} THEN OK ELSE checks[Min(hits)][2]

is_reserved(c, profile) == c = "reserved" \/ (profile = Portable /\ c = "clock")

\* U+061C is a bidirectional control only in the portable table.
invalid_character_for_profile(c, profile) ==
    c \in {"illegal", "control"} \/ (profile = Portable /\ c = "bidi")

looks_like_drive(name) == Head(name) = "drive"

\* "." is dropped before this table is consulted.
validate_component(c, profile) ==
    FirstOf(<< <<c = "", "PathEmpty">>, <<c = "..", "PathDotDot">>,
               <<c \in {"ads", "drive"}, "PathAds">>,
               <<invalid_character_for_profile(c, profile), "PathInvalidChar">>,
               <<c = "trail", "PathTrailing">>, <<is_reserved(c, profile), "PathReserved">> >>)

Kept(name) == FoldLeft(LAMBDA kept, c : IF c = "." THEN kept ELSE Append(kept, c), <<>>, name)
Holds(name, c) == \E i \in DOMAIN name : name[i] = c

\* The whole-name checks, then the first bad component, then the counts.
validate_name(name, max_depth, profile) ==
    LET bad == {i \in DOMAIN name :
                    name[i] # "." /\ validate_component(name[i], profile) # OK}
    IN  FirstOf(<< <<Holds(name, "nul"), "PathNul">>, <<Holds(name, "notnfc"), "PathUnicode">>,
                   <<Holds(name, "back"), "PathInvalidChar">>,
                   <<(Head(name) = "" /\ Len(name) > 1) \/ looks_like_drive(name),
                     "PathAbsolute">>,
                   <<bad # {}, IF bad = {} THEN OK
                               ELSE validate_component(name[Min(bad)], profile)>>,
                   <<Len(Kept(name)) = 0, "PathEmpty">>,
                   <<Len(Kept(name)) > max_depth, "PathDepth">> >>)

\* The kept components and how many "." were dropped.
jail_name_for_profile(name, max_depth, profile) ==
    [finding |-> validate_name(name, max_depth, profile),
     components |-> Kept(name), actions |-> Len(name) - Len(Kept(name))]

portable_name_violation(jailed) ==
    \/ jailed.actions > 0
    \/ \E i \in DOMAIN jailed.components : jailed.components[i] \in {"private", "wide"}

\* Full default case folding maps sharp s to "ss"; lowercasing does not.
FoldComponent(c, profile) ==
    CASE c = "A" -> "a"
      [] c = "sharp" -> IF profile = Portable THEN "ss" ELSE "sharp"
      [] OTHER -> c

profile_case_fold(path, profile) == [i \in DOMAIN path |-> FoldComponent(path[i], profile)]

\* The joined destination stays below the destination directory.
join_under_dest(dest, parts) == dest \o parts

(****************************************************************************)
(* The topology: which paths were admitted so far, as a set of              *)
(* [path, dir] records keyed once by the exact and once by the folded path. *)
(****************************************************************************)
StrictAncestor(p, q) == Len(p) < Len(q) /\ SubSeq(q, 1, Len(p)) = p

\* A file is an ancestor of the new path, or the new file is one of an
\* admitted path.  The archive root is the empty path and always a directory.
path_conflict(seen, path, is_dir) ==
    \/ \E e \in seen : ~e.dir /\ StrictAncestor(e.path, path)
    \/ ~is_dir /\ \E e \in seen : StrictAncestor(path, e.path)

\* Mutant: ancestors are compared by their exact spelling only.
TopologyExactAncestors(seen, path, is_dir, profile) ==
    LET exact == {[path |-> e.path, dir |-> e.dir] : e \in seen}
        fold == profile_case_fold(path, profile)
    IN  FirstOf(<< <<\E e \in exact : e.path = path, "PathConflict">>,
                   <<\E e \in seen : e.fold = fold, "PathCaseFold">>,
                   <<path # <<>> /\ path_conflict(exact, path, is_dir), "PathConflict">> >>)

TopologyFinding(seen, path, is_dir, profile) ==
    LET exact == {[path |-> e.path, dir |-> e.dir] : e \in seen}
        folds == {[path |-> e.fold, dir |-> e.dir] : e \in seen}
        fold == profile_case_fold(path, profile)
    IN  FirstOf(<< <<\E e \in exact : e.path = path, "PathConflict">>,
                   <<\E e \in folds : e.path = fold, "PathCaseFold">>,
                   <<path # <<>> /\ path_conflict(exact, path, is_dir), "PathConflict">>,
                   <<path # <<>> /\ path_conflict(folds, fold, is_dir), "PathCaseFold">> >>)

Admit(seen, path, is_dir, profile) ==
    seen \cup {[path |-> path, fold |-> profile_case_fold(path, profile), dir |-> is_dir]}

(****************************************************************************)
(* TAR names: one trailing slash of a directory and every leading "./" go   *)
(* before the jail sees the name.                                           *)
(****************************************************************************)
StripTrailingSlash(name) ==
    IF Len(name) > 1 /\ Last(name) = "" THEN Front(name) ELSE name

LeadingDots(name) ==
    Max({0} \cup {k \in 1..(Len(name) - 1) : \A i \in 1..k : name[i] = "."})

prepare_tar_member_name(name, is_dir) ==
    LET stripped == IF is_dir THEN StripTrailingSlash(name) ELSE name
        rest == SubSeq(stripped, LeadingDots(stripped) + 1, Len(stripped))
    IN  [name |-> rest, strip |-> stripped # name,
         archive_root |-> is_dir /\ rest \in {<<"">>, <<".">>}]

admit_tar_path(name, is_dir, max_depth, seen) ==
    LET prepared == prepare_tar_member_name(name, is_dir)
        jailed == jail_name_for_profile(prepared.name, max_depth, Portable)
        path == IF prepared.archive_root THEN <<>> ELSE jailed.components
    IN  [finding |->
            FirstOf(<< <<~prepared.archive_root /\ jailed.finding # OK, jailed.finding>>,
                       <<~prepared.archive_root /\ portable_name_violation(jailed),
                         "PathInvalidChar">>,
                       <<TopologyFinding(seen, path, is_dir, Portable) # OK,
                         TopologyFinding(seen, path, is_dir, Portable)>> >>),
         components |-> path, strip |-> prepared.strip]

================================================================================
