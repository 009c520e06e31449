---------------------------- MODULE OutcomeProofs ----------------------------
(***************************************************************************)
(* TLAPS proofs that the axes of an outcome say why an archive stopped.    *)
(* parse_failure_axes and its siblings are tables over codes, so the proof *)
(* has to know which codes each reader, decoder and planner can report:    *)
(* PlanForeign, ReadForeign and StreamForeign name the ones it cannot, and *)
(* OutcomeInv carries that from the reader to the outcome.                 *)
(***************************************************************************)
EXTENDS AdmissionProofs

-----------------------------------------------------------------------------
(***************************************************************************)
(* Tables of checks                                                        *)
(***************************************************************************)
\* What a table of checks reports is the finding of one of them.
LEMMA FirstOfAny ==
    ASSUME NEW n \in Nat, NEW checks, DOMAIN checks = 1..n, NEW S, OK \notin S,
           \A i \in 1..n : checks[i][2] \notin S
    PROVE FirstOf(checks) \notin S
<1> DEFINE hits == {i \in DOMAIN checks : checks[i][1]}
<1>1. CASE hits = {}
  BY <1>1 DEF FirstOf
<1>2. CASE hits # {}
  <2>1. hits \subseteq Nat
    OBVIOUS
  <2>2. Min(hits) \in hits
    BY <1>2, <2>1, MinOf
  <2>3. FirstOf(checks) = checks[Min(hits)][2]
    BY <1>2 DEF FirstOf
  <2> QED BY <2>2, <2>3
<1> QED BY <1>1, <1>2

\* What two checks report is none of the findings none of them has.
LEMMA AnyOf2 ==
    ASSUME NEW S, OK \notin S, NEW a1, NEW b1, NEW a2, NEW b2,
           /\ b1 \notin S /\ b2 \notin S
    PROVE FirstOf(<< <<a1, b1>>, <<a2, b2>> >>) \notin S
<1> DEFINE checks == << <<a1, b1>>, <<a2, b2>> >>
<1>1. /\ DOMAIN checks = 1..2 /\ checks[1] = <<a1, b1>> /\ checks[2] = <<a2, b2>>
  OBVIOUS
<1> HIDE DEF checks
<1>2. \A i \in 1..2 : checks[i][2] \notin S
  <2>1. \A i \in 1..2 : i = 1 \/ i = 2
    OBVIOUS
  <2> QED BY <1>1, <2>1
<1>3. FirstOf(checks) \notin S
  BY <1>1, <1>2, FirstOfAny
<1> QED BY <1>3 DEF checks

\* What three checks report is none of the findings none of them has.
LEMMA AnyOf3 ==
    ASSUME NEW S, OK \notin S, NEW a1, NEW b1, NEW a2, NEW b2, NEW a3, NEW b3,
           /\ b1 \notin S /\ b2 \notin S /\ b3 \notin S
    PROVE FirstOf(<< <<a1, b1>>, <<a2, b2>>, <<a3, b3>> >>) \notin S
<1> DEFINE checks == << <<a1, b1>>, <<a2, b2>>, <<a3, b3>> >>
<1>1. /\ DOMAIN checks = 1..3 /\ checks[1] = <<a1, b1>> /\ checks[2] = <<a2, b2>>
      /\ checks[3] = <<a3, b3>>
  OBVIOUS
<1> HIDE DEF checks
<1>2. \A i \in 1..3 : checks[i][2] \notin S
  <2>1. \A i \in 1..3 : i = 1 \/ i = 2 \/ i = 3
    OBVIOUS
  <2> QED BY <1>1, <2>1
<1>3. FirstOf(checks) \notin S
  BY <1>1, <1>2, FirstOfAny
<1> QED BY <1>3 DEF checks

\* What four checks report is none of the findings none of them has.
LEMMA AnyOf4 ==
    ASSUME NEW S, OK \notin S, NEW a1, NEW b1, NEW a2, NEW b2, NEW a3, NEW b3, NEW a4, NEW b4,
           /\ b1 \notin S /\ b2 \notin S /\ b3 \notin S /\ b4 \notin S
    PROVE FirstOf(<< <<a1, b1>>, <<a2, b2>>, <<a3, b3>>, <<a4, b4>> >>) \notin S
<1> DEFINE checks == << <<a1, b1>>, <<a2, b2>>, <<a3, b3>>, <<a4, b4>> >>
<1>1. /\ DOMAIN checks = 1..4 /\ checks[1] = <<a1, b1>> /\ checks[2] = <<a2, b2>>
      /\ checks[3] = <<a3, b3>> /\ checks[4] = <<a4, b4>>
  OBVIOUS
<1> HIDE DEF checks
<1>2. \A i \in 1..4 : checks[i][2] \notin S
  <2>1. \A i \in 1..4 : i = 1 \/ i = 2 \/ i = 3 \/ i = 4
    OBVIOUS
  <2> QED BY <1>1, <2>1
<1>3. FirstOf(checks) \notin S
  BY <1>1, <1>2, FirstOfAny
<1> QED BY <1>3 DEF checks

\* What five checks report is none of the findings none of them has.
LEMMA AnyOf5 ==
    ASSUME NEW S, OK \notin S, NEW a1, NEW b1, NEW a2, NEW b2, NEW a3, NEW b3, NEW a4, NEW b4,
           NEW a5, NEW b5,
           /\ b1 \notin S /\ b2 \notin S /\ b3 \notin S /\ b4 \notin S /\ b5 \notin S
    PROVE FirstOf(<< <<a1, b1>>, <<a2, b2>>, <<a3, b3>>, <<a4, b4>>, <<a5, b5>> >>) \notin S
<1> DEFINE checks == << <<a1, b1>>, <<a2, b2>>, <<a3, b3>>, <<a4, b4>>, <<a5, b5>> >>
<1>1. /\ DOMAIN checks = 1..5 /\ checks[1] = <<a1, b1>> /\ checks[2] = <<a2, b2>>
      /\ checks[3] = <<a3, b3>> /\ checks[4] = <<a4, b4>> /\ checks[5] = <<a5, b5>>
  OBVIOUS
<1> HIDE DEF checks
<1>2. \A i \in 1..5 : checks[i][2] \notin S
  <2>1. \A i \in 1..5 : i = 1 \/ i = 2 \/ i = 3 \/ i = 4 \/ i = 5
    OBVIOUS
  <2> QED BY <1>1, <2>1
<1>3. FirstOf(checks) \notin S
  BY <1>1, <1>2, FirstOfAny
<1> QED BY <1>3 DEF checks

\* What six checks report is none of the findings none of them has.
LEMMA AnyOf6 ==
    ASSUME NEW S, OK \notin S, NEW a1, NEW b1, NEW a2, NEW b2, NEW a3, NEW b3, NEW a4, NEW b4,
           NEW a5, NEW b5, NEW a6, NEW b6,
           /\ b1 \notin S /\ b2 \notin S /\ b3 \notin S /\ b4 \notin S /\ b5 \notin S
           /\ b6 \notin S
    PROVE FirstOf(<< <<a1, b1>>, <<a2, b2>>, <<a3, b3>>, <<a4, b4>>, <<a5, b5>>, <<a6, b6>> >>)
                  \notin S
<1> DEFINE checks == << <<a1, b1>>, <<a2, b2>>, <<a3, b3>>, <<a4, b4>>, <<a5, b5>>, <<a6, b6>> >>
<1>1. /\ DOMAIN checks = 1..6 /\ checks[1] = <<a1, b1>> /\ checks[2] = <<a2, b2>>
      /\ checks[3] = <<a3, b3>> /\ checks[4] = <<a4, b4>> /\ checks[5] = <<a5, b5>>
      /\ checks[6] = <<a6, b6>>
  OBVIOUS
<1> HIDE DEF checks
<1>2. \A i \in 1..6 : checks[i][2] \notin S
  <2>1. \A i \in 1..6 : i = 1 \/ i = 2 \/ i = 3 \/ i = 4 \/ i = 5 \/ i = 6
    OBVIOUS
  <2> QED BY <1>1, <2>1
<1>3. FirstOf(checks) \notin S
  BY <1>1, <1>2, FirstOfAny
<1> QED BY <1>3 DEF checks

\* What seven checks report is none of the findings none of them has.
LEMMA AnyOf7 ==
    ASSUME NEW S, OK \notin S, NEW a1, NEW b1, NEW a2, NEW b2, NEW a3, NEW b3, NEW a4, NEW b4,
           NEW a5, NEW b5, NEW a6, NEW b6, NEW a7, NEW b7,
           /\ b1 \notin S /\ b2 \notin S /\ b3 \notin S /\ b4 \notin S /\ b5 \notin S
           /\ b6 \notin S /\ b7 \notin S
    PROVE FirstOf(<< <<a1, b1>>, <<a2, b2>>, <<a3, b3>>, <<a4, b4>>, <<a5, b5>>, <<a6, b6>>,
                  <<a7, b7>> >>) \notin S
<1> DEFINE checks == << <<a1, b1>>, <<a2, b2>>, <<a3, b3>>, <<a4, b4>>, <<a5, b5>>, <<a6, b6>>,
                        <<a7, b7>> >>
<1>1. /\ DOMAIN checks = 1..7 /\ checks[1] = <<a1, b1>> /\ checks[2] = <<a2, b2>>
      /\ checks[3] = <<a3, b3>> /\ checks[4] = <<a4, b4>> /\ checks[5] = <<a5, b5>>
      /\ checks[6] = <<a6, b6>> /\ checks[7] = <<a7, b7>>
  OBVIOUS
<1> HIDE DEF checks
<1>2. \A i \in 1..7 : checks[i][2] \notin S
  <2>1. \A i \in 1..7 : i = 1 \/ i = 2 \/ i = 3 \/ i = 4 \/ i = 5 \/ i = 6 \/ i = 7
    OBVIOUS
  <2> QED BY <1>1, <2>1
<1>3. FirstOf(checks) \notin S
  BY <1>1, <1>2, FirstOfAny
<1> QED BY <1>3 DEF checks

\* What eight checks report is none of the findings none of them has.
LEMMA AnyOf8 ==
    ASSUME NEW S, OK \notin S, NEW a1, NEW b1, NEW a2, NEW b2, NEW a3, NEW b3, NEW a4, NEW b4,
           NEW a5, NEW b5, NEW a6, NEW b6, NEW a7, NEW b7, NEW a8, NEW b8,
           /\ b1 \notin S /\ b2 \notin S /\ b3 \notin S /\ b4 \notin S /\ b5 \notin S
           /\ b6 \notin S /\ b7 \notin S /\ b8 \notin S
    PROVE FirstOf(<< <<a1, b1>>, <<a2, b2>>, <<a3, b3>>, <<a4, b4>>, <<a5, b5>>, <<a6, b6>>,
                  <<a7, b7>>, <<a8, b8>> >>) \notin S
<1> DEFINE checks == << <<a1, b1>>, <<a2, b2>>, <<a3, b3>>, <<a4, b4>>, <<a5, b5>>, <<a6, b6>>,
                        <<a7, b7>>, <<a8, b8>> >>
<1>1. /\ DOMAIN checks = 1..8 /\ checks[1] = <<a1, b1>> /\ checks[2] = <<a2, b2>>
      /\ checks[3] = <<a3, b3>> /\ checks[4] = <<a4, b4>> /\ checks[5] = <<a5, b5>>
      /\ checks[6] = <<a6, b6>> /\ checks[7] = <<a7, b7>> /\ checks[8] = <<a8, b8>>
  OBVIOUS
<1> HIDE DEF checks
<1>2. \A i \in 1..8 : checks[i][2] \notin S
  <2>1. \A i \in 1..8 : i = 1 \/ i = 2 \/ i = 3 \/ i = 4 \/ i = 5 \/ i = 6 \/ i = 7 \/ i = 8
    OBVIOUS
  <2> QED BY <1>1, <2>1
<1>3. FirstOf(checks) \notin S
  BY <1>1, <1>2, FirstOfAny
<1> QED BY <1>3 DEF checks

\* What nine checks report is none of the findings none of them has.
LEMMA AnyOf9 ==
    ASSUME NEW S, OK \notin S, NEW a1, NEW b1, NEW a2, NEW b2, NEW a3, NEW b3, NEW a4, NEW b4,
           NEW a5, NEW b5, NEW a6, NEW b6, NEW a7, NEW b7, NEW a8, NEW b8, NEW a9, NEW b9,
           /\ b1 \notin S /\ b2 \notin S /\ b3 \notin S /\ b4 \notin S /\ b5 \notin S
           /\ b6 \notin S /\ b7 \notin S /\ b8 \notin S /\ b9 \notin S
    PROVE FirstOf(<< <<a1, b1>>, <<a2, b2>>, <<a3, b3>>, <<a4, b4>>, <<a5, b5>>, <<a6, b6>>,
                  <<a7, b7>>, <<a8, b8>>, <<a9, b9>> >>) \notin S
<1> DEFINE checks == << <<a1, b1>>, <<a2, b2>>, <<a3, b3>>, <<a4, b4>>, <<a5, b5>>, <<a6, b6>>,
                        <<a7, b7>>, <<a8, b8>>, <<a9, b9>> >>
<1>1. /\ DOMAIN checks = 1..9 /\ checks[1] = <<a1, b1>> /\ checks[2] = <<a2, b2>>
      /\ checks[3] = <<a3, b3>> /\ checks[4] = <<a4, b4>> /\ checks[5] = <<a5, b5>>
      /\ checks[6] = <<a6, b6>> /\ checks[7] = <<a7, b7>> /\ checks[8] = <<a8, b8>>
      /\ checks[9] = <<a9, b9>>
  OBVIOUS
<1> HIDE DEF checks
<1>2. \A i \in 1..9 : checks[i][2] \notin S
  <2>1. \A i \in 1..9 : i = 1 \/ i = 2 \/ i = 3 \/ i = 4 \/ i = 5 \/ i = 6 \/ i = 7 \/ i = 8 \/
        i = 9
    OBVIOUS
  <2> QED BY <1>1, <2>1
<1>3. FirstOf(checks) \notin S
  BY <1>1, <1>2, FirstOfAny
<1> QED BY <1>3 DEF checks

\* What ten checks report is none of the findings none of them has.
LEMMA AnyOf10 ==
    ASSUME NEW S, OK \notin S, NEW a1, NEW b1, NEW a2, NEW b2, NEW a3, NEW b3, NEW a4, NEW b4,
           NEW a5, NEW b5, NEW a6, NEW b6, NEW a7, NEW b7, NEW a8, NEW b8, NEW a9, NEW b9,
           NEW a10, NEW b10,
           /\ b1 \notin S /\ b2 \notin S /\ b3 \notin S /\ b4 \notin S /\ b5 \notin S
           /\ b6 \notin S /\ b7 \notin S /\ b8 \notin S /\ b9 \notin S /\ b10 \notin S
    PROVE FirstOf(<< <<a1, b1>>, <<a2, b2>>, <<a3, b3>>, <<a4, b4>>, <<a5, b5>>, <<a6, b6>>,
                  <<a7, b7>>, <<a8, b8>>, <<a9, b9>>, <<a10, b10>> >>) \notin S
<1> DEFINE checks == << <<a1, b1>>, <<a2, b2>>, <<a3, b3>>, <<a4, b4>>, <<a5, b5>>, <<a6, b6>>,
                        <<a7, b7>>, <<a8, b8>>, <<a9, b9>>, <<a10, b10>> >>
<1>1. /\ DOMAIN checks = 1..10 /\ checks[1] = <<a1, b1>> /\ checks[2] = <<a2, b2>>
      /\ checks[3] = <<a3, b3>> /\ checks[4] = <<a4, b4>> /\ checks[5] = <<a5, b5>>
      /\ checks[6] = <<a6, b6>> /\ checks[7] = <<a7, b7>> /\ checks[8] = <<a8, b8>>
      /\ checks[9] = <<a9, b9>> /\ checks[10] = <<a10, b10>>
  OBVIOUS
<1> HIDE DEF checks
<1>2. \A i \in 1..10 : checks[i][2] \notin S
  <2>1. \A i \in 1..10 : i = 1 \/ i = 2 \/ i = 3 \/ i = 4 \/ i = 5 \/ i = 6 \/ i = 7 \/ i = 8 \/
        i = 9 \/ i = 10
    OBVIOUS
  <2> QED BY <1>1, <2>1
<1>3. FirstOf(checks) \notin S
  BY <1>1, <1>2, FirstOfAny
<1> QED BY <1>3 DEF checks

\* What eleven checks report is none of the findings none of them has.
LEMMA AnyOf11 ==
    ASSUME NEW S, OK \notin S, NEW a1, NEW b1, NEW a2, NEW b2, NEW a3, NEW b3, NEW a4, NEW b4,
           NEW a5, NEW b5, NEW a6, NEW b6, NEW a7, NEW b7, NEW a8, NEW b8, NEW a9, NEW b9,
           NEW a10, NEW b10, NEW a11, NEW b11,
           /\ b1 \notin S /\ b2 \notin S /\ b3 \notin S /\ b4 \notin S /\ b5 \notin S
           /\ b6 \notin S /\ b7 \notin S /\ b8 \notin S /\ b9 \notin S /\ b10 \notin S
           /\ b11 \notin S
    PROVE FirstOf(<< <<a1, b1>>, <<a2, b2>>, <<a3, b3>>, <<a4, b4>>, <<a5, b5>>, <<a6, b6>>,
                  <<a7, b7>>, <<a8, b8>>, <<a9, b9>>, <<a10, b10>>, <<a11, b11>> >>) \notin S
<1> DEFINE checks == << <<a1, b1>>, <<a2, b2>>, <<a3, b3>>, <<a4, b4>>, <<a5, b5>>, <<a6, b6>>,
                        <<a7, b7>>, <<a8, b8>>, <<a9, b9>>, <<a10, b10>>, <<a11, b11>> >>
<1>1. /\ DOMAIN checks = 1..11 /\ checks[1] = <<a1, b1>> /\ checks[2] = <<a2, b2>>
      /\ checks[3] = <<a3, b3>> /\ checks[4] = <<a4, b4>> /\ checks[5] = <<a5, b5>>
      /\ checks[6] = <<a6, b6>> /\ checks[7] = <<a7, b7>> /\ checks[8] = <<a8, b8>>
      /\ checks[9] = <<a9, b9>> /\ checks[10] = <<a10, b10>> /\ checks[11] = <<a11, b11>>
  OBVIOUS
<1> HIDE DEF checks
<1>2. \A i \in 1..11 : checks[i][2] \notin S
  <2>1. \A i \in 1..11 : i = 1 \/ i = 2 \/ i = 3 \/ i = 4 \/ i = 5 \/ i = 6 \/ i = 7 \/ i = 8 \/
        i = 9 \/ i = 10 \/ i = 11
    OBVIOUS
  <2> QED BY <1>1, <2>1
<1>3. FirstOf(checks) \notin S
  BY <1>1, <1>2, FirstOfAny
<1> QED BY <1>3 DEF checks

\* What nineteen checks report is none of the findings none of them has.
LEMMA AnyOf19 ==
    ASSUME NEW S, OK \notin S, NEW a1, NEW b1, NEW a2, NEW b2, NEW a3, NEW b3, NEW a4, NEW b4,
           NEW a5, NEW b5, NEW a6, NEW b6, NEW a7, NEW b7, NEW a8, NEW b8, NEW a9, NEW b9,
           NEW a10, NEW b10, NEW a11, NEW b11, NEW a12, NEW b12, NEW a13, NEW b13, NEW a14,
           NEW b14, NEW a15, NEW b15, NEW a16, NEW b16, NEW a17, NEW b17, NEW a18, NEW b18,
           NEW a19, NEW b19,
           /\ b1 \notin S /\ b2 \notin S /\ b3 \notin S /\ b4 \notin S /\ b5 \notin S
           /\ b6 \notin S /\ b7 \notin S /\ b8 \notin S /\ b9 \notin S /\ b10 \notin S
           /\ b11 \notin S /\ b12 \notin S /\ b13 \notin S /\ b14 \notin S /\ b15 \notin S
           /\ b16 \notin S /\ b17 \notin S /\ b18 \notin S /\ b19 \notin S
    PROVE FirstOf(<< <<a1, b1>>, <<a2, b2>>, <<a3, b3>>, <<a4, b4>>, <<a5, b5>>, <<a6, b6>>,
                  <<a7, b7>>, <<a8, b8>>, <<a9, b9>>, <<a10, b10>>, <<a11, b11>>, <<a12, b12>>,
                  <<a13, b13>>, <<a14, b14>>, <<a15, b15>>, <<a16, b16>>, <<a17, b17>>,
                  <<a18, b18>>, <<a19, b19>> >>) \notin S
<1> DEFINE checks == << <<a1, b1>>, <<a2, b2>>, <<a3, b3>>, <<a4, b4>>, <<a5, b5>>, <<a6, b6>>,
                        <<a7, b7>>, <<a8, b8>>, <<a9, b9>>, <<a10, b10>>, <<a11, b11>>,
                        <<a12, b12>>, <<a13, b13>>, <<a14, b14>>, <<a15, b15>>, <<a16, b16>>,
                        <<a17, b17>>, <<a18, b18>>, <<a19, b19>> >>
<1>1. /\ DOMAIN checks = 1..19 /\ checks[1] = <<a1, b1>> /\ checks[2] = <<a2, b2>>
      /\ checks[3] = <<a3, b3>> /\ checks[4] = <<a4, b4>> /\ checks[5] = <<a5, b5>>
      /\ checks[6] = <<a6, b6>> /\ checks[7] = <<a7, b7>> /\ checks[8] = <<a8, b8>>
      /\ checks[9] = <<a9, b9>> /\ checks[10] = <<a10, b10>> /\ checks[11] = <<a11, b11>>
      /\ checks[12] = <<a12, b12>> /\ checks[13] = <<a13, b13>> /\ checks[14] = <<a14, b14>>
      /\ checks[15] = <<a15, b15>> /\ checks[16] = <<a16, b16>> /\ checks[17] = <<a17, b17>>
      /\ checks[18] = <<a18, b18>> /\ checks[19] = <<a19, b19>>
  OBVIOUS
<1> HIDE DEF checks
<1>2. \A i \in 1..19 : checks[i][2] \notin S
  <2>1. \A i \in 1..19 : i = 1 \/ i = 2 \/ i = 3 \/ i = 4 \/ i = 5 \/ i = 6 \/ i = 7 \/ i = 8 \/
        i = 9 \/ i = 10 \/ i = 11 \/ i = 12 \/ i = 13 \/ i = 14 \/ i = 15 \/ i = 16 \/ i = 17 \/
        i = 18 \/ i = 19
    OBVIOUS
  <2> QED BY <1>1, <2>1
<1>3. FirstOf(checks) \notin S
  BY <1>1, <1>2, FirstOfAny
<1> QED BY <1>3 DEF checks

-----------------------------------------------------------------------------
(***************************************************************************)
(* The findings of the planners                                            *)
(***************************************************************************)
\* No planner reports a failure of the source, of the covering or of the
\* archive's own quota.
PlanForeign == {"QuotaArchive", "Source", "SourceIo", "CoveringInconsistent"}

\* The codes of the jail, of the topology and of the members' quotas.
LEMMA PlanCodes ==
    /\ OK \notin PlanForeign /\ "PathNul" \notin PlanForeign /\ "PathUnicode" \notin PlanForeign
    /\ "PathInvalidChar" \notin PlanForeign /\ "PathAbsolute" \notin PlanForeign
    /\ "PathEmpty" \notin PlanForeign /\ "PathDepth" \notin PlanForeign
    /\ "PathDotDot" \notin PlanForeign /\ "PathAds" \notin PlanForeign
    /\ "PathTrailing" \notin PlanForeign /\ "PathReserved" \notin PlanForeign
    /\ "PathConflict" \notin PlanForeign /\ "PathCaseFold" \notin PlanForeign
    /\ "ZipDiffB1Dup" \notin PlanForeign /\ "ZipEncrypted" \notin PlanForeign
    /\ "MethodUnsupported" \notin PlanForeign /\ "QuotaMember" \notin PlanForeign
    /\ "QuotaRatio" \notin PlanForeign /\ "QuotaOverflow" \notin PlanForeign
    /\ "QuotaTotal" \notin PlanForeign
BY DEF PlanForeign, OK

\* What the jail says of a name.
LEMMA JailCodes ==
    ASSUME NEW name, NEW d, NEW profile
    PROVE jail_name_for_profile(name, d, profile).finding \notin PlanForeign
<1>1. ASSUME NEW c PROVE validate_component(c, profile) \notin PlanForeign
  BY PlanCodes, AnyOf6, ZenonT(60) DEF validate_component
<1> DEFINE bad == {i \in DOMAIN name : name[i] # "." /\ validate_component(name[i], profile) # OK}
           first == IF bad = {} THEN OK ELSE validate_component(name[Min(bad)], profile)
<1>2. first \notin PlanForeign
  BY <1>1, PlanCodes
<1>3. validate_name(name, d, profile)
        = FirstOf(<< <<Holds(name, "nul"), "PathNul">>, <<Holds(name, "notnfc"), "PathUnicode">>,
                     <<Holds(name, "back"), "PathInvalidChar">>,
                     <<(Head(name) = "" /\ Len(name) > 1) \/ looks_like_drive(name),
                       "PathAbsolute">>,
                     <<bad # {}, first>>, <<Len(Kept(name)) = 0, "PathEmpty">>,
                     <<Len(Kept(name)) > d, "PathDepth">> >>)
  BY DEF validate_name
<1> HIDE DEF first, bad
<1>4. validate_name(name, d, profile) \notin PlanForeign
  <2> DEFINE v == validate_name(name, d, profile)
             c == (Head(name) = "" /\ Len(name) > 1) \/ looks_like_drive(name)
             e == Len(Kept(name)) = 0
             g == Len(Kept(name)) > d
             b == bad # {}
  <2>1. v = FirstOf(<< <<Holds(name, "nul"), "PathNul">>, <<Holds(name, "notnfc"), "PathUnicode">>,
                     <<Holds(name, "back"), "PathInvalidChar">>, <<c, "PathAbsolute">>,
                     <<b, first>>, <<e, "PathEmpty">>, <<g, "PathDepth">> >>)
    BY <1>3
  <2> HIDE DEF v, c, e, g, b
  <2>2. v \notin PlanForeign
    BY <1>2, <2>1, PlanCodes, AnyOf7
  <2> QED BY <2>2 DEF v
<1> QED BY <1>4 DEF jail_name_for_profile

\* What the topology says of a path.
LEMMA TopologyCodes ==
    ASSUME NEW seen, NEW path, NEW is_dir, NEW profile
    PROVE TopologyFinding(seen, path, is_dir, profile) \notin PlanForeign
BY PlanCodes, AnyOf4 DEF TopologyFinding

\* A turn of a planner adds at most one finding, one of its own.
Reports(p, q) ==
    \/ q.findings = p.findings
    \/ \E f : f \notin PlanForeign /\ q.findings = Append(p.findings, f)

\* The ways in which the planners change a plan, and what they report.
LEMMA ReportsOne ==
    ASSUME NEW p, IsPlan(p), NEW q, NEW f, f \notin PlanForeign, NEW t,
           \/ q = p
           \/ q = [p EXCEPT !.findings = Append(@, f)]
           \/ q = [[p EXCEPT !.findings = Append(@, f)] EXCEPT !.stopped = TRUE]
           \/ q = [[p EXCEPT !.findings = Append(@, f)] EXCEPT !.total = t]
           \/ q = [[p EXCEPT !.total = t] EXCEPT !.findings = Append(@, f)]
    PROVE Reports(p, q)
<1> DEFINE g == Append(p.findings, f)
<1>1. \/ q = p
      \/ q = [p EXCEPT !.findings = g]
      \/ q = [[p EXCEPT !.findings = g] EXCEPT !.stopped = TRUE]
      \/ q = [[p EXCEPT !.findings = g] EXCEPT !.total = t]
      \/ q = [[p EXCEPT !.total = t] EXCEPT !.findings = g]
  BY DEF IsPlan, PlanFields
<1> HIDE DEF g
<1>2. q.findings = p.findings \/ q.findings = g
  BY <1>1 DEF IsPlan, PlanFields
<1> QED BY <1>2 DEF Reports, g

\* The turn of plan_tar_domains.
LEMMA TarReports ==
    ASSUME NEW budget, NEW p, IsPlan(p), NEW m PROVE Reports(p, PlanMember(budget, p, m))
<1> DEFINE adm == admit_tar_path(m.name, m.is_dir, budget.max_depth, p.seen)
           q == PlanMember(budget, p, m)
           t == p.total + m.size
           over == m.size > budget.max_member
           ratio == budget.max_ratio # <<>> /\ ratio_exceeds(m.size, m.size, budget.max_ratio[1])
<1>1. adm.finding \notin PlanForeign
  <2> DEFINE prepared == prepare_tar_member_name(m.name, m.is_dir)
             jailed == jail_name_for_profile(prepared.name, budget.max_depth, Portable)
             path == IF prepared.archive_root THEN <<>> ELSE jailed.components
             topology == TopologyFinding(p.seen, path, m.is_dir, Portable)
  <2>1. jailed.finding \notin PlanForeign /\ topology \notin PlanForeign
    BY JailCodes, TopologyCodes
  <2>2. adm.finding
          = FirstOf(<< <<~prepared.archive_root /\ jailed.finding # OK, jailed.finding>>,
                       <<~prepared.archive_root /\ portable_name_violation(jailed),
                         "PathInvalidChar">>,
                       <<topology # OK, topology>> >>)
    BY DEF admit_tar_path
  <2> HIDE DEF adm, prepared, jailed, topology
  <2> QED BY <2>1, <2>2, PlanCodes, AnyOf3
<1>2. q = PlanAdmitted(budget, p, m, adm)
  BY DEF PlanMember
<1> HIDE DEF adm, q
<1>3. CASE p.stopped
  <2>1. q = p
    BY <1>2, <1>3 DEF PlanAdmitted
  <2> QED BY <2>1 DEF Reports, q
<1>4. CASE ~p.stopped /\ over
  <2>1. q = [p EXCEPT !.findings = Append(@, "QuotaMember")]
    BY <1>2, <1>4 DEF PlanAdmitted
  <2>2. Reports(p, q)
    BY <2>1, PlanCodes, ReportsOne
  <2> QED BY <2>2 DEF q
<1>5. CASE ~p.stopped /\ ~over /\ ratio
  <2>1. q = [p EXCEPT !.findings = Append(@, "QuotaRatio")]
    BY <1>2, <1>5 DEF PlanAdmitted
  <2>2. Reports(p, q)
    BY <2>1, PlanCodes, ReportsOne
  <2> QED BY <2>2 DEF q
<1>6. CASE ~p.stopped /\ ~over /\ ~ratio /\ t > MaxU64
  <2>1. q = [[p EXCEPT !.findings = Append(@, "QuotaOverflow")] EXCEPT !.stopped = TRUE]
    BY <1>2, <1>6 DEF PlanAdmitted
  <2>2. Reports(p, q)
    BY <2>1, PlanCodes, ReportsOne
  <2> QED BY <2>2 DEF q
<1>7. CASE ~p.stopped /\ ~over /\ ~ratio /\ ~(t > MaxU64) /\ t > budget.max_total
  <2>1. q = [[p EXCEPT !.findings = Append(@, "QuotaTotal")] EXCEPT !.stopped = TRUE]
    BY <1>2, <1>7 DEF PlanAdmitted
  <2>2. Reports(p, q)
    BY <2>1, PlanCodes, ReportsOne
  <2> QED BY <2>2 DEF q
<1>8. CASE /\ ~p.stopped /\ ~over /\ ~ratio /\ ~(t > MaxU64) /\ ~(t > budget.max_total)
           /\ adm.finding # OK
  <2>1. q = [[p EXCEPT !.total = t] EXCEPT !.findings = Append(@, adm.finding)]
    BY <1>2, <1>8 DEF PlanAdmitted, IsPlan, PlanFields
  <2> DEFINE f == adm.finding
  <2>2. f \notin PlanForeign /\ q = [[p EXCEPT !.total = t] EXCEPT !.findings = Append(@, f)]
    BY <1>1, <2>1
  <2> HIDE DEF t, f
  <2>3. q.findings = Append(p.findings, f)
    BY <2>2 DEF IsPlan, PlanFields
  <2> QED BY <2>2, <2>3 DEF Reports, q
<1>9. CASE /\ ~p.stopped /\ ~over /\ ~ratio /\ ~(t > MaxU64) /\ ~(t > budget.max_total)
           /\ adm.finding = OK
  <2>1. \E x, y : q = [[p EXCEPT !.total = t] EXCEPT !.planned = x, !.seen = y]
    <3>1. q = [[p EXCEPT !.total = @ + m.size] EXCEPT
                 !.planned = Append(@, [m EXCEPT !.components = adm.components, !.strip = adm.strip]),
                 !.seen = Admit(@, adm.components, m.is_dir, Portable)]
      BY <1>2, <1>9 DEF PlanAdmitted
    <3> QED BY <3>1 DEF IsPlan, PlanFields
  <2> HIDE DEF t
  <2>2. q.findings = p.findings
    BY <2>1 DEF IsPlan, PlanFields
  <2> QED BY <2>2 DEF Reports, q
<1> QED BY <1>3, <1>4, <1>5, <1>6, <1>7, <1>8, <1>9

\* The turn of plan_snapshot.
LEMMA ZipReports ==
    ASSUME NEW budget, NEW profile, NEW p, IsPlan(p), NEW m
    PROVE Reports(p, PlanZipMember(budget, profile, p, m))
<1> DEFINE name == IF m.is_dir THEN Front(m.name) ELSE m.name
           jailed == jail_name_for_profile(name, budget.max_depth, JailProfile(profile))
           dear == budget.max_ratio # <<>>
                     /\ ZipRatioExceeds(m.uncomp_size, m.comp_size, budget.max_ratio[1])
           refusal == FirstOf(<< <<"crypt" \in m.flags, "ZipEncrypted">>,
                                 <<m.method \notin {0, 8}, "MethodUnsupported">>,
                                 <<m.uncomp_size > budget.max_member, "QuotaMember">>,
                                 <<dear, "QuotaRatio">> >>)
           total == p.total + m.uncomp_size
           topology == TopologyFinding(p.seen, jailed.components, m.is_dir, JailProfile(profile))
           path == ZipPathFinding(m, jailed, p.seen, profile)
           n == [m EXCEPT !.components = jailed.components, !.actions = jailed.actions]
           q == PlanZipMember(budget, profile, p, m)
<1>1. q = IF p.stopped THEN p
          ELSE IF refusal # OK THEN [p EXCEPT !.findings = Append(@, refusal)]
          ELSE IF total > MaxU64
          THEN [[p EXCEPT !.findings = Append(@, "QuotaOverflow")] EXCEPT !.stopped = TRUE]
          ELSE IF total > budget.max_total
          THEN [[p EXCEPT !.findings = Append(@, "QuotaTotal")] EXCEPT !.stopped = TRUE]
          ELSE IF path # OK THEN [[p EXCEPT !.findings = Append(@, path)] EXCEPT !.total = total]
          ELSE [p EXCEPT !.total = total, !.planned = Append(@, n),
                         !.seen = Admit(@, jailed.components, m.is_dir, JailProfile(profile))]
  BY DEF PlanZipMember
<1>2. refusal \notin PlanForeign
  <2> HIDE DEF dear
  <2> QED BY PlanCodes, AnyOf4
<1>3. path \notin PlanForeign
  <2>1. jailed.finding \notin PlanForeign /\ topology \notin PlanForeign
    BY JailCodes, TopologyCodes
  <2>2. path = FirstOf(<< <<jailed.finding # OK, jailed.finding>>,
                          <<profile = "WheelUtf8V1" /\ jailed.actions > 0, "PathInvalidChar">>,
                          <<profile = "PortableUtf8V1" /\ portable_name_violation(jailed),
                            "PathInvalidChar">>,
                          <<\E e \in p.seen : e.path = jailed.components, "ZipDiffB1Dup">>,
                          <<topology # OK, topology>> >>)
    BY DEF ZipPathFinding
  <2> DEFINE a == profile = "WheelUtf8V1" /\ jailed.actions > 0
             b == profile = "PortableUtf8V1" /\ portable_name_violation(jailed)
             c == \E e \in p.seen : e.path = jailed.components
             f == jailed.finding
             v == path
  <2>3. v = FirstOf(<< <<f # OK, f>>, <<a, "PathInvalidChar">>, <<b, "PathInvalidChar">>,
                       <<c, "ZipDiffB1Dup">>, <<topology # OK, topology>> >>)
    BY <2>2
  <2>4. f \notin PlanForeign
    BY <2>1
  <2> HIDE DEF a, b, c, f, v, topology
  <2>5. v \notin PlanForeign
    BY <2>1, <2>3, <2>4, PlanCodes, AnyOf5
  <2> QED BY <2>5 DEF v
<1> HIDE DEF q, n, jailed, refusal, path, total
<1>4. CASE p.stopped \/ refusal # OK \/ total > MaxU64 \/ total > budget.max_total \/ path # OK
  <2>1. \E f : /\ f \notin PlanForeign
               /\ \/ q = p \/ q = [p EXCEPT !.findings = Append(@, f)]
                  \/ q = [[p EXCEPT !.findings = Append(@, f)] EXCEPT !.stopped = TRUE]
                  \/ q = [[p EXCEPT !.findings = Append(@, f)] EXCEPT !.total = total]
    BY <1>1, <1>2, <1>3, <1>4, PlanCodes
  <2>2. Reports(p, q)
    BY <2>1, ReportsOne
  <2> QED BY <2>2 DEF q
<1>5. CASE ~(p.stopped \/ refusal # OK \/ total > MaxU64 \/ total > budget.max_total \/ path # OK)
  <2>1. \E x, y, z : q = [p EXCEPT !.total = x, !.planned = y, !.seen = z]
    BY <1>1, <1>5
  <2>2. q.findings = p.findings
    BY <2>1 DEF IsPlan, PlanFields
  <2> QED BY <2>2 DEF Reports, q
<1> QED BY <1>4, <1>5

\* The turn of the 7z planner.
LEMMA SevenZReports ==
    ASSUME NEW budget, NEW p, IsPlan(p), NEW m
    PROVE Reports(p, PlanSevenZMember(budget, p, m))
<1> DEFINE name == IF m.is_dir THEN StripTrailingSlash(m.name) ELSE m.name
           jailed == jail_name_for_profile(name, budget.max_depth, Portable)
           topology == TopologyFinding(p.seen, jailed.components, m.is_dir, Portable)
           path == FirstOf(<< <<jailed.finding # OK, jailed.finding>>,
                              <<portable_name_violation(jailed), "PathInvalidChar">>,
                              <<topology # OK, topology>> >>)
           dear == budget.max_ratio # << >>
                     /\ ratio_exceeds(m.size, m.size, budget.max_ratio[1])
           refused == FirstOf(<< <<m.size > budget.max_member, "QuotaMember">>,
                                 <<dear, "QuotaRatio">> >>)
           total == p.total + m.size
           stop == FirstOf(<< <<total > MaxU64, "QuotaOverflow">>,
                              <<total > budget.max_total, "QuotaTotal">> >>)
           n == [m EXCEPT !.components = jailed.components, !.strip = name # m.name]
           q == PlanSevenZMember(budget, p, m)
<1>1. q = IF p.stopped THEN p
          ELSE IF refused # OK THEN [p EXCEPT !.findings = Append(@, refused)]
          ELSE IF stop # OK
          THEN [[p EXCEPT !.findings = Append(@, stop)] EXCEPT !.stopped = TRUE]
          ELSE IF path # OK THEN [[p EXCEPT !.total = total] EXCEPT !.findings = Append(@, path)]
          ELSE [[p EXCEPT !.total = total] EXCEPT
                   !.planned = Append(@, n),
                   !.seen = Admit(@, jailed.components, m.is_dir, Portable)]
  BY DEF PlanSevenZMember
<1>2. refused \notin PlanForeign
  <2> HIDE DEF dear
  <2> QED BY PlanCodes, AnyOf2
<1>3. path \notin PlanForeign
  <2>1. jailed.finding \notin PlanForeign /\ topology \notin PlanForeign
    BY JailCodes, TopologyCodes
  <2> HIDE DEF jailed, topology
  <2> QED BY <2>1, PlanCodes, AnyOf3
<1>4. stop \notin PlanForeign
  <2> HIDE DEF total
  <2> QED BY PlanCodes, AnyOf2
<1> HIDE DEF q, n, jailed, refused, stop, path, total
<1>5. CASE p.stopped \/ refused # OK \/ stop # OK \/ path # OK
  <2>1. \E f : /\ f \notin PlanForeign
               /\ \/ q = p \/ q = [p EXCEPT !.findings = Append(@, f)]
                  \/ q = [[p EXCEPT !.findings = Append(@, f)] EXCEPT !.stopped = TRUE]
                  \/ q = [[p EXCEPT !.total = total] EXCEPT !.findings = Append(@, f)]
    BY <1>1, <1>2, <1>3, <1>4, <1>5, PlanCodes
  <2>2. PICK f : /\ f \notin PlanForeign
                 /\ \/ q = p \/ q = [p EXCEPT !.findings = Append(@, f)]
                    \/ q = [[p EXCEPT !.findings = Append(@, f)] EXCEPT !.stopped = TRUE]
                    \/ q = [[p EXCEPT !.total = total] EXCEPT !.findings = Append(@, f)]
    BY <2>1
  <2>3. q.findings = p.findings \/ q.findings = Append(p.findings, f)
    BY <2>2 DEF IsPlan, PlanFields
  <2> QED BY <2>2, <2>3 DEF Reports, q
<1>6. CASE ~(p.stopped \/ refused # OK \/ stop # OK \/ path # OK)
  <2>1. \E x, y : q = [[p EXCEPT !.total = total] EXCEPT !.planned = x, !.seen = y]
    BY <1>1, <1>6 DEF IsPlan, PlanFields
  <2>2. q.findings = p.findings
    BY <2>1 DEF IsPlan, PlanFields
  <2> QED BY <2>2 DEF Reports, q
<1> QED BY <1>5, <1>6

\* What a plan has found begins with a finding of a planner.
PlanReport(p) == p.findings # <<>> => Head(p.findings) \notin PlanForeign

\* A planner's loop reports its own findings only.
LEMMA RunReports ==
    ASSUME NEW profile, NEW n \in Nat, NEW h, h[0] = NewPlan,
           \A k \in Nat : k < n /\ IsPlan(h[k])
               => Plans(profile, h[k], h[k + 1]) /\ Reports(h[k], h[k + 1])
    PROVE PlanReport(h[n])
<1> DEFINE T == {k \in Nat : k <= n => PlanInv(profile, h[k]) /\ IsASeq(h[k].findings)
                                       /\ PlanReport(h[k])}
<1>1. 0 \in T
  <2>1. IsASeq(h[0].findings) /\ h[0].findings = <<>>
    BY DEF NewPlan, IsASeq
  <2> QED BY <2>1, NewPlanInv DEF PlanReport
<1>2. ASSUME NEW k \in Nat, k \in T PROVE k + 1 \in T
  <2> SUFFICES ASSUME k + 1 <= n PROVE PlanInv(profile, h[k + 1]) /\ IsASeq(h[k + 1].findings)
                                       /\ PlanReport(h[k + 1])
    OBVIOUS
  <2>1. k < n /\ PlanInv(profile, h[k]) /\ IsASeq(h[k].findings) /\ PlanReport(h[k])
    BY <1>2
  <2>2. Plans(profile, h[k], h[k + 1]) /\ Reports(h[k], h[k + 1])
    BY <2>1 DEF PlanInv
  <2>3. PlanInv(profile, h[k + 1])
    BY <2>1, <2>2, PlansKeep
  <2>4. CASE h[k + 1].findings = h[k].findings
    BY <2>1, <2>3, <2>4 DEF PlanReport
  <2>5. CASE \E f : f \notin PlanForeign /\ h[k + 1].findings = Append(h[k].findings, f)
    <3>1. PICK f : f \notin PlanForeign /\ h[k + 1].findings = Append(h[k].findings, f)
      BY <2>5
    <3> DEFINE x == h[k].findings
               y == h[k + 1].findings
    <3>2. y = Append(x, f) /\ IsASeq(x) /\ (x # <<>> => Head(x) \notin PlanForeign)
      BY <2>1, <3>1 DEF PlanReport
    <3>3. IsASeq(y) /\ Head(y) \notin PlanForeign
      <4> HIDE DEF x, y
      <4>1. PICK S : x \in Seq(S)
        BY <3>2 DEF IsASeq
      <4>2. y \in Seq(S \cup {f}) /\ (IF x = <<>> THEN Head(y) = f ELSE Head(y) = Head(x))
        BY <3>2, <4>1
      <4> QED BY <3>1, <3>2, <4>2 DEF IsASeq
    <3> QED BY <2>3, <3>3 DEF PlanReport
  <2> QED BY <2>2, <2>4, <2>5 DEF Reports
<1>3. \A k \in Nat : k \in T
  <2> HIDE DEF T
  <2> QED BY <1>1, <1>2, Jail!SetInduction
<1> QED BY <1>3

\* The report of the TAR planner.
LEMMA TarPlanReport ==
    ASSUME NEW s, NEW budget, Nameable(s.members) PROVE PlanReport(PlanMembers(s, budget))
<1> DEFINE ms == s.members
           n == Len(ms)
<1>1. n \in Nat /\ DOMAIN ms = 1..n
  BY NameableAt
<1>2. PlanMembers(s, budget) = TarFold!Fold(budget, NewPlan, ms)
  BY DEF PlanMembers, TarFold!Fold, FoldLeft, MapThenFoldSet, TarFold!FoldLeft,
         TarFold!MapThenFoldSet, Max, TarFold!Max
<1>3. PICK h : TarFold!IsRun(h, budget, NewPlan, ms, n)
               /\ TarFold!Fold(budget, NewPlan, ms) = h[n]
  BY <1>1, TarFold!FoldRuns
<1>4. h[0] = NewPlan
      /\ \A k \in Nat : k < n => h[k + 1] = PlanMember(budget, h[k], ms[k + 1])
  BY <1>3 DEF TarFold!IsRun
<1>5. \A k \in Nat : k < n /\ IsPlan(h[k])
          => Plans(Portable, h[k], h[k + 1]) /\ Reports(h[k], h[k + 1])
  BY <1>4, NameableAt, TarPlans, TarReports
<1> HIDE DEF n
<1> QED BY <1>1, <1>2, <1>3, <1>4, <1>5, RunReports

\* The report of the 7z planner.
LEMMA SevenZPlanReport ==
    ASSUME NEW ms, NEW budget, Nameable(ms) PROVE PlanReport(SevenZPlan(ms, budget))
<1> DEFINE n == Len(ms)
           plan == SevenZPlan(ms, budget)
<1>1. n \in Nat /\ DOMAIN ms = 1..n
  BY NameableAt
<1>2. plan = SevenZFold!Fold(budget, NewPlan, ms)
  BY DEF SevenZPlan, SevenZFold!Fold, FoldLeft, MapThenFoldSet, SevenZFold!FoldLeft,
         SevenZFold!MapThenFoldSet, Max, SevenZFold!Max
<1> HIDE DEF plan
<1>3. PICK h : SevenZFold!IsRun(h, budget, NewPlan, ms, n)
               /\ SevenZFold!Fold(budget, NewPlan, ms) = h[n]
  BY <1>1, SevenZFold!FoldRuns
<1>4. h[0] = NewPlan
      /\ \A k \in Nat : k < n => h[k + 1] = PlanSevenZMember(budget, h[k], ms[k + 1])
  BY <1>3 DEF SevenZFold!IsRun
<1>5. \A k \in Nat : k < n /\ IsPlan(h[k])
          => Plans(Portable, h[k], h[k + 1]) /\ Reports(h[k], h[k + 1])
  BY <1>4, NameableAt, SevenZPlans, SevenZReports
<1> HIDE DEF n
<1>6. PlanReport(plan)
  BY <1>1, <1>2, <1>3, <1>4, <1>5, RunReports
<1> QED BY <1>6 DEF plan

\* The report of the ZIP planner.
LEMMA ZipPlanReport ==
    ASSUME NEW ms, NEW budget, NEW profile, Nameable(ms)
    PROVE PlanReport(ZipPlanOf(ms, budget, profile))
<1> DEFINE n == Len(ms)
           x == <<budget, profile>>
           plan == ZipPlanOf(ms, budget, profile)
<1>1. n \in Nat /\ DOMAIN ms = 1..n
  BY NameableAt
<1>2. plan = ZipFold!Fold(x, NewZipPlan, ms)
  <2>1. x[1] = budget /\ x[2] = profile
    OBVIOUS
  <2> HIDE DEF x
  <2> QED BY <2>1 DEF ZipPlanOf, ZipFold!Fold, FoldLeft, MapThenFoldSet, ZipFold!FoldLeft,
                ZipFold!MapThenFoldSet, Max, ZipFold!Max, ZipOp
<1> HIDE DEF plan
<1>3. PICK h : ZipFold!IsRun(h, x, NewZipPlan, ms, n)
               /\ ZipFold!Fold(x, NewZipPlan, ms) = h[n]
  BY <1>1, ZipFold!FoldRuns
<1>4. h[0] = NewPlan
      /\ \A k \in Nat : k < n => h[k + 1] = PlanZipMember(budget, profile, h[k], ms[k + 1])
  BY <1>3, NewPlanInv DEF ZipFold!IsRun, ZipOp
<1>5. \A k \in Nat : k < n /\ IsPlan(h[k])
          => Plans(JailProfile(profile), h[k], h[k + 1]) /\ Reports(h[k], h[k + 1])
  BY <1>4, NameableAt, ZipPlans, ZipReports
<1> HIDE DEF n, x
<1>6. PlanReport(plan)
  BY <1>1, <1>2, <1>3, <1>4, <1>5, RunReports
<1> QED BY <1>6 DEF plan

-----------------------------------------------------------------------------
(***************************************************************************)
(* The findings of the readers                                             *)
(***************************************************************************)
\* No reader reports a quota of the members or of the archive, a limit of a
\* codec, a failure of the source or of the covering.
ReadForeign == {"QuotaMember", "QuotaTotal", "QuotaRatio", "QuotaArchive", "HeaderLimit",
                "OutputLimit", "Source", "SourceIo", "CoveringInconsistent"}

\* The codes of the TAR readers.
LEMMA TarCodes ==
    /\ None \notin ReadForeign /\ "running" \notin ReadForeign /\ "accepted" \notin ReadForeign
    /\ "TarTruncated" \notin ReadForeign /\ "QuotaMetadata" \notin ReadForeign
    /\ "QuotaFiles" \notin ReadForeign /\ "TarGnuState" \notin ReadForeign
    /\ "TarPaxState" \notin ReadForeign /\ "TarTerminator" \notin ReadForeign
    /\ "TarPadding" \notin ReadForeign /\ "TarFeatureUnsupported" \notin ReadForeign
    /\ "TarType" \notin ReadForeign /\ "PathUnicode" \notin ReadForeign
    /\ "PathEmpty" \notin ReadForeign /\ "PathDepth" \notin ReadForeign
    /\ "PathNul" \notin ReadForeign /\ "TarPaxRecord" \notin ReadForeign
    /\ "TarGnuLongName" \notin ReadForeign
BY DEF ReadForeign, None

\* What the checks of a header report.
LEMMA ChecksSay ==
    ASSUME NEW order \in Seq(Check), NEW flaws
    PROVE FirstFinding(order, flaws) \notin ReadForeign
<1> DEFINE hits == {i \in DOMAIN order : order[i][1] \in flaws}
<1>1. CASE hits = {}
  BY <1>1, TarCodes DEF FirstFinding
<1>2. CASE hits # {}
  <2>1. hits \subseteq Nat
    OBVIOUS
  <2>2. Min(hits) \in hits
    BY <1>2, <2>1, MinOf
  <2>3. FirstFinding(order, flaws) = order[Min(hits)][2]
    BY <1>2 DEF FirstFinding
  <2>4. order[Min(hits)] \in Check
    BY <2>2
  <2>5. \A p \in Check : p[2] \notin ReadForeign
    BY DEF Check, ReadForeign
  <2> QED BY <2>3, <2>4, <2>5
<1> QED BY <1>1, <1>2

\* What a TAR header is refused for.
LEMMA HeaderSays ==
    ASSUME NEW h, NEW d \in Dialects PROVE parse_header(h, d) \notin ReadForeign
<1>1. /\ <<"magic", "TarDialect">> \in Check
      /\ <<"checksum", "TarChecksum">> \in Check
      /\ <<"feature", "TarFeatureUnsupported">> \in Check
      /\ <<"type", "TarType">> \in Check
      /\ <<"reserved", "TarDialect">> \in Check
      /\ <<"linkname", "TarType">> \in Check
      /\ <<"device", "TarType">> \in Check
      /\ <<"owner", "TarDialect">> \in Check
      /\ <<"text", "TarDialect">> \in Check
      /\ <<"utf8", "PathUnicode">> \in Check
      /\ <<"dirsize", "TarType">> \in Check
      /\ <<"base256", "TarFeatureUnsupported">> \in Check
      /\ <<"digits", "TarNumeric">> \in Check
      /\ <<"size256", "TarFeatureUnsupported">> \in Check
      /\ <<"sizedigits", "TarNumeric">> \in Check
  BY DEF Check
<1>2. NumericChecks \in Seq(Check)
  <2>1. /\ parse_octal("base256") = "TarFeatureUnsupported" /\ parse_octal("digits") = "TarNumeric"
        /\ parse_octal("size256") = "TarFeatureUnsupported"
        /\ parse_octal("sizedigits") = "TarNumeric"
    BY DEF parse_octal
  <2> QED BY <1>1, <2>1 DEF NumericChecks
<1>3. ASSUME NEW a \in Seq(Check), NEW c \in Seq(Check), NEW flaws
      PROVE FirstFinding(a \o NumericChecks \o c, flaws) \notin ReadForeign
  <2>1. a \o NumericChecks \o c \in Seq(Check)
    BY <1>2
  <2> QED BY <2>1, ChecksSay
<1>4. CASE d = "ustar"
  <2> DEFINE a == << <<"magic", "TarDialect">>, <<"checksum", "TarChecksum">>,
                     <<"feature", "TarFeatureUnsupported">>, <<"type", "TarType">>,
                     <<"reserved", "TarDialect">>, <<"linkname", "TarType">> >>
             c == << <<"device", "TarType">>, <<"owner", "TarDialect">>,
                     <<"text", "TarDialect">>, <<"utf8", "PathUnicode">>,
                     <<"dirsize", "TarType">> >>
  <2>1. a \in Seq(Check) /\ c \in Seq(Check)
    BY <1>1
  <2>2. parse_header(h, d) = FirstFinding(a \o NumericChecks \o c, Flaws(h, d))
    BY <1>4 DEF parse_header, UstarHeaderFinding
  <2> HIDE DEF a, c
  <2> QED BY <2>1, <2>2, <1>3
<1>5. CASE d = "pax"
  <2> DEFINE a == << <<"magic", "TarDialect">>, <<"checksum", "TarChecksum">>,
                     <<"feature", "TarFeatureUnsupported">>, <<"type", "TarType">>,
                     <<"reserved", "TarDialect">>, <<"linkname", "TarType">> >>
             c == << <<"dirsize", "TarType">>, <<"device", "TarType">>,
                     <<"owner", "TarDialect">>, <<"text", "TarDialect">> >>
  <2>1. a \in Seq(Check) /\ c \in Seq(Check)
    BY <1>1
  <2>2. parse_header(h, d) = FirstFinding(a \o NumericChecks \o c, Flaws(h, d))
    BY <1>5 DEF parse_header, PaxHeaderFinding
  <2> HIDE DEF a, c
  <2> QED BY <2>1, <2>2, <1>3
<1>6. CASE d = "gnu"
  <2> DEFINE a == << <<"magic", "TarDialect">>, <<"checksum", "TarChecksum">>,
                     <<"feature", "TarFeatureUnsupported">>, <<"type", "TarType">>,
                     <<"linkname", "TarType">>, <<"reserved", "TarDialect">> >>
             c == << <<"dirsize", "TarType">>, <<"device", "TarType">>,
                     <<"owner", "TarDialect">>, <<"text", "TarDialect">> >>
  <2>1. a \in Seq(Check) /\ c \in Seq(Check)
    BY <1>1
  <2>2. parse_header(h, d) = FirstFinding(a \o NumericChecks \o c, Flaws(h, d))
    BY <1>6 DEF parse_header, GnuHeaderFinding
  <2> HIDE DEF a, c
  <2> QED BY <2>1, <2>2, <1>3
<1> QED BY <1>4, <1>5, <1>6 DEF Dialects

\* What a path, a record or a payload is refused for.
LEMMA PathSays == ASSUME NEW name PROVE PathFinding(name) \notin ReadForeign
BY TarCodes DEF PathFinding

\* What one pax record is refused for.
LEMMA RecordSays ==
    ASSUME NEW items, NEW i PROVE PaxRecordFinding(items, i) \notin ReadForeign
BY TarCodes, PathSays DEF PaxRecordFinding

\* What the records of a pax extension are refused for.
LEMMA RecordsSay ==
    ASSUME NEW last, NEW size PROVE parse_records(last, size).finding \notin ReadForeign
BY TarCodes, RecordSays DEF parse_records

\* What a long-name carrier is refused for.
LEMMA CarrierSays ==
    ASSUME NEW last, NEW size PROVE parse_carrier_payload(last, size) \notin ReadForeign
BY TarCodes, PathSays DEF parse_carrier_payload

\* A scan whose verdict is a reader's own.
Says(s) == IsScan(s) /\ s.verdict \notin ReadForeign

\* A refusal keeps the scan's shape.
LEMMA RejectSays ==
    ASSUME NEW s, IsScan(s), NEW f, f \notin ReadForeign PROVE Says(Reject(s, f))
<1>1. IsScan(Reject(s, f))
  BY RejectStops DEF Stops
<1>2. Reject(s, f).verdict = f
  BY DEF Reject, IsScan, ScanFields
<1> QED BY <1>1, <1>2 DEF Says

\* A charge against the metadata budget.
LEMMA ChargeSays ==
    ASSUME NEW s, Says(s), NEW a \in Nat PROVE Says(add_metadata(s, a))
<1>1. CASE s.metadata + a > s.maxMetadata
  BY <1>1, RejectSays, TarCodes DEF add_metadata, Says
<1>2. CASE ~(s.metadata + a > s.maxMetadata)
  <2>1. IsScan(add_metadata(s, a))
    BY ChargeStops DEF Stops, Says
  <2>2. add_metadata(s, a).verdict = s.verdict
    BY <1>2 DEF add_metadata, Says, IsScan, ScanFields
  <2> QED BY <2>1, <2>2 DEF Says
<1> QED BY <1>1, <1>2

\* A charge against the file budget.
LEMMA ChargeMemberSays == ASSUME NEW s, Says(s) PROVE Says(ChargeMember(s))
BY ChargeSays, RejectSays, TarCodes, BlockAssumption DEF ChargeMember, Says

\* The end of a TAR archive.
LEMMA TerminatorSays == ASSUME NEW s, Says(s), NEW w PROVE Says(Terminator(s, w))
<1> DEFINE charged == add_metadata(s, 2 * BLOCK_LEN)
<1>1. Says(charged)
  BY ChargeSays, BlockAssumption
<1>2. IsScan(s)
  BY DEF Says
<1> HIDE DEF charged
<1>3. ASSUME NEW c PROVE Says([charged EXCEPT !.verdict = "accepted", !.covering = c])
  BY <1>1, TarCodes DEF Says, IsScan, ScanFields
<1>4. PendingFinding(s.dialect) \notin ReadForeign
  BY TarCodes DEF PendingFinding
<1>5. Says(Reject(s, PendingFinding(s.dialect))) /\ Says(Reject(s, "TarTerminator"))
      /\ Says(Reject(s, "TarPadding"))
  BY <1>2, <1>4, RejectSays, TarCodes
<1> QED BY <1>1, <1>3, <1>5 DEF Terminator, charged

\* A member is read.
LEMMA PushSays ==
    ASSUME NEW s, Says(s), NEW w, NEW size, NEW name, NEW pathFrom, NEW sizeFrom
    PROVE Says(PushMember(s, w, size, name, pathFrom, sizeFrom))
<1>1. IsScan(s)
  BY DEF Says
<1>2. Says(Reject(s, "TarTruncated")) /\ Says(Reject(s, "TarPadding"))
  BY <1>1, RejectSays, TarCodes
<1>3. ASSUME NEW x, NEW y PROVE Says([s EXCEPT !.members = x, !.offset = y])
  BY DEF Says, IsScan, ScanFields
<1> QED BY <1>2, <1>3 DEF PushMember

\* A member is pushed on a charged scan without its overrides.
LEMMA DropSays == ASSUME NEW c, Says(c) PROVE Says([c EXCEPT !.pending = <<>>])
BY DEF Says, IsScan, ScanFields

\* A pax extension is read.
LEMMA PaxExtensionSays ==
    ASSUME NEW s, Says(s), NEW w, w.h.size \in Nat PROVE Says(PaxExtension(s, w))
<1> DEFINE size == w.h.size
           charged == add_metadata(s, BLOCK_LEN + round_up_block(size))
           parsed == parse_records(w.body, size)
<1>1. Says(charged)
  <2>1. BLOCK_LEN + round_up_block(size) \in Nat
    BY RoundUpNat, BlockAssumption
  <2> QED BY <2>1, ChargeSays
<1>2. IsScan(s)
  BY DEF Says
<1>3. parsed.finding \notin ReadForeign
  BY RecordsSay
<1> HIDE DEF charged, parsed
<1>4. ASSUME NEW x, NEW g, NEW p, NEW y
      PROVE Says([charged EXCEPT !.extensions = x, !.globals = g, !.pending = p, !.offset = y])
  BY <1>1 DEF Says, IsScan, ScanFields
<1>5. Says(Reject(s, "TarPaxState")) /\ Says(Reject(s, "QuotaMetadata"))
      /\ Says(Reject(s, "TarTruncated")) /\ Says(Reject(s, "TarPadding"))
      /\ Says(Reject(s, parsed.finding))
  BY <1>2, <1>3, RejectSays, TarCodes
<1> QED BY <1>1, <1>4, <1>5 DEF PaxExtension, charged, parsed

\* A long-name carrier is read.
LEMMA GnuCarrierSays ==
    ASSUME NEW s, Says(s), NEW w, w.h.size \in Nat PROVE Says(GnuCarrier(s, w))
<1> DEFINE size == w.h.size
           charged == add_metadata(s, BLOCK_LEN + round_up_block(size))
           bad == parse_carrier_payload(w.body, size)
<1>1. Says(charged)
  <2>1. BLOCK_LEN + round_up_block(size) \in Nat
    BY RoundUpNat, BlockAssumption
  <2> QED BY <2>1, ChargeSays
<1>2. IsScan(s)
  BY DEF Says
<1>3. bad \notin ReadForeign
  BY CarrierSays
<1> HIDE DEF charged, bad
<1>4. ASSUME NEW x, NEW p, NEW y
      PROVE Says([charged EXCEPT !.extensions = x, !.pending = p, !.offset = y])
  BY <1>1 DEF Says, IsScan, ScanFields
<1>5. Says(Reject(s, "TarGnuState")) /\ Says(Reject(s, "QuotaMetadata"))
      /\ Says(Reject(s, "TarTruncated")) /\ Says(Reject(s, "TarPadding"))
      /\ Says(Reject(s, bad))
  BY <1>2, <1>3, RejectSays, TarCodes
<1> QED BY <1>1, <1>4, <1>5 DEF GnuCarrier, charged, bad

\* A member of a pax archive.
LEMMA PaxMemberSays == ASSUME NEW s, Says(s), NEW w PROVE Says(PaxMember(s, w))
<1> DEFINE charged == ChargeMember(s)
           dropped == [charged EXCEPT !.pending = <<>>]
<1>1. Says(charged) /\ Says(dropped)
  BY ChargeMemberSays, DropSays
<1>2. IsScan(s)
  BY DEF Says
<1>3. Says(Reject(s, "TarType")) /\ \A name : Says(Reject(s, PathFinding(name)))
  BY <1>2, PathSays, RejectSays, TarCodes
<1> HIDE DEF dropped
<1>4. ASSUME NEW size, NEW name, NEW pathFrom, NEW sizeFrom
      PROVE Says(PushMember(dropped, w, size, name, pathFrom, sizeFrom))
  BY <1>1, PushSays
<1> QED BY <1>1, <1>3, <1>4, Zenon DEF PaxMember, dropped

\* A member of an old GNU archive.
LEMMA GnuMemberSays == ASSUME NEW s, Says(s), NEW w PROVE Says(GnuMember(s, w))
<1> DEFINE charged == ChargeMember(s)
           dropped == [charged EXCEPT !.pending = <<>>]
<1>1. Says(charged) /\ Says(dropped)
  BY ChargeMemberSays, DropSays
<1>2. IsScan(s)
  BY DEF Says
<1>3. \A name : Says(Reject(s, PathFinding(name)))
  BY <1>2, PathSays, RejectSays
<1> HIDE DEF dropped
<1>4. ASSUME NEW size, NEW name, NEW pathFrom, NEW sizeFrom
      PROVE Says(PushMember(dropped, w, size, name, pathFrom, sizeFrom))
  BY <1>1, PushSays
<1> QED BY <1>1, <1>3, <1>4, Zenon DEF GnuMember, dropped

\* A turn of a TAR reader.
LEMMA TarStepSays ==
    ASSUME NEW s, Says(s), s.dialect \in Dialects, NEW w, IsWindow(s.dialect, w)
    PROVE Says(TarStep(s, w))
<1>1. IsScan(s)
  BY DEF Says
<1>2. \A d \in Dialects : Says(Reject(s, parse_header(w.h, d)))
  BY <1>1, HeaderSays, RejectSays
<1>3. Says(Terminator(s, w)) /\ Says(Reject(s, "TarTruncated"))
  BY <1>1, TerminatorSays, RejectSays, TarCodes
<1>4. \A d \in Dialects : w.h.k # "zero" /\ parse_header(w.h, d) = None => w.h.size \in Nat
  BY HeaderIsHeader, WidthAssumption DEF IsWindow
<1>5. Says(UstarStep(s, w))
  <2>1. Says(ChargeMember(s))
    BY ChargeMemberSays
  <2>2. Says(PushMember(ChargeMember(s), w, w.h.size, w.h.name, FromHeader, FromHeader))
    BY <2>1, PushSays
  <2>3. Says(Reject(s, parse_header(w.h, "ustar")))
    BY <1>2 DEF Dialects
  <2> QED BY <1>3, <2>1, <2>2, <2>3 DEF UstarStep
<1>6. Says(PaxStep(s, w))
  <2>1. Says(Reject(s, parse_header(w.h, "pax")))
        /\ (w.h.k # "zero" /\ parse_header(w.h, "pax") = None => w.h.size \in Nat)
    BY <1>2, <1>4 DEF Dialects
  <2> QED BY <1>3, <2>1, PaxExtensionSays, PaxMemberSays DEF PaxStep
<1>7. Says(GnuStep(s, w))
  <2>1. Says(Reject(s, parse_header(w.h, "gnu")))
        /\ (w.h.k # "zero" /\ parse_header(w.h, "gnu") = None => w.h.size \in Nat)
    BY <1>2, <1>4 DEF Dialects
  <2> QED BY <1>3, <2>1, GnuCarrierSays, GnuMemberSays DEF GnuStep
<1> QED BY <1>3, <1>5, <1>6, <1>7 DEF TarStep, Dialects

\* A new scan.
LEMMA NewScanSays ==
    ASSUME NEW d, NEW len, NEW files, NEW metadata
    PROVE Says(NewScan(d, len, files, metadata))
<1>1. IsScan(NewScan(d, len, files, metadata))
  BY DEF NewScan, IsScan, ScanFields
<1> QED BY <1>1, TarCodes DEF Says, NewScan

\* The codes of the ZIP readers.
LEMMA ZipCodes ==
    /\ OK \notin ReadForeign /\ "running" \notin ReadForeign /\ "accepted" \notin ReadForeign
    /\ "QuotaMetadata" \notin ReadForeign /\ "QuotaFiles" \notin ReadForeign
    /\ "QuotaOverflow" \notin ReadForeign /\ "ZipDiffC4Offset" \notin ReadForeign
    /\ "ZipOverlap" \notin ReadForeign /\ "ZipDiffC1Stream" \notin ReadForeign
    /\ "ZipDiffC5Zip64" \notin ReadForeign /\ "ZipDiffC2Eocd" \notin ReadForeign
    /\ "ZipExtra" \notin ReadForeign /\ "ZipDiffA3Name" \notin ReadForeign
    /\ "ZipFlags" \notin ReadForeign /\ "ZipSymlink" \notin ReadForeign
    /\ "ZipDiffA4Dir" \notin ReadForeign /\ "ZipEncoding" \notin ReadForeign
    /\ "ZipDiffA2Size" \notin ReadForeign /\ "ZipDiffC3Count" \notin ReadForeign
    /\ "FormatUnsupported" \notin ReadForeign /\ "MethodUnsupported" \notin ReadForeign
    /\ "ZipDiffA1Method" \notin ReadForeign /\ "ZipDiffA5Crypt" \notin ReadForeign
BY DEF ReadForeign, OK

\* What an extra area is refused for.
LEMMA ExtraSays ==
    ASSUME NEW extra, IsExtra(extra), NEW f, DOMAIN f = DOMAIN extra,
           \A i \in DOMAIN extra : f[i] \notin ReadForeign
    PROVE ExtraFinding(f) \notin ReadForeign
<1> DEFINE hits == {i \in DOMAIN f : f[i] # OK}
<1>1. CASE hits = {}
  BY <1>1, ZipCodes DEF ExtraFinding
<1>2. CASE hits # {}
  <2>1. hits \subseteq Nat
    BY DEF IsExtra
  <2>2. Min(hits) \in hits
    BY <1>2, <2>1, MinOf
  <2>3. ExtraFinding(f) = f[Min(hits)]
    BY <1>2 DEF ExtraFinding
  <2> QED BY <2>2, <2>3
<1> QED BY <1>1, <1>2

\* What the extra fields of a ZIP32 header are refused for.
LEMMA ExtraFieldsSay ==
    ASSUME NEW extra, IsExtra(extra), NEW profile
    PROVE classify_extra_fields(extra, profile) \notin ReadForeign
<1> DEFINE F(i) == FirstOf(<< <<extra[i].id \in {"short", "over"}, "ZipExtra">>,
                              <<\E j \in 1..(i - 1) : extra[j].id = extra[i].id, "ZipExtra">>,
                              <<profile \in ClosedProfiles, "ZipExtra">>,
                              <<extra[i].id = "zip64", "ZipDiffC5Zip64">>,
                              <<extra[i].id = "upath", "ZipDiffA3Name">> >>)
           f == [i \in DOMAIN extra |-> F(i)]
<1>1. ASSUME NEW i PROVE F(i) \notin ReadForeign
  BY ZipCodes, AnyOf5
<1>2. classify_extra_fields(extra, profile) = ExtraFinding(f)
  BY DEF classify_extra_fields
<1> HIDE DEF F
<1>3. DOMAIN f = DOMAIN extra /\ \A i \in DOMAIN extra : f[i] \notin ReadForeign
  BY <1>1
<1> HIDE DEF f
<1> QED BY <1>2, <1>3, ExtraSays

\* What the extra fields of a ZIP64 header are refused for.
LEMMA Zip64ExtraFieldsSay ==
    ASSUME NEW extra, IsExtra(extra)
    PROVE classify_zip64_extra_fields(extra) \notin ReadForeign
<1> DEFINE F(i) == FirstOf(<< <<extra[i].id \in {"short", "over"}, "ZipExtra">>,
                              <<extra[i].id = "upath", "ZipDiffA3Name">>,
                              <<extra[i].id # "zip64", "ZipExtra">>,
                              <<i > 1, "ZipExtra">> >>)
           f == [i \in DOMAIN extra |-> F(i)]
<1>1. ASSUME NEW i PROVE F(i) \notin ReadForeign
  BY ZipCodes, AnyOf4
<1>2. classify_zip64_extra_fields(extra) = ExtraFinding(f)
  BY DEF classify_zip64_extra_fields
<1> HIDE DEF F
<1>3. DOMAIN f = DOMAIN extra /\ \A i \in DOMAIN extra : f[i] \notin ReadForeign
  BY <1>1
<1> HIDE DEF f
<1> QED BY <1>2, <1>3, ExtraSays

\* What the parts of a member's headers are refused for.
LEMMA StructureSays ==
    ASSUME NEW sigs PROVE reject_structural_metadata(sigs) \notin ReadForeign
BY ZipCodes, AnyOf3 DEF reject_structural_metadata

\* What the flags of a ZIP header are refused for.
LEMMA FlagsSay ==
    ASSUME NEW flags, NEW profile
    PROVE validate_general_purpose_flags(flags, profile) \notin ReadForeign
BY ZipCodes DEF validate_general_purpose_flags

\* What a central header is refused for.
LEMMA DirectorySays ==
    ASSUME NEW name, NEW attrs, NEW method, NEW crc, NEW comp, NEW uncomp
    PROVE validate_directory_metadata(name, attrs, method, crc, comp, uncomp) \notin ReadForeign
BY ZipCodes, AnyOf5, ZenonT(40) DEF validate_directory_metadata

\* What a ZIP name is refused for.
LEMMA NameSays ==
    ASSUME NEW name, NEW flags, NEW profile
    PROVE decode_name_for_profile(name, flags, profile) \notin ReadForeign
BY ZipCodes DEF decode_name_for_profile

\* What a local header is refused for.
LEMMA LocalSays ==
    ASSUME NEW lfh, NEW off, NEW len, NEW max
    PROVE parse_lfh_bounded(lfh, off, len, max) \notin ReadForeign
BY ZipCodes, AnyOf4 DEF parse_lfh_bounded

\* What a data descriptor is refused for.
LEMMA DescriptorSays ==
    ASSUME NEW desc, NEW off, NEW crc, NEW comp, NEW uncomp, NEW width, NEW len
    PROVE parse_data_descriptor_with_width(desc, off, crc, comp, uncomp, width, len)
            \notin ReadForeign
BY ZipCodes, AnyOf2, Zenon DEF parse_data_descriptor_with_width

\* What the layout of the records is refused for.
LEMMA LayoutSays ==
    ASSUME NEW members, NEW cd_off PROVE check_layout(members, cd_off) \notin ReadForeign
<1> DEFINE parts == [i \in DOMAIN members |-> LocalRecord(members[i])]
           verdict == exact_partition([start |-> 0, end |-> cd_off], parts)
           past == \E i \in DOMAIN parts : parts[i].end > cd_off
<1>1. check_layout(members, cd_off)
        = CASE members = <<>> -> IF cd_off = 0 THEN OK ELSE "ZipDiffC1Stream"
            [] members # <<>> /\ past -> "ZipOverlap"
            [] OTHER -> CASE verdict \in {"Overlap", "PartOutside"} -> "ZipOverlap"
                          [] verdict = "EmptyPart" -> "ZipDiffC4Offset"
                          [] verdict = OK -> OK
                          [] OTHER -> "ZipDiffC1Stream"
  BY DEF check_layout
<1> HIDE DEF verdict, past
<1> QED BY <1>1, ZipCodes

\* What a member's compressed stream is refused for.
LEMMA StreamSays ==
    ASSUME NEW w, NEW at, NEW comp, NEW len
    PROVE StreamFinding(w, at, comp, len) \notin ReadForeign
BY ZipCodes, AnyOf3, Zenon DEF StreamFinding

\* What the end records are refused for.
LEMMA EndSays ==
    ASSUME NEW end PROVE resolve_zip64_end_records(end).finding \notin ReadForeign
<1>1. ClassicEnd(end.eocd).finding \notin ReadForeign
  BY ZipCodes, AnyOf2 DEF ClassicEnd
<1>2. Zip64End(end).finding \notin ReadForeign
  BY ZipCodes, AnyOf8 DEF Zip64End
<1> QED BY <1>1, <1>2 DEF resolve_zip64_end_records

\* What the end of a ZIP32 archive is refused for.
LEMMA Zip32EndSays ==
    ASSUME NEW s, NEW end PROVE Zip32EndFinding(s, end) \notin ReadForeign
<1> DEFINE e == end.eocd
           b1 == reject_structural_metadata(end.comment)
           a2 == e.this_disk # 0 \/ e.cd_disk # 0
           a3 == e.entries_on_disk # e.total_entries
           a4 == e.cd_size = U32Max \/ e.cd_offset = U32Max \/ e.total_entries = U16Max
           a5 == e.total_entries > s.maxFiles
           a6 == end.comment_len + e.cd_size > s.maxMetadata
           a7 == e.cd_offset + e.cd_size # end.off
           f == Zip32EndFinding(s, end)
<1>1. f = FirstOf(<< <<b1 # OK, b1>>, <<a2, "ZipDiffC3Count">>, <<a3, "ZipDiffC3Count">>,
                     <<a4, "ZipDiffC5Zip64">>, <<a5, "QuotaFiles">>, <<a6, "QuotaMetadata">>,
                     <<a7, "ZipDiffC4Offset">> >>)
  BY DEF Zip32EndFinding
<1>2. b1 \notin ReadForeign
  BY StructureSays
<1> HIDE DEF f, b1, a2, a3, a4, a5, a6, a7
<1>3. f \notin ReadForeign
  BY <1>1, <1>2, ZipCodes, AnyOf7
<1> QED BY <1>3 DEF f

\* What the end of a ZIP64 archive is refused for.
LEMMA Zip64EndSays ==
    ASSUME NEW s, NEW end PROVE Zip64EndFinding(s, end) \notin ReadForeign
<1> DEFINE r == resolve_zip64_end_records(end)
           next == IF r.pair = <<>> THEN end.off ELSE r.pair[1].zip64_eocd.offset
           pairLen == IF r.pair = <<>> THEN 0 ELSE ZIP64_EOCD_LEN + ZIP64_LOCATOR_LEN
           a1 == end.comment_len > s.maxMetadata
           b2 == reject_structural_metadata(end.comment)
           a3 == end.eocd.this_disk # 0 \/ end.eocd.cd_disk # 0
           b4 == r.finding
           a5 == r.total_entries > s.maxFiles
           a6 == r.cd_offset + r.cd_size # next
           a7 == end.comment_len + r.cd_size + pairLen > MaxU64
           a8 == end.comment_len + r.cd_size + pairLen > s.maxMetadata
           f == Zip64EndFinding(s, end)
<1>1. f = FirstOf(<< <<a1, "QuotaMetadata">>, <<b2 # OK, b2>>, <<a3, "ZipDiffC3Count">>,
                     <<b4 # OK, b4>>, <<a5, "QuotaFiles">>, <<a6, "ZipDiffC4Offset">>,
                     <<a7, "QuotaOverflow">>, <<a8, "QuotaMetadata">> >>)
  BY DEF Zip64EndFinding
<1>2. b2 \notin ReadForeign /\ b4 \notin ReadForeign
  BY StructureSays, EndSays
<1> HIDE DEF f, b2, b4, a1, a3, a5, a6, a7, a8
<1>3. f \notin ReadForeign
  BY <1>1, <1>2, ZipCodes, AnyOf8
<1> QED BY <1>3 DEF f

\* What a member is refused for.
LEMMA Zip32MemberSays ==
    ASSUME NEW s, NEW w, IsExtra(w.cdh.extra), IsExtra(w.lfh.extra)
    PROVE Zip32MemberFinding(s, w) \notin ReadForeign
<1> DEFINE c == w.cdh
           l == w.lfh
           gp3 == "desc" \in c.flags
           at == DataOffset(l, c.lfh_offset)
           b6 == classify_extra_fields(c.extra, s.profile)
           b7 == reject_structural_metadata(c.comment)
           b8 == parse_lfh_bounded(l, c.lfh_offset, s.len, MaxU64)
           b9 == classify_extra_fields(l.extra, s.profile)
           b14 == validate_general_purpose_flags(c.flags, s.profile)
           b16 == decode_name_for_profile(c.name, c.flags, s.profile)
           b17 == validate_directory_metadata(c.name, c.attrs, c.method, c.crc, c.comp, c.uncomp)
           b18 == StreamFinding(w, at, c.comp, s.len)
           b19 == IF gp3 THEN parse_data_descriptor_with_width(w.desc, at + c.comp, c.crc,
                                          c.comp, c.uncomp, "Zip32", s.len) ELSE OK
<1>1. /\ b6 \notin ReadForeign /\ b7 \notin ReadForeign /\ b8 \notin ReadForeign
      /\ b9 \notin ReadForeign /\ b14 \notin ReadForeign /\ b16 \notin ReadForeign
      /\ b17 \notin ReadForeign /\ b18 \notin ReadForeign
  BY ExtraFieldsSay, StructureSays, LocalSays, FlagsSay, NameSays, DirectorySays, StreamSays
<1>2. b19 \notin ReadForeign
  BY DescriptorSays, ZipCodes
<1> DEFINE a1 == Len(s.members) >= s.maxFiles
           a2 == s.pos + CDH_LEN > s.end[1].cd_size \/ ~c.sig
           a3 == U32Max \in {c.comp, c.uncomp, c.lfh_offset} \/ c.disk_start = U16Max
           a4 == c.disk_start # 0
           a5 == s.pos + CdhLen(c) > s.end[1].cd_size
           a10 == l.name # c.name
           a11 == l.method # c.method
           a12 == ("crypt" \in l.flags) # ("crypt" \in c.flags)
           a13 == l.flags # c.flags
           a15 == ~SizesAgree(l, gp3, c.comp, c.uncomp) \/ ~CrcAgrees(l, gp3, c.crc)
           f == Zip32MemberFinding(s, w)
<1>3. f = FirstOf(<< <<a1, "QuotaFiles">>, <<a2, "ZipDiffC3Count">>, <<a3, "ZipDiffC5Zip64">>,
                     <<a4, "ZipDiffC3Count">>, <<a5, "ZipDiffC3Count">>, <<b6 # OK, b6>>,
                     <<b7 # OK, b7>>, <<b8 # OK, b8>>, <<b9 # OK, b9>>, <<a10, "ZipDiffA3Name">>,
                     <<a11, "ZipDiffA1Method">>, <<a12, "ZipDiffA5Crypt">>, <<a13, "ZipFlags">>,
                     <<b14 # OK, b14>>, <<a15, "ZipDiffA2Size">>, <<b16 # OK, b16>>,
                     <<b17 # OK, b17>>, <<b18 # OK, b18>>, <<b19 # OK, b19>> >>)
  BY DEF Zip32MemberFinding
<1> HIDE DEF a1, a2, a3, a4, a5, a10, a11, a12, a13, a15
<1> HIDE DEF f, b6, b7, b8, b9, b14, b16, b17, b18, b19
<1>4. f \notin ReadForeign
  BY <1>1, <1>2, <1>3, ZipCodes, AnyOf19
<1> QED BY <1>4 DEF f

\* What a ZIP64 central header is refused for.
LEMMA Zip64CentralSays ==
    ASSUME NEW s, NEW w, IsExtra(w.cdh.extra) PROVE Zip64CentralFinding(s, w) \notin ReadForeign
<1> DEFINE c == w.cdh
           a1 == Len(s.members) >= s.maxFiles
           a2 == Len(s.members) >= s.end[1].total_entries
           a3 == s.pos + CDH_LEN > s.end[1].cd_size \/ ~c.sig
           a4 == c.disk_start # 0
           a5 == ~(c.flags \subseteq {"desc"})
           a6 == c.method \notin {0, 8}
           a7 == s.pos + CdhLen(c) > s.end[1].cd_size
           a8 == ~is_ascii(c.name)
           b9 == reject_structural_metadata(c.comment)
           b10 == classify_zip64_extra_fields(c.extra)
           f == Zip64CentralFinding(s, w)
<1>1. b9 \notin ReadForeign /\ b10 \notin ReadForeign
  BY StructureSays, Zip64ExtraFieldsSay
<1>2. f = FirstOf(<< <<a1, "QuotaFiles">>, <<a2, "ZipDiffC3Count">>, <<a3, "ZipDiffC3Count">>,
                     <<a4, "ZipDiffC3Count">>, <<a5, "ZipFlags">>, <<a6, "MethodUnsupported">>,
                     <<a7, "ZipDiffC3Count">>, <<a8, "ZipEncoding">>, <<b9 # OK, b9>>,
                     <<b10 # OK, b10>> >>)
  BY DEF Zip64CentralFinding
<1> HIDE DEF f, a1, a2, a3, a4, a5, a6, a7, a8, b9, b10
<1>3. f \notin ReadForeign
  BY <1>1, <1>2, ZipCodes, AnyOf10
<1> QED BY <1>3 DEF f

\* What a ZIP64 local header is refused for.
LEMMA Zip64LocalSays ==
    ASSUME NEW s, NEW w, IsExtra(w.lfh.extra), NEW v
    PROVE Zip64LocalFinding(s, w, v) \notin ReadForeign
<1> DEFINE c == w.cdh
           l == w.lfh
           gp3 == "desc" \in c.flags
           legacy == <<c.uncomp, c.comp, c.lfh_offset>>
           offsetOnly == /\ is_offset_only_zip64_member(v, legacy, s.end[1].pair # <<>>,
                                                        c.version, c.method)
                         /\ l.extra = <<>>
           valuesOk == IF gp3 THEN validate_zip64_streaming_local_values(l.extra[1], l,
                                       v.values[1], v.values[2])
                       ELSE validate_zip64_local_values(l.extra[1], l, v.values[1], v.values[2])
           b1 == parse_lfh_bounded(l, v.values[3], s.len, s.maxMetadata - s.metadata)
           b2 == classify_zip64_extra_fields(l.extra)
           b11 == validate_directory_metadata(c.name, c.attrs, c.method, c.crc, v.values[2],
                                              v.values[1])
           a3 == l.name # c.name
           a4 == l.method # c.method
           a5 == l.flags # c.flags
           a6 == IF l.extra # <<>> THEN ~valuesOk ELSE U32Max \in {l.uncomp, l.comp}
           a7 == l.extra # <<>> /\ l.version < 45
           a8 == (c.extra # <<>> \/ U32Max \in Range(legacy)) /\ c.version < 45 /\ ~offsetOnly
           a9 == l.extra = <<>> /\ ~SizesAgree(l, gp3, v.values[2], v.values[1])
           a10 == ~CrcAgrees(l, gp3, c.crc)
           f == Zip64LocalFinding(s, w, v)
<1>1. b1 \notin ReadForeign /\ b2 \notin ReadForeign /\ b11 \notin ReadForeign
  BY LocalSays, Zip64ExtraFieldsSay, DirectorySays
<1>2. f = FirstOf(<< <<b1 # OK, b1>>, <<b2 # OK, b2>>, <<a3, "ZipDiffA3Name">>,
                     <<a4, "ZipDiffA1Method">>, <<a5, "ZipFlags">>, <<a6, "ZipDiffC5Zip64">>,
                     <<a7, "ZipDiffC5Zip64">>, <<a8, "ZipDiffC5Zip64">>, <<a9, "ZipDiffA2Size">>,
                     <<a10, "ZipDiffA2Size">>, <<b11 # OK, b11>> >>)
  BY DEF Zip64LocalFinding
<1> HIDE DEF a3, a4, a5, a6, a7, a8, a9, a10
<1> HIDE DEF f, b1, b2, b11
<1>3. f \notin ReadForeign
  BY <1>1, <1>2, ZipCodes, AnyOf11
<1> QED BY <1>3 DEF f

\* What a ZIP64 payload is refused for.
LEMMA Zip64PayloadSays ==
    ASSUME NEW s, NEW w, NEW v PROVE Zip64PayloadFinding(s, w, v) \notin ReadForeign
<1> DEFINE c == w.cdh
           at == DataOffset(w.lfh, v.values[3])
           descAt == at + v.values[2]
           b1 == StreamFinding(w, at, v.values[2], s.len)
           b4 == IF "desc" \in c.flags
                 THEN parse_data_descriptor_with_width(w.desc, descAt, c.crc, v.values[2],
                          v.values[1], DescriptorWidth(w.lfh.extra, v.values[2], v.values[1]),
                          s.len)
                 ELSE OK
           f == Zip64PayloadFinding(s, w, v)
<1>1. b1 \notin ReadForeign
  BY StreamSays
<1>2. b4 \notin ReadForeign
  BY DescriptorSays, ZipCodes
<1>3. \E a2, a3 : f = FirstOf(<< <<b1 # OK, b1>>, <<a2, "ZipDiffC4Offset">>,
                                 <<a3, "ZipDiffC5Zip64">>, <<b4 # OK, b4>> >>)
  <2> WITNESS "desc" \in c.flags /\ descAt + 1 > s.len, "desc" \in c.flags /\ ~w.desc.signed
  <2> QED BY Zenon DEF Zip64PayloadFinding
<1> HIDE DEF f, b1, b4
<1>4. f \notin ReadForeign
  BY <1>1, <1>2, <1>3, ZipCodes, AnyOf4
<1> QED BY <1>4 DEF f

\* What a ZIP64 member is refused for.
LEMMA Zip64MemberSays ==
    ASSUME NEW s, NEW w, IsExtra(w.cdh.extra), IsExtra(w.lfh.extra)
    PROVE Zip64MemberFinding(s, w) \notin ReadForeign
<1> DEFINE v == CentralValues(w.cdh)
<1>1. v.finding \notin ReadForeign
  BY ZipCodes DEF CentralValues, resolve_zip64_central_values
<1> HIDE DEF v
<1>2. /\ Zip64CentralFinding(s, w) \notin ReadForeign
      /\ Zip64LocalFinding(s, w, v) \notin ReadForeign
      /\ Zip64PayloadFinding(s, w, v) \notin ReadForeign
  BY Zip64CentralSays, Zip64LocalSays, Zip64PayloadSays
<1> QED BY <1>1, <1>2 DEF Zip64MemberFinding, v

\* A ZIP scan whose verdict is a reader's own.
ZipSays(s) == IsZipScan(s) /\ s.verdict \notin ReadForeign

\* A refusal of a ZIP reader.
LEMMA ZipRejectSays ==
    ASSUME NEW s, IsZipScan(s), NEW f, f \notin ReadForeign
    PROVE ZipReject(s, f).verdict \notin ReadForeign
BY DEF ZipReject, IsZipScan, ZipFields

\* A ZIP member is read.
LEMMA ZipPushSays ==
    ASSUME NEW s, ZipSays(s), NEW w, NEW v, NEW width
    PROVE PushZipMember(s, w, v, width).verdict \notin ReadForeign
<1> DEFINE t == PushZipMember(s, w, v, width)
<1>1. \/ t = ZipReject(s, "QuotaOverflow") \/ t = ZipReject(s, "QuotaMetadata")
      \/ \E a, b, c, d, e : t = [s EXCEPT !.members = a, !.metadata = b, !.pos = c,
                                          !.maxVersion = d, !.zip64Seen = e]
  BY DEF PushZipMember
<1> HIDE DEF t
<1>2. \/ t = ZipReject(s, "QuotaOverflow") \/ t = ZipReject(s, "QuotaMetadata")
      \/ t.verdict = s.verdict
  BY <1>1 DEF ZipSays, IsZipScan, ZipFields
<1>3. t.verdict \notin ReadForeign
  BY <1>2, ZipRejectSays, ZipCodes DEF ZipSays
<1> QED BY <1>3 DEF t

\* A turn of a ZIP reader.
LEMMA ZipStepSays ==
    ASSUME NEW s, ZipSays(s), NEW w,
           s.stage # "end" /\ ~ZipExhausted(s)
             => IsName(w.cdh.name) /\ IsExtra(w.cdh.extra) /\ IsExtra(w.lfh.extra)
    PROVE ZipSays(ZipStep(s, w))
<1>1. IsZipScan(s) /\ s.verdict \notin ReadForeign
  BY DEF ZipSays
<1>2. IsZipScan(ZipStep(s, w))
  BY <1>1, ZipTurn
<1>3. CASE s.stage = "end"
  <2>1. ZipStep(s, w) = ZipEndStep(s, w)
    BY <1>3 DEF ZipStep, ZipExhausted
  <2>2. \/ ZipEndStep(s, w) = ZipReject(s, "FormatUnsupported")
        \/ \E end : ZipEndStep(s, w) = ZipReject(s, Zip64EndFinding(s, end))
        \/ \E end : ZipEndStep(s, w) = ZipReject(s, Zip32EndFinding(s, end))
        \/ \E e, c : ZipEndStep(s, w) = [s EXCEPT !.stage = "members", !.end = e, !.metadata = c]
    BY Zenon DEF ZipEndStep
  <2> DEFINE t == ZipEndStep(s, w)
  <2> HIDE DEF t
  <2>3. CASE \E e, c : t = [s EXCEPT !.stage = "members", !.end = e, !.metadata = c]
    <3>1. t.verdict = s.verdict
      BY <1>1, <2>3 DEF IsZipScan, ZipFields
    <3> QED BY <1>1, <1>2, <2>1, <3>1 DEF ZipSays, t
  <2>4. CASE t = ZipReject(s, "FormatUnsupported")
    BY <1>1, <1>2, <2>1, <2>4, ZipRejectSays, ZipCodes DEF ZipSays, t
  <2>5. CASE \E end : t = ZipReject(s, Zip64EndFinding(s, end))
    BY <1>1, <1>2, <2>1, <2>5, ZipRejectSays, Zip64EndSays DEF ZipSays, t
  <2>6. CASE \E end : t = ZipReject(s, Zip32EndFinding(s, end))
    BY <1>1, <1>2, <2>1, <2>6, ZipRejectSays, Zip32EndSays DEF ZipSays, t
  <2> QED BY <2>2, <2>3, <2>4, <2>5, <2>6 DEF t
<1>4. CASE s.stage # "end" /\ ZipExhausted(s)
  <2>1. ZipStep(s, w) = ZipFinish(s)
    BY <1>4 DEF ZipStep
  <2> DEFINE layout == check_layout(s.members, s.end[1].cd_offset)
  <2>2. layout \notin ReadForeign
    BY LayoutSays
  <2>3. \E a1, a2, a3 :
          LET f == FirstOf(<< <<a1, "ZipDiffC3Count">>, <<a2, "ZipDiffC5Zip64">>,
                              <<a3, "ZipDiffC5Zip64">>, <<layout # OK, layout>> >>)
          IN  ZipFinish(s) = [s EXCEPT !.verdict = IF f = OK THEN "accepted" ELSE f]
    BY Zenon DEF ZipFinish
  <2> HIDE DEF layout
  <2>4. \E f : f \notin ReadForeign
               /\ ZipFinish(s) = [s EXCEPT !.verdict = IF f = OK THEN "accepted" ELSE f]
    <3>1. PICK a1, a2, a3 :
            LET f == FirstOf(<< <<a1, "ZipDiffC3Count">>, <<a2, "ZipDiffC5Zip64">>,
                                <<a3, "ZipDiffC5Zip64">>, <<layout # OK, layout>> >>)
            IN  ZipFinish(s) = [s EXCEPT !.verdict = IF f = OK THEN "accepted" ELSE f]
      BY <2>3
    <3> DEFINE f == FirstOf(<< <<a1, "ZipDiffC3Count">>, <<a2, "ZipDiffC5Zip64">>,
                                <<a3, "ZipDiffC5Zip64">>, <<layout # OK, layout>> >>)
    <3>2. f \notin ReadForeign
      BY <2>2, ZipCodes, AnyOf4
    <3> QED BY <3>1, <3>2, Zenon
  <2>5. ZipFinish(s).verdict \notin ReadForeign
    BY <1>1, <2>4, ZipCodes DEF IsZipScan, ZipFields
  <2> QED BY <1>2, <2>1, <2>5 DEF ZipSays
<1>5. CASE s.stage # "end" /\ ~ZipExhausted(s)
  <2>1. \/ ZipStep(s, w) = Zip64MemberStep(s, w)
        \/ ZipStep(s, w) = Zip32MemberStep(s, w)
    BY <1>5 DEF ZipStep
  <2>2. \/ ZipStep(s, w) = ZipReject(s, Zip64MemberFinding(s, w))
        \/ ZipStep(s, w) = ZipReject(s, Zip32MemberFinding(s, w))
        \/ \E v, width : ZipStep(s, w) = PushZipMember(s, w, v, width)
    BY <2>1 DEF Zip64MemberStep, Zip32MemberStep
  <2>3. /\ Zip64MemberFinding(s, w) \notin ReadForeign
        /\ Zip32MemberFinding(s, w) \notin ReadForeign
    BY <1>5, Zip64MemberSays, Zip32MemberSays
  <2>4. ZipStep(s, w).verdict \notin ReadForeign
    BY <1>1, <2>2, <2>3, ZipRejectSays, ZipPushSays
  <2> QED BY <1>2, <2>4 DEF ZipSays
<1> QED BY <1>3, <1>4, <1>5

\* A new ZIP scan.
LEMMA NewZipScanSays ==
    ASSUME NEW profile, NEW len, NEW files, NEW metadata
    PROVE ZipSays(NewZipScan(profile, len, files, metadata))
BY NewZipScanIs, ZipCodes DEF ZipSays, NewZipScan

\* The codes of the 7z reader.
LEMMA SevenZCodes ==
    /\ OK \notin ReadForeign /\ structure \notin ReadForeign /\ unsupported \notin ReadForeign
    /\ "QuotaFiles" \notin ReadForeign /\ "QuotaMetadata" \notin ReadForeign
    /\ "FormatMagic" \notin ReadForeign /\ "CrcMismatch" \notin ReadForeign
BY DEF ReadForeign, OK, structure, unsupported

\* What the streams of a 7z archive are refused for.
LEMMA StreamsSay ==
    ASSUME NEW z, IsSevenZImage(z) PROVE parse_streams_info(z) \notin ReadForeign
<1> DEFINE n == Len(z.folders)
           each == [i \in 1..n |-> FolderFinding(z.folders[i])]
           b2 == FirstFailure(each)
           Stated(i) == SubStreams(z).sizes # << >> /\ SubCount(z, i) > 0
           a1 == z.pack.pos # 0 \/ Len(z.pack.sizes) # z.pack.n
           a3 == \E i \in 1..n : Stated(i) /\ Last(SubSizes(z, i)) < 0
           a4 == \E i \in 1..n : SubCount(z, i) = 0
           a5 == SubStreams(z).sizes = << >> /\ \E i \in 1..n : SubCount(z, i) # 1
           a6 == \E i \in 1..n : 0 \in Range(SubSizes(z, i))
           f == parse_streams_info(z)
<1>1. \A x : FolderFinding(x) \notin ReadForeign
  BY SevenZCodes, AnyOf3 DEF FolderFinding
<1>2. b2 \notin ReadForeign
  <2> DEFINE bad == {i \in DOMAIN each : each[i] # OK}
  <2>1. DOMAIN each = 1..n /\ \A i \in 1..n : each[i] \notin ReadForeign
    BY <1>1
  <2>2. 1..n \subseteq Nat
    OBVIOUS
  <2> HIDE DEF each, n
  <2>3. CASE bad = {}
    BY <2>3, SevenZCodes DEF FirstFailure
  <2>4. CASE bad # {}
    <3>1. bad \subseteq Nat
      BY <2>1, <2>2
    <3>2. Min(bad) \in bad
      BY <2>4, <3>1, MinOf
    <3>3. b2 = each[Min(bad)]
      BY <2>4 DEF FirstFailure
    <3> QED BY <2>1, <3>2, <3>3
  <2> QED BY <2>3, <2>4
<1>3. f = FirstOf(<< <<a1, structure>>, <<b2 # OK, b2>>, <<a3, structure>>, <<a4, structure>>,
                     <<a5, structure>>, <<a6, structure>> >>)
  BY DEF parse_streams_info
<1> HIDE DEF f, a1, b2, a3, a4, a5, a6
<1>4. f \notin ReadForeign
  BY <1>2, <1>3, SevenZCodes, AnyOf6
<1> QED BY <1>4 DEF f

\* A file record is refused for its structure or as unsupported.
LEMMA RecordKind ==
    ASSUME NEW f, IsFiles(f), f.kind \notin ReadForeign, NEW r
    PROVE IsFiles(FilesRecord(f, r)) /\ FilesRecord(f, r).kind \notin ReadForeign
<1> DEFINE g == FilesRecord(f, r)
<1>1. \/ g = f
      \/ g = [f EXCEPT !.kind = structure] \/ g = [f EXCEPT !.kind = unsupported]
      \/ \E v : g = [f EXCEPT !["streamless"] = v]
      \/ \E v : g = [f EXCEPT !["empty_file"] = v]
      \/ \E a, b : g = [f EXCEPT !.names = a, !.name_bytes = b]
      \/ \E v : g = [f EXCEPT !.mtime = v]
      \/ \E v : g = [f EXCEPT !.attributes = v]
      \/ \E v : g = [f EXCEPT !.dummy = v]
  <2>1. CASE r.id = "emptyStream"
    BY <2>1 DEF FilesRecord
  <2>2. CASE r.id = "emptyFile"
    BY <2>2 DEF FilesRecord
  <2>3. CASE r.id = "mtime"
    BY <2>3 DEF FilesRecord
  <2>4. CASE r.id \in {"ctime", "atime"}
    BY <2>4 DEF FilesRecord
  <2>5. CASE r.id = "attributes"
    BY <2>5 DEF FilesRecord
  <2>6. CASE r.id = "dummy"
    BY <2>6 DEF FilesRecord
  <2>7. CASE r.id = "name"
    BY <2>7 DEF FilesRecord
  <2>8. CASE r.id \notin {"emptyStream", "emptyFile", "name", "mtime", "ctime", "atime",
                          "attributes", "dummy"}
    BY <2>8 DEF FilesRecord
  <2> QED BY <2>1, <2>2, <2>3, <2>4, <2>5, <2>6, <2>7, <2>8
<1> HIDE DEF g
<1>2. IsFiles(g)
  BY <1>1 DEF IsFiles, FilesFields
<1>3. g.kind = f.kind \/ g.kind = structure \/ g.kind = unsupported
  BY <1>1 DEF IsFiles, FilesFields
<1> QED BY <1>2, <1>3, SevenZCodes DEF g

\* The records of the files.
FilesSay(f) == IsFiles(f) /\ f.kind \notin ReadForeign

\* One record of the files.
LEMMA FilesTurnSays ==
    ASSUME NEW count, NEW f, FilesSay(f), NEW r PROVE FilesSay(FilesTurn(count, f, r))
<1>1. CASE f.kind # OK
  BY <1>1 DEF FilesTurn
<1>2. CASE f.kind = OK
  <2> DEFINE g == FilesRecord(f, r)
             k == g.kind
             named == IF r.id = "name" /\ ~r.external THEN decode_names(r.names, count) ELSE OK
             kind == FirstOf(<< <<k # OK, k>>, <<named # OK, named>>, <<~r.exact, structure>> >>)
             t == FilesTurn(count, f, r)
  <2>1. IsFiles(g) /\ k \notin ReadForeign
    BY RecordKind DEF FilesSay
  <2>2. named \notin ReadForeign
    <3>1. decode_names(r.names, count) \notin ReadForeign
      BY SevenZCodes, AnyOf2 DEF decode_names
    <3> QED BY <3>1, SevenZCodes
  <2>3. t = [g EXCEPT !.kind = kind]
    <3>1. t = [g EXCEPT !.kind = FirstOf(<< <<@ # OK, @>>, <<named # OK, named>>,
                                            <<~r.exact, structure>> >>)]
      BY <1>2 DEF FilesTurn
    <3> HIDE DEF g, named
    <3> QED BY <2>1, <3>1 DEF IsFiles, FilesFields
  <2>4. kind \notin ReadForeign
    <3> HIDE DEF k, named
    <3> QED BY <2>1, <2>2, SevenZCodes, AnyOf3
  <2> HIDE DEF g, t, kind
  <2>5. FilesSay(t)
    BY <2>1, <2>3, <2>4 DEF FilesSay, IsFiles, FilesFields
  <2> QED BY <2>5 DEF t
<1> QED BY <1>1, <1>2

\* What the files of a 7z archive are refused for.
LEMMA FilesInfoSays ==
    ASSUME NEW z, IsSevenZImage(z), NEW max_files
    PROVE parse_files_info(z, max_files).kind \notin ReadForeign
<1> DEFINE count == z.files.count
           rs == z.files.records
           f == FilesFold!Fold(count, NoFiles, rs)
           k3 == f.kind
           a1 == count > max_files
           a2 == count > z.files.room
           a4 == f.names = << >>
           kind == FirstOf(<< <<a1, "QuotaFiles">>, <<a2, structure>>, <<k3 # OK, k3>>,
                              <<a4, structure>> >>)
<1>1. parse_files_info(z, max_files)
        = [f EXCEPT !.kind = FirstOf(<< <<count > max_files, "QuotaFiles">>,
                                      <<count > z.files.room, structure>>,
                                      <<@ # OK, @>>, <<f.names = << >>, structure>> >>)]
  BY DEF parse_files_info, FilesTurn, FilesFold!Fold, FoldLeft, MapThenFoldSet,
         FilesFold!FoldLeft, FilesFold!MapThenFoldSet, Max, FilesFold!Max
<1>2. PICK S : rs \in Seq(S)
  BY DEF IsSevenZImage
<1> DEFINE n == Len(rs)
<1>3. n \in Nat /\ DOMAIN rs = 1..n
  BY <1>2
<1>4. PICK h : FilesFold!IsRun(h, count, NoFiles, rs, n) /\ f = h[n]
  <2> HIDE DEF n, rs, count
  <2> QED BY <1>3, FilesFold!FoldRuns
<1> HIDE DEF f
<1> DEFINE T == {k \in Nat : k <= n => FilesSay(h[k])}
<1>5. 0 \in T
  <2>1. h[0] = NoFiles
    BY <1>4 DEF FilesFold!IsRun
  <2>2. FilesSay(NoFiles)
    BY SevenZCodes DEF FilesSay, IsFiles, FilesFields, NoFiles
  <2> QED BY <2>1, <2>2
<1>6. ASSUME NEW k \in Nat, k \in T PROVE k + 1 \in T
  <2> SUFFICES ASSUME k + 1 <= n PROVE FilesSay(h[k + 1])
    OBVIOUS
  <2>1. k < n /\ FilesSay(h[k])
    BY <1>3, <1>6
  <2>2. h[k + 1] = FilesTurn(count, h[k], rs[k + 1])
    BY <1>4, <2>1 DEF FilesFold!IsRun
  <2> QED BY <2>1, <2>2, FilesTurnSays
<1>7. \A k \in Nat : k \in T
  <2> HIDE DEF T
  <2> QED BY <1>5, <1>6, Jail!SetInduction
<1>8. FilesSay(f)
  BY <1>3, <1>4, <1>7
<1> HIDE DEF T
<1>9. parse_files_info(z, max_files).kind = kind
  <2> HIDE DEF count
  <2> QED BY <1>1, <1>8 DEF FilesSay, IsFiles, FilesFields
<1>10. kind \notin ReadForeign
  <2>1. k3 \notin ReadForeign
    BY <1>8 DEF FilesSay
  <2> HIDE DEF a1, a2, k3, a4
  <2> QED BY <2>1, SevenZCodes, AnyOf4
<1> HIDE DEF kind
<1> QED BY <1>9, <1>10

\* What the properties of a 7z header are refused for.
LEMMA HeaderPropertiesSay ==
    ASSUME NEW z, IsSevenZImage(z), NEW max_files
    PROVE HeaderProperties(z, max_files).kind \notin ReadForeign
<1> DEFINE props == HeaderProperties(z, max_files)
           streams == parse_streams_info(z)
           files == parse_files_info(z, max_files).kind
           x == [streams |-> streams, files |-> files]
           none == [seen |-> {}, kind |-> OK]
           n == Len(z.props)
<1>1. props = HeaderFold!Fold(x, none, z.props)
  <2>1. props = FoldLeft(LAMBDA s, id : HeaderProperty(x, s, id), none, z.props)
    BY DEF HeaderProperties
  <2> HIDE DEF x, none, props
  <2> QED BY <2>1 DEF HeaderFold!Fold, FoldLeft, MapThenFoldSet, HeaderFold!FoldLeft,
                      HeaderFold!MapThenFoldSet, Max, HeaderFold!Max
<1>2. n \in Nat /\ DOMAIN z.props = 1..n
  BY DEF IsSevenZImage
<1>3. PICK h : HeaderFold!IsRun(h, x, none, z.props, n) /\ props = h[n]
  <2> HIDE DEF n, x, none, props
  <2> QED BY <1>1, <1>2, HeaderFold!FoldRuns
<1>4. streams \notin ReadForeign /\ files \notin ReadForeign
  BY StreamsSay, FilesInfoSays
<1>5. \A id \in DOMAIN x : x[id] \notin ReadForeign
  <2> HIDE DEF streams, files
  <2> QED BY <1>4
<1> DEFINE T == {k \in Nat : k <= n => h[k].kind \notin ReadForeign}
<1>6. 0 \in T
  <2>1. h[0] = none
    BY <1>3 DEF HeaderFold!IsRun
  <2>2. none.kind = OK
    OBVIOUS
  <2> HIDE DEF none
  <2> QED BY <2>1, <2>2, SevenZCodes
<1>7. ASSUME NEW k \in Nat, k \in T PROVE k + 1 \in T
  <2> SUFFICES ASSUME k + 1 <= n PROVE h[k + 1].kind \notin ReadForeign
    OBVIOUS
  <2> DEFINE s == h[k]
             id == z.props[k + 1]
  <2>1. s.kind \notin ReadForeign /\ h[k + 1] = HeaderProperty(x, s, id)
    BY <1>2, <1>3, <1>7 DEF HeaderFold!IsRun
  <2> HIDE DEF s, id, x
  <2> QED BY <1>5, <2>1, SevenZCodes DEF HeaderProperty
<1>8. \A k \in Nat : k \in T
  <2> HIDE DEF T
  <2> QED BY <1>6, <1>7, Jail!SetInduction
<1>9. h[n].kind \notin ReadForeign
  BY <1>2, <1>8
<1> QED BY <1>3, <1>9

\* What a 7z archive is refused for.
LEMMA SevenZSays ==
    ASSUME NEW z, IsSevenZImage(z), NEW len, NEW max_files, NEW max_metadata
    PROVE parse_copy_portable_v1(z, len, max_files, max_metadata).kind \notin ReadForeign
<1> DEFINE head == SignatureFinding(z, len, max_metadata)
           props == HeaderProperties(z, max_files)
           k == props.kind
<1>1. \A x : SevenZFails(x).kind = x
  BY DEF SevenZFails
<1>2. head \notin ReadForeign
  BY SevenZCodes, AnyOf10 DEF SignatureFinding
<1>3. k \notin ReadForeign
  BY HeaderPropertiesSay
<1>4. \A f, folders : GeometryFinding(z, folders) \notin ReadForeign
                      /\ MatrixFinding(z, f, folders) \notin ReadForeign
  <2>1. \A folders : GeometryFinding(z, folders) \notin ReadForeign
    BY SevenZCodes, AnyOf3 DEF GeometryFinding
  <2>2. \A f, folders : MatrixFinding(z, f, folders) \notin ReadForeign
    BY SevenZCodes DEF MatrixFinding
  <2> QED BY <2>1, <2>2
<1>5. \A f, folders : SevenZContents(z, f, folders).kind \notin ReadForeign
  BY <1>1, <1>4, SevenZCodes DEF SevenZContents
<1>6. SevenZHeader(z, props, max_files).kind \notin ReadForeign
  <2> DEFINE a3 == "files" \notin props.seen \/ z.files.count = 0
             a4 == "streams" \in props.seen /\ Len(z.folders) # z.pack.n
             after == FirstOf(<< <<k # OK, k>>, <<z.rest, structure>>, <<a3, unsupported>>,
                                 <<a4, structure>> >>)
             f == parse_files_info(z, max_files)
             folders == Folders(z, props.seen)
  <2>1. SevenZHeader(z, props, max_files)
          = IF after # OK THEN SevenZFails(after) ELSE SevenZContents(z, f, folders)
    BY DEF SevenZHeader
  <2>2. after \notin ReadForeign
    <3> HIDE DEF k, a3, a4
    <3> QED BY <1>3, SevenZCodes, AnyOf4
  <2> HIDE DEF after, f, folders, props
  <2> QED BY <1>1, <1>5, <2>1, <2>2
<1> HIDE DEF head, props
<1>7. parse_copy_portable_v1(z, len, max_files, max_metadata)
        = IF head # OK THEN SevenZFails(head) ELSE SevenZHeader(z, props, max_files)
  BY DEF parse_copy_portable_v1, head, props
<1> QED BY <1>1, <1>2, <1>6, <1>7

-----------------------------------------------------------------------------
(***************************************************************************)
(* What the decoders of compressed streams report                          *)
(***************************************************************************)
\* Findings no decoder of a compressed stream reports.
StreamForeign == {"QuotaFiles", "QuotaMetadata", "QuotaOverflow", "QuotaMember", "QuotaTotal",
                  "QuotaRatio", "QuotaArchive", "SourceIo", "CoveringInconsistent"}

\* The codes of the four decoders.
LEMMA StreamCodes ==
    /\ OK \notin StreamForeign /\ "Truncated" \notin StreamForeign /\ "Magic" \notin StreamForeign
    /\ "HeaderLimit" \notin StreamForeign /\ "OutputLimit" \notin StreamForeign
    /\ "ExtraField" \notin StreamForeign /\ "CompressionMethod" \notin StreamForeign
    /\ "ReservedFlags" \notin StreamForeign /\ "HeaderChecksum" \notin StreamForeign
    /\ "DataChecksum" \notin StreamForeign /\ "DeclaredSize" \notin StreamForeign
    /\ "TrailingInput" \notin StreamForeign /\ "ConcatenatedMember" \notin StreamForeign
    /\ "DeflateStream" \notin StreamForeign /\ "SkippableFrame" \notin StreamForeign
    /\ "ReservedBits" \notin StreamForeign /\ "Dictionary" \notin StreamForeign
    /\ "WindowBounds" \notin StreamForeign /\ "FrameStream" \notin StreamForeign
    /\ "ConcatenatedFrame" \notin StreamForeign /\ "DecoderDisagreement" \notin StreamForeign
    /\ "StreamStructure" \notin StreamForeign /\ "CheckUnsupported" \notin StreamForeign
    /\ "ConcatenatedStream" \notin StreamForeign /\ "FilterUnsupported" \notin StreamForeign
    /\ "DictBounds" \notin StreamForeign /\ "EmptyStream" \notin StreamForeign
    /\ "BlockBounds" \notin StreamForeign /\ "CheckMismatch" \notin StreamForeign
    /\ "VersionUnsupported" \notin StreamForeign /\ "LevelBounds" \notin StreamForeign
    /\ "RandomizedBlock" \notin StreamForeign
BY DEF StreamForeign, OK

\* A decoder that stops reports what it stopped for.
LEMMA EndsKind ==
    ASSUME NEW kind, NEW w, NEW out, kind \notin StreamForeign
    PROVE StreamEnds(kind, w, out).kind \notin StreamForeign
BY StreamCodes DEF StreamEnds, StreamFails, StreamYields

\* The turn of validate_extra_subfields; p is the end of the field and of the
\* source.
ExtraTurn(p, s, f) ==
    IF s.verdict # OK \/ s.at >= p[1] THEN s
    ELSE [s EXCEPT !.verdict = FirstOf(<< <<p[1] - s.at < 4, "ExtraField">>,
                                          <<s.at + 4 > p[2], "Truncated">>,
                                          <<f.id = 0 \/ f.id \in s.seen, "ExtraField">>,
                                          <<s.at + 4 + f.len > p[1], "ExtraField">> >>),
                   !.at = s.at + 4 + f.len, !.seen = @ \cup {f.id}]

ExtraFold == INSTANCE FoldTheorems WITH Op <- ExtraTurn

\* A reading of the subfields that was not refused for anything foreign.
SubfieldsRead(s) == /\ s = [g \in {"at", "seen", "verdict"} |-> s[g]]
                /\ s.verdict \notin StreamForeign

\* One subfield.
LEMMA ExtraTurnSays ==
    ASSUME NEW p, NEW s, SubfieldsRead(s), NEW f PROVE SubfieldsRead(ExtraTurn(p, s, f))
<1>1. CASE s.verdict # OK \/ s.at >= p[1]
  BY <1>1 DEF ExtraTurn
<1>2. CASE ~(s.verdict # OK \/ s.at >= p[1])
  <2> DEFINE a1 == p[1] - s.at < 4
             a2 == s.at + 4 > p[2]
             a3 == f.id = 0 \/ f.id \in s.seen
             a4 == s.at + 4 + f.len > p[1]
             v == FirstOf(<< <<a1, "ExtraField">>, <<a2, "Truncated">>, <<a3, "ExtraField">>,
                             <<a4, "ExtraField">> >>)
             at == s.at + 4 + f.len
             seen == s.seen \cup {f.id}
             t == ExtraTurn(p, s, f)
  <2>1. t = [s EXCEPT !.verdict = v, !.at = at, !.seen = seen]
    BY <1>2 DEF ExtraTurn
  <2>2. v \notin StreamForeign
    <3> HIDE DEF a1, a2, a3, a4
    <3> QED BY StreamCodes, AnyOf4
  <2> HIDE DEF v, at, seen, t
  <2>3. SubfieldsRead(t)
    BY <2>1, <2>2 DEF SubfieldsRead
  <2> QED BY <2>3 DEF t
<1> QED BY <1>1, <1>2

\* What an extra field is refused for.
LEMMA SubfieldsSay ==
    ASSUME NEW x, x.subs \in Seq(Range(x.subs)), NEW at, NEW len
    PROVE validate_extra_subfields(x, at, len) \notin StreamForeign
<1> DEFINE end == at + x.xlen
           p == <<end, len>>
           none == [at |-> at, seen |-> {}, verdict |-> OK]
           done == ExtraFold!Fold(p, none, x.subs)
           n == Len(x.subs)
           f == validate_extra_subfields(x, at, len)
<1>1. f = IF done.verdict # OK THEN done.verdict ELSE IF done.at < end THEN "ExtraField" ELSE OK
  <2>1. p[1] = end /\ p[2] = len
    OBVIOUS
  <2> HIDE DEF p
  <2> QED BY <2>1 DEF validate_extra_subfields, ExtraTurn, ExtraFold!Fold, FoldLeft, MapThenFoldSet,
         ExtraFold!FoldLeft, ExtraFold!MapThenFoldSet, Max, ExtraFold!Max
<1>2. n \in Nat /\ DOMAIN x.subs = 1..n
  OBVIOUS
<1>3. PICK h : ExtraFold!IsRun(h, p, none, x.subs, n) /\ done = h[n]
  <2> HIDE DEF n, p, none
  <2> QED BY <1>2, ExtraFold!FoldRuns
<1> DEFINE T == {k \in Nat : k <= n => SubfieldsRead(h[k])}
<1>4. 0 \in T
  <2>1. h[0] = none
    BY <1>3 DEF ExtraFold!IsRun
  <2>2. SubfieldsRead(none)
    BY StreamCodes DEF SubfieldsRead
  <2> QED BY <2>1, <2>2
<1>5. ASSUME NEW k \in Nat, k \in T PROVE k + 1 \in T
  <2> SUFFICES ASSUME k + 1 <= n PROVE SubfieldsRead(h[k + 1])
    OBVIOUS
  <2>1. k < n /\ SubfieldsRead(h[k])
    BY <1>2, <1>5
  <2>2. h[k + 1] = ExtraTurn(p, h[k], x.subs[k + 1])
    BY <1>3, <2>1 DEF ExtraFold!IsRun
  <2> QED BY <2>1, <2>2, ExtraTurnSays
<1>6. \A k \in Nat : k \in T
  <2> HIDE DEF T
  <2> QED BY <1>4, <1>5, Jail!SetInduction
<1>7. SubfieldsRead(done)
  BY <1>2, <1>3, <1>6
<1> HIDE DEF done, f, T
<1>8. f \notin StreamForeign
  BY <1>1, <1>7, StreamCodes DEF SubfieldsRead
<1> QED BY <1>8 DEF f

\* What a gzip header is refused for.
LEMMA GzipHeaderSays ==
    ASSUME NEW m, IsGzipMember(m), NEW at, NEW len, NEW limit
    PROVE parse_header_at(m, at, len, limit).kind \notin StreamForeign
<1>1. \A o, n : reserve_header(o, n, len, limit) \notin StreamForeign
  BY StreamCodes DEF reserve_header
<1>2. \A field, o : read_c_string(field, o, len, limit) \notin StreamForeign
  BY StreamCodes DEF read_c_string
<1>3. ASSUME NEW o PROVE ExtraField(m, o, len, limit) \notin StreamForeign
  <2>1. CASE ~Flagged(m.extra)
    BY <2>1, StreamCodes DEF ExtraField
  <2>2. CASE Flagged(m.extra)
    <3> DEFINE x == m.extra[1]
               b1 == reserve_header(o, 2, len, limit)
               a2 == o + 2 + x.xlen > limit
               b3 == validate_extra_subfields(x, o + 2, len)
               a4 == o + 2 + x.xlen > len
               f == ExtraField(m, o, len, limit)
    <3>1. f = FirstOf(<< <<b1 # OK, b1>>, <<a2, "HeaderLimit">>, <<b3 # OK, b3>>, <<a4, "Truncated">> >>)
      BY <2>2 DEF ExtraField
    <3>2. b1 \notin StreamForeign /\ b3 \notin StreamForeign
      BY <1>1, <2>2, SubfieldsSay DEF IsGzipMember
    <3> HIDE DEF b1, a2, b3, a4, f
    <3>3. f \notin StreamForeign
      BY <3>1, <3>2, StreamCodes, AnyOf4
    <3> QED BY <3>3 DEF f
  <2> QED BY <2>1, <2>2
<1> DEFINE extra == at + FIXED_HEADER_LEN
           name == extra + XLen(m)
           comment == name + CLen(m.name)
           hcrc == comment + CLen(m.comment)
           a1 == at + FIXED_HEADER_LEN > limit
           a2 == at + FIXED_HEADER_LEN > len
           a3 == ~m.magic
           a4 == ~m.method
           a5 == m.reserved
           b6 == ExtraField(m, extra, len, limit)
           b7 == read_c_string(m.name, name, len, limit)
           b8 == read_c_string(m.comment, comment, len, limit)
           b9 == reserve_header(hcrc, 2, len, limit)
           a9 == m.hcrc # "none" /\ b9 # OK
           a10 == m.hcrc = "bad"
           f == parse_header_at(m, at, len, limit).kind
<1>4. f = FirstOf(<< <<a1, "HeaderLimit">>, <<a2, "Truncated">>, <<a3, "Magic">>,
                     <<a4, "CompressionMethod">>, <<a5, "ReservedFlags">>, <<b6 # OK, b6>>,
                     <<b7 # OK, b7>>, <<b8 # OK, b8>>, <<a9, b9>>, <<a10, "HeaderChecksum">> >>)
  BY DEF parse_header_at
<1>5. /\ b6 \notin StreamForeign /\ b7 \notin StreamForeign /\ b8 \notin StreamForeign
      /\ b9 \notin StreamForeign
  BY <1>1, <1>2, <1>3
<1> HIDE DEF a1, a2, a3, a4, a5, b6, b7, b8, b9, a9, a10, f
<1>6. f \notin StreamForeign
  BY <1>4, <1>5, StreamCodes, AnyOf10
<1> QED BY <1>6 DEF f

\* The turn of scan_trailing_members; p is the source's length and the limits.
TrailingTurn(p, s, m) ==
    LET room == p[2].max_metadata - s.metadata - TRAILER_LEN
    IN  IF s.kind # OK \/ s.at = p[1] THEN s
        ELSE TrailingMember(s, m, parse_header_at(m, s.at, p[1], s.at + room), p[1], room,
                            p[2].max_output)

TrailingFold == INSTANCE FoldTheorems WITH Op <- TrailingTurn

\* One member behind the first.
LEMMA TrailingTurnSays ==
    ASSUME NEW p, NEW s, s.kind \notin StreamForeign, NEW m
    PROVE TrailingTurn(p, s, m).kind \notin StreamForeign
<1>1. ASSUME NEW h, NEW len, NEW room, NEW max_output
      PROVE TrailingMember(s, m, h, len, room, max_output).kind \notin StreamForeign
  <2> DEFINE payload == s.at + h.len
             a1 == len - s.at < 2 \/ ~m.magic
             a2 == room < 0
             a3 == h.kind # OK
             b3 == IF h.kind = "HeaderLimit" THEN h.kind ELSE "TrailingInput"
             a4 == len - payload < TRAILER_LEN
             a5 == s.output + m.out > max_output
             a6 == StreamBroken(m, payload, len)
             a7 == finish_member(m, payload, len) # OK
             f == TrailingMember(s, m, h, len, room, max_output).kind
  <2>1. f = FirstOf(<< <<a1, "TrailingInput">>, <<a2, "HeaderLimit">>, <<a3, b3>>,
                       <<a4, "TrailingInput">>, <<a5, "OutputLimit">>, <<a6, "TrailingInput">>,
                       <<a7, "TrailingInput">> >>)
    BY DEF TrailingMember
  <2>2. b3 \notin StreamForeign
    BY StreamCodes
  <2> HIDE DEF a1, a2, a3, b3, a4, a5, a6, a7, f
  <2>3. f \notin StreamForeign
    BY <2>1, <2>2, StreamCodes, AnyOf7
  <2> QED BY <2>3 DEF f
<1> QED BY <1>1 DEF TrailingTurn

\* What follows a member is a limit, another member or trailing input.
LEMMA TrailingSays ==
    ASSUME NEW x, IsGzipImage(x), NEW at, NEW len, NEW limits, NEW metadata, NEW output
    PROVE scan_trailing_members(x, at, len, limits, metadata, output) \notin StreamForeign
<1> DEFINE p == <<len, limits>>
           none == [kind |-> OK, at |-> at, metadata |-> metadata, output |-> output]
           ms == Tail(x.members)
           done == TrailingFold!Fold(p, none, ms)
           n == Len(ms)
           f == scan_trailing_members(x, at, len, limits, metadata, output)
<1>1. f = IF done.kind # OK THEN done.kind
          ELSE IF done.at # len THEN "TrailingInput" ELSE "ConcatenatedMember"
  <2>1. p[1] = len /\ p[2] = limits
    OBVIOUS
  <2> HIDE DEF p
  <2> QED BY <2>1 DEF scan_trailing_members, TrailingTurn, TrailingFold!Fold, FoldLeft, MapThenFoldSet,
         TrailingFold!FoldLeft, TrailingFold!MapThenFoldSet, Max, TrailingFold!Max
<1>2. n \in Nat /\ DOMAIN ms = 1..n
  <2>1. x.members \in Seq(Range(x.members)) /\ x.members # <<>>
    BY DEF IsGzipImage, Flagged
  <2> DEFINE S == Range(x.members)
             xs == x.members
  <2>2. Tail(xs) \in Seq(S)
    <3> HIDE DEF S, xs
    <3>1. xs \in Seq(S) /\ xs # <<>>
      BY <2>1 DEF S, xs
    <3> QED BY <3>1
  <2>3. ms \in Seq(S)
    BY <2>2
  <2> HIDE DEF ms, S
  <2> QED BY <2>3
<1>3. PICK h : TrailingFold!IsRun(h, p, none, ms, n) /\ done = h[n]
  <2> HIDE DEF n, p, none, ms
  <2> QED BY <1>2, TrailingFold!FoldRuns
<1> DEFINE T == {k \in Nat : k <= n => h[k].kind \notin StreamForeign}
<1>4. 0 \in T
  <2>1. h[0] = none
    BY <1>3 DEF TrailingFold!IsRun
  <2>2. none.kind \notin StreamForeign
    BY StreamCodes
  <2> HIDE DEF none
  <2> QED BY <2>1, <2>2
<1>5. ASSUME NEW k \in Nat, k \in T PROVE k + 1 \in T
  <2> SUFFICES ASSUME k + 1 <= n PROVE h[k + 1].kind \notin StreamForeign
    OBVIOUS
  <2>1. k < n /\ h[k].kind \notin StreamForeign
    BY <1>2, <1>5
  <2>2. h[k + 1] = TrailingTurn(p, h[k], ms[k + 1])
    BY <1>3, <2>1 DEF TrailingFold!IsRun
  <2> QED BY <2>1, <2>2, TrailingTurnSays
<1>6. \A k \in Nat : k \in T
  <2> HIDE DEF T
  <2> QED BY <1>4, <1>5, Jail!SetInduction
<1>7. done.kind \notin StreamForeign
  BY <1>2, <1>3, <1>6
<1> HIDE DEF done, f, T
<1>8. f \notin StreamForeign
  BY <1>1, <1>7, StreamCodes
<1> QED BY <1>8 DEF f

\* What a gzip stream is refused for.
LEMMA GzipSays ==
    ASSUME NEW x, IsGzipImage(x), NEW len, NEW limits
    PROVE decode_single_member(x, len, limits).kind \notin StreamForeign
<1> DEFINE m == Head(x.members)
           h == parse_header_at(m, 0, len, limits.max_metadata - TRAILER_LEN)
           end == h.len + m.comp + TRAILER_LEN
           a1 == limits.max_metadata < TRAILER_LEN
           b2 == h.kind
           a3 == len - h.len < TRAILER_LEN
           a4 == m.out > limits.max_output
           a5 == StreamBroken(m, h.len, len)
           b6 == finish_member(m, h.len, len)
           a7 == end # len
           b7 == scan_trailing_members(x, end, len, limits, h.len + TRAILER_LEN, m.out)
           f == MemberFinding(x, m, h, len, limits)
<1>1. IsGzipMember(m)
  BY DEF IsGzipImage, Flagged
<1>2. b2 \notin StreamForeign
  BY <1>1, GzipHeaderSays
<1>3. b6 \notin StreamForeign /\ b7 \notin StreamForeign
  <2> HIDE DEF m, h, end
  <2>1. b6 \notin StreamForeign
    BY StreamCodes, AnyOf3 DEF finish_member
  <2>2. b7 \notin StreamForeign
    BY TrailingSays
  <2> QED BY <2>1, <2>2
<1>4. f = FirstOf(<< <<a1, "HeaderLimit">>, <<b2 # OK, b2>>, <<a3, "Truncated">>, <<a4, "OutputLimit">>,
                     <<a5, "DeflateStream">>, <<b6 # OK, b6>>, <<a7, b7>> >>)
  BY DEF MemberFinding
<1>5. f \notin StreamForeign
  <2> HIDE DEF a1, b2, a3, a4, a5, b6, a7, b7, f
  <2> QED BY <1>2, <1>3, <1>4, StreamCodes, AnyOf7
<1>6. decode_single_member(x, len, limits) = StreamEnds(f, GzipWrapperEvidence(m, h), m.out)
  BY DEF decode_single_member
<1> HIDE DEF f, m, h
<1> QED BY <1>5, <1>6, EndsKind

\* What a Zstandard frame is refused for.
LEMMA ZstdSays ==
    ASSUME NEW x, NEW len, NEW limits
    PROVE decode_single_frame(x, len, limits).kind \notin StreamForeign
<1> DEFINE h == FrameHeaderLen(x)
           t == ZstdTrailerLen(x)
           end == h + x.comp + t
           b1 == parse_frame_header(x, len)
           a2 == h + t > limits.max_metadata
           a3 == ~x.agrees
           a4 == x.out > limits.max_output
           b5 == classify_zstd_error(x, h, len)
           b6 == ZstdFinish(x)
           a7 == end # len
           b7 == classify_zstd_trailing(x, end, len)
           kind == FirstOf(<< <<b1 # OK, b1>>, <<a2, "HeaderLimit">>, <<a3, "DecoderDisagreement">>,
                              <<a4, "OutputLimit">>, <<b5 # OK, b5>>, <<b6 # OK, b6>>, <<a7, b7>> >>)
<1>1. b1 \notin StreamForeign
  BY StreamCodes, AnyOf9 DEF parse_frame_header
<1>2. b5 \notin StreamForeign
  BY StreamCodes DEF classify_zstd_error
<1>3. b6 \notin StreamForeign
  BY StreamCodes, AnyOf2 DEF ZstdFinish
<1>4. b7 \notin StreamForeign
  BY StreamCodes DEF classify_zstd_trailing
<1>5. decode_single_frame(x, len, limits)
        = IF kind # OK THEN StreamFails(kind) ELSE StreamYields(ZstdWrapperEvidence(x), x.out)
  BY DEF decode_single_frame
<1>6. kind \notin StreamForeign
  <2> HIDE DEF b1, a2, a3, a4, b5, b6, a7, b7
  <2> QED BY <1>1, <1>2, <1>3, <1>4, StreamCodes, AnyOf7
<1> HIDE DEF kind
<1> QED BY <1>5, <1>6, StreamCodes DEF StreamFails, StreamYields

\* One block of an xz container.
LEMMA XzTurnSays ==
    ASSUME NEW p, NEW s, s = [g \in ContainerFields |-> s[g]], s.kind \notin StreamForeign, NEW i
    PROVE LET t == XzTurn(p, s, i)
          IN  t = [g \in ContainerFields |-> t[g]] /\ t.kind \notin StreamForeign
<1> DEFINE t == XzTurn(p, s, i)
           b == parse_block(p[1], i, s.at, p[2])
           k == b.kind
<1>1. k \notin StreamForeign
  BY StreamCodes, AnyOf9, SMTT(30) DEF parse_block
<1>2. \/ t = s \/ t = [s EXCEPT !.kind = k]
      \/ \E at, bs : t = [s EXCEPT !.at = at, !.blocks = bs]
  BY DEF XzTurn, NextBlock
<1> HIDE DEF t, k
<1>3. t = [g \in ContainerFields |-> t[g]] /\ t.kind \in {s.kind, k}
  BY <1>2 DEF ContainerFields
<1> QED BY <1>1, <1>3 DEF t

\* What an xz container is refused for.
LEMMA ContainerSays ==
    ASSUME NEW x, IsXzImage(x), NEW len, NEW limits
    PROVE parse_container(x, len, limits).kind \notin StreamForeign
<1> DEFINE c == parse_container(x, len, limits)
           footer == len - STREAM_FOOTER_LEN
           index == footer - x.index.backward
           items == [i \in DOMAIN x.index.records |-> i]
           base == [kind |-> OK, at |-> STREAM_HEADER_LEN, blocks |-> << >>]
           p == <<x, index>>
           n == Len(x.index.records)
           done == XzFold!Fold(p, base, items)
           a1 == x.footer # {} \/ index < STREAM_HEADER_LEN \/ ~x.index.indicator
           a2 == x.index.records = << >>
           a3 == Len(x.index.records) > MAX_BLOCKS
           a4 == ~x.index.pad \/ x.index.backward # IndexLen(x) \/ ~x.index.crc
           b5 == done.kind
           a6 == done.at # index
           a7 == STREAM_HEADER_LEN + STREAM_FOOTER_LEN + x.index.backward
                   + SumOf([i \in DOMAIN done.blocks |-> FrameMetadata(done.blocks[i])])
                 > limits.max_metadata
           kind == FirstOf(<< <<a1, "StreamStructure">>, <<a2, "EmptyStream">>, <<a3, "BlockBounds">>,
                              <<a4, "StreamStructure">>, <<b5 # OK, b5>>, <<a6, "StreamStructure">>,
                              <<a7, "HeaderLimit">> >>)
<1>1. c.kind = kind
  <2> DEFINE read == FoldLeft(LAMBDA s, i : NextBlock(x, index, s, i), base, items)
  <2>1. read = done
    <3>1. p[1] = x /\ p[2] = index
      OBVIOUS
    <3> HIDE DEF p, base, items, index
    <3> QED BY <3>1 DEF XzFold!Fold, FoldLeft, MapThenFoldSet, XzFold!FoldLeft,
                       XzFold!MapThenFoldSet, Max, XzFold!Max, XzTurn
  <2>2. c.kind = FirstOf(<< <<a1, "StreamStructure">>, <<a2, "EmptyStream">>, <<a3, "BlockBounds">>,
                            <<a4, "StreamStructure">>, <<read.kind # OK, read.kind>>,
                            <<read.at # index, "StreamStructure">>,
                            <<STREAM_HEADER_LEN + STREAM_FOOTER_LEN + x.index.backward
                                + SumOf([i \in DOMAIN read.blocks |-> FrameMetadata(read.blocks[i])])
                              > limits.max_metadata, "HeaderLimit">> >>)
    BY DEF parse_container
  <2> HIDE DEF read, done, a1, a2, a3, a4, index
  <2> QED BY <2>1, <2>2
<1>2. n \in Nat /\ DOMAIN items = 1..n
  BY DEF IsXzImage
<1>3. b5 \notin StreamForeign
  <2>1. PICK h : XzFold!IsRun(h, p, base, items, n) /\ done = h[n]
    <3> HIDE DEF p, base, items, n
    <3> QED BY <1>2, XzFold!FoldRuns
  <2> DEFINE Says1(s) == s = [g \in ContainerFields |-> s[g]] /\ s.kind \notin StreamForeign
             T == {k \in Nat : k <= n => Says1(h[k])}
  <2>2. 0 \in T
    <3>1. h[0] = base
      BY <2>1 DEF XzFold!IsRun
    <3>2. Says1(base)
      BY StreamCodes DEF ContainerFields
    <3> QED BY <3>1, <3>2
  <2>3. ASSUME NEW k \in Nat, k \in T PROVE k + 1 \in T
    <3> SUFFICES ASSUME k + 1 <= n PROVE Says1(h[k + 1])
      OBVIOUS
    <3>1. k < n /\ Says1(h[k])
      BY <1>2, <2>3
    <3>2. h[k + 1] = XzTurn(p, h[k], items[k + 1])
      BY <2>1, <3>1 DEF XzFold!IsRun
    <3> QED BY <3>1, <3>2, XzTurnSays
  <2>4. \A k \in Nat : k \in T
    <3> HIDE DEF T
    <3> QED BY <2>2, <2>3, Jail!SetInduction
  <2>5. Says1(h[n])
    <3>1. n \in T
      BY <1>2, <2>4
    <3> HIDE DEF n, Says1
    <3> QED BY <1>2, <3>1
  <2> HIDE DEF done
  <2> QED BY <2>1, <2>5
<1>4. kind \notin StreamForeign
  <2> HIDE DEF a1, a2, a3, a4, b5, a6, a7
  <2> QED BY <1>3, StreamCodes, AnyOf7
<1> HIDE DEF kind
<1> QED BY <1>1, <1>4

\* What an xz stream is refused for.
LEMMA XzSays ==
    ASSUME NEW x, IsXzImage(x), NEW len, NEW limits
    PROVE decode_single_stream(x, len, limits).kind \notin StreamForeign
<1> DEFINE head == parse_stream_header(x, len)
           c == parse_container(x, len, limits)
           a1 == x.out > limits.max_output
           a2 == x.codec # OK
           b2 == classify_xz_error(x.codec)
           a3 == XzEnd(x) > len
           a4 == XzEnd(x) < len
           b4 == classify_xz_trailing(x, XzEnd(x), len)
           a5 == ~x.totals
           g == FirstOf(<< <<a1, "OutputLimit">>, <<a2, b2>>, <<a3, "Truncated">>, <<a4, b4>>,
                           <<a5, "DecoderDisagreement">> >>)
           kind == IF head # OK THEN head ELSE g
           f1 == c.kind
           e2 == XzTotal(c.blocks) # x.out
           e3 == ~verify_block_checks(x, c.blocks)
           agrees == FirstOf(<< <<f1 # OK, f1>>, <<e2, "DecoderDisagreement">>, <<e3, "CheckMismatch">> >>)
<1>1. decode_single_stream(x, len, limits) = IF kind # OK THEN StreamFails(kind) ELSE ContainerAgrees(x, c)
  BY DEF decode_single_stream
<1>2. ContainerAgrees(x, c) = StreamEnds(agrees, XzWrapperEvidence(x, c), x.out)
  BY DEF ContainerAgrees
<1>3. head \notin StreamForeign /\ b2 \notin StreamForeign /\ b4 \notin StreamForeign
  <2>1. head \notin StreamForeign
    BY StreamCodes, AnyOf4 DEF parse_stream_header
  <2>2. b2 \notin StreamForeign
    BY StreamCodes DEF classify_xz_error
  <2>3. b4 \notin StreamForeign
    BY StreamCodes DEF classify_xz_trailing
  <2> QED BY <2>1, <2>2, <2>3
<1>4. f1 \notin StreamForeign
  BY ContainerSays
<1>5. g \notin StreamForeign
  <2> HIDE DEF a1, a2, b2, a3, a4, b4, a5
  <2> QED BY <1>3, StreamCodes, AnyOf5
<1>6. agrees \notin StreamForeign
  <2> HIDE DEF f1, e2, e3
  <2> QED BY <1>4, StreamCodes, AnyOf3
<1> HIDE DEF g, agrees, c, head
<1>7. ContainerAgrees(x, c).kind \notin StreamForeign
  BY <1>2, <1>6, EndsKind
<1>8. kind \notin StreamForeign
  BY <1>3, <1>5
<1> HIDE DEF kind
<1> QED BY <1>1, <1>7, <1>8 DEF StreamFails

\* What a bzip2 stream is refused for.
LEMMA Bzip2Says ==
    ASSUME NEW x, NEW len, NEW limits
    PROVE decode_bzip2_stream(x, len, limits).kind \notin StreamForeign
<1> DEFINE head == parse_stream_prefix(x, len)
           c == parse_bzip2_container(x, len, limits)
           a1 == x.out > limits.max_output
           a2 == x.codec # OK
           b2 == classify_bzip2_error(x.codec)
           a3 == Bzip2End(x) > len
           a4 == Bzip2End(x) < len
           b4 == classify_bzip2_trailing(x, Bzip2End(x), len)
           a5 == ~x.totals
           g == FirstOf(<< <<a1, "OutputLimit">>, <<a2, b2>>, <<a3, "Truncated">>, <<a4, b4>>,
                           <<a5, "DecoderDisagreement">> >>)
           kind == IF head # OK THEN head ELSE g
           f1 == c.kind
           e2 == ~SingleBlockSum(x, c.crcs)
           agrees == FirstOf(<< <<f1 # OK, f1>>, <<e2, "CheckMismatch">> >>)
<1>1. decode_bzip2_stream(x, len, limits)
        = IF kind # OK THEN StreamFails(kind) ELSE Bzip2ContainerAgrees(x, c)
  BY DEF decode_bzip2_stream
<1>2. Bzip2ContainerAgrees(x, c) = StreamEnds(agrees, Bzip2WrapperEvidence(x, c), x.out)
  BY DEF Bzip2ContainerAgrees
<1>3. head \notin StreamForeign /\ b2 \notin StreamForeign /\ b4 \notin StreamForeign
  <2>1. head \notin StreamForeign
    BY StreamCodes, AnyOf9 DEF parse_stream_prefix
  <2>2. b2 \notin StreamForeign
    BY StreamCodes DEF classify_bzip2_error
  <2>3. b4 \notin StreamForeign
    BY StreamCodes DEF classify_bzip2_trailing
  <2> QED BY <2>1, <2>2, <2>3
<1>4. f1 \notin StreamForeign
  BY StreamCodes, AnyOf7 DEF parse_bzip2_container
<1>5. g \notin StreamForeign
  <2> HIDE DEF a1, a2, b2, a3, a4, b4, a5
  <2> QED BY <1>3, StreamCodes, AnyOf5
<1>6. agrees \notin StreamForeign
  <2> HIDE DEF f1, e2
  <2> QED BY <1>4, StreamCodes, AnyOf2
<1> HIDE DEF g, agrees, c, head
<1>7. Bzip2ContainerAgrees(x, c).kind \notin StreamForeign
  BY <1>2, <1>6, EndsKind
<1>8. kind \notin StreamForeign
  BY <1>3, <1>5
<1> HIDE DEF kind
<1> QED BY <1>1, <1>7, <1>8 DEF StreamFails

-----------------------------------------------------------------------------
(***************************************************************************)
(* The axes                                                                *)
(***************************************************************************)
\* An interpretation i and an admission a that say of a finding what the
\* finding is: OutcomeTruthful, before the axes are put together.
Fair(finding, stage, wrapped, i, a) ==
    /\ a # "Admitted"
    /\ finding \in Limited =>
         a = "Denied" /\ i = (IF finding = "QuotaArchive" THEN "Indeterminate" ELSE "Interpreted")
    /\ i = "Interpreted" => finding \in Limited \/ stage = "denied"
    /\ finding \in {"Source", "SourceIo"} => i = "Indeterminate" /\ a = "NotEvaluated"
    /\ wrapped /\ finding = "CoveringInconsistent" => i = "Indeterminate"

\* Axes that say it.
FairAxes(finding, stage, wrapped, axes) ==
    \E i, a, verification, effect, at :
        axes = Axes(i, a, verification, effect, at) /\ Fair(finding, stage, wrapped, i, a)

\* What OutcomeTruthful says of an outcome.
ToldTruly(o, wrapped) ==
    /\ o.finding \in Limited =>
         /\ o.axes.admission = "Denied"
         /\ o.axes.interpretation = (IF o.finding = "QuotaArchive" THEN "Indeterminate" ELSE "Interpreted")
    /\ o.axes.interpretation = "Interpreted" => o.finding \in Limited \/ o.stage = "denied"
    /\ o.finding \in {"Source", "SourceIo"} =>
         o.axes.interpretation = "Indeterminate" /\ o.axes.admission = "NotEvaluated"
    /\ wrapped /\ o.finding = "CoveringInconsistent" => o.axes.interpretation = "Indeterminate"
    /\ compat_verdict(o.axes) = "Rejected" /\ compat_exit_code(o.axes) = 2

\* Fair axes are truthful, and what they describe is rejected.
LEMMA FairIsTruthful ==
    ASSUME NEW o, NEW wrapped, FairAxes(o.finding, o.stage, wrapped, o.axes)
    PROVE ToldTruly(o, wrapped)
<1>1. PICK i, a, verification, effect, at :
        o.axes = Axes(i, a, verification, effect, at) /\ Fair(o.finding, o.stage, wrapped, i, a)
  BY DEF FairAxes
<1>2. o.axes.interpretation = i /\ o.axes.admission = a /\ a # "Admitted"
  BY <1>1 DEF Axes, Fair
<1>3. compat_verdict(o.axes) = "Rejected" /\ compat_exit_code(o.axes) = 2
  BY <1>2 DEF compat_verdict, compat_exit_code
<1> QED BY <1>1, <1>2, <1>3 DEF ToldTruly, Fair

\* A stop in the structure is judged by its interpretation and admission.
LEMMA StopIsFair ==
    ASSUME NEW finding, NEW stage, NEW wrapped, NEW i, NEW a, Fair(finding, stage, wrapped, i, a)
    PROVE FairAxes(finding, stage, wrapped, structure_stop(i, a))
BY DEF FairAxes, structure_stop

\* What a decoder reports is classified as what it is (gzip_failure_axes and
\* its three siblings).
LEMMA TransformIsFair ==
    ASSUME NEW codec \in {"gzip", "zstd", "xz", "bzip2"}, NEW kind, kind \notin StreamForeign
    PROVE FairAxes(kind, "transform", TRUE, transform_failure_axes(codec, kind))
<1> DEFINE class == CASE codec = "gzip" -> gzip_failure_axes(kind)
                      [] codec = "zstd" -> zstd_failure_axes(kind)
                      [] codec = "xz" -> xz_failure_axes(kind)
                      [] codec = "bzip2" -> bzip2_failure_axes(kind)
           limit == kind \in {"HeaderLimit", "OutputLimit"}
<1>1. /\ limit => class = "Denied"
      /\ ~limit => class \in {"Indeterminate", "Unsupported", "Malformed"}
      /\ kind = "Source" => class = "Indeterminate"
  BY DEF gzip_failure_axes, zstd_failure_axes, xz_failure_axes, bzip2_failure_axes
<1>2. transform_failure_axes(codec, kind) = ClassAxes(class)
  BY DEF transform_failure_axes
<1>3. limit <=> kind \in Limited
  BY DEF StreamForeign, Limited
<1>4. kind \notin {"QuotaArchive", "SourceIo", "CoveringInconsistent"}
  BY DEF StreamForeign
<1>5. kind = "Source" => ~limit
  OBVIOUS
<1>6. CASE limit
  <2>1. Fair(kind, "transform", TRUE, "Interpreted", "Denied")
    BY <1>3, <1>4, <1>6 DEF Fair
  <2>2. ClassAxes(class) = structure_stop("Interpreted", "Denied")
    <3> HIDE DEF class
    <3> QED BY <1>1, <1>6 DEF ClassAxes
  <2> QED BY <1>2, <2>1, <2>2, StopIsFair
<1>7. CASE ~limit
  <2> HIDE DEF class
  <2>1. CASE class = "Indeterminate"
    <3>1. Fair(kind, "transform", TRUE, "Indeterminate", "NotEvaluated")
      BY <1>3, <1>7 DEF Fair
    <3>2. ClassAxes(class) = structure_stop("Indeterminate", "NotEvaluated")
      BY <2>1 DEF ClassAxes
    <3> QED BY <1>2, <3>1, <3>2, StopIsFair
  <2>2. CASE class \in {"Unsupported", "Malformed"}
    <3>1. kind \notin {"Source", "SourceIo", "CoveringInconsistent"}
      BY <1>1, <1>4, <2>2
    <3>2. \A i \in {"Unsupported", "Malformed"} : Fair(kind, "transform", TRUE, i, "NotEvaluated")
      BY <1>3, <1>7, <3>1 DEF Fair
    <3>3. ClassAxes(class) = structure_stop(class, "NotEvaluated")
      BY <2>2 DEF ClassAxes
    <3> QED BY <1>2, <2>2, <3>2, <3>3, StopIsFair
  <2> QED BY <1>1, <1>7, <2>1, <2>2
<1> QED BY <1>6, <1>7

\* What a reader refuses an archive for is classified as what it is
\* (parse_failure_axes), and so is a failed read.
LEMMA ParseIsFair ==
    ASSUME NEW finding, finding \notin ReadForeign \/ finding = "SourceIo", NEW stage, NEW wrapped
    PROVE FairAxes(finding, stage, wrapped, parse_failure_axes(finding))
<1> DEFINE limit == finding \in {"QuotaFiles", "QuotaMetadata", "QuotaOverflow"}
<1>1. limit <=> finding \in Limited
  BY DEF ReadForeign, Limited
<1>2. finding \notin {"QuotaArchive", "Source", "CoveringInconsistent"}
  BY DEF ReadForeign
<1>3. CASE finding = "SourceIo"
  <2>1. Fair(finding, stage, wrapped, "Indeterminate", "NotEvaluated")
    BY <1>1, <1>3 DEF Fair
  <2>2. parse_failure_axes(finding) = structure_stop("Indeterminate", "NotEvaluated")
    BY <1>3 DEF parse_failure_axes
  <2> QED BY <2>1, <2>2, StopIsFair
<1>4. CASE limit
  <2>1. Fair(finding, stage, wrapped, "Interpreted", "Denied")
    BY <1>1, <1>2, <1>4 DEF Fair
  <2>2. parse_failure_axes(finding) = structure_stop("Interpreted", "Denied")
    BY <1>4 DEF parse_failure_axes
  <2> QED BY <2>1, <2>2, StopIsFair
<1>5. CASE ~limit /\ finding # "SourceIo"
  <2>1. \A i \in {"Unsupported", "Malformed"} : Fair(finding, stage, wrapped, i, "NotEvaluated")
    BY <1>1, <1>2, <1>5 DEF Fair
  <2>2. \E i \in {"Unsupported", "Malformed"} :
          parse_failure_axes(finding) = structure_stop(i, "NotEvaluated")
    BY <1>5 DEF parse_failure_axes
  <2> QED BY <2>1, <2>2, StopIsFair
<1> QED BY <1>3, <1>4, <1>5

\* The ZIP64 profile calls a wrong construct malformed, and nothing else
\* differs (parse_failure_axes_for_profile).
LEMMA ProfileIsFair ==
    ASSUME NEW finding, finding \notin ReadForeign, NEW stage, NEW wrapped, NEW profile, NEW absent
    PROVE FairAxes(finding, stage, wrapped, parse_failure_axes_for_profile(finding, profile, absent))
<1>1. CASE profile = Zip64Profile /\ finding = "ZipDiffC5Zip64" /\ ~absent
  <2>1. Fair(finding, stage, wrapped, "Malformed", "NotEvaluated")
    BY <1>1 DEF Fair, Limited
  <2> QED BY <1>1, <2>1, StopIsFair DEF parse_failure_axes_for_profile
<1>2. CASE ~(profile = Zip64Profile /\ finding = "ZipDiffC5Zip64" /\ ~absent)
  BY <1>2, ParseIsFair DEF parse_failure_axes_for_profile
<1> QED BY <1>1, <1>2

-----------------------------------------------------------------------------
(***************************************************************************)
(* The invariant of the outcomes                                           *)
(***************************************************************************)
\* Until an archive stops it has no axes, and what its reader has found so far
\* is a finding of that reader.
ReportInv ==
    /\ phase \in {"submitted", "decoding", "reading", "parsed", "planned", "recorded"} =>
         outcome.axes = NoAxes
    /\ job.kind = "tar" /\ phase \in {"reading", "parsed"} => Says(scan)
    /\ job.kind = "zip" /\ phase \in {"reading", "parsed"} => ZipSays(scan)
    /\ job.kind = "7z" /\ phase = "parsed" => outer[1].result.kind \notin ReadForeign

\* The inductive invariant.
OutcomeInv == AdmissionInv /\ ReportInv /\ OutcomeTruthful

\* An archive without axes has not stopped.
LEMMA NoAxesTruthful == outcome.axes = NoAxes => OutcomeTruthful
BY DEF OutcomeTruthful

\* The submission.
LEMMA OutcomeInit == Init => OutcomeInv
BY AdmissionInit, NoAxesTruthful DEF Init, OutcomeInv, ReportInv, NoOutcome

\* What the planner of the job's format returns.
LEMMA PlanSaid ==
    ASSUME OutcomeInv, phase = "parsed", NEW ratio, NEW p,
           p = PlanJob(job, outer, scan, ratio)
    PROVE \/ p.stage = "planned"
          \/ p.stage = "denied" /\ p.plan.findings = << >> /\ p.finding = "QuotaRatio"
          \/ p.stage = "denied" /\ p.plan.findings # << >> /\ p.finding \notin PlanForeign
          \/ p.stage = "refused" /\ p.finding \notin ReadForeign
<1>1. job \in Jobs /\ job.kind \in {"tar", "zip", "7z"}
  BY JobsAssumption DEF OutcomeInv, AdmissionInv, TarInv
<1>2. CASE job.kind = "tar"
  <2> DEFINE plan == PlanMembers(scan, job.budget)
  <2>1. ScanInv(scan) /\ NamesInv(scan) /\ Says(scan)
    BY <1>2 DEF OutcomeInv, AdmissionInv, TarInv, ScanKept, ReadyInv, ReportInv
  <2>2. p = plan_tar_domains(scan, ratio, job.budget, Charge(job, outer))
    <3>1. p = PlanTar(scan, ratio, job.budget, Charge(job, outer))
      BY <1>2 DEF PlanJob
    <3>2. scan.dialect \in {"ustar", "pax", "gnu"}
      BY <2>1 DEF ScanInv, Dialects
    <3> QED BY <3>1, <3>2 DEF PlanTar, plan_tar_pax, plan_tar_gnu_longname
  <2>3. PlanReport(plan)
    BY <2>1, TarNameable, TarPlanReport
  <2>4. NewPlan.findings = << >>
    BY DEF NewPlan
  <2> HIDE DEF plan
  <2>5. \/ p = [stage |-> "denied", finding |-> "QuotaRatio", plan |-> NewPlan]
        \/ p = [stage |-> "refused", finding |-> scan.verdict, plan |-> NewPlan]
        \/ p = Admission(plan)
    BY <2>2 DEF plan_tar_domains, plan
  <2> QED BY <2>1, <2>3, <2>4, <2>5 DEF Admission, PlanReport, Says
<1>3. CASE job.kind = "zip"
  <2> DEFINE plan == ZipPlanOf(scan.members, job.budget, scan.profile)
  <2>1. Nameable(scan.members) /\ ZipSays(scan)
    BY <1>3 DEF OutcomeInv, AdmissionInv, ReadyInv, IsZipScan, ReportInv
  <2>2. p = plan_snapshot(scan, job.magic, job.budget)
    BY <1>3 DEF PlanJob
  <2>3. p = CASE detect_magic(job.magic, scan.profile) # "zip"
                   -> [stage |-> "refused", finding |-> "FormatUnsupported", plan |-> NewZipPlan]
              [] detect_magic(job.magic, scan.profile) = "zip" /\ scan.verdict # "accepted"
                   -> [stage |-> "refused", finding |-> scan.verdict, plan |-> NewZipPlan]
              [] OTHER -> [stage |-> IF plan.findings # <<>> THEN "denied" ELSE "planned",
                           finding |-> IF plan.findings # <<>> THEN Head(plan.findings) ELSE OK,
                           plan |-> plan]
    BY <2>2 DEF plan_snapshot, ZipPlanOf
  <2>4. PlanReport(plan)
    BY <2>1, ZipPlanReport
  <2>5. "FormatUnsupported" \notin ReadForeign
    BY DEF ReadForeign
  <2> HIDE DEF plan
  <2>6. \/ p.stage = "refused" /\ p.finding \in {"FormatUnsupported", scan.verdict}
        \/ /\ p.stage = IF plan.findings # <<>> THEN "denied" ELSE "planned"
           /\ p.finding = IF plan.findings # <<>> THEN Head(plan.findings) ELSE OK
           /\ p.plan = plan
    BY <2>3
  <2> QED BY <2>1, <2>4, <2>5, <2>6 DEF PlanReport, ZipSays
<1>4. CASE job.kind = "7z"
  <2> DEFINE parsed == outer[1].result
             plan == SevenZPlan(parsed.members, job.budget)
  <2>1. p = IF parsed.kind # OK
            THEN [stage |-> "refused", finding |-> parsed.kind, plan |-> NewPlan]
            ELSE Admission(plan)
    BY <1>4 DEF PlanJob, PlanSevenZ, SevenZPlan
  <2>2. parsed.kind \notin ReadForeign
    BY <1>4 DEF OutcomeInv, ReportInv
  <2>3. parsed.kind = OK => PlanReport(plan)
    BY <1>4, SevenZPlanReport DEF OutcomeInv, AdmissionInv, ReadyInv
  <2> HIDE DEF plan, parsed
  <2> QED BY <2>1, <2>2, <2>3 DEF Admission, PlanReport
<1> QED BY <1>1, <1>2, <1>3, <1>4

\* Planning reports what stopped the archive.
LEMMA OutcomePlan == OutcomeInv /\ Plan => OutcomeInv'
<1> SUFFICES ASSUME OutcomeInv, Plan PROVE OutcomeInv'
  OBVIOUS
<1>1. AdmissionInv'
  BY AdmissionPlan DEF OutcomeInv
<1>2. phase = "parsed" /\ UNCHANGED <<job, outer, scan>>
  BY DEF Plan
<1>3. PICK ratio, p :
               /\ p = PlanJob(job, outer, scan, ratio)
               /\ outcome' = [stage |-> p.stage, finding |-> p.finding, plan |-> p.plan,
                              axes |-> PlanAxes(job, scan, p)]
               /\ phase' = IF p.stage = "planned" THEN "planned" ELSE "ended"
  BY DEF Plan
<1>4. /\ outcome'.stage = p.stage /\ outcome'.finding = p.finding
      /\ outcome'.axes = PlanAxes(job, scan, p)
  BY <1>3
<1>5. CASE p.stage = "planned"
  <2>1. outcome'.axes = NoAxes
    BY <1>4, <1>5 DEF PlanAxes
  <2>2. OutcomeTruthful'
    BY <2>1 DEF OutcomeTruthful
  <2> QED BY <1>1, <1>3, <1>5, <2>1, <2>2 DEF OutcomeInv, ReportInv
<1>6. CASE p.stage # "planned"
  <2> DEFINE w == Wrapped(job)
  <2>1. FairAxes(p.finding, p.stage, w, PlanAxes(job, scan, p))
    <3>1. CASE p.stage = "denied" /\ p.plan.findings = << >> /\ p.finding = "QuotaRatio"
      <4>1. PlanAxes(job, scan, p) = structure_stop("Interpreted", "Denied")
        BY <3>1 DEF PlanAxes
      <4>2. Fair(p.finding, p.stage, w, "Interpreted", "Denied")
        BY <3>1 DEF Fair
      <4> QED BY <4>1, <4>2, StopIsFair
    <3>2. CASE p.stage = "denied" /\ p.plan.findings # << >> /\ p.finding \notin PlanForeign
      <4>1. PlanAxes(job, scan, p) = denied_at_admission
        BY <3>2 DEF PlanAxes
      <4>2. Fair(p.finding, p.stage, w, "Interpreted", "Denied")
        BY <3>2 DEF Fair, PlanForeign
      <4> QED BY <4>1, <4>2 DEF FairAxes, denied_at_admission
    <3>3. CASE p.stage = "refused" /\ p.finding \notin ReadForeign
      <4>1. \/ PlanAxes(job, scan, p) = parse_failure_axes(p.finding)
            \/ \E absent : PlanAxes(job, scan, p)
                             = parse_failure_axes_for_profile(p.finding, scan.profile, absent)
        BY <3>3 DEF PlanAxes
      <4> QED BY <3>3, <4>1, ParseIsFair, ProfileIsFair
    <3> QED BY <1>2, <1>3, <1>6, <3>1, <3>2, <3>3, PlanSaid
  <2>2. FairAxes(outcome'.finding, outcome'.stage, Wrapped(job'), outcome'.axes)
    BY <1>2, <1>4, <2>1
  <2>3. OutcomeTruthful'
    BY <2>2, FairIsTruthful DEF OutcomeTruthful, ToldTruly
  <2>4. phase' = "ended"
    BY <1>3, <1>6
  <2> QED BY <1>1, <2>3, <2>4 DEF OutcomeInv, ReportInv
<1> QED BY <1>5, <1>6

\* The submission is accepted, or its refusal reported (policy_compile_failed,
\* source_failure).
LEMMA OutcomeSubmit == OutcomeInv /\ (Accept \/ RefuseSubmission) => OutcomeInv'
<1> SUFFICES ASSUME OutcomeInv, Accept \/ RefuseSubmission PROVE OutcomeInv'
  OBVIOUS
<1>1. AdmissionInv' /\ job \in Jobs
  BY AdmissionAccept, AdmissionOther DEF OutcomeInv, AdmissionInv, TarInv
<1>2. CASE Accept
  <2>1. phase = "submitted" /\ UNCHANGED <<job, outer, outcome>>
    BY <1>2 DEF Accept
  <2>2. outcome'.axes = NoAxes
    BY <2>1 DEF OutcomeInv, ReportInv
  <2>3. OutcomeTruthful'
    BY <2>2 DEF OutcomeTruthful
  <2>4. CASE job.kind = "7z" \/ Wrapped(job)
    <3>1. phase' = "decoding"
      BY <1>2, <2>4 DEF Accept
    <3> QED BY <1>1, <2>2, <2>3, <3>1 DEF OutcomeInv, ReportInv
  <2>5. CASE ~(job.kind = "7z" \/ Wrapped(job))
    <3>1. scan' = Start(job)
      BY <1>2, <2>5 DEF Accept
    <3>2. job.kind = "tar" => Says(scan')
      BY <3>1, NewScanSays DEF Start
    <3>3. job.kind = "zip" => ZipSays(scan')
      BY <3>1, NewZipScanSays DEF Start
    <3> QED BY <1>1, <2>1, <2>2, <2>3, <2>5, <3>2, <3>3 DEF OutcomeInv, ReportInv
  <2> QED BY <2>4, <2>5
<1>3. CASE RefuseSubmission
  <2> DEFINE f == job.submission
             x == IF f = "policy" THEN policy_compile_failed ELSE source_failure(f)
  <2>1. /\ f \in {"policy", "QuotaArchive", "SourceIo", "CoveringInconsistent"}
        /\ outcome' = Ends("refused", f, x) /\ job' = job /\ phase' = "ended"
    BY <1>1, <1>3, JobsAssumption DEF RefuseSubmission
  <2>2. outcome'.stage = "refused" /\ outcome'.finding = f /\ outcome'.axes = x
    <3> HIDE DEF f, x
    <3> QED BY <2>1 DEF Ends
  <2>3. FairAxes(f, "refused", Wrapped(job), x)
    <3> HIDE DEF f
    <3>1. CASE f = "policy"
      <4>1. Fair(f, "refused", Wrapped(job), "Indeterminate", "Denied")
        BY <3>1 DEF Fair, Limited
      <4> QED BY <3>1, <4>1 DEF FairAxes, policy_compile_failed
    <3>2. CASE f = "QuotaArchive"
      <4>1. Fair(f, "refused", Wrapped(job), "Indeterminate", "Denied")
        BY <3>2 DEF Fair, Limited
      <4> QED BY <3>2, <4>1 DEF FairAxes, source_failure
    <3>3. CASE f \in {"SourceIo", "CoveringInconsistent"}
      <4>1. Fair(f, "refused", Wrapped(job), "Indeterminate", "NotEvaluated")
        BY <3>3 DEF Fair, Limited
      <4>2. x = Axes("Indeterminate", "NotEvaluated", "StructureOnly", "NotRequested", "Source")
        BY <3>3 DEF source_failure
      <4> QED BY <4>1, <4>2 DEF FairAxes
    <3> QED BY <2>1, <3>1, <3>2, <3>3
  <2> HIDE DEF f, x
  <2>4. FairAxes(outcome'.finding, outcome'.stage, Wrapped(job'), outcome'.axes)
    BY <2>1, <2>2, <2>3
  <2>5. OutcomeTruthful'
    BY <2>4, FairIsTruthful DEF OutcomeTruthful, ToldTruly
  <2> QED BY <1>1, <2>1, <2>5 DEF OutcomeInv, ReportInv
<1> QED BY <1>2, <1>3

\* How each of the four decoders ends: with what the stream holds, with what
\* it was refused for, or with a wrapper its own audit refuses.
Reported ==
    \/ outcome' = NoOutcome /\ \E d : scan' = DerivedScan(job, d)
    \/ /\ phase' = "ended"
       /\ \E kind : /\ kind \notin StreamForeign
                    /\ outcome' = Ends("transform", kind, transform_failure_axes(job.codec, kind))
    \/ /\ phase' = "ended"
       /\ outcome' = Ends("transform", "CoveringInconsistent", ClassAxes("Indeterminate"))

\* The decoders report their own findings.
LEMMA DecodersReport ==
    ASSUME job \in Jobs, DecodeGzip \/ DecodeZstd \/ DecodeXz \/ DecodeBzip2
    PROVE job' = job /\ Wrapped(job) /\ Reported
<1> USE DEF Wrapped
<1>1. CASE DecodeGzip
  <2>1. job.codec = "gzip" /\ job' = job
    BY <1>1 DEF DecodeGzip, DecodeStream
  <2>2. \A o \in Images(job) : decode_single_member(o.img, o.len, Limits(job)).kind \notin StreamForeign
    BY <2>1, ImagesShaped, GzipSays DEF IsStreamImage
  <2> QED BY <1>1, <2>1, <2>2 DEF DecodeGzip, DecodeStream, Reported
<1>2. CASE DecodeZstd
  <2>1. job.codec = "zstd" /\ job' = job
    BY <1>2 DEF DecodeZstd, DecodeStream
  <2>2. \A o \in Images(job) : decode_single_frame(o.img, o.len, Limits(job)).kind \notin StreamForeign
    BY ZstdSays
  <2> QED BY <1>2, <2>1, <2>2 DEF DecodeZstd, DecodeStream, Reported
<1>3. CASE DecodeXz
  <2>1. job.codec = "xz" /\ job' = job
    BY <1>3 DEF DecodeXz, DecodeStream
  <2>2. \A o \in Images(job) : decode_single_stream(o.img, o.len, Limits(job)).kind \notin StreamForeign
    BY <2>1, ImagesShaped, XzSays DEF IsStreamImage
  <2> QED BY <1>3, <2>1, <2>2 DEF DecodeXz, DecodeStream, Reported
<1>4. CASE DecodeBzip2
  <2>1. job.codec = "bzip2" /\ job' = job
    BY <1>4 DEF DecodeBzip2, DecodeStream
  <2>2. \A o \in Images(job) : decode_bzip2_stream(o.img, o.len, Limits(job)).kind \notin StreamForeign
    BY Bzip2Says
  <2> QED BY <1>4, <2>1, <2>2 DEF DecodeBzip2, DecodeStream, Reported
<1> QED BY <1>1, <1>2, <1>3, <1>4

\* A decoder's failure is reported as what it is.
LEMMA OutcomeDecode ==
    OutcomeInv /\ (DecodeGzip \/ DecodeZstd \/ DecodeXz \/ DecodeBzip2) => OutcomeInv'
<1> SUFFICES ASSUME OutcomeInv, DecodeGzip \/ DecodeZstd \/ DecodeXz \/ DecodeBzip2
             PROVE OutcomeInv'
  OBVIOUS
<1>1. AdmissionInv' /\ job \in Jobs
  BY AdmissionDecode DEF OutcomeInv, AdmissionInv, TarInv
<1>2. job' = job /\ Wrapped(job) /\ Reported
  BY <1>1, DecodersReport
<1>3. job.kind = "tar" /\ job.codec \in {"gzip", "zstd", "xz", "bzip2"}
  BY <1>1, <1>2, JobsAssumption DEF Wrapped
<1>4. CASE outcome' = NoOutcome /\ \E d : scan' = DerivedScan(job, d)
  <2>1. outcome'.axes = NoAxes
    BY <1>4 DEF NoOutcome
  <2>2. Says(scan')
    BY <1>4, NewScanSays DEF DerivedScan
  <2>3. OutcomeTruthful'
    BY <2>1 DEF OutcomeTruthful
  <2> QED BY <1>1, <1>2, <1>3, <2>1, <2>2, <2>3 DEF OutcomeInv, ReportInv
<1>5. ASSUME phase' = "ended", NEW f, NEW x, outcome' = Ends("transform", f, x),
             FairAxes(f, "transform", TRUE, x)
      PROVE OutcomeInv'
  <2>1. outcome'.stage = "transform" /\ outcome'.finding = f /\ outcome'.axes = x
    BY <1>5 DEF Ends
  <2>2. Wrapped(job') = TRUE
    BY <1>2 DEF Wrapped
  <2>3. FairAxes(outcome'.finding, outcome'.stage, Wrapped(job'), outcome'.axes)
    BY <1>5, <2>1, <2>2
  <2>4. OutcomeTruthful'
    BY <2>3, FairIsTruthful DEF OutcomeTruthful, ToldTruly
  <2> QED BY <1>1, <1>5, <2>4 DEF OutcomeInv, ReportInv
<1>6. CASE /\ phase' = "ended"
           /\ \E kind : /\ kind \notin StreamForeign
                        /\ outcome' = Ends("transform", kind, transform_failure_axes(job.codec, kind))
  BY <1>3, <1>5, <1>6, TransformIsFair
<1>7. CASE /\ phase' = "ended"
           /\ outcome' = Ends("transform", "CoveringInconsistent", ClassAxes("Indeterminate"))
  <2>1. Fair("CoveringInconsistent", "transform", TRUE, "Indeterminate", "NotEvaluated")
    BY DEF Fair, Limited
  <2>2. ClassAxes("Indeterminate") = structure_stop("Indeterminate", "NotEvaluated")
    BY DEF ClassAxes
  <2> QED BY <1>5, <1>7, <2>1, <2>2, StopIsFair
<1> QED BY <1>2, <1>4, <1>6, <1>7 DEF Reported

\* A 7z archive is read: its reader's finding is kept for the planner.
LEMMA OutcomeSevenZ == OutcomeInv /\ ReadSevenZ => OutcomeInv'
<1> SUFFICES ASSUME OutcomeInv, ReadSevenZ PROVE OutcomeInv'
  OBVIOUS
<1>1. AdmissionInv' /\ job \in Jobs
  BY AdmissionSevenZ DEF OutcomeInv, AdmissionInv, TarInv
<1>2. phase = "decoding" /\ job.kind = "7z" /\ UNCHANGED <<job, outcome>>
  BY DEF ReadSevenZ
<1>3. PICK o \in Images(job) :
        outer' = <<[img |-> o.img, len |-> o.len,
                    result |-> parse_copy_portable_v1(o.img, o.len, job.budget.max_files,
                                                      job.budget.max_metadata)]>>
  BY DEF ReadSevenZ
<1> DEFINE r == parse_copy_portable_v1(o.img, o.len, job.budget.max_files,
                                       job.budget.max_metadata)
<1>4. r.kind \notin ReadForeign
  BY <1>1, <1>2, JobsAssumption, SevenZSays
<1> HIDE DEF r
<1>5. outer'[1].result = r
  BY <1>3 DEF r
<1>6. outcome'.axes = NoAxes
  BY <1>2 DEF OutcomeInv, ReportInv
<1>7. OutcomeTruthful'
  BY <1>6 DEF OutcomeTruthful
<1> QED BY <1>1, <1>2, <1>4, <1>5, <1>6, <1>7 DEF OutcomeInv, ReportInv

\* A failed read blames nothing on the archive.
LEMMA OutcomeSourceFails == OutcomeInv /\ SourceFails => OutcomeInv'
<1> SUFFICES ASSUME OutcomeInv, SourceFails PROVE OutcomeInv'
  OBVIOUS
<1>1. AdmissionInv' /\ job \in Jobs
  BY AdmissionOther DEF OutcomeInv, AdmissionInv, TarInv
<1>2. phase' = "ended" /\ job' = job
  BY DEF SourceFails
<1>3. ASSUME NEW stage, NEW f, NEW x, outcome' = Ends(stage, f, x), FairAxes(f, stage, Wrapped(job), x)
      PROVE OutcomeInv'
  <2>1. outcome'.stage = stage /\ outcome'.finding = f /\ outcome'.axes = x
    BY <1>3 DEF Ends
  <2>2. FairAxes(outcome'.finding, outcome'.stage, Wrapped(job'), outcome'.axes)
    BY <1>2, <1>3, <2>1
  <2>3. OutcomeTruthful'
    BY <2>2, FairIsTruthful DEF OutcomeTruthful, ToldTruly
  <2> QED BY <1>1, <1>2, <2>3 DEF OutcomeInv, ReportInv
<1>4. CASE phase = "decoding" /\ Wrapped(job)
  <2>1. outcome' = Ends("transform", "Source", transform_failure_axes(job.codec, "Source"))
    BY <1>4 DEF SourceFails
  <2>2. job.codec \in {"gzip", "zstd", "xz", "bzip2"} /\ Wrapped(job) = TRUE
    BY <1>1, <1>4, JobsAssumption DEF Wrapped
  <2>3. "Source" \notin StreamForeign
    BY DEF StreamForeign
  <2>4. FairAxes("Source", "transform", TRUE, transform_failure_axes(job.codec, "Source"))
    BY <2>2, <2>3, TransformIsFair
  <2> QED BY <1>3, <2>1, <2>2, <2>4
<1>5. CASE ~(phase = "decoding" /\ Wrapped(job))
  <2>1. outcome' = Ends("refused", "SourceIo", parse_failure_axes("SourceIo"))
    BY <1>5 DEF SourceFails
  <2>2. FairAxes("SourceIo", "refused", Wrapped(job), parse_failure_axes("SourceIo"))
    BY ParseIsFair
  <2> QED BY <1>3, <2>1, <2>2
<1> QED BY <1>4, <1>5

\* A turn of a reader leaves it with a finding of its own.
LEMMA OutcomeTurn == OutcomeInv /\ ReadTurn => OutcomeInv'
<1> SUFFICES ASSUME OutcomeInv, ReadTurn PROVE OutcomeInv'
  OBVIOUS
<1>1. AdmissionInv' /\ job \in Jobs
  BY AdmissionTurn DEF OutcomeInv, AdmissionInv, TarInv
<1>2. phase = "reading" /\ UNCHANGED <<job, outer, outcome>>
  BY DEF ReadTurn
<1>3. outcome'.axes = NoAxes /\ job.kind # "7z"
  BY <1>2 DEF OutcomeInv, ReportInv, AdmissionInv, ReadyInv
<1>4. OutcomeTruthful'
  BY <1>3 DEF OutcomeTruthful
<1>5. ASSUME job.kind = "tar" PROVE Says(scan')
  <2>1. Says(scan) /\ ScanInv(scan) /\ scan.dialect = job.dialect
    BY <1>2, <1>5 DEF OutcomeInv, ReportInv, AdmissionInv, TarInv, ScanKept
  <2>2. PICK w \in TarWindows(job) : scan' = TarStep(scan, w)
    BY <1>5 DEF ReadTurn, Windows, Step
  <2>3. IsWindow(scan.dialect, w) /\ scan.dialect \in Dialects
    BY <1>1, <1>5, <2>1, <2>2, JobsAssumption DEF ScanInv
  <2> QED BY <2>1, <2>2, <2>3, TarStepSays
<1>6. ASSUME job.kind = "zip" PROVE ZipSays(scan')
  <2>1. ZipSays(scan)
    BY <1>2, <1>6 DEF OutcomeInv, ReportInv
  <2>2. PICK w \in Windows(job, scan) : scan' = ZipStep(scan, w)
    BY <1>6 DEF ReadTurn, Step
  <2>3. ASSUME scan.stage # "end" /\ ~ZipExhausted(scan)
        PROVE IsName(w.cdh.name) /\ IsExtra(w.cdh.extra) /\ IsExtra(w.lfh.extra)
    <3>1. w \in ZipRecords(job, scan.members = << >>) /\ (scan.members = << >>) \in BOOLEAN
      BY <1>6, <2>2, <2>3 DEF Windows
    <3> QED BY <1>1, <1>6, <3>1, JobsAssumption
  <2> QED BY <2>1, <2>2, <2>3, ZipStepSays
<1> QED BY <1>1, <1>2, <1>3, <1>4, <1>5, <1>6 DEF OutcomeInv, ReportInv

\* A second reading that disagrees is the reader's fault where the archive was
\* derived; wrong evidence and the third reading change no outcome.
LEMMA OutcomeAudit ==
    ASSUME OutcomeInv, Misrecord \/ Audit \/ Verify \/ UNCHANGED vars PROVE OutcomeInv'
<1>1. AdmissionInv' /\ IsOutcome(outcome)
  BY AdmissionOther DEF OutcomeInv, AdmissionInv, TarInv
<1>2. UNCHANGED <<job, outer, scan>>
  BY DEF Misrecord, Audit, Verify, vars
<1>3. CASE outcome' = outcome
  <2>1. OutcomeTruthful'
    BY <1>2, <1>3 DEF OutcomeInv, OutcomeTruthful
  <2>2. phase' = phase \/ phase' \in {"audited", "ended"} \/ (phase = "planned" /\ phase' = "recorded")
    BY DEF Misrecord, Audit, Verify, vars
  <2> QED BY <1>1, <1>2, <1>3, <2>1, <2>2 DEF OutcomeInv, ReportInv
<1>4. CASE outcome' # outcome
  <2> DEFINE x == tar_covering_failure_axes(Wrapped(job))
  <2>1. phase' = "audited" /\ outcome' = [outcome EXCEPT !.finding = "CoveringInconsistent", !.axes = x]
    BY <1>4 DEF Misrecord, Audit, Verify, vars
  <2>2. outcome'.finding = "CoveringInconsistent" /\ outcome'.axes = x
    <3> HIDE DEF x
    <3> QED BY <1>1, <2>1 DEF IsOutcome
  <2>3. FairAxes("CoveringInconsistent", outcome'.stage, Wrapped(job), x)
    <3>1. /\ Fair("CoveringInconsistent", outcome'.stage, Wrapped(job), "Indeterminate", "NotEvaluated")
          /\ ~Wrapped(job) =>
               Fair("CoveringInconsistent", outcome'.stage, Wrapped(job), "Malformed", "Denied")
      BY DEF Fair, Limited
    <3> QED BY <3>1, StopIsFair DEF tar_covering_failure_axes
  <2> HIDE DEF x
  <2>4. FairAxes(outcome'.finding, outcome'.stage, Wrapped(job'), outcome'.axes)
    BY <1>2, <2>2, <2>3
  <2>5. OutcomeTruthful'
    BY <2>4, FairIsTruthful DEF OutcomeTruthful, ToldTruly
  <2> QED BY <1>1, <2>1, <2>5 DEF OutcomeInv, ReportInv
<1> QED BY <1>3, <1>4

\* Every step keeps the invariant.
LEMMA OutcomeNext == OutcomeInv /\ [Next]_vars => OutcomeInv'
BY OutcomeSubmit, OutcomeDecode, OutcomeSevenZ, OutcomeSourceFails, OutcomeTurn, OutcomePlan,
   OutcomeAudit DEF Next

\* For every archive, stream and budget the axes say why an archive stopped:
\* every limit of every reader, decoder and planner is reported as a denial of
\* something readable, nothing else is, a failed read blames nothing on the
\* archive, and what an own transform derived is never called malformed
\* (parse_failure_axes, gzip_failure_axes and its siblings, source_failure,
\* tar_covering_failure_axes).
THEOREM OutcomesAreTruthful == Spec => []OutcomeTruthful
<1>1. OutcomeInv => OutcomeTruthful
  BY DEF OutcomeInv
<1> QED BY <1>1, OutcomeInit, OutcomeNext, PTL DEF Spec

==============================================================================
