----------------------------- MODULE ExchangeProofs -----------------------------
(***************************************************************************)
(* What the supervisor accepts from the worker is true of the source, and  *)
(* a read through the worker gives what the in-process reader gives.  The  *)
(* argument is about the supervisor's replay alone and supposes nothing    *)
(* about the contents of an answer (AuthorizedReplay): the replay is a     *)
(* fold over the planned members, each of its turns verifies a member that *)
(* holds what it declares or stops at the first one that does not, and an  *)
(* answer is accepted only if it equals the replayed one.  That such an    *)
(* answer belongs to the record that was sent follows from the plan        *)
(* identity that the answers of the model carry (AnswerInv).               *)
(***************************************************************************)
EXTENDS RecordExchange, FiniteSetTheorems, WellFoundedInduction, TLAPS

-----------------------------------------------------------------------------
(***************************************************************************)
(* Sequences, sums and checks                                              *)
(***************************************************************************)
IsSequence(x) == \E S : x \in Seq(S)

\* The positions of a sequence, and what appending an item changes.
LEMMA AppendTo ==
    ASSUME NEW x, IsSequence(x), NEW e
    PROVE /\ IsSequence(Append(x, e))
          /\ Len(x) \in Nat /\ DOMAIN x = 1..Len(x)
          /\ Len(Append(x, e)) = Len(x) + 1
          /\ DOMAIN Append(x, e) = 1..(Len(x) + 1)
          /\ \A i \in 1..Len(x) : Append(x, e)[i] = x[i]
          /\ Append(x, e)[Len(x) + 1] = e
<1>1. PICK S : x \in Seq(S)
  BY DEF IsSequence
<1>2. x \in Seq(S \cup {e}) /\ Append(x, e) \in Seq(S \cup {e})
  BY <1>1
<1> QED BY <1>2 DEF IsSequence

\* A sequence followed by another one.
Follows(z, x, y) ==
    /\ IsSequence(z) /\ Len(x) \in Nat /\ Len(y) \in Nat
    /\ DOMAIN z = 1..(Len(x) + Len(y)) /\ Len(z) = Len(x) + Len(y)
    /\ \A i \in 1..Len(x) : z[i] = x[i]
    /\ \A i \in 1..Len(y) : z[Len(x) + i] = y[i]

\* The concatenation of two sequences is the one followed by the other.
LEMMA Concatenated ==
    ASSUME NEW x, IsSequence(x), NEW y, IsSequence(y)
    PROVE Follows(x \o y, x, y)
<1>1. PICK S, T : x \in Seq(S) /\ y \in Seq(T)
  BY DEF IsSequence
<1>2. x \in Seq(S \cup T) /\ y \in Seq(S \cup T)
  BY <1>1
<1>3. x \o y \in Seq(S \cup T)
  BY <1>2
<1> QED BY <1>2, <1>3 DEF IsSequence, Follows

\* A set of numbers that has one has a least one, which Min chooses.
LEMMA LeastOf ==
    ASSUME NEW S, S \subseteq Nat, S # {}
    PROVE Min(S) \in S /\ \A y \in S : Min(S) <= y
<1>1. PICK x \in S : \A y \in S : ~ (<<y, x>> \in OpToRel(<, Nat))
  BY WFMin, NatLessThanWellFounded
<1>2. ASSUME NEW y \in S, y < x PROVE FALSE
  <2>1. <<y, x>> \in Nat \X Nat /\ <<y, x>>[1] < <<y, x>>[2]
    BY <1>2
  <2>2. <<y, x>> \in OpToRel(<, Nat)
    BY <2>1, Zenon DEF OpToRel
  <2> QED BY <1>1, <2>2
<1>3. \A y \in S : x <= y
  BY <1>2
<1> QED BY <1>3 DEF Min

\* A member that is below all others is the one that Min chooses.
LEMMA LeastIs ==
    ASSUME NEW S, S \subseteq Nat, NEW x \in S, \A y \in S : x <= y
    PROVE Min(S) = x
<1>1. Min(S) \in S /\ \A y \in S : Min(S) <= y
  BY LeastOf
<1>2. Min(S) \in Nat /\ x \in Nat /\ Min(S) <= x /\ x <= Min(S)
  BY <1>1
<1> QED BY <1>2

\* A list of checks reports nothing, or the finding of a check that applies.
LEMMA CheckApplies ==
    ASSUME NEW n \in Nat, NEW checks, DOMAIN checks = 1..n
    PROVE \/ FirstOf(checks) = OK /\ \A i \in 1..n : ~checks[i][1]
          \/ \E i \in 1..n : checks[i][1] /\ FirstOf(checks) = checks[i][2]
<1> DEFINE hits == {i \in DOMAIN checks : checks[i][1]}
<1>1. CASE hits = {}
  BY <1>1 DEF FirstOf
<1>2. CASE hits # {}
  <2>1. hits \subseteq Nat
    OBVIOUS
  <2>2. Min(hits) \in hits
    BY <1>2, <2>1, LeastOf
  <2>3. FirstOf(checks) = checks[Min(hits)][2]
    BY <1>2 DEF FirstOf
  <2> HIDE DEF hits
  <2>4. Min(hits) \in 1..n /\ checks[Min(hits)][1]
    BY <2>2 DEF hits
  <2> QED BY <2>3, <2>4
<1> QED BY <1>1, <1>2

\* The same for three, six and seven checks.
LEMMA CheckOf3 ==
    ASSUME NEW a1, NEW b1, NEW a2, NEW b2, NEW a3, NEW b3
    PROVE LET f == FirstOf(<< <<a1, b1>>, <<a2, b2>>, <<a3, b3>> >>)
          IN  \/ f = OK /\ ~a1 /\ ~a2 /\ ~a3
              \/ (a1 /\ f = b1) \/ (a2 /\ f = b2) \/ (a3 /\ f = b3)
<1> DEFINE checks == << <<a1, b1>>, <<a2, b2>>, <<a3, b3>> >>
<1>1. DOMAIN checks = 1..3
  OBVIOUS
<1>2. /\ checks[1][1] = a1 /\ checks[1][2] = b1 /\ checks[2][1] = a2 /\ checks[2][2] = b2
      /\ checks[3][1] = a3 /\ checks[3][2] = b3
  OBVIOUS
<1> HIDE DEF checks
<1>3. \A i \in 1..3 : i = 1 \/ i = 2 \/ i = 3
  OBVIOUS
<1>4. \/ FirstOf(checks) = OK /\ \A i \in 1..3 : ~checks[i][1]
      \/ \E i \in 1..3 : checks[i][1] /\ FirstOf(checks) = checks[i][2]
  BY <1>1, CheckApplies
<1>5. CASE FirstOf(checks) = OK /\ \A i \in 1..3 : ~checks[i][1]
  <2>1. /\ ~checks[1][1] /\ ~checks[2][1] /\ ~checks[3][1]
    BY <1>5
  <2> QED BY <1>2, <1>5, <2>1 DEF checks
<1>6. CASE \E i \in 1..3 : checks[i][1] /\ FirstOf(checks) = checks[i][2]
  <2>1. \/ (checks[1][1] /\ FirstOf(checks) = checks[1][2])
        \/ (checks[2][1] /\ FirstOf(checks) = checks[2][2])
        \/ (checks[3][1] /\ FirstOf(checks) = checks[3][2])
    BY <1>3, <1>6
  <2> QED BY <1>2, <2>1 DEF checks
<1> QED BY <1>4, <1>5, <1>6

\* Six checks: the finding of the first that applies, or none.
LEMMA CheckOf6 ==
    ASSUME NEW a1, NEW b1, NEW a2, NEW b2, NEW a3, NEW b3, NEW a4, NEW b4, NEW a5, NEW b5, NEW a6, NEW b6
    PROVE LET f == FirstOf(<< <<a1, b1>>, <<a2, b2>>, <<a3, b3>>, <<a4, b4>>, <<a5, b5>>,
                              <<a6, b6>> >>)
          IN  \/ f = OK /\ ~a1 /\ ~a2 /\ ~a3 /\ ~a4 /\ ~a5 /\ ~a6
              \/ (a1 /\ f = b1) \/ (a2 /\ f = b2) \/ (a3 /\ f = b3) \/ (a4 /\ f = b4)
              \/ (a5 /\ f = b5) \/ (a6 /\ f = b6)
<1> DEFINE checks == << <<a1, b1>>, <<a2, b2>>, <<a3, b3>>, <<a4, b4>>, <<a5, b5>>,
                     <<a6, b6>> >>
<1>1. DOMAIN checks = 1..6
  OBVIOUS
<1>2. /\ checks[1][1] = a1 /\ checks[1][2] = b1 /\ checks[2][1] = a2 /\ checks[2][2] = b2
      /\ checks[3][1] = a3 /\ checks[3][2] = b3 /\ checks[4][1] = a4 /\ checks[4][2] = b4
      /\ checks[5][1] = a5 /\ checks[5][2] = b5 /\ checks[6][1] = a6 /\ checks[6][2] = b6
  OBVIOUS
<1> HIDE DEF checks
<1>3. \A i \in 1..6 : i = 1 \/ i = 2 \/ i = 3 \/ i = 4 \/ i = 5 \/ i = 6
  OBVIOUS
<1>4. \/ FirstOf(checks) = OK /\ \A i \in 1..6 : ~checks[i][1]
      \/ \E i \in 1..6 : checks[i][1] /\ FirstOf(checks) = checks[i][2]
  BY <1>1, CheckApplies
<1>5. CASE FirstOf(checks) = OK /\ \A i \in 1..6 : ~checks[i][1]
  <2>1. /\ ~checks[1][1] /\ ~checks[2][1] /\ ~checks[3][1] /\ ~checks[4][1] /\ ~checks[5][1]
        /\ ~checks[6][1]
    BY <1>5
  <2> QED BY <1>2, <1>5, <2>1 DEF checks
<1>6. CASE \E i \in 1..6 : checks[i][1] /\ FirstOf(checks) = checks[i][2]
  <2>1. \/ (checks[1][1] /\ FirstOf(checks) = checks[1][2])
        \/ (checks[2][1] /\ FirstOf(checks) = checks[2][2])
        \/ (checks[3][1] /\ FirstOf(checks) = checks[3][2])
        \/ (checks[4][1] /\ FirstOf(checks) = checks[4][2])
        \/ (checks[5][1] /\ FirstOf(checks) = checks[5][2])
        \/ (checks[6][1] /\ FirstOf(checks) = checks[6][2])
    BY <1>3, <1>6
  <2> QED BY <1>2, <2>1 DEF checks
<1> QED BY <1>4, <1>5, <1>6

\* Seven checks: the finding of the first that applies, or none.
LEMMA CheckOf7 ==
    ASSUME NEW a1, NEW b1, NEW a2, NEW b2, NEW a3, NEW b3, NEW a4, NEW b4, NEW a5, NEW b5, NEW a6, NEW b6,
           NEW a7, NEW b7
    PROVE LET f == FirstOf(<< <<a1, b1>>, <<a2, b2>>, <<a3, b3>>, <<a4, b4>>, <<a5, b5>>,
                              <<a6, b6>>, <<a7, b7>> >>)
          IN  \/ f = OK /\ ~a1 /\ ~a2 /\ ~a3 /\ ~a4 /\ ~a5 /\ ~a6 /\ ~a7
              \/ (a1 /\ f = b1) \/ (a2 /\ f = b2) \/ (a3 /\ f = b3) \/ (a4 /\ f = b4)
              \/ (a5 /\ f = b5) \/ (a6 /\ f = b6) \/ (a7 /\ f = b7)
<1> DEFINE checks == << <<a1, b1>>, <<a2, b2>>, <<a3, b3>>, <<a4, b4>>, <<a5, b5>>,
                     <<a6, b6>>, <<a7, b7>> >>
<1>1. DOMAIN checks = 1..7
  OBVIOUS
<1>2. /\ checks[1][1] = a1 /\ checks[1][2] = b1 /\ checks[2][1] = a2 /\ checks[2][2] = b2
      /\ checks[3][1] = a3 /\ checks[3][2] = b3 /\ checks[4][1] = a4 /\ checks[4][2] = b4
      /\ checks[5][1] = a5 /\ checks[5][2] = b5 /\ checks[6][1] = a6 /\ checks[6][2] = b6
      /\ checks[7][1] = a7 /\ checks[7][2] = b7
  OBVIOUS
<1> HIDE DEF checks
<1>3. \A i \in 1..7 : i = 1 \/ i = 2 \/ i = 3 \/ i = 4 \/ i = 5 \/ i = 6 \/ i = 7
  OBVIOUS
<1>4. \/ FirstOf(checks) = OK /\ \A i \in 1..7 : ~checks[i][1]
      \/ \E i \in 1..7 : checks[i][1] /\ FirstOf(checks) = checks[i][2]
  BY <1>1, CheckApplies
<1>5. CASE FirstOf(checks) = OK /\ \A i \in 1..7 : ~checks[i][1]
  <2>1. /\ ~checks[1][1] /\ ~checks[2][1] /\ ~checks[3][1] /\ ~checks[4][1] /\ ~checks[5][1]
        /\ ~checks[6][1] /\ ~checks[7][1]
    BY <1>5
  <2> QED BY <1>2, <1>5, <2>1 DEF checks
<1>6. CASE \E i \in 1..7 : checks[i][1] /\ FirstOf(checks) = checks[i][2]
  <2>1. \/ (checks[1][1] /\ FirstOf(checks) = checks[1][2])
        \/ (checks[2][1] /\ FirstOf(checks) = checks[2][2])
        \/ (checks[3][1] /\ FirstOf(checks) = checks[3][2])
        \/ (checks[4][1] /\ FirstOf(checks) = checks[4][2])
        \/ (checks[5][1] /\ FirstOf(checks) = checks[5][2])
        \/ (checks[6][1] /\ FirstOf(checks) = checks[6][2])
        \/ (checks[7][1] /\ FirstOf(checks) = checks[7][2])
    BY <1>3, <1>6
  <2> QED BY <1>2, <2>1 DEF checks
<1> QED BY <1>4, <1>5, <1>6

-----------------------------------------------------------------------------
(***************************************************************************)
(* One payload                                                             *)
(***************************************************************************)
Plus(p, n, c) == n + c
SumFold == INSTANCE FoldTheorems WITH Op <- Plus

SumOfChunks(s) == FoldLeft(LAMBDA n, c : n + c, 0, s)

\* A sum is the last of its partial sums.
LEMMA PartialSums ==
    ASSUME NEW n \in Nat, NEW s, DOMAIN s = 1..n
    PROVE \E h : /\ h[0] = 0 /\ SumOfChunks(s) = h[n]
                 /\ \A k \in Nat : k < n => h[k + 1] = h[k] + s[k + 1]
<1>1. SumOfChunks(s) = SumFold!Fold(0, 0, s)
  BY DEF SumOfChunks, Plus, SumFold!Fold, FoldLeft, MapThenFoldSet, SumFold!FoldLeft,
         SumFold!MapThenFoldSet, Max, SumFold!Max
<1>2. PICK h : SumFold!IsRun(h, 0, 0, s, n) /\ SumFold!Fold(0, 0, s) = h[n]
  BY SumFold!FoldRuns
<1> QED BY <1>1, <1>2 DEF SumFold!IsRun, Plus

\* What a payload has produced after each chunk is a number and never falls.
LEMMA ProducedGrows ==
    ASSUME NEW p, p.chunks \in Seq(Nat)
    PROVE /\ Len(p.chunks) \in Nat /\ DOMAIN p.chunks = 1..Len(p.chunks)
          /\ Produced(p, Len(p.chunks)) = SumOfChunks(p.chunks) /\ SumOfChunks(p.chunks) \in Nat
          /\ \A i \in DOMAIN p.chunks : /\ Produced(p, i) \in Nat
                                        /\ Produced(p, i) <= SumOfChunks(p.chunks)
<1> DEFINE s == p.chunks
           n == Len(s)
<1>1. n \in Nat /\ DOMAIN s = 1..n /\ \A i \in 1..n : s[i] \in Nat
  OBVIOUS
<1>2. PICK h : /\ h[0] = 0 /\ SumOfChunks(s) = h[n]
               /\ \A k \in Nat : k < n => h[k + 1] = h[k] + s[k + 1]
  BY <1>1, PartialSums
<1>3. ASSUME NEW i \in 0..n PROVE Produced(p, i) = h[i]
  <2> DEFINE t == SubSeq(s, 1, i)
  <2>1. i \in Nat /\ DOMAIN t = 1..i /\ \A k \in 1..i : t[k] = s[k]
    BY <1>1
  <2>2. Produced(p, i) = SumOfChunks(t)
    BY DEF Produced, SumOfChunks
  <2> HIDE DEF t, s, n
  <2>3. PICK g : /\ g[0] = 0 /\ SumOfChunks(t) = g[i]
                 /\ \A k \in Nat : k < i => g[k + 1] = g[k] + t[k + 1]
    <3>1. i \in Nat /\ DOMAIN t = 1..i
      BY <2>1
    <3> QED BY <3>1, PartialSums, Zenon
  <2> DEFINE T == {k \in Nat : k <= i => g[k] = h[k]}
  <2>4. 0 \in T
    BY <1>2, <2>3
  <2>5. ASSUME NEW k \in Nat, k \in T PROVE k + 1 \in T
    <3> SUFFICES ASSUME k + 1 <= i PROVE g[k + 1] = h[k + 1]
      OBVIOUS
    <3>1. k + 1 \in 1..i /\ k < i /\ k < n /\ k <= i
      BY <1>1
    <3> QED BY <1>2, <2>1, <2>3, <2>5, <3>1
  <2>6. i \in T
    <3> HIDE DEF T
    <3> QED BY <2>1, <2>4, <2>5, SumFold!SetInduction
  <2> QED BY <2>1, <2>2, <2>3, <2>6
<1> HIDE DEF s, n
<1> DEFINE T == {k \in Nat : k <= n => h[k] \in Nat /\ \A j \in 0..k : h[j] \in Nat /\ h[j] <= h[k]}
<1>4. 0 \in T
  BY <1>2
<1>5. ASSUME NEW k \in Nat, k \in T PROVE k + 1 \in T
  <2> SUFFICES ASSUME k + 1 <= n
               PROVE h[k + 1] \in Nat /\ \A j \in 0..(k + 1) : h[j] \in Nat /\ h[j] <= h[k + 1]
    OBVIOUS
  <2>1. h[k + 1] = h[k] + s[k + 1] /\ s[k + 1] \in Nat /\ h[k] \in Nat
    BY <1>1, <1>2, <1>5
  <2>2. ASSUME NEW j \in 0..k PROVE h[j] \in Nat /\ h[j] <= h[k + 1]
    <3>1. h[j] \in Nat /\ h[j] <= h[k]
      BY <1>1, <1>5
    <3> QED BY <2>1, <3>1
  <2>3. \A j \in 0..(k + 1) : j \in 0..k \/ j = k + 1
    OBVIOUS
  <2> QED BY <2>1, <2>2, <2>3
<1>6. n \in T
  <2> HIDE DEF T
  <2> QED BY <1>1, <1>4, <1>5, SumFold!SetInduction
<1>7. n \in 0..n /\ \A i \in 1..n : i \in 0..n
  BY <1>1
<1>8. h[n] \in Nat /\ \A j \in 0..n : h[j] \in Nat /\ h[j] <= h[n]
  BY <1>1, <1>6
<1> HIDE DEF T
<1>9. Produced(p, n) = h[n] /\ \A i \in 1..n : Produced(p, i) = h[i]
  BY <1>3, <1>7
<1>10. \A i \in 1..n : Produced(p, i) \in Nat /\ Produced(p, i) <= SumOfChunks(s)
  BY <1>2, <1>7, <1>8, <1>9
<1> QED BY <1>1, <1>2, <1>8, <1>9, <1>10 DEF s, n

\* The findings with which a replayed member can end the replay.
StopCodes == {"SourceIo", "QuotaDeclaredLie", "CrcMismatch", "CodecDeflateInvalidStream",
              "CodecDeflateTrailingInput"}
StageCodes == {"MaterializeIo", "MaterializeUnsafeComponent"}

\* A payload is what a file declares.
HoldsTrue(p, m) ==
    /\ p.fault # "io" /\ p.crc = m.crc /\ SumOfChunks(p.chunks) = m.uncomp_size
    /\ m.method = 8 => p.fault # "invalid" /\ p.consumed = m.comp_size

ChunksPass(p, m, budget, remaining) ==
    \A i \in DOMAIN p.chunks : ChunkFinding(Produced(p, i), m, budget, remaining, TRUE) = OK

\* Without a stage a payload passes only if it is what its file declares, and
\* one that is never stops the replay.
LEMMA PayloadVerified ==
    ASSUME NEW p, p.chunks \in Seq(Nat), NEW m, NEW budget, NEW remaining
    PROVE LET v == verify_payload(p, m, budget, remaining, TRUE)
          IN  /\ v.content = Measured(SumOfChunks(p.chunks), p.crc, p.sha)
              /\ v.finding = OK => /\ HoldsTrue(p, m) /\ ChunksPass(p, m, budget, remaining)
                                   /\ m.method \in {0, 8}
              /\ HoldsTrue(p, m) => v.finding \notin StopCodes \cup StageCodes
<1> DEFINE Chunk(i) == ChunkFinding(Produced(p, i), m, budget, remaining, TRUE)
           bad == {i \in DOMAIN p.chunks : Chunk(i) # OK}
           size == Produced(p, Len(p.chunks))
           first == IF bad = {} THEN OK ELSE Chunk(Min(bad))
           v == verify_payload(p, m, budget, remaining, TRUE)
           f == v.finding
           a1 == m.method \notin {0, 8}
           a2 == bad # {}
           a3 == p.fault = "io"
           a4 == m.method = 8 /\ p.fault = "invalid"
           a5 == m.method = 8 /\ p.consumed # m.comp_size
           a6 == size # m.uncomp_size
           a7 == p.crc # m.crc
<1>1. /\ Len(p.chunks) \in Nat /\ DOMAIN p.chunks = 1..Len(p.chunks)
      /\ size = SumOfChunks(p.chunks) /\ size \in Nat
      /\ \A i \in DOMAIN p.chunks : Produced(p, i) \in Nat /\ Produced(p, i) <= size
  BY ProducedGrows
<1>2. /\ v.content = Measured(size, p.crc, p.sha)
      /\ f = FirstOf(<< <<a1, "MethodUnsupported">>, <<a2, first>>, <<a3, "SourceIo">>,
                        <<a4, "CodecDeflateInvalidStream">>, <<a5, "CodecDeflateTrailingInput">>,
                        <<a6, "QuotaDeclaredLie">>, <<a7, "CrcMismatch">> >>)
  BY DEF verify_payload
<1>3. bad # {} => Min(bad) \in DOMAIN p.chunks /\ Chunk(Min(bad)) # OK
  <2> HIDE DEF Chunk
  <2>1. bad \subseteq Nat
    BY <1>1
  <2>2. bad # {} => Min(bad) \in bad
    <3> HIDE DEF bad
    <3> QED BY <2>1, LeastOf
  <2> QED BY <2>2
<1>4. ASSUME NEW i \in DOMAIN p.chunks, HoldsTrue(p, m)
      PROVE Chunk(i) \notin StopCodes \cup StageCodes
  <2> DEFINE actual == Produced(p, i)
             c1 == actual > MaxU64
             c2 == actual > m.uncomp_size
             c3 == actual > budget.max_member
             c4 == actual > remaining
             c5 == budget.max_ratio # <<>> /\ ZipRatioExceeds(actual, m.comp_size, budget.max_ratio[1])
             c6 == ~TRUE
             c == Chunk(i)
  <2>1. ~c2 /\ ~c6
    BY <1>1, <1>4 DEF HoldsTrue
  <2>2. c = FirstOf(<< <<c1, "QuotaOverflow">>, <<c2, "QuotaDeclaredLie">>, <<c3, "QuotaMember">>,
                       <<c4, "QuotaTotal">>, <<c5, "QuotaRatio">>, <<c6, "MaterializeIo">> >>)
    BY DEF ChunkFinding
  <2> HIDE DEF c1, c2, c3, c4, c5, c6, c
  <2>3. c = OK \/ c \in {"QuotaOverflow", "QuotaMember", "QuotaTotal", "QuotaRatio"}
    BY <2>1, <2>2, CheckOf6
  <2> QED BY <2>3 DEF c, StopCodes, StageCodes, OK
<1> HIDE DEF f, Chunk
<1>5. \/ f = OK /\ ~a1 /\ ~a2 /\ ~a3 /\ ~a4 /\ ~a5 /\ ~a6 /\ ~a7
      \/ (a1 /\ f = "MethodUnsupported") \/ (a2 /\ f = first) \/ (a3 /\ f = "SourceIo")
      \/ (a4 /\ f = "CodecDeflateInvalidStream") \/ (a5 /\ f = "CodecDeflateTrailingInput")
      \/ (a6 /\ f = "QuotaDeclaredLie") \/ (a7 /\ f = "CrcMismatch")
  <2> HIDE DEF a1, a2, a3, a4, a5, a6, a7, first
  <2> QED BY <1>2, CheckOf7
<1>6. f = OK => HoldsTrue(p, m) /\ ChunksPass(p, m, budget, remaining) /\ m.method \in {0, 8}
  <2> SUFFICES ASSUME f = OK PROVE HoldsTrue(p, m) /\ bad = {} /\ m.method \in {0, 8}
    BY DEF ChunksPass, Chunk
  <2>1. bad # {} => first # OK
    BY <1>3
  <2> HIDE DEF first, bad, size
  <2> QED BY <1>1, <1>5, <2>1 DEF HoldsTrue, OK
<1>7. HoldsTrue(p, m) => f \notin StopCodes \cup StageCodes
  <2> SUFFICES ASSUME HoldsTrue(p, m) PROVE f \notin StopCodes \cup StageCodes
    OBVIOUS
  <2>1. bad # {} => first \notin StopCodes \cup StageCodes
    BY <1>3, <1>4
  <2> HIDE DEF first, bad, size
  <2> QED BY <1>1, <1>5, <2>1 DEF HoldsTrue, StopCodes, StageCodes, OK
<1> QED BY <1>1, <1>2, <1>6, <1>7 DEF f

\* A payload that passed within some budget passes again within its own size.
Passed(p, m, budget) ==
    /\ p.chunks \in Seq(Nat) /\ m.method \in {0, 8} /\ HoldsTrue(p, m)
    /\ \E r : ChunksPass(p, m, budget, r)

\* verify_payload finds nothing against it the second time.
LEMMA PayloadAgain ==
    ASSUME NEW p, NEW m, NEW budget, Passed(p, m, budget)
    PROVE verify_payload(p, m, budget, m.uncomp_size, TRUE).finding = OK
<1> PICK remaining : /\ p.chunks \in Seq(Nat) /\ m.method \in {0, 8} /\ HoldsTrue(p, m)
                     /\ ChunksPass(p, m, budget, remaining)
  BY DEF Passed
<1> DEFINE bad == {i \in DOMAIN p.chunks :
                      ChunkFinding(Produced(p, i), m, budget, m.uncomp_size, TRUE) # OK}
           size == Produced(p, Len(p.chunks))
           first == IF bad = {} THEN OK
                    ELSE ChunkFinding(Produced(p, Min(bad)), m, budget, m.uncomp_size, TRUE)
           f == verify_payload(p, m, budget, m.uncomp_size, TRUE).finding
           a1 == m.method \notin {0, 8}
           a2 == bad # {}
           a3 == p.fault = "io"
           a4 == m.method = 8 /\ p.fault = "invalid"
           a5 == m.method = 8 /\ p.consumed # m.comp_size
           a6 == size # m.uncomp_size
           a7 == p.crc # m.crc
<1>1. /\ size = SumOfChunks(p.chunks) /\ size \in Nat
      /\ \A i \in DOMAIN p.chunks : Produced(p, i) \in Nat /\ Produced(p, i) <= size
  BY ProducedGrows
<1>2. ASSUME NEW i \in DOMAIN p.chunks
      PROVE ChunkFinding(Produced(p, i), m, budget, m.uncomp_size, TRUE) = OK
  <2> DEFINE actual == Produced(p, i)
             c1 == actual > MaxU64
             c2 == actual > m.uncomp_size
             c3 == actual > budget.max_member
             c4 == actual > remaining
             c5 == budget.max_ratio # <<>> /\ ZipRatioExceeds(actual, m.comp_size, budget.max_ratio[1])
             c6 == ~TRUE
             then == ChunkFinding(actual, m, budget, remaining, TRUE)
             now == ChunkFinding(actual, m, budget, m.uncomp_size, TRUE)
  <2>1. /\ then = FirstOf(<< <<c1, "QuotaOverflow">>, <<c2, "QuotaDeclaredLie">>, <<c3, "QuotaMember">>,
                             <<c4, "QuotaTotal">>, <<c5, "QuotaRatio">>, <<c6, "MaterializeIo">> >>)
        /\ now = FirstOf(<< <<c1, "QuotaOverflow">>, <<c2, "QuotaDeclaredLie">>, <<c3, "QuotaMember">>,
                            <<c2, "QuotaTotal">>, <<c5, "QuotaRatio">>, <<c6, "MaterializeIo">> >>)
    BY DEF ChunkFinding
  <2>2. then = OK
    BY DEF ChunksPass
  <2>3. ~c2 /\ ~c6
    BY <1>1 DEF HoldsTrue
  <2>4. "QuotaOverflow" # OK /\ "QuotaMember" # OK /\ "QuotaTotal" # OK /\ "QuotaRatio" # OK
    BY DEF OK
  <2> HIDE DEF c1, c2, c3, c4, c5, c6, then, now
  <2>5. ~c1 /\ ~c3 /\ ~c5
    <3>1. \/ then = OK /\ ~c1 /\ ~c2 /\ ~c3 /\ ~c4 /\ ~c5 /\ ~c6
          \/ (c1 /\ then = "QuotaOverflow") \/ (c2 /\ then = "QuotaDeclaredLie")
          \/ (c3 /\ then = "QuotaMember") \/ (c4 /\ then = "QuotaTotal")
          \/ (c5 /\ then = "QuotaRatio") \/ (c6 /\ then = "MaterializeIo")
      BY <2>1, CheckOf6
    <3> QED BY <2>2, <2>3, <2>4, <3>1
  <2>6. now = OK
    BY <2>1, <2>3, <2>5, CheckOf6
  <2> QED BY <2>6 DEF now
<1>3. bad = {}
  BY <1>2
<1>4. f = FirstOf(<< <<a1, "MethodUnsupported">>, <<a2, first>>, <<a3, "SourceIo">>,
                     <<a4, "CodecDeflateInvalidStream">>, <<a5, "CodecDeflateTrailingInput">>,
                     <<a6, "QuotaDeclaredLie">>, <<a7, "CrcMismatch">> >>)
  BY DEF verify_payload
<1>5. ~a1 /\ ~a2 /\ ~a3 /\ ~a4 /\ ~a5 /\ ~a6 /\ ~a7
  <2> HIDE DEF size
  <2> QED BY <1>1, <1>3 DEF HoldsTrue
<1> HIDE DEF a1, a2, a3, a4, a5, a6, a7, first, f
<1>6. f = OK
  BY <1>4, <1>5, CheckOf7
<1> QED BY <1>6 DEF f

-----------------------------------------------------------------------------
(***************************************************************************)
(* What is retained                                                        *)
(***************************************************************************)
DistinctPaths(ms) == \A i, j \in DOMAIN ms : ms[i].components = ms[j].components => i = j

\* A path names at most one member.
LEMMA OneHit ==
    ASSUME NEW ms, DistinctPaths(ms), NEW k \in DOMAIN ms, NEW path, ms[k].components = path
    PROVE MemberAt(ms, path) = {k} /\ (CHOOSE i \in MemberAt(ms, path) : TRUE) = k
<1>1. MemberAt(ms, path) = {k}
  BY DEF MemberAt, DistinctPaths
<1> QED BY <1>1

SelectOp(p, st, path) == SelectPath(p[1], p[2], st, path)
SelectFold == INSTANCE FoldTheorems WITH Op <- SelectOp

\* The loop over the requested paths: each has one entry, decided by what was
\* charged before it.
IsRetentionRun(h, retention, ms, n) ==
    /\ h[0].total = 0
    /\ \A k \in Nat : k < n => h[k + 1] = SelectPath(retention, ms, h[k], retention[1].paths[k + 1])
    /\ DOMAIN RetentionPlan(retention, ms) = 1..n /\ Len(RetentionPlan(retention, ms)) = n
    /\ \A i \in 1..n : RetentionPlan(retention, ms)[i]
          = [path |-> retention[1].paths[i],
             status |-> SelectStatus(retention, ms, h[i - 1].total, retention[1].paths[i]), bytes |-> <<>>]

\* The retained entries are those of such a loop.
LEMMA RetentionRun ==
    ASSUME NEW retention, retention # <<>>, NEW n \in Nat, DOMAIN retention[1].paths = 1..n, NEW ms
    PROVE \E h : IsRetentionRun(h, retention, ms, n)
<1> DEFINE paths == retention[1].paths
           x == <<retention, ms>>
           base == [total |-> 0, entries |-> <<>>]
           R == RetentionPlan(retention, ms)
<1>1. R = SelectFold!Fold(x, base, paths).entries
  <2>1. x[1] = retention /\ x[2] = ms
    OBVIOUS
  <2> HIDE DEF x
  <2> QED BY <2>1 DEF RetentionPlan, SelectOp, SelectFold!Fold, FoldLeft, MapThenFoldSet, SelectFold!FoldLeft,
                      SelectFold!MapThenFoldSet, Max, SelectFold!Max
<1>2. PICK h : SelectFold!IsRun(h, x, base, paths, n) /\ SelectFold!Fold(x, base, paths) = h[n]
  BY SelectFold!FoldRuns
<1>3. /\ h[0] = base
      /\ \A k \in Nat : k < n => h[k + 1] = SelectPath(retention, ms, h[k], paths[k + 1])
  BY <1>2 DEF SelectFold!IsRun, SelectOp
<1> DEFINE Entry(i) == [path |-> paths[i],
                        status |-> SelectStatus(retention, ms, h[i - 1].total, paths[i]), bytes |-> <<>>]
           T == {k \in Nat : k <= n => /\ IsSequence(h[k].entries) /\ Len(h[k].entries) = k
                                       /\ \A i \in 1..k : h[k].entries[i] = Entry(i)}
<1>4. 0 \in T
  <2>1. <<>> \in Seq({}) /\ Len(<<>>) = 0 /\ 1..0 = {}
    OBVIOUS
  <2>2. h[0].entries = <<>>
    BY <1>3
  <2> QED BY <2>1, <2>2 DEF IsSequence
<1>5. ASSUME NEW k \in Nat, k \in T PROVE k + 1 \in T
  <2> HIDE DEF Entry
  <2> SUFFICES ASSUME k + 1 <= n
               PROVE /\ IsSequence(h[k + 1].entries) /\ Len(h[k + 1].entries) = k + 1
                     /\ \A i \in 1..(k + 1) : h[k + 1].entries[i] = Entry(i)
    OBVIOUS
  <2>1. /\ IsSequence(h[k].entries) /\ Len(h[k].entries) = k
        /\ \A i \in 1..k : h[k].entries[i] = Entry(i)
    BY <1>5
  <2>2. (k + 1) - 1 = k /\ h[k + 1] = SelectPath(retention, ms, h[k], paths[k + 1])
    BY <1>3
  <2>3. h[k + 1].entries = Append(h[k].entries, Entry(k + 1))
    BY <2>2 DEF SelectPath, Entry
  <2>4. \A i \in 1..(k + 1) : i \in 1..k \/ i = k + 1
    OBVIOUS
  <2> QED BY <2>1, <2>3, <2>4, AppendTo
<1>6. n \in T
  <2> HIDE DEF T
  <2> QED BY <1>4, <1>5, SelectFold!SetInduction
<1>7. IsSequence(R) /\ Len(R) = n /\ \A i \in 1..n : R[i] = Entry(i)
  BY <1>1, <1>2, <1>6
<1>8. DOMAIN R = 1..n
  <2> HIDE DEF R
  <2> QED BY <1>7, AppendTo
<1>9. h[0].total = 0
  BY <1>3
<1> QED BY <1>3, <1>7, <1>8, <1>9 DEF IsRetentionRun

\* A selected path names a file.
LEMMA SelectedIsFile ==
    ASSUME NEW retention, NEW ms, NEW total, NEW path,
           SelectStatus(retention, ms, total, path) = "Selected"
    PROVE \E k \in DOMAIN ms : ms[k].components = path /\ ~ms[k].is_dir
<1> DEFINE hit == MemberAt(ms, path)
           k == CHOOSE i \in hit : TRUE
<1>1. hit # {} /\ ~ms[k].is_dir
  BY DEF SelectStatus
<1>2. k \in hit
  BY <1>1
<1>3. k \in DOMAIN ms /\ ms[k].components = path
  BY <1>2 DEF MemberAt
<1> QED BY <1>1, <1>3

\* The total of the sizes that a list of entries asks for.
WantedSum(ms, es) == FoldLeft(LAMBDA n, e : n + WantedSize(ms, e), 0, es)
WantedOp(ms, n, e) == n + WantedSize(ms, e)
WantedFold == INSTANCE FoldTheorems WITH Op <- WantedOp

\* When everything that is asked for fits, every file asked for is selected.
LEMMA AllSelected ==
    ASSUME NEW retention, retention # <<>>, NEW n \in Nat, DOMAIN retention[1].paths = 1..n,
           retention[1].max_member \in Nat, retention[1].max_total \in Nat,
           NEW ms, DistinctPaths(ms), \A k \in DOMAIN ms : ms[k].uncomp_size \in Nat,
           NEW es, DOMAIN es = 1..n, \A i \in 1..n : es[i].path = retention[1].paths[i],
           \A i \in 1..n : \A k \in Wanted(ms, es[i]) : ms[k].uncomp_size <= retention[1].max_member,
           WantedSum(ms, es) <= retention[1].max_total,
           NEW i \in 1..n, Wanted(ms, es[i]) # {}
    PROVE RetentionPlan(retention, ms)[i].status = "Selected"
<1> DEFINE paths == retention[1].paths
<1>0. PICK h : IsRetentionRun(h, retention, ms, n)
  BY RetentionRun
<1>1. /\ h[0].total = 0
      /\ \A k \in Nat : k < n => h[k + 1] = SelectPath(retention, ms, h[k], paths[k + 1])
      /\ \A k \in 1..n : RetentionPlan(retention, ms)[k]
            = [path |-> paths[k],
               status |-> SelectStatus(retention, ms, h[k - 1].total, paths[k]), bytes |-> <<>>]
  BY <1>0 DEF IsRetentionRun
<1>2. WantedSum(ms, es) = WantedFold!Fold(ms, 0, es)
  BY DEF WantedSum, WantedOp, WantedFold!Fold, FoldLeft, MapThenFoldSet, WantedFold!FoldLeft,
         WantedFold!MapThenFoldSet, Max, WantedFold!Max
<1>3. PICK g : WantedFold!IsRun(g, ms, 0, es, n) /\ WantedFold!Fold(ms, 0, es) = g[n]
  BY WantedFold!FoldRuns
<1>4. g[0] = 0 /\ \A k \in Nat : k < n => g[k + 1] = g[k] + WantedSize(ms, es[k + 1])
  BY <1>3 DEF WantedFold!IsRun, WantedOp
<1>5. ASSUME NEW k \in 1..n, NEW j \in DOMAIN ms, ms[j].components = paths[k], ~ms[j].is_dir
      PROVE Wanted(ms, es[k]) = {j} /\ WantedSize(ms, es[k]) = ms[j].uncomp_size
  <2>1. Wanted(ms, es[k]) = {j}
    BY <1>5 DEF Wanted, DistinctPaths
  <2> QED BY <2>1 DEF WantedSize
<1>6. ASSUME NEW k \in 1..n PROVE WantedSize(ms, es[k]) \in Nat
  <2>1. CASE Wanted(ms, es[k]) = {}
    BY <2>1 DEF WantedSize
  <2>2. CASE Wanted(ms, es[k]) # {}
    <3>1. (CHOOSE j \in Wanted(ms, es[k]) : TRUE) \in Wanted(ms, es[k])
      BY <2>2
    <3>2. (CHOOSE j \in Wanted(ms, es[k]) : TRUE) \in DOMAIN ms
      BY <3>1 DEF Wanted
    <3> QED BY <2>2, <3>2 DEF WantedSize
  <2> QED BY <2>1, <2>2
<1>7. ASSUME NEW k \in Nat, k < n, h[k].total \in Nat
      PROVE h[k + 1].total \in Nat /\ h[k + 1].total <= h[k].total + WantedSize(ms, es[k + 1])
  <2> DEFINE status == SelectStatus(retention, ms, h[k].total, paths[k + 1])
             m == ms[CHOOSE j \in MemberAt(ms, paths[k + 1]) : TRUE]
  <2>1. k + 1 \in 1..n
    BY <1>7
  <2>2. h[k + 1].total = h[k].total + (IF status = "Selected" THEN m.uncomp_size ELSE 0)
    <3>1. h[k + 1] = SelectPath(retention, ms, h[k], paths[k + 1])
      BY <1>1, <1>7
    <3> QED BY <3>1 DEF SelectPath
  <2>3. CASE status = "Selected"
    <3>1. PICK j \in DOMAIN ms : ms[j].components = paths[k + 1] /\ ~ms[j].is_dir
      BY <2>3, SelectedIsFile
    <3>2. m = ms[j]
      BY <3>1, OneHit
    <3>3. WantedSize(ms, es[k + 1]) = ms[j].uncomp_size /\ ms[j].uncomp_size \in Nat
      BY <1>5, <2>1, <3>1
    <3> HIDE DEF status, m
    <3> QED BY <1>7, <2>2, <2>3, <3>2, <3>3
  <2>4. CASE status # "Selected"
    <3>1. WantedSize(ms, es[k + 1]) \in Nat
      BY <1>6, <2>1
    <3> HIDE DEF status, m
    <3> QED BY <1>7, <2>2, <2>4, <3>1
  <2> QED BY <2>3, <2>4
<1> DEFINE T == {k \in Nat : k <= n => /\ h[k].total \in Nat /\ g[k] \in Nat /\ h[k].total <= g[k]
                                       /\ \A j \in 0..k : g[j] \in Nat /\ g[j] <= g[k]}
<1>8. 0 \in T
  BY <1>1, <1>4
<1>9. ASSUME NEW k \in Nat, k \in T PROVE k + 1 \in T
  <2> SUFFICES ASSUME k + 1 <= n
               PROVE /\ h[k + 1].total \in Nat /\ g[k + 1] \in Nat /\ h[k + 1].total <= g[k + 1]
                     /\ \A j \in 0..(k + 1) : g[j] \in Nat /\ g[j] <= g[k + 1]
    OBVIOUS
  <2>1. /\ h[k].total \in Nat /\ g[k] \in Nat /\ h[k].total <= g[k]
        /\ \A j \in 0..k : g[j] \in Nat /\ g[j] <= g[k]
    BY <1>9
  <2>2. k < n /\ k + 1 \in 1..n
    OBVIOUS
  <2>3. /\ g[k + 1] = g[k] + WantedSize(ms, es[k + 1]) /\ WantedSize(ms, es[k + 1]) \in Nat
        /\ h[k + 1].total \in Nat /\ h[k + 1].total <= h[k].total + WantedSize(ms, es[k + 1])
    BY <1>4, <1>6, <1>7, <2>1, <2>2
  <2>4. \A j \in 0..(k + 1) : j \in 0..k \/ j = k + 1
    OBVIOUS
  <2>5. ASSUME NEW j \in 0..k PROVE g[j] \in Nat /\ g[j] <= g[k + 1]
    <3>1. g[j] \in Nat /\ g[j] <= g[k]
      BY <2>1
    <3> QED BY <2>1, <2>3, <3>1
  <2>6. g[k + 1] \in Nat /\ g[k + 1] <= g[k + 1] /\ h[k + 1].total <= g[k + 1]
    <3> DEFINE a == h[k].total
               b == h[k + 1].total
               c == g[k]
               d == g[k + 1]
               z == WantedSize(ms, es[k + 1])
    <3>1. a \in Nat /\ b \in Nat /\ c \in Nat /\ z \in Nat /\ a <= c /\ d = c + z /\ b <= a + z
      BY <2>1, <2>3
    <3> HIDE DEF a, b, c, d, z, T
    <3>2. d \in Nat /\ d <= d /\ b <= d
      BY <3>1
    <3> QED BY <3>2 DEF b, d
  <2> QED BY <2>3, <2>4, <2>5, <2>6
<1>10. \A k \in Nat : k \in T
  <2> HIDE DEF T
  <2> QED BY <1>8, <1>9, WantedFold!SetInduction
<1>11. PICK j \in DOMAIN ms : ms[j].components = paths[i] /\ ~ms[j].is_dir
  BY DEF Wanted
<1>12. Wanted(ms, es[i]) = {j} /\ WantedSize(ms, es[i]) = ms[j].uncomp_size
  BY <1>5, <1>11
<1>13. /\ i - 1 \in Nat /\ i - 1 < n /\ (i - 1) + 1 = i /\ i \in 0..n /\ i - 1 <= n /\ n <= n
  OBVIOUS
<1>14. g[i] = g[i - 1] + ms[j].uncomp_size
  BY <1>4, <1>12, <1>13
<1>15. /\ h[i - 1].total \in Nat /\ g[i - 1] \in Nat /\ h[i - 1].total <= g[i - 1] 
       /\ g[i] \in Nat /\ g[i] <= g[n] /\ g[n] \in Nat
  <2>1. i - 1 \in T /\ n \in T
    <3> HIDE DEF T
    <3> QED BY <1>10, <1>13
  <2> QED BY <1>13, <2>1
<1> HIDE DEF T
<1>16. ms[j].uncomp_size \in Nat /\ ms[j].uncomp_size <= retention[1].max_member
  BY <1>12
<1>17. g[n] <= retention[1].max_total
  BY <1>2, <1>3
<1>18. /\ ~(h[i - 1].total + ms[j].uncomp_size > retention[1].max_total)
       /\ ~(ms[j].uncomp_size > retention[1].max_member)
  <2> DEFINE total == h[i - 1].total
             before == g[i - 1]
             here == g[i]
             all == g[n]
             size == ms[j].uncomp_size
             max == retention[1].max_total
  <2>1. /\ total \in Nat /\ before \in Nat /\ size \in Nat /\ here = before + size
        /\ total <= before /\ here <= all /\ all \in Nat /\ all <= max /\ max \in Nat
    BY <1>14, <1>15, <1>16, <1>17
  <2>2. ~(size > retention[1].max_member)
    BY <1>16
  <2> HIDE DEF total, before, here, all, size, max
  <2>3. ~(total + size > max)
    BY <2>1
  <2> QED BY <2>2, <2>3 DEF total, size, max
<1>19. MemberAt(ms, paths[i]) = {j} /\ (CHOOSE k \in MemberAt(ms, paths[i]) : TRUE) = j
  BY <1>11, OneHit
<1>20. SelectStatus(retention, ms, h[i - 1].total, paths[i]) = "Selected"
  BY <1>11, <1>18, <1>19 DEF SelectStatus
<1>21. RetentionPlan(retention, ms)[i]
          = [path |-> paths[i], status |-> SelectStatus(retention, ms, h[i - 1].total, paths[i]),
             bytes |-> <<>>]
  BY <1>1, Zenon
<1> QED BY <1>20, <1>21

-----------------------------------------------------------------------------
(***************************************************************************)
(* The replay                                                              *)
(***************************************************************************)
PayloadAt(snapshot, m) == snapshot.payloads[m.payload.offset]

\* A member that holds what it declares, and the content it then has.
MemberTrue(snapshot, m) == m.is_dir \/ HoldsTrue(PayloadAt(snapshot, m), m)
RealContent(snapshot, m) ==
    IF m.is_dir THEN EmptyContent ELSE Measured(m.uncomp_size, m.crc, PayloadAt(snapshot, m).sha)

\* A member that passed can be read again.
Readable(snapshot, m, budget) ==
    ~m.is_dir => m.method \in {0, 8} /\ \E r : ChunksPass(PayloadAt(snapshot, m), m, budget, r)

Selection(ready) == RetentionPlan(ready.record.binding.retention, PlannedMembers(ready))

\* What the replay needs of a plan and its source.
PlanReplays(ready, snapshot, n) ==
    /\ DOMAIN PlannedMembers(ready) = 1..n /\ DistinctPaths(PlannedMembers(ready))
    /\ \A k \in 1..n : PayloadAt(snapshot, PlannedMembers(ready)[k]).chunks \in Seq(Nat)
    /\ \A i \in DOMAIN Selection(ready) :
          LET e == Selection(ready)[i]
          IN  /\ e = [path |-> e.path, status |-> e.status, bytes |-> <<>>] /\ e.status # "Retained"
              /\ e.status = "Selected" => \E k \in 1..n : /\ PlannedMembers(ready)[k].components = e.path
                                                          /\ ~PlannedMembers(ready)[k].is_dir

\* An entry is as it was selected until its member is verified.
EntryReplayed(ready, snapshot, e, r, done) ==
    \/ /\ r = e
       /\ e.status = "Selected" => \A k \in 1..done : PlannedMembers(ready)[k].components # e.path
    \/ \E k \in 1..done :
          /\ PlannedMembers(ready)[k].components = e.path /\ ~PlannedMembers(ready)[k].is_dir
          /\ e.status = "Selected"
          /\ r = [path |-> e.path, status |-> "Retained",
                  bytes |-> <<RealContent(snapshot, PlannedMembers(ready)[k])>>]

EntriesReplayed(ready, snapshot, entries, done) ==
    /\ DOMAIN entries = DOMAIN Selection(ready)
    /\ \A i \in DOMAIN entries : EntryReplayed(ready, snapshot, Selection(ready)[i], entries[i], done)

MembersReplayed(ready, snapshot, members) ==
    /\ IsSequence(members)
    /\ \A i \in 1..Len(members) :
          LET m == PlannedMembers(ready)[i]
          IN  /\ MemberTrue(snapshot, m) /\ Readable(snapshot, m, ready.record.binding.budget)
              /\ members[i] = Verified(RealContent(snapshot, m))

\* The replay after k turns.
Replayed(ready, snapshot, x, k) ==
    /\ x = [members |-> x.members, remaining |-> x.remaining, retention |-> x.retention,
            finding |-> x.finding, broken |-> x.broken]
    /\ ~x.broken =>
          /\ MembersReplayed(ready, snapshot, x.members) /\ Len(x.members) <= k
          /\ EntriesReplayed(ready, snapshot, x.retention, Len(x.members))
          /\ x.finding = OK => Len(x.members) = k
          /\ x.finding # OK => /\ Len(x.members) < k
                               /\ ~MemberTrue(snapshot, PlannedMembers(ready)[Len(x.members) + 1])

\* Another verified member after those replayed so far.
LEMMA MemberAppended ==
    ASSUME NEW ready, NEW snapshot, NEW members, MembersReplayed(ready, snapshot, members),
           NEW m, m = PlannedMembers(ready)[Len(members) + 1], MemberTrue(snapshot, m),
           Readable(snapshot, m, ready.record.binding.budget)
    PROVE /\ MembersReplayed(ready, snapshot, Append(members, Verified(RealContent(snapshot, m))))
          /\ Len(Append(members, Verified(RealContent(snapshot, m)))) = Len(members) + 1
          /\ Len(members) \in Nat
<1> DEFINE v == Verified(RealContent(snapshot, m))
           a == Append(members, v)
           n == Len(members)
<1>1. IsSequence(members)
  BY DEF MembersReplayed
<1>2. /\ IsSequence(a) /\ n \in Nat /\ Len(a) = n + 1 /\ a[n + 1] = v
      /\ \A i \in 1..n : a[i] = members[i]
  BY <1>1, AppendTo
<1> HIDE DEF a, v, n
<1>3. ASSUME NEW i \in 1..(n + 1)
      PROVE /\ MemberTrue(snapshot, PlannedMembers(ready)[i])
            /\ Readable(snapshot, PlannedMembers(ready)[i], ready.record.binding.budget)
            /\ a[i] = Verified(RealContent(snapshot, PlannedMembers(ready)[i]))
  <2>1. CASE i = n + 1
    BY <1>2, <2>1 DEF n, v
  <2>2. CASE i \in 1..n
    <3>1. /\ MemberTrue(snapshot, PlannedMembers(ready)[i])
          /\ Readable(snapshot, PlannedMembers(ready)[i], ready.record.binding.budget)
          /\ members[i] = Verified(RealContent(snapshot, PlannedMembers(ready)[i]))
      BY <2>2 DEF MembersReplayed, n
    <3> QED BY <1>2, <2>2, <3>1
  <2> QED BY <1>2, <2>1, <2>2
<1>4. MembersReplayed(ready, snapshot, a)
  BY <1>2, <1>3 DEF MembersReplayed
<1> QED BY <1>2, <1>4 DEF a, v, n

\* A directory that is verified changes no entry.
LEMMA DirectoryKeepsEntries ==
    ASSUME NEW ready, NEW snapshot, NEW n \in Nat, PlanReplays(ready, snapshot, n), NEW entries,
           NEW done \in Nat, done < n, EntriesReplayed(ready, snapshot, entries, done),
           PlannedMembers(ready)[done + 1].is_dir
    PROVE EntriesReplayed(ready, snapshot, entries, done + 1)
<1> DEFINE ps == PlannedMembers(ready)
<1> SUFFICES ASSUME NEW i \in DOMAIN entries
             PROVE EntryReplayed(ready, snapshot, Selection(ready)[i], entries[i], done + 1)
  BY DEF EntriesReplayed
<1> DEFINE e == Selection(ready)[i]
<1>1. EntryReplayed(ready, snapshot, e, entries[i], done) /\ i \in DOMAIN Selection(ready)
  BY DEF EntriesReplayed
<1>2. \A k \in 1..(done + 1) : k \in 1..done \/ k = done + 1
  OBVIOUS
<1>3. e.status = "Selected" => ps[done + 1].components # e.path
  <2> SUFFICES ASSUME e.status = "Selected", ps[done + 1].components = e.path PROVE FALSE
    OBVIOUS
  <2>1. PICK k \in 1..n : ps[k].components = e.path /\ ~ps[k].is_dir
    BY <1>1 DEF PlanReplays
  <2>2. done + 1 \in DOMAIN ps /\ k \in DOMAIN ps /\ DistinctPaths(ps)
    BY DEF PlanReplays
  <2>3. k = done + 1
    BY <2>1, <2>2 DEF DistinctPaths
  <2> QED BY <2>1, <2>3
<1>4. \A k \in 1..done : k \in 1..(done + 1)
  OBVIOUS
<1> HIDE DEF e
<1>5. EntryReplayed(ready, snapshot, e, entries[i], done + 1)
  BY <1>1, <1>2, <1>3, <1>4 DEF EntryReplayed
<1> QED BY <1>5 DEF e

\* A file that is verified fills the entry that selected it and no other.
LEMMA FileFillsEntry ==
    ASSUME NEW ready, NEW snapshot, NEW n \in Nat, PlanReplays(ready, snapshot, n), NEW entries,
           NEW done \in Nat, done < n, EntriesReplayed(ready, snapshot, entries, done),
           NEW m, m = PlannedMembers(ready)[done + 1], ~m.is_dir
    PROVE EntriesReplayed(ready, snapshot,
             finish_capture(entries, m.components, RealContent(snapshot, m)), done + 1)
<1> DEFINE ps == PlannedMembers(ready)
           c == RealContent(snapshot, m)
           filled == finish_capture(entries, m.components, c)
<1>1. /\ DOMAIN filled = DOMAIN entries
      /\ \A i \in DOMAIN entries :
            filled[i] = IF entries[i].path = m.components /\ entries[i].status = "Selected"
                        THEN [entries[i] EXCEPT !.status = "Retained", !.bytes = <<c>>] ELSE entries[i]
  BY DEF finish_capture, SetEntry
<1> HIDE DEF filled, c
<1> SUFFICES ASSUME NEW i \in DOMAIN entries
             PROVE EntryReplayed(ready, snapshot, Selection(ready)[i], filled[i], done + 1)
  BY <1>1 DEF EntriesReplayed, filled, c
<1> DEFINE e == Selection(ready)[i]
           r == entries[i]
<1>2. EntryReplayed(ready, snapshot, e, r, done) /\ i \in DOMAIN Selection(ready)
  BY DEF EntriesReplayed
<1>3. e = [path |-> e.path, status |-> e.status, bytes |-> <<>>] /\ e.status # "Retained"
  BY <1>2 DEF PlanReplays
<1>4. filled[i] = IF r.path = m.components /\ r.status = "Selected"
                  THEN [r EXCEPT !.status = "Retained", !.bytes = <<c>>] ELSE r
  BY <1>1
<1>5. /\ \A k \in 1..(done + 1) : k \in 1..done \/ k = done + 1
      /\ \A k \in 1..done : k \in 1..(done + 1)
      /\ done + 1 \in 1..(done + 1)
  OBVIOUS
<1> HIDE DEF e, r
<1>6. ASSUME r = e /\ (e.status = "Selected" => \A k \in 1..done : ps[k].components # e.path)
      PROVE EntryReplayed(ready, snapshot, e, filled[i], done + 1)
  <2>1. CASE e.path = m.components /\ e.status = "Selected"
    <3>1. filled[i] = [path |-> e.path, status |-> "Retained", bytes |-> <<c>>]
      <4>1. filled[i] = [e EXCEPT !.status = "Retained", !.bytes = <<c>>]
        BY <1>4, <1>6, <2>1
      <4> QED BY <1>3, <4>1
    <3>2. ps[done + 1].components = e.path /\ ~ps[done + 1].is_dir
          /\ c = RealContent(snapshot, ps[done + 1])
      BY <2>1 DEF c
    <3>3. \E k \in 1..(done + 1) :
             /\ PlannedMembers(ready)[k].components = e.path /\ ~PlannedMembers(ready)[k].is_dir
             /\ e.status = "Selected"
             /\ filled[i] = [path |-> e.path, status |-> "Retained",
                             bytes |-> <<RealContent(snapshot, PlannedMembers(ready)[k])>>]
      <4> WITNESS done + 1 \in 1..(done + 1)
      <4> QED BY <2>1, <3>1, <3>2
    <3> QED BY <3>3, Zenon DEF EntryReplayed
  <2>2. CASE ~(e.path = m.components /\ e.status = "Selected")
    <3>1. filled[i] = e
      BY <1>4, <1>6, <2>2
    <3>2. e.status = "Selected" => \A k \in 1..(done + 1) : ps[k].components # e.path
      BY <1>5, <1>6, <2>2
    <3> QED BY <3>1, <3>2, Zenon DEF EntryReplayed
  <2> QED BY <2>1, <2>2
<1>7. ASSUME NEW k \in 1..done, ps[k].components = e.path, ~ps[k].is_dir, e.status = "Selected",
             r = [path |-> e.path, status |-> "Retained", bytes |-> <<RealContent(snapshot, ps[k])>>]
      PROVE EntryReplayed(ready, snapshot, e, filled[i], done + 1)
  <2>1. r.status # "Selected"
    BY <1>7
  <2>2. filled[i] = r
    BY <1>4, <2>1
  <2> QED BY <1>5, <1>7, <2>2 DEF EntryReplayed
<1>8. EntryReplayed(ready, snapshot, e, filled[i], done + 1)
  <2>1. \/ r = e /\ (e.status = "Selected" => \A k \in 1..done : ps[k].components # e.path)
        \/ \E k \in 1..done :
              /\ ps[k].components = e.path /\ ~ps[k].is_dir /\ e.status = "Selected"
              /\ r = [path |-> e.path, status |-> "Retained",
                      bytes |-> <<RealContent(snapshot, ps[k])>>]
    BY <1>2, Zenon DEF EntryReplayed
  <2> QED BY <1>6, <1>7, <2>1, Zenon
<1> QED BY <1>8 DEF e

ReplayOp(p, x, m) == IF Execution(x) THEN ExecuteMember(p[1], p[2], FALSE, "none", x) ELSE x
ReplayFold == INSTANCE FoldTheorems WITH Op <- ReplayOp

\* What one turn of the replay does with a file.
FileOutcome(x, v, m, y) ==
    \/ y = [x EXCEPT !.broken = TRUE]
    \/ /\ y = [x EXCEPT !.finding = v.finding, !.retention = x.retention] /\ v.finding # OK
       /\ v.finding \in StopCodes \cup StageCodes
    \/ /\ v.finding = OK
       /\ y = [x EXCEPT !.members = Append(x.members, Verified(v.content)),
                        !.remaining = x.remaining - v.content.size,
                        !.retention = finish_capture(x.retention, m.components, v.content)]

\* Without a stage and without a fault ExecuteFile does nothing else.
LEMMA FileReplayed ==
    ASSUME NEW ready, NEW m, NEW p, NEW x
    PROVE FileOutcome(x, verify_payload(p, m, ready.record.binding.budget, x.remaining, TRUE), m,
                      ExecuteFile(ready, m, p, FALSE, "none", x))
<1> DEFINE budget == ready.record.binding.budget
           v == verify_payload(p, m, budget, x.remaining, TRUE)
           y == ExecuteFile(ready, m, p, FALSE, "none", x)
<1>1. y = IF v.finding # OK
          THEN IF execution_failure_reachable(ready.record.binding.effect, m, v.finding)
               THEN [x EXCEPT !.finding = v.finding, !.retention = x.retention]
               ELSE [x EXCEPT !.broken = TRUE]
          ELSE IF v.content.size > x.remaining THEN [x EXCEPT !.broken = TRUE]
          ELSE [x EXCEPT !.members = Append(x.members, Verified(v.content)),
                         !.remaining = x.remaining - v.content.size,
                         !.retention = finish_capture(x.retention, m.components, v.content)]
  <2>1. begin_capture(x.retention, m.components, "none" # "allocation") = x.retention
    BY DEF begin_capture
  <2>2. verify_payload(p, m, budget, x.remaining, ~FALSE \/ "none" # "write") = v
    BY DEF verify_payload, ChunkFinding
  <2>3. "none" # "source" /\ "none" \notin {"MaterializeIo", "MaterializeUnsafeComponent"}
    OBVIOUS
  <2> HIDE DEF v
  <2> QED BY <2>1, <2>2, <2>3 DEF ExecuteFile
<1>2. execution_failure_reachable(ready.record.binding.effect, m, v.finding)
        => v.finding \in StopCodes \cup StageCodes
  <2> HIDE DEF v
  <2> QED BY DEF execution_failure_reachable, inspect_failure_reachable, StopCodes, StageCodes
<1> HIDE DEF v, y
<1>3. FileOutcome(x, v, m, y)
  BY <1>1, <1>2 DEF FileOutcome
<1> QED BY <1>3 DEF v, y

\* A turn verifies the next member, or stops at it because it does not hold
\* what it declares.
LEMMA ReplayTurn ==
    ASSUME NEW ready, NEW snapshot, NEW n \in Nat, PlanReplays(ready, snapshot, n),
           NEW k \in Nat, k < n, NEW x, Replayed(ready, snapshot, x, k), NEW z
    PROVE Replayed(ready, snapshot, ReplayOp(<<ready, snapshot>>, x, z), k + 1)
<1> DEFINE ps == PlannedMembers(ready)
           m == ps[Len(x.members) + 1]
           y == ReplayOp(<<ready, snapshot>>, x, z)
<1>1. x = [members |-> x.members, remaining |-> x.remaining, retention |-> x.retention,
           finding |-> x.finding, broken |-> x.broken]
  BY DEF Replayed
<1>2. CASE ~Execution(x)
  <2>1. y = x
    BY <1>2 DEF ReplayOp
  <2> HIDE DEF y
  <2>2. CASE x.broken
    BY <1>1, <2>1, <2>2 DEF Replayed, y
  <2>3. CASE ~x.broken
    <3>1. /\ MembersReplayed(ready, snapshot, x.members) /\ Len(x.members) <= k
          /\ EntriesReplayed(ready, snapshot, x.retention, Len(x.members)) /\ x.finding # OK
          /\ Len(x.members) < k
          /\ ~MemberTrue(snapshot, PlannedMembers(ready)[Len(x.members) + 1])
      BY <1>2, <2>3 DEF Replayed, Execution
    <3>2. Len(x.members) \in Nat
      BY <3>1, AppendTo DEF MembersReplayed
    <3>3. Len(x.members) <= k + 1 /\ Len(x.members) < k + 1
      BY <3>1, <3>2
    <3> QED BY <1>1, <2>1, <3>1, <3>3 DEF Replayed, y
  <2> QED BY <2>2, <2>3
<1>3. CASE Execution(x)
  <2>1. /\ ~x.broken /\ x.finding = OK /\ Len(x.members) = k
        /\ MembersReplayed(ready, snapshot, x.members)
        /\ EntriesReplayed(ready, snapshot, x.retention, k)
    BY <1>3 DEF Replayed, Execution
  <2>2. y = ExecuteMember(ready, snapshot, FALSE, "none", x)
    BY <1>3 DEF ReplayOp
  <2>3. m = ps[k + 1] /\ k + 1 \in 1..n
    BY <2>1
  <2>4. ASSUME NEW mem, NEW rem, NEW ret,
               MembersReplayed(ready, snapshot, mem), Len(mem) = k + 1,
               EntriesReplayed(ready, snapshot, ret, k + 1),
               y = [x EXCEPT !.members = mem, !.remaining = rem, !.retention = ret]
        PROVE Replayed(ready, snapshot, y, k + 1)
    <3> HIDE DEF y
    <3>1. y = [members |-> mem, remaining |-> rem, retention |-> ret, finding |-> x.finding,
               broken |-> x.broken]
      BY <1>1, <2>4
    <3>2. y.members = mem /\ y.retention = ret /\ y.finding = OK /\ ~y.broken
          /\ y = [members |-> y.members, remaining |-> y.remaining, retention |-> y.retention,
                  finding |-> y.finding, broken |-> y.broken]
      BY <2>1, <3>1
    <3> QED BY <2>4, <3>2 DEF Replayed
  <2>5. CASE m.is_dir
    <3> DEFINE a == Append(x.members, Verified(RealContent(snapshot, m)))
    <3>1. RealContent(snapshot, m) = EmptyContent /\ MemberTrue(snapshot, m)
          /\ Readable(snapshot, m, ready.record.binding.budget)
      BY <2>5 DEF RealContent, MemberTrue, Readable
    <3>2. y = [x EXCEPT !.members = Append(x.members, Verified(EmptyContent))]
      BY <2>2, <2>5 DEF ExecuteMember
    <3>3. MembersReplayed(ready, snapshot, a) /\ Len(a) = k + 1
      BY <2>1, <3>1, MemberAppended
    <3>4. EntriesReplayed(ready, snapshot, x.retention, k + 1)
      BY <2>1, <2>3, <2>5, DirectoryKeepsEntries
    <3>5. y = [x EXCEPT !.members = a, !.remaining = x.remaining, !.retention = x.retention]
      <4> HIDE DEF y
      <4> QED BY <1>1, <3>1, <3>2
    <3> HIDE DEF a, y
    <3> QED BY <2>4, <3>3, <3>4, <3>5 DEF y
  <2>6. CASE ~m.is_dir
    <3> DEFINE p == PayloadAt(snapshot, m)
               budget == ready.record.binding.budget
               v == verify_payload(p, m, budget, x.remaining, TRUE)
    <3>1. y = ExecuteFile(ready, m, p, FALSE, "none", x)
      BY <2>2, <2>6 DEF ExecuteMember, PayloadAt
    <3>2. p.chunks \in Seq(Nat)
      BY <2>3 DEF PlanReplays
    <3>3. /\ v.content = Measured(SumOfChunks(p.chunks), p.crc, p.sha)
          /\ v.finding = OK => /\ HoldsTrue(p, m) /\ ChunksPass(p, m, budget, x.remaining)
                               /\ m.method \in {0, 8}
          /\ HoldsTrue(p, m) => v.finding \notin StopCodes \cup StageCodes
      BY <3>2, PayloadVerified
    <3>4. FileOutcome(x, v, m, y)
      BY <3>1, FileReplayed
    <3>5. MemberTrue(snapshot, m) => HoldsTrue(p, m)
      BY <2>6 DEF MemberTrue
    <3> HIDE DEF v, y
    <3>6. CASE y = [x EXCEPT !.broken = TRUE]
      <4>1. y.broken /\ y = [members |-> y.members, remaining |-> y.remaining,
                             retention |-> y.retention, finding |-> y.finding, broken |-> y.broken]
        BY <1>1, <3>6
      <4> QED BY <4>1 DEF Replayed, y
    <3>7. CASE y = [x EXCEPT !.finding = v.finding, !.retention = x.retention] /\ v.finding # OK
               /\ v.finding \in StopCodes \cup StageCodes
      <4>1. y = [members |-> x.members, remaining |-> x.remaining, retention |-> x.retention,
                 finding |-> v.finding, broken |-> x.broken]
        BY <1>1, <3>7
      <4>2. y.members = x.members /\ y.retention = x.retention /\ y.finding # OK
            /\ y = [members |-> y.members, remaining |-> y.remaining, retention |-> y.retention,
                    finding |-> y.finding, broken |-> y.broken]
        BY <3>7, <4>1
      <4>3. ~MemberTrue(snapshot, ps[k + 1])
        BY <2>3, <3>3, <3>5, <3>7
      <4>4. k <= k + 1 /\ k < k + 1
        OBVIOUS
      <4>5. Replayed(ready, snapshot, y, k + 1)
        BY <2>1, <4>2, <4>3, <4>4 DEF Replayed
      <4> QED BY <4>5 DEF y
    <3>8. CASE /\ v.finding = OK
               /\ y = [x EXCEPT !.members = Append(x.members, Verified(v.content)),
                                !.remaining = x.remaining - v.content.size,
                                !.retention = finish_capture(x.retention, m.components, v.content)]
      <4>1. HoldsTrue(p, m) /\ ChunksPass(p, m, budget, x.remaining) /\ m.method \in {0, 8}
        BY <3>3, <3>8
      <4>2. v.content = RealContent(snapshot, m)
        BY <2>6, <3>3, <4>1 DEF RealContent, HoldsTrue
      <4>3. MemberTrue(snapshot, m) /\ Readable(snapshot, m, budget)
        <5>1. \E r : ChunksPass(p, m, budget, r)
          BY <4>1
        <5> QED BY <4>1, <5>1 DEF MemberTrue, Readable
      <4> DEFINE a == Append(x.members, Verified(RealContent(snapshot, m)))
                 e == finish_capture(x.retention, m.components, RealContent(snapshot, m))
      <4>4. MembersReplayed(ready, snapshot, a) /\ Len(a) = k + 1
        BY <2>1, <4>3, MemberAppended
      <4>5. EntriesReplayed(ready, snapshot, e, k + 1)
        BY <2>1, <2>3, <2>6, FileFillsEntry
      <4>6. y = [x EXCEPT !.members = a, !.remaining = x.remaining - v.content.size, !.retention = e]
        BY <3>8, <4>2
      <4> HIDE DEF a, e
      <4> QED BY <2>4, <4>4, <4>5, <4>6 DEF y
    <3> QED BY <3>4, <3>6, <3>7, <3>8 DEF FileOutcome
  <2> QED BY <2>5, <2>6
<1> QED BY <1>2, <1>3

\* Before the first turn nothing is verified and every entry is as selected.
LEMMA ReplayStarts ==
    ASSUME NEW ready, NEW snapshot
    PROVE Replayed(ready, snapshot, NewExecution(ready), 0)
<1> DEFINE x == NewExecution(ready)
<1>1. /\ x = [members |-> x.members, remaining |-> x.remaining, retention |-> x.retention,
              finding |-> x.finding, broken |-> x.broken]
      /\ x.members = <<>> /\ x.retention = Selection(ready) /\ x.finding = OK /\ ~x.broken
  BY DEF NewExecution, Selection, PlannedMembers
<1>2. IsSequence(<<>>) /\ Len(<<>>) = 0
  <2>1. <<>> \in Seq({})
    OBVIOUS
  <2> QED BY <2>1 DEF IsSequence
<1>3. MembersReplayed(ready, snapshot, <<>>)
  BY <1>2 DEF MembersReplayed
<1>4. EntriesReplayed(ready, snapshot, Selection(ready), 0)
  BY DEF EntriesReplayed, EntryReplayed
<1> HIDE DEF x
<1>5. Replayed(ready, snapshot, x, 0)
  BY <1>1, <1>2, <1>3, <1>4 DEF Replayed
<1> QED BY <1>5 DEF x

\* The whole replay.
LEMMA ReplayRuns ==
    ASSUME NEW ready, NEW snapshot, NEW n \in Nat, PlanReplays(ready, snapshot, n)
    PROVE Replayed(ready, snapshot, execute_completion(ready, snapshot), n)
<1> DEFINE p == <<ready, snapshot>>
           ps == PlannedMembers(ready)
<1>1. execute_completion(ready, snapshot) = ReplayFold!Fold(p, NewExecution(ready), ps)
  BY DEF execute_completion, ReplayOp, ReplayFold!Fold, FoldLeft, MapThenFoldSet, ReplayFold!FoldLeft,
         ReplayFold!MapThenFoldSet, Max, ReplayFold!Max
<1>2. DOMAIN ps = 1..n
  BY DEF PlanReplays
<1> HIDE DEF p, ps
<1>3. PICK h : ReplayFold!IsRun(h, p, NewExecution(ready), ps, n)
               /\ ReplayFold!Fold(p, NewExecution(ready), ps) = h[n]
  BY <1>2, ReplayFold!FoldRuns
<1>4. h[0] = NewExecution(ready) /\ \A k \in Nat : k < n => h[k + 1] = ReplayOp(p, h[k], ps[k + 1])
  BY <1>3 DEF ReplayFold!IsRun
<1> DEFINE T == {k \in Nat : k <= n => Replayed(ready, snapshot, h[k], k)}
<1>5. 0 \in T
  BY <1>4, ReplayStarts
<1>6. ASSUME NEW k \in Nat, k \in T PROVE k + 1 \in T
  <2> SUFFICES ASSUME k + 1 <= n PROVE Replayed(ready, snapshot, h[k + 1], k + 1)
    OBVIOUS
  <2>1. k < n /\ Replayed(ready, snapshot, h[k], k)
    BY <1>6
  <2> QED BY <1>4, <2>1, ReplayTurn DEF p
<1>7. \A k \in Nat : k \in T
  <2> HIDE DEF T
  <2> QED BY <1>5, <1>6, ReplayFold!SetInduction
<1> QED BY <1>1, <1>3, <1>7

\* The completion record of a replay that verified the first done members.
TrueRecord(ready, snapshot, n, done, code, r) ==
    /\ done \in 0..n /\ DOMAIN r.members = 1..n /\ Len(r.members) = n
    /\ \A k \in 1..done :
          /\ r.members[k] = Verified(RealContent(snapshot, PlannedMembers(ready)[k]))
          /\ MemberTrue(snapshot, PlannedMembers(ready)[k])
          /\ Readable(snapshot, PlannedMembers(ready)[k], ready.record.binding.budget)
    /\ code = OK => done = n /\ r.disposition.tag = 0 /\ r.findings = <<>>
    /\ code # OK => /\ done < n /\ ~MemberTrue(snapshot, PlannedMembers(ready)[done + 1])
                    /\ r.members[done + 1] = Failed(code)
                    /\ \A k \in (done + 2)..n : r.members[k] = Pending
                    /\ r.disposition.tag = 1 /\ r.findings = <<Finding(code)>>

\* The completion record of a replay lists what the source holds.
LEMMA RecordOfReplay ==
    ASSUME NEW ready, NEW snapshot, NEW n \in Nat, PlanReplays(ready, snapshot, n),
           Len(PlannedMembers(ready)) = n,
           NEW x, Replayed(ready, snapshot, x, n), ~x.broken
    PROVE TrueRecord(ready, snapshot, n, Len(x.members), x.finding, CompletionRecordOf(ready, x))
<1> DEFINE L == Len(x.members)
           r == CompletionRecordOf(ready, x)
           ps == PlannedMembers(ready)
<1>1. /\ MembersReplayed(ready, snapshot, x.members) /\ L <= n
      /\ x.finding = OK => L = n
      /\ x.finding # OK => L < n /\ ~MemberTrue(snapshot, ps[L + 1])
  BY DEF Replayed
<1>2. L \in Nat /\ DOMAIN x.members = 1..L /\ IsSequence(x.members)
  BY <1>1, AppendTo DEF MembersReplayed
<1>3. \A k \in 1..L : /\ x.members[k] = Verified(RealContent(snapshot, ps[k]))
                      /\ MemberTrue(snapshot, ps[k])
                      /\ Readable(snapshot, ps[k], ready.record.binding.budget)
  BY <1>1 DEF MembersReplayed
<1>4. CASE x.finding = OK
  <2>1. r.members = x.members /\ r.disposition.tag = 0 /\ r.findings = <<>>
    BY <1>4 DEF CompletionRecordOf
  <2> HIDE DEF r, ps, L
  <2>2. L = n /\ L \in 0..n
    BY <1>1, <1>2, <1>4
  <2>3. TrueRecord(ready, snapshot, n, L, x.finding, r)
    BY <1>2, <1>3, <1>4, <2>1, <2>2 DEF TrueRecord, ps, L
  <2> QED BY <2>3 DEF r, L
<1>5. CASE x.finding # OK
  <2> DEFINE rest == [i \in 1..(n - L - 1) |-> Pending]
             one == <<Failed(x.finding)>>
             front == x.members \o one
  <2>1. r.members = front \o rest /\ r.disposition.tag = 1 /\ r.findings = <<Finding(x.finding)>>
    BY <1>5 DEF CompletionRecordOf
  <2>2. L < n /\ L + 1 <= n /\ n - L - 1 \in Nat /\ ~MemberTrue(snapshot, ps[L + 1]) /\ L \in 0..n
    BY <1>1, <1>2, <1>5
  <2>3. IsSequence(one) /\ Len(one) = 1 /\ one[1] = Failed(x.finding)
    <3>1. one \in Seq({Failed(x.finding)}) /\ Len(one) = 1 /\ one[1] = Failed(x.finding)
      OBVIOUS
    <3> HIDE DEF one
    <3> QED BY <3>1 DEF IsSequence
  <2>4. IsSequence(rest) /\ Len(rest) = n - L - 1 /\ \A i \in 1..(n - L - 1) : rest[i] = Pending
    <3>1. rest \in Seq({Pending}) /\ DOMAIN rest = 1..(n - L - 1)
          /\ \A i \in 1..(n - L - 1) : rest[i] = Pending
      BY <2>2
    <3> HIDE DEF rest, L
    <3>2. Len(rest) = n - L - 1
      BY <2>2, <3>1
    <3> QED BY <3>1, <3>2 DEF IsSequence
  <2> HIDE DEF r, ps, L, rest, one
  <2>5. /\ IsSequence(front) /\ Len(front) = L + 1
        /\ \A i \in 1..L : front[i] = x.members[i] /\ front[L + 1] = Failed(x.finding)
        /\ front[L + 1] = Failed(x.finding)
    <3>1. /\ IsSequence(front) /\ Len(front) = Len(x.members) + Len(one)
          /\ \A i \in 1..Len(x.members) : front[i] = x.members[i]
          /\ \A i \in 1..Len(one) : front[Len(x.members) + i] = one[i]
      <4>1. IsSequence(x.members) /\ IsSequence(one)
        BY <1>2, <2>3
      <4>2. Follows(front, x.members, one)
        BY <4>1, Concatenated
      <4> HIDE DEF front
      <4> QED BY <4>2 DEF Follows
    <3>2. 1 \in 1..Len(one)
      BY <2>3
    <3> QED BY <2>3, <3>1, <3>2 DEF L
  <2> HIDE DEF front
  <2>6. /\ DOMAIN (front \o rest) = 1..((L + 1) + (n - L - 1)) /\ Len(front \o rest) = (L + 1) + (n - L - 1)
        /\ \A i \in 1..(L + 1) : (front \o rest)[i] = front[i]
        /\ \A i \in 1..(n - L - 1) : (front \o rest)[(L + 1) + i] = rest[i]
    <3>1. /\ DOMAIN (front \o rest) = 1..(Len(front) + Len(rest)) /\ Len(front \o rest) = Len(front) + Len(rest)
          /\ \A i \in 1..Len(front) : (front \o rest)[i] = front[i]
          /\ \A i \in 1..Len(rest) : (front \o rest)[Len(front) + i] = rest[i]
      <4>1. Follows(front \o rest, front, rest)
        BY <2>4, <2>5, Concatenated
      <4> QED BY <4>1 DEF Follows
    <3> QED BY <2>4, <2>5, <3>1
  <2>7. (L + 1) + (n - L - 1) = n
    BY <1>2
  <2>8. \A k \in 1..L : r.members[k] = x.members[k]
    BY <1>2, <2>1, <2>5, <2>6
  <2>9. r.members[L + 1] = Failed(x.finding)
    BY <1>2, <2>1, <2>5, <2>6
  <2>10. ASSUME NEW k \in (L + 2)..n PROVE r.members[k] = Pending
    <3>1. k - L - 1 \in 1..(n - L - 1) /\ (L + 1) + (k - L - 1) = k
      BY <1>2
    <3> QED BY <2>1, <2>4, <2>6, <3>1
  <2>11. TrueRecord(ready, snapshot, n, L, x.finding, r)
    BY <1>3, <1>5, <2>1, <2>2, <2>6, <2>7, <2>8, <2>9, <2>10 DEF TrueRecord, ps
  <2> QED BY <2>11 DEF r, L
<1> QED BY <1>4, <1>5

\* What a proposal says of the members and of the stop.
TrueProposal(ready, snapshot, n, done, code, p) ==
    /\ \A k \in 1..n : /\ (p.members[k].state = "Verified") = (k <= done)
                       /\ k <= done => p.members[k].content = RealContent(snapshot, PlannedMembers(ready)[k])
    /\ code = OK => /\ p.interpretation = "Interpreted" /\ p.admission = "Admitted"
                    /\ p.verification = "Complete"
    /\ code # OK => /\ <<p.interpretation, p.admission>> = completion_stop_axes(code)
                    /\ p.verification = "Partial" /\ p.findings = <<Finding(code)>>

\* The proposal decoded from such a record says the same.
LEMMA ProposalOfRecord ==
    ASSUME NEW ready, NEW snapshot, NEW n \in Nat, NEW done, NEW code, NEW r,
           DOMAIN PlannedMembers(ready) = 1..n,
           TrueRecord(ready, snapshot, n, done, code, r),
           decode_completion(Frame("completion", r), ready) # <<>>
    PROVE TrueProposal(ready, snapshot, n, done, code, decode_completion(Frame("completion", r), ready)[1])
<1> DEFINE p == decode_completion(Frame("completion", r), ready)[1]
           ps == PlannedMembers(ready)
           f == Frontier(r.members)
           stop == completion_stop_axes(r.members[f].cause)
           axes == IF r.disposition.tag = 0 THEN <<"Interpreted", "Admitted">> ELSE stop
<1>1. Frame("completion", r).body = r
  BY DEF Frame
<1>2. p = [interpretation |-> axes[1], admission |-> axes[2],
           verification |-> IF r.disposition.tag = 0 THEN "Complete" ELSE "Partial",
           members |-> materialize_completion(ps, r.members), findings |-> r.findings]
  BY <1>1 DEF decode_completion
<1> HIDE DEF p
<1>3. /\ p.interpretation = axes[1] /\ p.admission = axes[2]
      /\ p.verification = IF r.disposition.tag = 0 THEN "Complete" ELSE "Partial"
      /\ p.members = materialize_completion(ps, r.members) /\ p.findings = r.findings
  BY <1>2
<1> HIDE DEF axes, stop, f
<1>4. ASSUME NEW k \in 1..n, NEW state, NEW content, NEW cause,
             r.members[k] = [state |-> state, content |-> content, cause |-> cause]
      PROVE p.members[k].state = state /\ p.members[k].content = content
  <2>1. p.members[k] = [x \in DOMAIN ps[k] \cup DOMAIN r.members[k] |->
                           IF x \in DOMAIN r.members[k] THEN r.members[k][x] ELSE ps[k][x]]
    BY <1>3 DEF materialize_completion
  <2>2. "state" \in DOMAIN r.members[k] /\ "content" \in DOMAIN r.members[k]
        /\ r.members[k]["state"] = state /\ r.members[k]["content"] = content
    BY <1>4
  <2> HIDE DEF ps
  <2> QED BY <2>1, <2>2
<1>5. done \in 0..n /\ done \in Nat
  BY DEF TrueRecord
<1>6. ASSUME NEW k \in 1..done
      PROVE /\ k \in 1..n /\ p.members[k].state = "Verified"
            /\ p.members[k].content = RealContent(snapshot, ps[k])
            /\ r.members[k].state = "Verified"
  <2>1. k \in 1..n
    BY <1>5
  <2>2. r.members[k] = [state |-> "Verified", content |-> RealContent(snapshot, ps[k]), cause |-> OK]
    BY DEF TrueRecord, Verified
  <2> QED BY <1>4, <2>1, <2>2
<1>7. CASE code = OK
  <2>1. done = n /\ r.disposition.tag = 0
    BY <1>7 DEF TrueRecord
  <2>2. axes = <<"Interpreted", "Admitted">>
    BY <2>1 DEF axes
  <2>3. ASSUME NEW k \in 1..n
        PROVE /\ (p.members[k].state = "Verified") = (k <= done)
              /\ k <= done => p.members[k].content = RealContent(snapshot, PlannedMembers(ready)[k])
    BY <1>6, <2>1
  <2>4. /\ p.interpretation = "Interpreted" /\ p.admission = "Admitted"
        /\ p.verification = "Complete"
    BY <1>3, <2>1, <2>2
  <2>5. TrueProposal(ready, snapshot, n, done, code, p)
    BY <1>7, <2>3, <2>4 DEF TrueProposal
  <2> QED BY <2>5 DEF p
<1>8. CASE code # OK
  <2>1. /\ done < n /\ r.disposition.tag = 1 /\ r.findings = <<Finding(code)>>
        /\ r.members[done + 1] = [state |-> "Failed", content |-> EmptyContent, cause |-> code]
        /\ \A k \in (done + 2)..n : r.members[k] = [state |-> "Pending", content |-> EmptyContent, cause |-> OK]
        /\ Len(r.members) = n
    BY <1>8 DEF TrueRecord, Failed, Pending
  <2>2. f = done + 1
    <3> DEFINE S == {i \in 1..(n + 1) : i = n + 1 \/ r.members[i].state # "Verified"}
    <3>1. f = Min(S)
      BY <2>1 DEF f, Frontier
    <3>2. S \subseteq Nat /\ done + 1 \in S
      BY <1>5, <2>1
    <3>3. ASSUME NEW y \in S PROVE done + 1 <= y
      <4> SUFFICES ASSUME y <= done PROVE FALSE
        BY <1>5
      <4>1. y \in 1..done
        OBVIOUS
      <4> QED BY <1>5, <1>6, <2>1, <4>1
    <3> HIDE DEF S
    <3> QED BY <3>1, <3>2, <3>3, LeastIs
  <2>3. axes = completion_stop_axes(code)
    BY <2>1, <2>2 DEF axes, stop
  <2>4. completion_stop_axes(code) = <<completion_stop_axes(code)[1], completion_stop_axes(code)[2]>>
    BY DEF completion_stop_axes
  <2>5. ASSUME NEW k \in 1..n
        PROVE /\ (p.members[k].state = "Verified") = (k <= done)
              /\ k <= done => p.members[k].content = RealContent(snapshot, PlannedMembers(ready)[k])
    <3>1. CASE k <= done
      <4>1. k \in 1..done
        BY <1>5, <3>1
      <4> QED BY <1>6, <3>1, <4>1
    <3>2. CASE k = done + 1
      <4>1. p.members[k].state = "Failed"
        BY <1>4, <2>1, <3>2
      <4> QED BY <1>5, <3>2, <4>1
    <3>3. CASE k > done + 1
      <4>1. k \in (done + 2)..n
        BY <1>5, <3>3
      <4>2. p.members[k].state = "Pending"
        BY <1>4, <2>1, <4>1
      <4> QED BY <1>5, <3>3, <4>2
    <3> QED BY <1>5, <3>1, <3>2, <3>3
  <2>6. p.verification = "Partial" /\ p.findings = <<Finding(code)>>
        /\ <<p.interpretation, p.admission>> = completion_stop_axes(code)
    BY <1>3, <2>1, <2>3, <2>4
  <2>7. TrueProposal(ready, snapshot, n, done, code, p)
    BY <1>8, <2>5, <2>6 DEF TrueProposal
  <2> QED BY <2>7 DEF p
<1> QED BY <1>7, <1>8

\* The entries of a replay as they are sent.
Sent(entries) == [i \in DOMAIN entries |-> [entries[i] EXCEPT !.status = EntryStatus(entries[i])]]

TrueEntries(ready, snapshot, done, entries) ==
    /\ DOMAIN entries = DOMAIN Selection(ready) /\ entries = [i \in DOMAIN entries |-> entries[i]]
    /\ \A i \in DOMAIN entries :
          /\ entries[i].path = Selection(ready)[i].path
          /\ entries[i].status = "Retained" =>
                \E k \in 1..done : /\ PlannedMembers(ready)[k].components = entries[i].path
                                   /\ ~PlannedMembers(ready)[k].is_dir
                                   /\ entries[i].bytes = <<RealContent(snapshot, PlannedMembers(ready)[k])>>
          /\ Selection(ready)[i].status = "Selected" =>
                \A k \in 1..done : PlannedMembers(ready)[k].components = entries[i].path
                                      => entries[i].status = "Retained"

\* The entries that a replay sends are those of its verified members.
LEMMA EntriesOfReplay ==
    ASSUME NEW ready, NEW snapshot, NEW n \in Nat, PlanReplays(ready, snapshot, n),
           NEW done, NEW entries, EntriesReplayed(ready, snapshot, entries, done)
    PROVE TrueEntries(ready, snapshot, done, Sent(entries))
<1> DEFINE s == Sent(entries)
           ps == PlannedMembers(ready)
<1>1. /\ DOMAIN s = DOMAIN entries /\ DOMAIN entries = DOMAIN Selection(ready)
      /\ s = [i \in DOMAIN s |-> s[i]]
  BY DEF Sent, EntriesReplayed
<1>2. ASSUME NEW i \in DOMAIN s
      PROVE /\ s[i].path = Selection(ready)[i].path
            /\ s[i].status = "Retained" =>
                  \E k \in 1..done : /\ ps[k].components = s[i].path /\ ~ps[k].is_dir
                                     /\ s[i].bytes = <<RealContent(snapshot, ps[k])>>
            /\ Selection(ready)[i].status = "Selected" =>
                  \A k \in 1..done : ps[k].components = s[i].path => s[i].status = "Retained"
  <2> DEFINE e == Selection(ready)[i]
             r == entries[i]
  <2>1. s[i] = [r EXCEPT !.status = EntryStatus(r)] /\ EntryReplayed(ready, snapshot, e, r, done)
    BY <1>1 DEF Sent, EntriesReplayed
  <2>2. e = [path |-> e.path, status |-> e.status, bytes |-> <<>>] /\ e.status # "Retained"
    BY <1>1 DEF PlanReplays
  <2> HIDE DEF s, e, r, ps
  <2>3. ASSUME r = e, e.status = "Selected" => \A k \in 1..done : ps[k].components # e.path
        PROVE /\ s[i].path = e.path /\ s[i].status # "Retained"
              /\ e.status = "Selected" => \A k \in 1..done : ps[k].components # s[i].path
    <3>1. EntryStatus(r) # "Retained"
      BY <2>2, <2>3 DEF EntryStatus
    <3>2. s[i] = [path |-> e.path, status |-> EntryStatus(r), bytes |-> <<>>]
      BY <2>1, <2>2, <2>3
    <3> QED BY <2>3, <3>1, <3>2
  <2>4. ASSUME NEW k \in 1..done, ps[k].components = e.path, ~ps[k].is_dir,
               r = [path |-> e.path, status |-> "Retained", bytes |-> <<RealContent(snapshot, ps[k])>>]
        PROVE /\ s[i].path = e.path /\ s[i].status = "Retained"
              /\ s[i].bytes = <<RealContent(snapshot, ps[k])>>
    <3>1. EntryStatus(r) = "Retained"
      BY <2>4 DEF EntryStatus
    <3> QED BY <2>1, <2>4, <3>1
  <2>5. \/ r = e /\ (e.status = "Selected" => \A k \in 1..done : ps[k].components # e.path)
        \/ \E k \in 1..done :
              /\ ps[k].components = e.path /\ ~ps[k].is_dir /\ e.status = "Selected"
              /\ r = [path |-> e.path, status |-> "Retained", bytes |-> <<RealContent(snapshot, ps[k])>>]
    BY <2>1, Zenon DEF EntryReplayed, ps
  <2>6. CASE r = e /\ (e.status = "Selected" => \A k \in 1..done : ps[k].components # e.path)
    <3>1. /\ s[i].path = e.path /\ s[i].status # "Retained"
          /\ e.status = "Selected" => \A k \in 1..done : ps[k].components # s[i].path
      BY <2>3, <2>6
    <3> QED BY <3>1, Zenon DEF e
  <2>7. CASE \E k \in 1..done :
              /\ ps[k].components = e.path /\ ~ps[k].is_dir /\ e.status = "Selected"
              /\ r = [path |-> e.path, status |-> "Retained", bytes |-> <<RealContent(snapshot, ps[k])>>]
    <3>1. PICK k \in 1..done :
              /\ ps[k].components = e.path /\ ~ps[k].is_dir /\ e.status = "Selected"
              /\ r = [path |-> e.path, status |-> "Retained", bytes |-> <<RealContent(snapshot, ps[k])>>]
      BY <2>7, Zenon
    <3>2. /\ s[i].path = e.path /\ s[i].status = "Retained"
          /\ s[i].bytes = <<RealContent(snapshot, ps[k])>>
      BY <2>4, <3>1
    <3> QED BY <3>1, <3>2, Zenon DEF e
  <2> QED BY <2>5, <2>6, <2>7
<1> HIDE DEF s
<1>3. TrueEntries(ready, snapshot, done, s)
  BY <1>1, <1>2 DEF TrueEntries
<1> QED BY <1>3 DEF s

\* What is accepted is the replay of the plan, and nothing the worker says.
TrueStop(ready, snapshot, n, done, code) ==
    /\ done \in 0..n
    /\ \A k \in 1..done : /\ MemberTrue(snapshot, PlannedMembers(ready)[k])
                          /\ Readable(snapshot, PlannedMembers(ready)[k], ready.record.binding.budget)
    /\ code = OK => done = n
    /\ code # OK => done < n /\ ~MemberTrue(snapshot, PlannedMembers(ready)[done + 1])

TrueAuthorization(ready, snapshot, n, a) ==
    \E done, code : /\ TrueStop(ready, snapshot, n, done, code)
                    /\ TrueProposal(ready, snapshot, n, done, code, a.proposal)
                    /\ TrueEntries(ready, snapshot, done, a.retention)

WithinLimits(retention, entries) ==
    /\ RetainedBytes(entries) <= IF retention = <<>> THEN 0 ELSE retention[1].max_total
    /\ RetainedBytes(entries) <= MAX_TRANSFER_CONTENT_BYTES

\* authorize_execution accepts only what its own replay produced.
LEMMA AuthorizedReplay ==
    ASSUME NEW snapshot, NEW operation, NEW input, NEW completion, NEW retained, NEW effect,
           authorize_execution(snapshot, operation, input, completion, retained, effect) # <<>>,
           NEW ready, ready = validate_operation(snapshot, operation, input, effect)[1],
           NEW n \in Nat, PlanReplays(ready, snapshot, n), Len(PlannedMembers(ready)) = n
    PROVE LET a == authorize_execution(snapshot, operation, input, completion, retained, effect)[1]
          IN  /\ TrueAuthorization(ready, snapshot, n, a)
              /\ WithinLimits(ready.record.binding.retention, a.retention)
              /\ decode_completion(completion, ready) = <<a.proposal>>
              /\ completion.body.plan_id = ready.plan_id
<1> DEFINE plans == validate_operation(snapshot, operation, input, effect)
           x == execute_completion(ready, snapshot)
           replayed == finish_execution(ready, x)
           proposal == decode_completion(completion, ready)
           entries == decode_retained(ready, completion, retained)
           as == authorize_execution(snapshot, operation, input, completion, retained, effect)
           r == CompletionRecordOf(ready, x)
<1>1. /\ as = <<[proposal |-> proposal[1], retention |-> entries[1]]>>
      /\ replayed # <<>> /\ replayed[1].completion = completion /\ replayed[1].retained = retained
      /\ proposal # <<>> /\ entries # <<>>
  <2>1. as = AuthorizePlan(plans, snapshot, completion, retained, effect)
    BY DEF authorize_execution
  <2>2. as = AuthorizeReplayed(replayed, completion, retained, proposal, entries)
    BY <2>1 DEF AuthorizePlan
  <2> HIDE DEF replayed, proposal, entries, as
  <2> QED BY <2>2 DEF AuthorizeReplayed, as
<1>2. /\ ~x.broken /\ encode_completion(r, ready) # <<>>
      /\ completion = encode_completion(r, ready)[1]
      /\ retained = encode_retained(ready, completion, x.retention)
  <2> DEFINE c == encode_completion(r, ready)
  <2>1. replayed = IF x.broken \/ c = <<>> THEN <<>>
                   ELSE <<[completion |-> c[1], retained |-> encode_retained(ready, c[1], x.retention)]>>
    BY DEF finish_execution
  <2> HIDE DEF replayed, x, r, c, proposal, entries, as
  <2>2. ~(x.broken \/ c = <<>>)
    BY <1>1, <2>1
  <2>3. /\ replayed[1].completion = c[1] /\ replayed[1].retained = encode_retained(ready, c[1], x.retention)
    BY <2>1, <2>2
  <2> QED BY <1>1, <2>2, <2>3 DEF c
<1>3. completion = Frame("completion", r)
  BY <1>2 DEF encode_completion
<1>4. Replayed(ready, snapshot, x, n)
  BY ReplayRuns
<1> DEFINE done == Len(x.members)
           code == x.finding
<1>5. TrueRecord(ready, snapshot, n, done, code, r)
  BY <1>2, <1>4, RecordOfReplay
<1>6. EntriesReplayed(ready, snapshot, x.retention, done)
  BY <1>2, <1>4 DEF Replayed
<1>7. DOMAIN PlannedMembers(ready) = 1..n
  BY DEF PlanReplays
<1>8. r.plan_id = ready.plan_id
  BY DEF CompletionRecordOf
<1> HIDE DEF x, r, replayed
<1>9. TrueProposal(ready, snapshot, n, done, code, proposal[1])
  BY <1>1, <1>3, <1>5, <1>7, ProposalOfRecord
<1>10. TrueEntries(ready, snapshot, done, Sent(x.retention))
  BY <1>6, EntriesOfReplay
<1>11. /\ entries[1] = Sent(x.retention)
       /\ WithinLimits(ready.record.binding.retention, entries[1])
  <2>1. retained.body.entries = Sent(x.retention)
    BY <1>2 DEF encode_retained, Frame, Sent
  <2>2. /\ entries = <<retained.body.entries>>
        /\ RetainedBytes(retained.body.entries) <= IF ready.record.binding.retention = <<>> THEN 0
                                                   ELSE ready.record.binding.retention[1].max_total
        /\ RetainedBytes(retained.body.entries) <= MAX_TRANSFER_CONTENT_BYTES
    BY <1>1 DEF decode_retained
  <2> HIDE DEF entries
  <2> QED BY <2>1, <2>2 DEF WithinLimits
<1>12. TrueStop(ready, snapshot, n, done, code)
  <2> HIDE DEF done, code
  <2> QED BY <1>5 DEF TrueRecord, TrueStop
<1>13. /\ as[1].proposal = proposal[1] /\ as[1].retention = entries[1]
  <2> HIDE DEF proposal, entries, as
  <2> QED BY <1>1
<1>14. proposal = <<proposal[1]>>
  BY <1>1 DEF decode_completion
<1> HIDE DEF proposal, entries, as, done, code
<1>15. TrueAuthorization(ready, snapshot, n, as[1])
  BY <1>9, <1>10, <1>11, <1>12, <1>13 DEF TrueAuthorization
<1>16. completion.body.plan_id = ready.plan_id
  BY <1>3, <1>8 DEF Frame
<1>17. /\ TrueAuthorization(ready, snapshot, n, as[1])
       /\ WithinLimits(ready.record.binding.retention, as[1].retention)
       /\ proposal = <<as[1].proposal>>
       /\ completion.body.plan_id = ready.plan_id
  BY <1>11, <1>13, <1>14, <1>15, <1>16
<1> QED BY <1>17 DEF as, proposal

-----------------------------------------------------------------------------
(***************************************************************************)
(* The plan that was sent                                                  *)
(***************************************************************************)
\* What a member of a decoded plan keeps of the evidence.
SameMember(p, m) ==
    /\ p.components = m.components /\ p.is_dir = m.is_dir /\ p.method = m.method /\ p.crc = m.crc
    /\ p.comp_size = m.comp_size /\ p.uncomp_size = m.uncomp_size /\ p.payload = m.payload

\* The plan a decoder makes of the record of a job's evidence.
PlanOf(ready, j, ir) ==
    /\ ready.record.binding.budget = j.budget
    /\ ready.record.binding.retention = BindingOf(j).retention
    /\ PlannedMembers(ready) = [i \in DOMAIN ir.members |-> PlannedMembers(ready)[i]]
    /\ \A i \in DOMAIN ir.members : SameMember(PlannedMembers(ready)[i], ir.members[i])
    /\ DistinctPaths(PlannedMembers(ready))

\* The record of one member, decoded, is that member again.
LEMMA MemberCrosses ==
    ASSUME NEW ir, NEW sha, NEW b, NEW i \in DOMAIN ir.members, ir.members[i].is_dir \in BOOLEAN
    PROVE LET w == encode_ir(PendingIR(ir, sha))
          IN  /\ DOMAIN decode_ir(w, b).members = DOMAIN ir.members
              /\ SameMember(decode_ir(w, b).members[i], ir.members[i])
<1> DEFINE p == PendingIR(ir, sha)
           m == ir.members[i]
           w == encode_ir(p)
           q == p.members[i]
           e == w.members[i]
           d == decode_ir(w, b).members[i]
<1>1. /\ DOMAIN p.members = DOMAIN ir.members
      /\ q.components = m.components /\ q.is_dir = m.is_dir /\ q.method = m.method /\ q.crc = m.crc
      /\ q.comp_size = m.comp_size /\ q.uncomp_size = m.uncomp_size /\ q.payload = m.payload
  BY DEF PendingIR
<1>2. DOMAIN w.members = DOMAIN p.members /\ e = encode_member(q)
  <2> HIDE DEF p
  <2> QED BY <1>1 DEF encode_ir
<1>3. DOMAIN decode_ir(w, b).members = DOMAIN w.members /\ d = decode_member(e)
  <2> HIDE DEF p
  <2>1. i \in DOMAIN w.members
    BY <1>1, <1>2
  <2> HIDE DEF w
  <2> QED BY <2>1 DEF decode_ir
<1> HIDE DEF p, q, w, d, e
<1>4. /\ e.path = q.components /\ e.kind = (IF q.is_dir THEN 1 ELSE 0) /\ e.method = q.method /\ e.crc = q.crc
      /\ e.comp_size = q.comp_size /\ e.uncomp_size = q.uncomp_size /\ e.payload = q.payload
  BY <1>2 DEF encode_member
<1>5. /\ d.components = e.path /\ d.is_dir = (e.kind = 1) /\ d.method = e.method /\ d.crc = e.crc
      /\ d.comp_size = e.comp_size /\ d.uncomp_size = e.uncomp_size /\ d.payload = e.payload
  BY <1>3 DEF decode_member
<1>6. d.is_dir = m.is_dir
  BY <1>1, <1>4, <1>5
<1>7. SameMember(d, m)
  BY <1>1, <1>4, <1>5, <1>6 DEF SameMember
<1> QED BY <1>1, <1>2, <1>3, <1>7 DEF d, w, p

\* A decoder accepts one plan of a record or none, whatever it expects.
DecodedRecord(input, b) ==
    [binding |-> b, disposition |-> input.body.disposition, findings |-> input.body.findings,
     ir |-> IF input.body.ir = <<>> THEN <<>> ELSE <<decode_ir(input.body.ir[1], b)>>]

\* The plan that decode_planning_for makes is fixed by the record alone.
LEMMA DecodedPlan ==
    ASSUME NEW input, NEW expectation, NEW snapshot, decode_planning_for(input, expectation, snapshot) # <<>>
    PROVE LET b == decode_planning_binding(input)[1]
          IN  /\ decode_planning_binding(input) # <<>>
              /\ decode_planning_for(input, expectation, snapshot)
                    = <<[record |-> DecodedRecord(input, b), request_id |-> b, plan_id |-> input]>>
              /\ validate_planning(DecodedRecord(input, b))
              /\ DecodedRecord(input, b).binding = b
              /\ BindingExpected(b, expectation) /\ validate_snapshot_binding(snapshot, b)
<1> DEFINE b == decode_planning_binding(input)[1]
           r == DecodedRecord(input, b)
<1>1. decode_planning_binding(input) # <<>>
      /\ decode_planning_for(input, expectation, snapshot) = DecodeUnder(input, b, expectation, snapshot)
  BY DEF decode_planning_for
<1> HIDE DEF b
<1>2. /\ DecodeUnder(input, b, expectation, snapshot)
            = <<[record |-> r, request_id |-> b, plan_id |-> input]>>
      /\ validate_planning(r)
      /\ BindingExpected(b, expectation) /\ validate_snapshot_binding(snapshot, b)
  <2>1. DecodeUnder(input, b, expectation, snapshot) # <<>>
    BY <1>1
  <2> QED BY <2>1 DEF DecodeUnder, DecodedRecord, request_id, plan_id
<1>3. r.binding = b
  BY DEF DecodedRecord
<1> QED BY <1>1, <1>2, <1>3 DEF b

\* The binding of a job comes back as it was sent.
LEMMA BindingCrosses ==
    ASSUME NEW j, NEW ir, prepare_ready_plan(BindingOf(j), ir) # <<>>,
           NEW frame, frame = prepare_ready_plan(BindingOf(j), ir)[1],
           decode_planning_binding(frame) # <<>>
    PROVE LET b == decode_planning_binding(frame)[1]
          IN  /\ b.budget = j.budget /\ b.retention = BindingOf(j).retention
              /\ b.effect = j.effect /\ b.operation = OPERATION
              /\ frame.body.ir = <<encode_ir(PendingIR(ir, j.sha))>>
              /\ frame.body.disposition = Ready
              /\ j.profile \in Range(ProfileTags)
              /\ prepare_ready_plan(BindingOf(j), ir) = <<frame>>
<1> DEFINE B == BindingOf(j)
           r0 == [binding |-> B, disposition |-> Ready, findings |-> <<>>,
                  ir |-> <<PendingIR(ir, B.source_sha)>>]
           w == frame.body.binding
           b == decode_planning_binding(frame)[1]
<1>1. /\ prepare_ready_plan(B, ir) = <<encode_planning_validated(r0)>>
      /\ BindingEncodes(B)
  <2>1. r0.binding = B
    OBVIOUS
  <2>2. prepare_ready_plan(B, ir) = encode_planning(r0)
    BY DEF prepare_ready_plan
  <2> HIDE DEF r0, B
  <2> QED BY <2>1, <2>2 DEF encode_planning, B
<1>2. frame = encode_planning_validated(r0) /\ prepare_ready_plan(B, ir) = <<frame>>
  <2> HIDE DEF r0
  <2> QED BY <1>1
<1>3. /\ frame.body.binding = encode_binding(B) /\ frame.body.disposition = Ready
      /\ frame.body.ir = <<encode_ir(PendingIR(ir, B.source_sha))>>
  <2>1. r0.disposition.tag = 0 /\ r0.ir # <<>> /\ r0.ir[1] = PendingIR(ir, B.source_sha) /\ r0.binding = B
    BY DEF Ready
  <2> HIDE DEF r0, B
  <2> QED BY <1>2, <2>1 DEF encode_planning_validated, Frame
<1>4. /\ B.budget = j.budget /\ B.effect = j.effect /\ B.operation = OPERATION
      /\ B.source_sha = j.sha /\ B.profile = j.profile
  BY DEF BindingOf
<1>5. /\ w.budget = B.budget /\ w.retention = B.retention /\ w.effect = B.effect
      /\ w.operation = B.operation /\ DOMAIN w = DOMAIN B
      /\ {"budget", "retention", "effect", "operation", "profile"} \subseteq DOMAIN w
  <2>1. w = [B EXCEPT !.profile = ProfileTag(B.profile)]
    BY <1>3 DEF encode_binding
  <2>2. {"budget", "retention", "effect", "operation", "profile"} \subseteq DOMAIN B
    BY DEF BindingOf
  <2> HIDE DEF B, w
  <2> QED BY <2>1, <2>2
<1>6. b = [w EXCEPT !.profile = ProfileTags[w.profile]]
  BY DEF decode_planning_binding, decode_binding
<1>7. /\ b.budget = w.budget /\ b.retention = w.retention /\ b.effect = w.effect
      /\ b.operation = w.operation
  <2> HIDE DEF w, b
  <2> QED BY <1>5, <1>6
<1>8. j.profile \in Range(ProfileTags)
  <2> HIDE DEF B
  <2> QED BY <1>1, <1>4 DEF BindingEncodes
<1> HIDE DEF B, w, b
<1> QED BY <1>2, <1>3, <1>4, <1>5, <1>7, <1>8 DEF B, b

\* The plan that comes back is the evidence.
LEMMA SentPlan ==
    ASSUME NEW j, NEW ir, prepare_ready_plan(BindingOf(j), ir) # <<>>,
           \A i \in DOMAIN ir.members : ir.members[i].is_dir \in BOOLEAN,
           NEW frame, frame = prepare_ready_plan(BindingOf(j), ir)[1], NEW expectation, NEW snapshot,
           decode_planning_for(frame, expectation, snapshot) # <<>>
    PROVE /\ PlanOf(decode_planning_for(frame, expectation, snapshot)[1], j, ir)
          /\ decode_planning_for(frame, expectation, snapshot)[1].plan_id = frame
<1> DEFINE d == decode_planning_for(frame, expectation, snapshot)
           b == decode_planning_binding(frame)[1]
           r == DecodedRecord(frame, b)
           ready == d[1]
           w == encode_ir(PendingIR(ir, j.sha))
<1>1. /\ decode_planning_binding(frame) # <<>> /\ r.binding = b
      /\ d = <<[record |-> r, request_id |-> b, plan_id |-> frame]>> /\ validate_planning(r)
  BY DecodedPlan
<1>2. /\ b.budget = j.budget /\ b.retention = BindingOf(j).retention
      /\ frame.body.ir = <<w>> /\ frame.body.disposition = Ready
  BY <1>1, BindingCrosses
<1> HIDE DEF d, b, w
<1>3. /\ r.ir = <<decode_ir(w, b)>> /\ r.disposition.tag = 0
  BY <1>2 DEF DecodedRecord, Ready
<1> HIDE DEF r
<1>4. ready.record = r /\ ready.plan_id = frame
  BY <1>1
<1>5. PlannedMembers(ready) = decode_ir(w, b).members
  BY <1>3, <1>4 DEF PlannedMembers
<1>6. \A i \in DOMAIN ir.members : /\ DOMAIN decode_ir(w, b).members = DOMAIN ir.members
                                   /\ SameMember(decode_ir(w, b).members[i], ir.members[i])
  BY MemberCrosses DEF w
<1>7. decode_ir(w, b).members = [i \in DOMAIN ir.members |-> decode_ir(w, b).members[i]]
  BY DEF decode_ir, w, encode_ir, PendingIR
<1>8. DistinctPaths(PlannedMembers(ready))
  <2>1. validate_pending_ir(r.ir[1], r.binding)
    BY <1>1, <1>3 DEF validate_planning
  <2>2. validate_path_topology(r.ir[1].members, <<>>)
    BY <2>1 DEF validate_pending_ir
  <2>3. r.ir[1].members = PlannedMembers(ready)
    BY <1>3, <1>5
  <2> HIDE DEF ready
  <2>4. validate_path_topology(PlannedMembers(ready), <<>>)
    BY <2>2, <2>3
  <2> QED BY <2>4 DEF validate_path_topology, TopologyKey, DistinctPaths
<1>9. PlanOf(ready, j, ir)
  <2> HIDE DEF ready
  <2> QED BY <1>1, <1>2, <1>4, <1>5, <1>6, <1>7, <1>8 DEF PlanOf
<1> QED BY <1>4, <1>9 DEF d

-----------------------------------------------------------------------------
(***************************************************************************)
(* The evidence of a job                                                   *)
(***************************************************************************)
ZipFields == {"profile", "len", "maxFiles", "maxMetadata", "stage", "end", "pos", "members",
              "metadata", "zip64Seen", "maxVersion", "verdict"}

\* A member of a job: a size, and a payload in the source.
FitMember(m, payloads) ==
    /\ m = [x \in DOMAIN m |-> m[x]]
    /\ {"components", "actions", "is_dir", "uncomp_size", "payload"} \subseteq DOMAIN m
    /\ m.is_dir \in BOOLEAN /\ m.uncomp_size \in Nat /\ m.payload.offset \in DOMAIN payloads

FitMembers(ms, payloads) == IsSequence(ms) /\ \A i \in DOMAIN ms : FitMember(ms[i], payloads)

FitScan(s, profile, payloads) ==
    /\ s = [x \in ZipFields |-> s[x]] /\ s.profile = profile
    /\ FitMembers(s.members, payloads)

FitWindow(w, payloads) ==
    w.cdh.uncomp \in Nat /\ DataOffset(w.lfh, w.cdh.lfh_offset) \in DOMAIN payloads

\* Nothing read yet fits every source.
LEMMA FitNothing ==
    ASSUME NEW payloads PROVE FitMembers(<<>>, payloads)
<1>1. <<>> \in Seq({}) /\ DOMAIN <<>> = {}
  OBVIOUS
<1> QED BY <1>1 DEF FitMembers, IsSequence

\* A member that fits may follow those that do.
LEMMA FitAppend ==
    ASSUME NEW payloads, NEW ms, FitMembers(ms, payloads), NEW m, FitMember(m, payloads)
    PROVE FitMembers(Append(ms, m), payloads)
<1> DEFINE a == Append(ms, m)
           n == Len(ms)
<1>1. /\ IsSequence(a) /\ n \in Nat /\ DOMAIN ms = 1..n /\ DOMAIN a = 1..(n + 1)
      /\ \A i \in 1..n : a[i] = ms[i]
      /\ a[n + 1] = m
  BY AppendTo DEF FitMembers
<1> HIDE DEF a, n
<1>2. \A i \in 1..(n + 1) : i \in 1..n \/ i = n + 1
  BY <1>1
<1>3. \A i \in DOMAIN a : FitMember(a[i], payloads)
  BY <1>1, <1>2 DEF FitMembers
<1>4. FitMembers(a, payloads)
  BY <1>1, <1>3 DEF FitMembers
<1> QED BY <1>4 DEF a

\* A reader that refuses keeps what it has read.
LEMMA FitReject ==
    ASSUME NEW s, NEW profile, NEW payloads, FitScan(s, profile, payloads), NEW f
    PROVE FitScan([s EXCEPT !.verdict = f], profile, payloads)
BY DEF FitScan, ZipFields

\* The member of a window fits.
LEMMA FitPush ==
    ASSUME NEW s, NEW profile, NEW payloads, FitScan(s, profile, payloads), NEW w,
           FitWindow(w, payloads)
    PROVE LET c == w.cdh
          IN  FitScan(PushZipMember(s, w, [mask |-> {}, values |-> <<c.uncomp, c.comp, c.lfh_offset>>],
                                    "Zip32"), profile, payloads)
<1> DEFINE c == w.cdh
           v == [mask |-> {}, values |-> <<c.uncomp, c.comp, c.lfh_offset>>]
           m == ZipMember(s, w, v, "Zip32")
           a == Append(s.members, m)
           t == PushZipMember(s, w, v, "Zip32")
<1>1. v.values[1] = c.uncomp /\ v.values[3] = c.lfh_offset
  OBVIOUS
<1> HIDE DEF v
<1>2. FitMember(m, payloads)
  <2>1. /\ m.is_dir = IsDirName(c.name) /\ m.uncomp_size = v.values[1]
        /\ m.payload = ByteRange(DataOffset(w.lfh, v.values[3]), v.values[2])
    BY DEF ZipMember
  <2>2. {"components", "actions", "is_dir", "uncomp_size", "payload"} \subseteq DOMAIN m
    BY DEF ZipMember
  <2>3. m = [x \in DOMAIN m |-> m[x]]
    BY ZenonT(180) DEF ZipMember
  <2>4. IsDirName(c.name) \in BOOLEAN
    BY DEF IsDirName
  <2> HIDE DEF m
  <2>5. m.payload.offset = DataOffset(w.lfh, v.values[3])
    BY <2>1 DEF ByteRange
  <2> QED BY <1>1, <2>1, <2>2, <2>3, <2>4, <2>5 DEF FitMember, FitWindow
<1> HIDE DEF m
<1>3. FitMembers(a, payloads)
  BY <1>2, FitAppend DEF FitScan
<1>4. \/ \E f : t = [s EXCEPT !.verdict = f]
      \/ \E b, p, d, e : t = [s EXCEPT !.members = a, !.metadata = b, !.pos = p,
                                       !.maxVersion = d, !.zip64Seen = e]
  BY DEF PushZipMember, m, FitScan, ZipFields, ZipReject
<1> HIDE DEF a, t
<1>5. ASSUME NEW b, NEW p, NEW d, NEW e
      PROVE FitScan([s EXCEPT !.members = a, !.metadata = b, !.pos = p,
                              !.maxVersion = d, !.zip64Seen = e], profile, payloads)
  BY <1>3 DEF FitScan, ZipFields
<1>6. FitScan(t, profile, payloads)
  <2>1. CASE \E f : t = [s EXCEPT !.verdict = f]
    <3>1. PICK f : t = [s EXCEPT !.verdict = f]
      BY <2>1
    <3> QED BY <3>1, FitReject
  <2>2. CASE \E b, p, d, e : t = [s EXCEPT !.members = a, !.metadata = b, !.pos = p,
                                           !.maxVersion = d, !.zip64Seen = e]
    <3>1. PICK b, p, d, e : t = [s EXCEPT !.members = a, !.metadata = b, !.pos = p,
                                          !.maxVersion = d, !.zip64Seen = e]
      BY <2>2
    <3> QED BY <1>5, <3>1
  <2> QED BY <1>4, <2>1, <2>2
<1> QED BY <1>6 DEF t, v

\* A turn of a ZIP32 reader.
LEMMA FitStep ==
    ASSUME NEW s, NEW profile, profile # Zip64Profile, NEW payloads, FitScan(s, profile, payloads),
           NEW w, s.stage = "end" \/ FitWindow(w, payloads)
    PROVE FitScan(ZipStep(s, w), profile, payloads)
<1>1. CASE s.stage = "end"
  <2>1. ZipStep(s, w) = ZipEndStep(s, w)
    BY <1>1 DEF ZipStep, ZipExhausted
  <2>2. \/ \E f : ZipEndStep(s, w) = [s EXCEPT !.verdict = f]
        \/ \E e, c : ZipEndStep(s, w) = [s EXCEPT !.stage = "members", !.end = e, !.metadata = c]
    BY DEF ZipEndStep, ZipReject
  <2>3. ASSUME NEW e, NEW c
        PROVE FitScan([s EXCEPT !.stage = "members", !.end = e, !.metadata = c], profile, payloads)
    BY DEF FitScan, ZipFields
  <2>4. CASE \E f : ZipEndStep(s, w) = [s EXCEPT !.verdict = f]
    <3>1. PICK f : ZipEndStep(s, w) = [s EXCEPT !.verdict = f]
      BY <2>4
    <3> QED BY <2>1, <3>1, FitReject
  <2>5. CASE \E e, c : ZipEndStep(s, w) = [s EXCEPT !.stage = "members", !.end = e, !.metadata = c]
    <3>1. PICK e, c : ZipEndStep(s, w) = [s EXCEPT !.stage = "members", !.end = e, !.metadata = c]
      BY <2>5
    <3>2. FitScan([s EXCEPT !.stage = "members", !.end = e, !.metadata = c], profile, payloads)
      BY <2>3
    <3> QED BY <2>1, <3>1, <3>2, Zenon
  <2> QED BY <2>2, <2>4, <2>5
<1>2. CASE s.stage # "end" /\ ZipExhausted(s)
  <2>1. ZipStep(s, w) = ZipFinish(s)
    BY <1>2 DEF ZipStep
  <2>2. \E f : ZipFinish(s) = [s EXCEPT !.verdict = f]
    BY DEF ZipFinish
  <2> QED BY <2>1, <2>2, FitReject
<1>3. CASE s.stage # "end" /\ ~ZipExhausted(s)
  <2>1. ZipStep(s, w) = Zip32MemberStep(s, w)
    BY <1>3 DEF ZipStep, FitScan
  <2>2. \/ \E f : ZipStep(s, w) = [s EXCEPT !.verdict = f]
        \/ ZipStep(s, w) = PushZipMember(s, w, [mask |-> {}, values |-> <<w.cdh.uncomp, w.cdh.comp,
                                                                          w.cdh.lfh_offset>>], "Zip32")
    BY <2>1 DEF Zip32MemberStep, ZipReject
  <2> QED BY <1>3, <2>2, FitReject, FitPush
<1> QED BY <1>1, <1>2, <1>3

ReadOp(p, st, w) == ReadTurn(st, w)
ReadFold == INSTANCE FoldTheorems WITH Op <- ReadOp

\* The scan at the end of a job's reader.
LEMMA ReadFits ==
    ASSUME NEW j \in Jobs, j.profile # Zip64Profile
    PROVE FitScan(ReadZip(j).scan, j.profile, j.payloads)
<1> DEFINE Fit(st) == FitScan(st.scan, j.profile, j.payloads)
           new == [scan |-> NewZipScan(j.profile, j.len, j.budget.max_files, j.budget.max_metadata),
                   src |-> <<>>]
           first == ReadTurn(new, j.end)
           n == Len(j.members)
           read == FoldLeft(LAMBDA st, w : ReadTurn(st, w), first, j.members)
<1>1. n \in Nat /\ DOMAIN j.members = 1..n
  BY JobsAssumption
<1>2. \A i \in 1..n : FitWindow(j.members[i], j.payloads)
  BY <1>1, JobsAssumption DEF FitWindow
<1>3. Fit(new) /\ new.scan.stage = "end"
  <2> DEFINE s == NewZipScan(j.profile, j.len, j.budget.max_files, j.budget.max_metadata)
  <2>1. s = [x \in ZipFields |-> s[x]] /\ s.members = <<>> /\ s.profile = j.profile /\ s.stage = "end"
    BY DEF NewZipScan, ZipFields
  <2>2. new.scan = s
    OBVIOUS
  <2> HIDE DEF s, new
  <2> QED BY <2>1, <2>2, FitNothing DEF FitScan
<1> HIDE DEF new
<1>4. ASSUME NEW st, Fit(st), NEW w, st.scan.stage = "end" \/ FitWindow(w, j.payloads)
      PROVE Fit(ReadTurn(st, w))
  <2>1. ReadTurn(st, w) = st \/ \E src : ReadTurn(st, w) = [scan |-> ZipStep(st.scan, w), src |-> src]
    BY DEF ReadTurn
  <2>2. FitScan(ZipStep(st.scan, w), j.profile, j.payloads)
    BY <1>4, FitStep
  <2> QED BY <1>4, <2>1, <2>2
<1>5. Fit(first)
  BY <1>3, <1>4
<1> HIDE DEF Fit, first, n
<1>6. read = ReadFold!Fold(0, first, j.members)
  BY DEF ReadOp, ReadFold!Fold, FoldLeft, MapThenFoldSet, ReadFold!FoldLeft, ReadFold!MapThenFoldSet,
         Max, ReadFold!Max
<1>7. PICK h : ReadFold!IsRun(h, 0, first, j.members, n) /\ ReadFold!Fold(0, first, j.members) = h[n]
  BY <1>1, ReadFold!FoldRuns
<1>8. h[0] = first /\ \A k \in Nat : k < n => h[k + 1] = ReadTurn(h[k], j.members[k + 1])
  BY <1>7 DEF ReadFold!IsRun, ReadOp
<1> DEFINE T == {k \in Nat : k <= n => Fit(h[k])}
<1>9. 0 \in T
  BY <1>5, <1>8
<1>10. ASSUME NEW k \in Nat, k \in T PROVE k + 1 \in T
  <2> SUFFICES ASSUME k + 1 <= n PROVE Fit(h[k + 1])
    OBVIOUS
  <2>1. k < n /\ k + 1 \in 1..n /\ Fit(h[k])
    BY <1>1, <1>10
  <2> QED BY <1>2, <1>4, <1>8, <2>1
<1>11. \A k \in Nat : k \in T
  <2> HIDE DEF T
  <2> QED BY <1>9, <1>10, ReadFold!SetInduction
<1>12. Fit(read)
  <2>1. n \in T
    <3> HIDE DEF T
    <3> QED BY <1>1, <1>11
  <2>2. Fit(h[n])
    BY <1>1, <2>1
  <2> HIDE DEF read, T
  <2> QED BY <1>6, <1>7, <2>2
<1>13. ReadZip(j) = IF ZipRunning(read.scan) /\ ZipExhausted(read.scan)
                    THEN [scan |-> ZipFinish(read.scan), src |-> read.src] ELSE read
  BY DEF ReadZip, first, new
<1> HIDE DEF read
<1>14. FitScan(read.scan, j.profile, j.payloads)
  BY <1>12 DEF Fit
<1>15. FitScan(ZipFinish(read.scan), j.profile, j.payloads)
  <2>1. \E f : ZipFinish(read.scan) = [read.scan EXCEPT !.verdict = f]
    BY DEF ZipFinish
  <2> QED BY <1>14, <2>1, FitReject
<1> QED BY <1>13, <1>14, <1>15

FitPlan(p, payloads) ==
    /\ p = [findings |-> p.findings, planned |-> p.planned, seen |-> p.seen, total |-> p.total,
            stopped |-> p.stopped]
    /\ FitMembers(p.planned, payloads)

\* The planner keeps the members it admits as they are read.
LEMMA FitPlanned ==
    ASSUME NEW budget, NEW profile, NEW payloads, NEW p, FitPlan(p, payloads), NEW m,
           FitMember(m, payloads)
    PROVE FitPlan(PlanZipMember(budget, profile, p, m), payloads)
<1> DEFINE q == PlanZipMember(budget, profile, p, m)
           Planned(c, a) == Append(p.planned, [m EXCEPT !.components = c, !.actions = a])
<1>1. p = [findings |-> p.findings, planned |-> p.planned, seen |-> p.seen, total |-> p.total,
           stopped |-> p.stopped]
  BY DEF FitPlan
<1>2. \/ q = p
      \/ \E f : q = [p EXCEPT !.findings = Append(p.findings, f)]
      \/ \E f : q = [[p EXCEPT !.findings = Append(p.findings, f)] EXCEPT !.stopped = TRUE]
      \/ \E f, t : q = [[p EXCEPT !.findings = Append(p.findings, f)] EXCEPT !.total = t]
      \/ \E c, a, t, s : q = [p EXCEPT !.total = t, !.planned = Planned(c, a), !.seen = s]
  BY Zenon DEF PlanZipMember
<1> DEFINE Is(f, d, s, t, b) == q = [findings |-> f, planned |-> d, seen |-> s, total |-> t, stopped |-> b]
<1>3. ASSUME NEW f, NEW d, NEW s, NEW t, NEW b, Is(f, d, s, t, b), FitMembers(d, payloads)
      PROVE FitPlan(q, payloads)
  <2> HIDE DEF q
  <2>1. q.planned = d /\ q = [findings |-> q.findings, planned |-> q.planned, seen |-> q.seen,
                              total |-> q.total, stopped |-> q.stopped]
    BY <1>3
  <2>2. FitPlan(q, payloads)
    BY <1>3, <2>1 DEF FitPlan
  <2> QED BY <2>2
<1>4. FitMembers(p.planned, payloads)
  BY DEF FitPlan
<1>5. ASSUME NEW c, NEW a PROVE FitMembers(Planned(c, a), payloads)
  <2>1. FitMember([m EXCEPT !.components = c, !.actions = a], payloads)
    BY DEF FitMember
  <2> QED BY <1>4, <2>1, FitAppend
<1> SUFFICES FitPlan(q, payloads)
  OBVIOUS
<1> HIDE DEF q, Planned
<1>6. CASE q = p
  BY <1>1, <1>3, <1>4, <1>6
<1>7. CASE \E f : q = [p EXCEPT !.findings = Append(p.findings, f)]
  <2>1. PICK f : q = [p EXCEPT !.findings = Append(p.findings, f)]
    BY <1>7
  <2>2. Is(Append(p.findings, f), p.planned, p.seen, p.total, p.stopped)
    BY <1>1, <2>1
  <2> QED BY <1>3, <1>4, <2>2
<1>8. CASE \E f : q = [[p EXCEPT !.findings = Append(p.findings, f)] EXCEPT !.stopped = TRUE]
  <2>1. PICK f : q = [[p EXCEPT !.findings = Append(p.findings, f)] EXCEPT !.stopped = TRUE]
    BY <1>8
  <2>2. Is(Append(p.findings, f), p.planned, p.seen, p.total, TRUE)
    BY <1>1, <2>1
  <2> QED BY <1>3, <1>4, <2>2
<1>9. CASE \E f, t : q = [[p EXCEPT !.findings = Append(p.findings, f)] EXCEPT !.total = t]
  <2>1. PICK f, t : q = [[p EXCEPT !.findings = Append(p.findings, f)] EXCEPT !.total = t]
    BY <1>9
  <2>2. Is(Append(p.findings, f), p.planned, p.seen, t, p.stopped)
    BY <1>1, <2>1
  <2> QED BY <1>3, <1>4, <2>2
<1>10. CASE \E c, a, t, s : q = [p EXCEPT !.total = t, !.planned = Planned(c, a), !.seen = s]
  <2>1. PICK c, a, t, s : q = [p EXCEPT !.total = t, !.planned = Planned(c, a), !.seen = s]
    BY <1>10
  <2>2. Is(p.findings, Planned(c, a), s, t, p.stopped)
    BY <1>1, <2>1
  <2> QED BY <1>3, <1>5, <2>2
<1> QED BY <1>2, <1>6, <1>7, <1>8, <1>9, <1>10

PlanOp(p, st, m) == PlanZipMember(p[1], p[2], st, m)
PlanFold == INSTANCE FoldTheorems WITH Op <- PlanOp

\* The evidence of a job that is planned.
LEMMA PlannedFits ==
    ASSUME NEW s, NEW profile, NEW payloads, FitScan(s, profile, payloads), NEW magic, NEW budget
    PROVE FitPlan(plan_snapshot(s, magic, budget).plan, payloads)
<1> DEFINE ms == s.members
           n == Len(ms)
           p == <<budget, s.profile>>
           made == FoldLeft(LAMBDA q, m : PlanZipMember(budget, s.profile, q, m), NewZipPlan, ms)
<1>1. n \in Nat /\ DOMAIN ms = 1..n /\ \A i \in 1..n : FitMember(ms[i], payloads)
  BY AppendTo DEF FitScan, FitMembers
<1>2. FitPlan(NewZipPlan, payloads)
  BY FitNothing DEF FitPlan, NewZipPlan
<1>3. made = PlanFold!Fold(p, NewZipPlan, ms)
  <2>1. p[1] = budget /\ p[2] = s.profile
    OBVIOUS
  <2> HIDE DEF p
  <2> QED BY <2>1 DEF PlanOp, PlanFold!Fold, FoldLeft, MapThenFoldSet, PlanFold!FoldLeft,
                      PlanFold!MapThenFoldSet, Max, PlanFold!Max
<1> HIDE DEF ms, n
<1>4. PICK h : PlanFold!IsRun(h, p, NewZipPlan, ms, n) /\ PlanFold!Fold(p, NewZipPlan, ms) = h[n]
  BY <1>1, PlanFold!FoldRuns
<1>5. h[0] = NewZipPlan
      /\ \A k \in Nat : k < n => h[k + 1] = PlanZipMember(budget, s.profile, h[k], ms[k + 1])
  BY <1>4 DEF PlanFold!IsRun, PlanOp
<1> DEFINE T == {k \in Nat : k <= n => FitPlan(h[k], payloads)}
<1>6. 0 \in T
  BY <1>2, <1>5
<1>7. ASSUME NEW k \in Nat, k \in T PROVE k + 1 \in T
  <2> SUFFICES ASSUME k + 1 <= n PROVE FitPlan(h[k + 1], payloads)
    OBVIOUS
  <2>1. k < n /\ k + 1 \in 1..n /\ FitPlan(h[k], payloads)
    BY <1>1, <1>7
  <2> QED BY <1>1, <1>5, <2>1, FitPlanned
<1>8. \A k \in Nat : k \in T
  <2> HIDE DEF T
  <2> QED BY <1>6, <1>7, PlanFold!SetInduction
<1>9. FitPlan(made, payloads)
  <2>1. n \in T
    <3> HIDE DEF T
    <3> QED BY <1>1, <1>8
  <2>2. FitPlan(h[n], payloads)
    BY <1>1, <2>1
  <2> HIDE DEF made, T
  <2> QED BY <1>3, <1>4, <2>2
<1>10. plan_snapshot(s, magic, budget).plan \in {NewZipPlan, made}
  BY DEF plan_snapshot, ms
<1> HIDE DEF made
<1> QED BY <1>2, <1>9, <1>10

AddOp(p, s, path) == add_path(s, path).paths
AddFold == INSTANCE FoldTheorems WITH Op <- AddOp

\* The paths of a request are finitely many, and so their list is one.
LEMMA PathsListed ==
    ASSUME NEW paths, paths \in Seq(Range(paths))
    PROVE /\ Cardinality(AddPaths(paths)) \in Nat
          /\ DOMAIN SortedPaths(AddPaths(paths)) = 1..Cardinality(AddPaths(paths))
<1> DEFINE n == Len(paths)
<1>1. n \in Nat /\ DOMAIN paths = 1..n
  OBVIOUS
<1>2. AddPaths(paths) = AddFold!Fold(0, {}, paths)
  BY DEF AddPaths, AddOp, AddFold!Fold, FoldLeft, MapThenFoldSet, AddFold!FoldLeft,
         AddFold!MapThenFoldSet, Max, AddFold!Max
<1> HIDE DEF n
<1>3. PICK h : AddFold!IsRun(h, 0, {}, paths, n) /\ AddFold!Fold(0, {}, paths) = h[n]
  BY <1>1, AddFold!FoldRuns
<1>4. h[0] = {} /\ \A k \in Nat : k < n => h[k + 1] = add_path(h[k], paths[k + 1]).paths
  BY <1>3 DEF AddFold!IsRun, AddOp
<1> DEFINE T == {k \in Nat : k <= n => IsFiniteSet(h[k])}
<1>5. 0 \in T
  BY <1>4, FS_EmptySet
<1>6. ASSUME NEW k \in Nat, k \in T PROVE k + 1 \in T
  <2> SUFFICES ASSUME k + 1 <= n PROVE IsFiniteSet(h[k + 1])
    OBVIOUS
  <2>1. k < n /\ IsFiniteSet(h[k])
    BY <1>1, <1>6
  <2>2. h[k + 1] = h[k] \/ h[k + 1] = h[k] \cup {paths[k + 1]}
    BY <1>4, <2>1 DEF add_path
  <2>3. IsFiniteSet(h[k] \cup {paths[k + 1]})
    BY <2>1, FS_AddElement
  <2> QED BY <2>1, <2>2, <2>3
<1>7. \A k \in Nat : k \in T
  <2> HIDE DEF T
  <2> QED BY <1>5, <1>6, AddFold!SetInduction
<1>8. IsFiniteSet(AddPaths(paths))
  BY <1>1, <1>2, <1>3, <1>7
<1>9. Cardinality(AddPaths(paths)) \in Nat
  BY <1>8, FS_CardinalityType
<1> QED BY <1>9 DEF SortedPaths

-----------------------------------------------------------------------------
(***************************************************************************)
(* The inductive invariant                                                 *)
(***************************************************************************)
AskPhases == {"asking", "asked", "unread", "streamed", "withheld", "read", "notasked"}
AuthPhases == {"authorized"} \cup AskPhases
OutPhases == {"answered", "misreported", "unauthorized"} \cup AuthPhases
RunPhases == {"executing", "broken"} \cup OutPhases
DeliveredPhases == {"delivered", "unbound", "refused"} \cup RunPhases
SentPhases == {"sent"} \cup DeliveredPhases
Phases == {"start", "interpreted", "unsendable", "terminal", "ended"} \cup SentPhases

\* What the supervisor read is fixed by the job.
ReadInv ==
    /\ job \in Jobs /\ phase \in Phases
    /\ phase # "start" =>
          reading = <<[scan |-> ReadZip(job).scan, src |-> ReadZip(job).src,
                       result |-> plan_snapshot(ReadZip(job).scan, job.magic, job.budget)]>>

\* What it sent is the record of its evidence.
SentInv ==
    phase \in SentPhases =>
        Evidence # <<>> /\ planning # <<>> /\ planning = prepare_ready_plan(BindingOf(job), Evidence[1])

\* The worker answers for the record it was given.
AnswerInv ==
    /\ phase \in DeliveredPhases => delivered = <<delivered[1]>>
    /\ phase \in RunPhases => plan # <<>> /\ plan[1].plan_id = delivered[1]
    /\ phase = "answered" => outputs # <<>> /\ outputs = finish_execution(plan[1], exec[1])
    /\ phase \in OutPhases => outputs[1].completion.body.plan_id = delivered[1]

Authorization ==
    authorize_execution(Snapshot, OPERATION, planning[1], outputs[1].completion, outputs[1].retained,
                        job.effect)

\* What is accepted passed the replay.
AuthInv ==
    IF phase \in AuthPhases THEN authorized # <<>> /\ authorized = Authorization
    ELSE authorized = <<>>

\* A read that the worker is asked for cannot be answered without it.
Asking ==
    /\ LocalAnswer(ask[1]) = <<>> /\ ReadAuthority # <<>> /\ request # <<>>
    /\ request = encode_kind(ReadAuthority[1], outputs[1].completion, READ_OPERATION, ask[1].path,
                             ask[1].max, ask[1].kind)

KeptPart == retained_bytes(stream[1].size, ask[1].max, ask[1].kind)

Released ==
    /\ validate_stream_result(ReadAuthority[1], outputs[1].completion, request[1], READ_OPERATION,
                              stream[1], KeptPart, ask[1].kind)
    /\ answer = <<[error |-> OK, content |-> stream[1], kept |-> KeptPart]>>

\* A read is answered here, or with a stream that is what was asked for.
AskInv ==
    /\ phase \in AskPhases => ask = <<ask[1]>> /\ ask[1] \in Asks
    /\ phase \in {"asking", "asked", "streamed"} => Asking /\ answer = <<>>
    /\ phase \notin {"streamed", "withheld", "read"} => stream = <<>>
    /\ IF phase # "read" THEN answer = <<>>
       ELSE \/ answer = LocalAnswer(ask[1]) /\ answer # <<>> /\ stream = <<>>
            \/ Asking /\ Released

ExchangeInv == ReadInv /\ SentInv /\ AnswerInv /\ AuthInv /\ AskInv

-----------------------------------------------------------------------------
(***************************************************************************)
(* What was sent                                                           *)
(***************************************************************************)
\* The entries that a plan selects are fresh, and each selected one names a
\* file of the plan.
FreshIn(selected, ms) ==
    \A i \in DOMAIN selected :
        LET e == selected[i]
        IN  /\ e = [path |-> e.path, status |-> e.status, bytes |-> <<>>] /\ e.status # "Retained"
            /\ e.status = "Selected" => \E k \in DOMAIN ms : ms[k].components = e.path /\ ~ms[k].is_dir

\* RetentionPlan selects only such entries.
LEMMA FreshSelection ==
    ASSUME NEW j \in Jobs, NEW retention, retention = BindingOf(j).retention, NEW ms
    PROVE FreshIn(RetentionPlan(retention, ms), ms)
<1> DEFINE R == RetentionPlan(retention, ms)
<1>1. CASE j.retention = <<>>
  <2>1. R = <<>>
    BY <1>1 DEF BindingOf, RetentionPlan
  <2> QED BY <2>1 DEF FreshIn
<1>2. CASE j.retention # <<>>
  <2> DEFINE paths == SortedPaths(AddPaths(j.retention[1].paths))
             n == Cardinality(AddPaths(j.retention[1].paths))
  <2>1. /\ j.retention[1].paths \in Seq(Range(j.retention[1].paths))
        /\ j.retention = <<[paths |-> j.retention[1].paths, max_member |-> j.retention[1].max_member,
                            max_total |-> j.retention[1].max_total]>>
    BY <1>2, JobsAssumption
  <2>2. n \in Nat /\ DOMAIN paths = 1..n
    BY <2>1, PathsListed
  <2> HIDE DEF paths, n
  <2>3. retention # <<>> /\ retention[1].paths = paths
    BY <1>2, <2>1 DEF BindingOf, paths
  <2>4. PICK h : IsRetentionRun(h, retention, ms, n)
    BY <2>2, <2>3, RetentionRun
  <2> SUFFICES ASSUME NEW i \in DOMAIN R
               PROVE LET e == R[i]
                     IN  /\ e = [path |-> e.path, status |-> e.status, bytes |-> <<>>]
                         /\ e.status # "Retained"
                         /\ e.status = "Selected" =>
                               \E k \in DOMAIN ms : ms[k].components = e.path /\ ~ms[k].is_dir
    BY DEF FreshIn
  <2> DEFINE st == SelectStatus(retention, ms, h[i - 1].total, paths[i])
  <2>5. R[i] = [path |-> paths[i], status |-> st, bytes |-> <<>>]
    BY <2>3, <2>4 DEF IsRetentionRun
  <2>6. st # "Retained"
    BY DEF SelectStatus
  <2>7. st = "Selected" => \E k \in DOMAIN ms : ms[k].components = paths[i] /\ ~ms[k].is_dir
    BY SelectedIsFile
  <2> HIDE DEF st, R
  <2> QED BY <2>5, <2>6, <2>7
<1> QED BY <1>1, <1>2

\* What a decoder makes of the record that was sent can be replayed.
SentOf(ready, n) ==
    /\ n \in Nat /\ Evidence[1].members = [i \in 1..n |-> Evidence[1].members[i]]
    /\ Len(Evidence[1].members) = n
    /\ FitMembers(Evidence[1].members, job.payloads)
    /\ PlanOf(ready, job, Evidence[1]) /\ ready.plan_id = planning[1]
    /\ PlanReplays(ready, Snapshot, n) /\ Len(PlannedMembers(ready)) = n

\* Every decoder that accepts the record that was sent makes such a plan.
LEMMA SentReplays ==
    ASSUME ReadInv, SentInv, phase \in SentPhases, NEW expectation, NEW snapshot,
           decode_planning_for(planning[1], expectation, snapshot) # <<>>
    PROVE /\ SentOf(decode_planning_for(planning[1], expectation, snapshot)[1], Len(Evidence[1].members))
          /\ planning = <<planning[1]>>
<1> DEFINE frame == planning[1]
           d == decode_planning_for(planning[1], expectation, snapshot)
           ready == d[1]
           ir == Evidence[1]
           ms == Evidence[1].members
           n == Len(ms)
           ps == PlannedMembers(ready)
<1>1. /\ Evidence # <<>> /\ prepare_ready_plan(BindingOf(job), ir) # <<>>
      /\ frame = prepare_ready_plan(BindingOf(job), ir)[1] /\ planning = prepare_ready_plan(BindingOf(job), ir)
      /\ job \in Jobs
  BY DEF SentInv, ReadInv
<1>2. decode_planning_binding(frame) # <<>>
  BY DecodedPlan
<1>3. job.profile \in Range(ProfileTags) /\ planning = <<frame>>
  BY <1>1, <1>2, BindingCrosses
<1>4. job.profile # Zip64Profile
  BY <1>3 DEF ProfileTags, Zip64Profile, Range
<1>5. FitMembers(ms, job.payloads)
  <2> DEFINE s == ReadZip(job).scan
             result == plan_snapshot(s, job.magic, job.budget)
  <2>1. FitScan(s, job.profile, job.payloads)
    BY <1>1, <1>4, ReadFits
  <2>2. FitPlan(result.plan, job.payloads)
    BY <2>1, PlannedFits
  <2>3. phase # "start"
    BY DEF SentPhases, DeliveredPhases, RunPhases, OutPhases, AuthPhases, AskPhases
  <2>4. reading[1].result = result
    <3> HIDE DEF s, result
    <3>1. reading = <<[scan |-> s, src |-> ReadZip(job).src, result |-> result]>>
      BY <2>3 DEF ReadInv, s, result
    <3> QED BY <3>1
  <2> HIDE DEF s, result
  <2>5. ms = result.plan.planned
    BY <1>1, <2>4 DEF Evidence, ZipArchiveIR
  <2> QED BY <2>2, <2>5 DEF FitPlan
<1>6. n \in Nat /\ DOMAIN ms = 1..n /\ ms = [i \in 1..n |-> ms[i]]
  <2>1. PICK S : ms \in Seq(S)
    BY <1>5 DEF FitMembers, IsSequence
  <2> QED BY <2>1
<1>7. \A i \in DOMAIN ms : ms[i].is_dir \in BOOLEAN /\ ms[i].payload.offset \in DOMAIN job.payloads
  BY <1>5 DEF FitMembers, FitMember
<1>8. PlanOf(ready, job, ir) /\ ready.plan_id = frame
  BY <1>1, <1>7, SentPlan
<1> HIDE DEF d, n
<1>9. /\ ps = [i \in 1..n |-> ps[i]] /\ DistinctPaths(ps) /\ \A i \in 1..n : SameMember(ps[i], ms[i])
      /\ ready.record.binding.retention = BindingOf(job).retention
  BY <1>6, <1>8 DEF PlanOf
<1> HIDE DEF ready, ps
<1>10. DOMAIN ps = 1..n /\ Len(ps) = n
  BY <1>6, <1>9
<1>11. \A k \in 1..n : PayloadAt(Snapshot, ps[k]).chunks \in Seq(Nat)
  <2> SUFFICES ASSUME NEW k \in 1..n PROVE PayloadAt(Snapshot, ps[k]).chunks \in Seq(Nat)
    OBVIOUS
  <2>1. ps[k].payload = ms[k].payload /\ ms[k].payload.offset \in DOMAIN job.payloads
    BY <1>6, <1>7, <1>9 DEF SameMember
  <2>2. PayloadAt(Snapshot, ps[k]) = job.payloads[ms[k].payload.offset]
    BY <2>1 DEF PayloadAt, Snapshot
  <2> QED BY <1>1, <2>1, <2>2, JobsAssumption
<1>12. PlanReplays(ready, Snapshot, n)
  <2> DEFINE sel == RetentionPlan(ready.record.binding.retention, ps)
  <2>1. Selection(ready) = sel
    BY DEF Selection, ps
  <2>2. \A i \in DOMAIN sel :
              LET e == sel[i]
              IN  /\ e = [path |-> e.path, status |-> e.status, bytes |-> <<>>] /\ e.status # "Retained"
                  /\ e.status = "Selected" => \E k \in 1..n : ps[k].components = e.path /\ ~ps[k].is_dir
    <3> DEFINE retention == ready.record.binding.retention
    <3>1. retention = BindingOf(job).retention /\ job \in Jobs
      BY <1>1, <1>9
    <3> HIDE DEF retention
    <3>2. FreshIn(RetentionPlan(retention, ps), ps)
      BY <3>1, FreshSelection
    <3>3. RetentionPlan(retention, ps) = sel
      BY DEF retention
    <3> HIDE DEF sel
    <3> QED BY <1>10, <3>2, <3>3 DEF FreshIn
  <2> HIDE DEF sel
  <2> QED BY <1>9, <1>10, <1>11, <2>1, <2>2 DEF PlanReplays, ps
<1>13. SentOf(ready, n)
  BY <1>5, <1>6, <1>8, <1>10, <1>12 DEF SentOf, ps
<1> QED BY <1>3, <1>13 DEF ready, d, n

-----------------------------------------------------------------------------
(***************************************************************************)
(* What is accepted                                                        *)
(***************************************************************************)
\* A planned member is genuine exactly when the member of the evidence is.
LEMMA SameTruth ==
    ASSUME NEW p, NEW m, SameMember(p, m)
    PROVE /\ MemberTrue(Snapshot, p) <=> Genuine(m)
          /\ RealContent(Snapshot, p) = TrueContent(m)
<1> DEFINE q == job.payloads[m.payload.offset]
<1>1. PayloadAt(Snapshot, p) = q
  BY DEF SameMember, PayloadAt, Snapshot
<1>2. RealContent(Snapshot, p) = TrueContent(m)
  BY <1>1 DEF RealContent, TrueContent, SameMember
<1>3. HoldsTrue(q, p) <=> HoldsTrue(q, m)
  BY DEF HoldsTrue, SameMember
<1>4. Genuine(m) <=> (m.is_dir \/ HoldsTrue(q, m))
  BY DEF Genuine, HoldsTrue, SumOfChunks
<1>5. MemberTrue(Snapshot, p) <=> (m.is_dir \/ HoldsTrue(q, p))
  BY <1>1 DEF MemberTrue, SameMember
<1> QED BY <1>2, <1>3, <1>4, <1>5

\* The first member that is not genuine is the one after those verified.
LEMMA StopIs ==
    ASSUME NEW ms, NEW n \in Nat, Len(ms) = n, NEW done \in 0..n, \A k \in 1..done : Genuine(ms[k]),
           done < n => ~Genuine(ms[done + 1])
    PROVE Min({k \in 1..(Len(ms) + 1) : k = Len(ms) + 1 \/ ~Genuine(ms[k])}) = done + 1
<1> DEFINE S == {k \in 1..(n + 1) : k = n + 1 \/ ~Genuine(ms[k])}
<1>1. S \subseteq Nat /\ done + 1 \in S
  OBVIOUS
<1>2. \A y \in S : done + 1 <= y
  OBVIOUS
<1>3. Min(S) = done + 1
  <2> HIDE DEF S
  <2> QED BY <1>1, <1>2, LeastIs
<1> QED BY <1>3

\* The record's table of axes is the one of the in-process path.
LEMMA StopAxes ==
    ASSUME NEW code
    PROVE LET axes == admitted_verification_stop(code, FALSE)
          IN  <<axes.interpretation, axes.admission>> = completion_stop_axes(code) /\ axes.verification = "Partial"
BY DEF admitted_verification_stop, completion_stop_axes, Axes

\* The files a path names are the same in the plan and in the evidence.
LEMMA SameWanted ==
    ASSUME NEW ps, NEW ms, DOMAIN ps = DOMAIN ms, \A k \in DOMAIN ms : SameMember(ps[k], ms[k])
    PROVE \A e : Wanted(ps, e) = Wanted(ms, e) /\ WantedSize(ps, e) = WantedSize(ms, e)
<1> TAKE e
<1> DEFINE Some(S) == CHOOSE k \in S : TRUE
<1>1. Wanted(ps, e) = Wanted(ms, e)
  BY DEF Wanted, SameMember
<1>2. /\ WantedSize(ps, e) = IF Wanted(ps, e) = {} THEN 0 ELSE ps[Some(Wanted(ps, e))].uncomp_size
      /\ WantedSize(ms, e) = IF Wanted(ms, e) = {} THEN 0 ELSE ms[Some(Wanted(ms, e))].uncomp_size
  BY DEF WantedSize
<1>3. Wanted(ms, e) # {} => Some(Wanted(ms, e)) \in Wanted(ms, e)
  OBVIOUS
<1>4. Wanted(ms, e) \subseteq DOMAIN ms
  BY DEF Wanted
<1> HIDE DEF Some
<1>5. Wanted(ms, e) # {} =>
         ps[Some(Wanted(ms, e))].uncomp_size = ms[Some(Wanted(ms, e))].uncomp_size
  BY <1>3, <1>4 DEF SameMember
<1> QED BY <1>1, <1>2, <1>5

\* What the entries ask for sums to the same in the plan and in the evidence.
LEMMA SameWants ==
    ASSUME NEW ps, NEW ms, DOMAIN ps = DOMAIN ms, \A k \in DOMAIN ms : SameMember(ps[k], ms[k]),
           NEW n \in Nat, NEW es, DOMAIN es = 1..n
    PROVE WantedSum(ps, es) = WantedSum(ms, es)
<1>1. \A q : WantedSum(q, es) = WantedFold!Fold(q, 0, es)
  BY DEF WantedSum, WantedOp, WantedFold!Fold, FoldLeft, MapThenFoldSet, WantedFold!FoldLeft,
         WantedFold!MapThenFoldSet, Max, WantedFold!Max
<1>2. PICK g : WantedFold!IsRun(g, ps, 0, es, n) /\ WantedFold!Fold(ps, 0, es) = g[n]
  BY WantedFold!FoldRuns
<1>3. PICK h : WantedFold!IsRun(h, ms, 0, es, n) /\ WantedFold!Fold(ms, 0, es) = h[n]
  BY WantedFold!FoldRuns
<1>4. /\ g[0] = 0 /\ \A k \in Nat : k < n => g[k + 1] = g[k] + WantedSize(ps, es[k + 1])
      /\ h[0] = 0 /\ \A k \in Nat : k < n => h[k + 1] = h[k] + WantedSize(ms, es[k + 1])
  BY <1>2, <1>3 DEF WantedFold!IsRun, WantedOp
<1>5. \A e : WantedSize(ps, e) = WantedSize(ms, e)
  BY SameWanted
<1> DEFINE T == {k \in Nat : k <= n => g[k] = h[k]}
<1>6. 0 \in T
  BY <1>4
<1>7. ASSUME NEW k \in Nat, k \in T PROVE k + 1 \in T
  <2> SUFFICES ASSUME k + 1 <= n PROVE g[k + 1] = h[k + 1]
    OBVIOUS
  <2>1. k < n /\ g[k] = h[k]
    BY <1>7
  <2> QED BY <1>4, <1>5, <2>1
<1>8. \A k \in Nat : k \in T
  <2> HIDE DEF T
  <2> QED BY <1>6, <1>7, WantedFold!SetInduction
<1>9. g[n] = h[n]
  BY <1>8
<1> QED BY <1>1, <1>2, <1>3, <1>9

\* What the limits of a request allow in whole is retained in whole.
Fits(ms, kept, limits) ==
    /\ \A i \in DOMAIN kept : \A k \in Wanted(ms, kept[i]) : ms[k].uncomp_size <= limits.max_member
    /\ WantedSum(ms, kept) <= limits.max_total

\* A verified file that is asked for is retained when everything fits.
LEMMA RetainedWhole ==
    ASSUME job \in Jobs, NEW ready, NEW n, SentOf(ready, n), NEW done \in 0..n, NEW kept,
           TrueEntries(ready, Snapshot, done, kept), job.retention # <<>>,
           Fits(Evidence[1].members, kept, job.retention[1]),
           NEW i \in DOMAIN kept, NEW k \in Wanted(Evidence[1].members, kept[i]), k <= done
    PROVE kept[i].status = "Retained"
<1> DEFINE ms == Evidence[1].members
           ps == PlannedMembers(ready)
           retention == ready.record.binding.retention
           limits == job.retention[1]
           paths == SortedPaths(AddPaths(job.retention[1].paths))
           c == Cardinality(AddPaths(job.retention[1].paths))
<1>1. /\ limits.paths \in Seq(Range(limits.paths)) /\ limits.max_member \in Nat /\ limits.max_total \in Nat
      /\ job.retention = <<[paths |-> limits.paths, max_member |-> limits.max_member,
                            max_total |-> limits.max_total]>>
  BY JobsAssumption
<1>2. c \in Nat /\ DOMAIN paths = 1..c
  BY <1>1, PathsListed
<1>3. /\ n \in Nat /\ ms = [j \in 1..n |-> ms[j]] /\ FitMembers(ms, job.payloads)
      /\ PlanOf(ready, job, Evidence[1])
  BY DEF SentOf
<1>4. /\ ps = [j \in DOMAIN ms |-> ps[j]] /\ DistinctPaths(ps) /\ \A j \in DOMAIN ms : SameMember(ps[j], ms[j])
      /\ retention = BindingOf(job).retention
  BY <1>3 DEF PlanOf
<1> HIDE DEF paths, c, ps, retention
<1>5. /\ retention # <<>> /\ retention[1].paths = paths /\ retention[1].max_member = limits.max_member
      /\ retention[1].max_total = limits.max_total
  BY <1>1, <1>4 DEF BindingOf, paths
<1>6. DOMAIN ps = DOMAIN ms
  BY <1>4
<1> HIDE DEF ms, limits
<1>7. PICK h : IsRetentionRun(h, retention, ps, c)
  BY <1>2, <1>5, RetentionRun
<1>8. /\ DOMAIN kept = 1..c
      /\ \A j \in 1..c : kept[j].path = retention[1].paths[j]
  <2>1. /\ DOMAIN RetentionPlan(retention, ps) = 1..c
        /\ \A j \in 1..c : RetentionPlan(retention, ps)[j].path = retention[1].paths[j]
    BY <1>7 DEF IsRetentionRun
  <2>2. Selection(ready) = RetentionPlan(retention, ps)
    BY DEF Selection, retention, ps
  <2> QED BY <2>1, <2>2 DEF TrueEntries
<1>9. \A e : Wanted(ps, e) = Wanted(ms, e)
  BY <1>4, <1>6, SameWanted
<1>10. WantedSum(ps, kept) = WantedSum(ms, kept)
  BY <1>2, <1>4, <1>6, <1>8, SameWants
<1>11. \A j \in DOMAIN ps : ps[j].uncomp_size \in Nat /\ ps[j].uncomp_size = ms[j].uncomp_size
  BY <1>3, <1>4, <1>6 DEF FitMembers, FitMember, SameMember
<1>12. \A j \in 1..c : \A l \in Wanted(ps, kept[j]) : ps[l].uncomp_size <= retention[1].max_member
  <2> SUFFICES ASSUME NEW j \in 1..c, NEW l \in Wanted(ps, kept[j])
               PROVE ps[l].uncomp_size <= retention[1].max_member
    OBVIOUS
  <2>1. l \in Wanted(ms, kept[j]) /\ j \in DOMAIN kept /\ l \in DOMAIN ps
    BY <1>8, <1>9 DEF Wanted
  <2>2. ms[l].uncomp_size <= limits.max_member
    BY <2>1 DEF Fits, ms, limits
  <2> QED BY <1>5, <1>11, <2>1, <2>2
<1>13. WantedSum(ps, kept) <= retention[1].max_total
  BY <1>5, <1>10 DEF Fits, ms, limits
<1>14. i \in 1..c /\ Wanted(ps, kept[i]) # {}
  BY <1>8, <1>9 DEF ms
<1>15. retention[1].max_member \in Nat /\ retention[1].max_total \in Nat /\ DOMAIN retention[1].paths = 1..c
  BY <1>1, <1>2, <1>5 DEF limits
<1>16. RetentionPlan(retention, ps)[i].status = "Selected"
  <2>1. \A j \in DOMAIN ps : ps[j].uncomp_size \in Nat
    BY <1>11
  <2>2. retention # <<>> /\ DistinctPaths(ps) /\ c \in Nat /\ i \in 1..c
    BY <1>2, <1>4, <1>5, <1>14
  <2>3. \A j \in 1..c : kept[j].path = retention[1].paths[j]
    BY <1>8
  <2>4. DOMAIN kept = 1..c
    BY <1>8
  <2> QED BY <1>12, <1>13, <1>14, <1>15, <2>1, <2>2, <2>3, <2>4, AllSelected
<1>17. Selection(ready)[i].status = "Selected"
  BY <1>16 DEF Selection, retention, ps
<1>18. k \in DOMAIN ms /\ ms[k].components = kept[i].path
  BY DEF Wanted, ms
<1>19. k \in 1..done /\ ps[k].components = kept[i].path
  BY <1>3, <1>4, <1>18 DEF SameMember, ms
<1> QED BY <1>17, <1>19 DEF TrueEntries, ps

\* What is accepted was decoded from the record that was sent.
LEMMA AcceptedReplay ==
    ASSUME ReadInv, SentInv, AuthInv, authorized # <<>>
    PROVE \E ready :
             /\ SentOf(ready, Len(Evidence[1].members)) /\ planning = <<planning[1]>> /\ job \in Jobs
             /\ decode_planning_for(planning[1], ExpectWorker(OPERATION, job.effect), Snapshot) = <<ready>>
             /\ TrueAuthorization(ready, Snapshot, Len(Evidence[1].members), authorized[1])
             /\ WithinLimits(ready.record.binding.retention, authorized[1].retention)
             /\ decode_completion(outputs[1].completion, ready) = <<authorized[1].proposal>>
             /\ outputs[1].completion.body.plan_id = ready.plan_id
<1> DEFINE n == Len(Evidence[1].members)
           d == decode_planning_for(planning[1], ExpectWorker(OPERATION, job.effect), Snapshot)
           ready == d[1]
           completion == outputs[1].completion
           retained == outputs[1].retained
<1>1. phase \in AuthPhases /\ authorized = Authorization /\ job \in Jobs
  BY DEF AuthInv, ReadInv
<1>2. phase \in SentPhases
  BY <1>1 DEF SentPhases, DeliveredPhases, RunPhases, OutPhases
<1>3. authorize_execution(Snapshot, OPERATION, planning[1], completion, retained, job.effect) = authorized
  BY <1>1 DEF Authorization
<1>4. validate_operation(Snapshot, OPERATION, planning[1], job.effect) # <<>>
  BY <1>3 DEF authorize_execution, AuthorizePlan
<1>5. validate_operation(Snapshot, OPERATION, planning[1], job.effect) = d
  BY <1>4 DEF validate_operation
<1>6. d # <<>>
  BY <1>4, <1>5
<1>7. SentOf(ready, n) /\ planning = <<planning[1]>>
  BY <1>2, <1>6, SentReplays
<1>8. d = <<ready>>
  <2>1. d = <<[record |-> DecodedRecord(planning[1], decode_planning_binding(planning[1])[1]),
               request_id |-> decode_planning_binding(planning[1])[1], plan_id |-> planning[1]]>>
    BY <1>6, DecodedPlan
  <2> QED BY <2>1
<1> HIDE DEF d, n, completion, retained
<1>9. n \in Nat /\ PlanReplays(ready, Snapshot, n) /\ Len(PlannedMembers(ready)) = n
  BY <1>7 DEF SentOf, n
<1>10. ready = validate_operation(Snapshot, OPERATION, planning[1], job.effect)[1]
  BY <1>5
<1> DEFINE x == Snapshot
           input == planning[1]
           effect == job.effect
<1> HIDE DEF x, input, effect, ready
<1>11. /\ TrueAuthorization(ready, x, n, authorized[1])
       /\ WithinLimits(ready.record.binding.retention, authorized[1].retention)
       /\ decode_completion(completion, ready) = <<authorized[1].proposal>>
       /\ completion.body.plan_id = ready.plan_id
  <2>1. authorize_execution(x, OPERATION, input, completion, retained, effect) = authorized
    BY <1>3 DEF x, input, effect
  <2>2. ready = validate_operation(x, OPERATION, input, effect)[1]
    BY <1>10 DEF x, input, effect
  <2>3. PlanReplays(ready, x, n)
    BY <1>9 DEF x
  <2> QED BY <1>9, <2>1, <2>2, <2>3, AuthorizedReplay
<1> QED BY <1>1, <1>7, <1>8, <1>11 DEF x, n, completion, d

\* Whatever is accepted is true of the source.
LEMMA AcceptedIsTrue ==
    ASSUME ReadInv, SentInv, AnswerInv, AuthInv
    PROVE AuthorizedIsTruth
<1> SUFFICES ASSUME authorized # <<>> PROVE AuthorizedIsTruth
  BY DEF AuthorizedIsTruth
<1> DEFINE ms == Evidence[1].members
           n == Len(ms)
           proposal == authorized[1].proposal
           kept == authorized[1].retention
           limits == job.retention[1]
           stop == Min({k \in 1..(Len(ms) + 1) : k = Len(ms) + 1 \/ ~Genuine(ms[k])})
           axes == IF stop > Len(ms) THEN inspect_complete
                   ELSE admitted_verification_stop(proposal.findings[1].code, FALSE)
           fits == /\ \A i \in DOMAIN kept : \A k \in Wanted(ms, kept[i]) :
                          ms[k].uncomp_size <= limits.max_member
                   /\ FoldLeft(LAMBDA t, e : t + WantedSize(ms, e), 0, kept) <= limits.max_total
<1>1. PICK ready :
         /\ SentOf(ready, n) /\ planning = <<planning[1]>> /\ job \in Jobs
         /\ TrueAuthorization(ready, Snapshot, n, authorized[1])
         /\ WithinLimits(ready.record.binding.retention, kept)
         /\ outputs[1].completion.body.plan_id = ready.plan_id
  BY AcceptedReplay
<1> DEFINE ps == PlannedMembers(ready)
<1>2. /\ n \in Nat /\ ms = [i \in 1..n |-> ms[i]] /\ PlanOf(ready, job, Evidence[1])
      /\ ready.plan_id = planning[1]
  BY <1>1 DEF SentOf
<1>3. /\ DOMAIN ms = 1..n /\ ready.record.binding.retention = BindingOf(job).retention
      /\ \A i \in DOMAIN ms : SameMember(ps[i], ms[i])
  BY <1>2 DEF PlanOf
<1>4. PICK done, code : /\ TrueStop(ready, Snapshot, n, done, code)
                        /\ TrueProposal(ready, Snapshot, n, done, code, proposal)
                        /\ TrueEntries(ready, Snapshot, done, kept)
  BY <1>1 DEF TrueAuthorization
<1>5. /\ done \in 0..n /\ \A k \in 1..done : MemberTrue(Snapshot, ps[k])
      /\ code = OK => done = n
      /\ code # OK => done < n /\ ~MemberTrue(Snapshot, ps[done + 1])
  BY <1>4 DEF TrueStop
<1>6. \A k \in 1..n : /\ MemberTrue(Snapshot, ps[k]) <=> Genuine(ms[k])
                      /\ RealContent(Snapshot, ps[k]) = TrueContent(ms[k])
  <2> SUFFICES ASSUME NEW k \in 1..n
               PROVE /\ MemberTrue(Snapshot, ps[k]) <=> Genuine(ms[k])
                     /\ RealContent(Snapshot, ps[k]) = TrueContent(ms[k])
    OBVIOUS
  <2>1. SameMember(ps[k], ms[k])
    BY <1>3
  <2> HIDE DEF ps, ms, n
  <2> QED BY <2>1, SameTruth
<1> HIDE DEF ps, kept, proposal, limits, n
<1>7. stop = done + 1
  <2>1. \A k \in 1..done : k \in 1..n
    BY <1>2, <1>5
  <2>2. \A k \in 1..done : Genuine(ms[k])
    BY <1>5, <1>6, <2>1
  <2>3. done < n => ~Genuine(ms[done + 1])
    BY <1>2, <1>5, <1>6
  <2>4. Len(ms) = n
    BY DEF n
  <2> HIDE DEF ms
  <2> QED BY <1>2, <1>5, <2>2, <2>3, <2>4, StopIs
<1>8. Intact
  <2>1. phase \in OutPhases /\ phase \in DeliveredPhases
    BY DEF AuthInv, OutPhases, DeliveredPhases, RunPhases
  <2>2. delivered = <<delivered[1]>> /\ outputs[1].completion.body.plan_id = delivered[1]
    BY <2>1 DEF AnswerInv
  <2>3. delivered = planning
    BY <1>1, <1>2, <2>2
  <2>4. delivered # <<>>
    BY <2>2
  <2> QED BY <2>3, <2>4 DEF Intact
<1> HIDE DEF ms
<1>9. \A k \in DOMAIN ms : /\ (proposal.members[k].state = "Verified") = (k < stop)
                           /\ k < stop => proposal.members[k].content = TrueContent(ms[k])
  <2> SUFFICES ASSUME NEW k \in 1..n
               PROVE /\ (proposal.members[k].state = "Verified") = (k < stop)
                     /\ k < stop => proposal.members[k].content = TrueContent(ms[k])
    BY <1>3
  <2>1. /\ (proposal.members[k].state = "Verified") = (k <= done)
        /\ k <= done => proposal.members[k].content = RealContent(Snapshot, ps[k])
    BY <1>4 DEF TrueProposal, ps
  <2>2. (k < stop) = (k <= done)
    BY <1>2, <1>5, <1>7
  <2> HIDE DEF stop
  <2> QED BY <1>6, <2>1, <2>2
<1>10. <<proposal.interpretation, proposal.admission, proposal.verification>>
          = <<axes.interpretation, axes.admission, axes.verification>>
  <2>1. Len(ms) = n
    BY DEF n, ms
  <2> HIDE DEF stop
  <2>2. CASE code = OK
    <3>1. axes = inspect_complete
      <4>1. stop > Len(ms)
        BY <1>2, <1>5, <1>7, <2>1, <2>2
      <4> QED BY <4>1, Zenon
    <3>2. proposal.interpretation = "Interpreted" /\ proposal.admission = "Admitted"
          /\ proposal.verification = "Complete"
      BY <1>4, <2>2 DEF TrueProposal
    <3> HIDE DEF axes
    <3> QED BY <3>1, <3>2 DEF inspect_complete, Axes
  <2>3. CASE code # OK
    <3>1. /\ <<proposal.interpretation, proposal.admission>> = completion_stop_axes(code)
          /\ proposal.verification = "Partial" /\ proposal.findings = <<Finding(code)>>
      BY <1>4, <2>3 DEF TrueProposal
    <3>2. proposal.findings[1].code = code
      BY <3>1 DEF Finding
    <3>3. axes = admitted_verification_stop(code, FALSE)
      <4>1. ~(stop > Len(ms))
        BY <1>2, <1>5, <1>7, <2>1, <2>3
      <4> QED BY <3>2, <4>1, Zenon
    <3> HIDE DEF axes
    <3>4. <<axes.interpretation, axes.admission>> = completion_stop_axes(code) /\ axes.verification = "Partial"
      BY <3>3, StopAxes
    <3>5. <<proposal.interpretation, proposal.admission>> = <<axes.interpretation, axes.admission>>
      BY <3>1, <3>4
    <3> QED BY <3>1, <3>4, <3>5
  <2> QED BY <2>2, <2>3
<1>11. \A i \in DOMAIN kept : kept[i].status = "Retained" =>
          \E k \in Wanted(ms, kept[i]) : k < stop /\ kept[i].bytes = <<TrueContent(ms[k])>>
  <2> SUFFICES ASSUME NEW i \in DOMAIN kept, kept[i].status = "Retained"
               PROVE \E k \in Wanted(ms, kept[i]) : k < stop /\ kept[i].bytes = <<TrueContent(ms[k])>>
    OBVIOUS
  <2>1. PICK k \in 1..done : /\ ps[k].components = kept[i].path /\ ~ps[k].is_dir
                             /\ kept[i].bytes = <<RealContent(Snapshot, ps[k])>>
    BY <1>4 DEF TrueEntries, ps
  <2>2. k \in 1..n /\ k < stop
    BY <1>2, <1>5, <1>7
  <2>3. SameMember(ps[k], ms[k]) /\ k \in DOMAIN ms
    BY <1>3, <2>2
  <2> HIDE DEF stop
  <2>4. k \in Wanted(ms, kept[i])
    BY <2>1, <2>3 DEF Wanted, SameMember
  <2>5. kept[i].bytes = <<TrueContent(ms[k])>>
    BY <1>6, <2>1, <2>2
  <2> QED BY <2>2, <2>4, <2>5
<1>12. kept # <<>> => /\ RetainedBytes(kept) <= limits.max_total
                      /\ RetainedBytes(kept) <= MAX_TRANSFER_CONTENT_BYTES
                      /\ job.retention # <<>>
  <2> SUFFICES ASSUME kept # <<>>
               PROVE /\ RetainedBytes(kept) <= limits.max_total
                     /\ RetainedBytes(kept) <= MAX_TRANSFER_CONTENT_BYTES
                     /\ job.retention # <<>>
    OBVIOUS
  <2>1. job.retention # <<>>
    <3> SUFFICES ASSUME job.retention = <<>> PROVE FALSE
      OBVIOUS
    <3>1. Selection(ready) = <<>>
      BY <1>3 DEF BindingOf, Selection, RetentionPlan
    <3>2. DOMAIN kept = {} /\ kept = [i \in DOMAIN kept |-> kept[i]]
      BY <1>4, <3>1 DEF TrueEntries
    <3> QED BY <3>2
  <2>2. job.retention = <<[paths |-> limits.paths, max_member |-> limits.max_member,
                            max_total |-> limits.max_total]>>
    BY <1>1, <2>1, JobsAssumption DEF limits
  <2>3. ready.record.binding.retention # <<>> /\ ready.record.binding.retention[1].max_total = limits.max_total
    BY <1>3, <2>1, <2>2 DEF BindingOf, limits
  <2> QED BY <1>1, <2>1, <2>3 DEF WithinLimits
<1>13. kept # <<>> /\ fits => \A i \in DOMAIN kept : \A k \in Wanted(ms, kept[i]) :
                                  k < stop => kept[i].status = "Retained"
  <2> SUFFICES ASSUME kept # <<>>, fits, NEW i \in DOMAIN kept, NEW k \in Wanted(ms, kept[i]), k < stop
               PROVE kept[i].status = "Retained"
    OBVIOUS
  <2>1. Fits(ms, kept, limits)
    BY DEF Fits, WantedSum
  <2> HIDE DEF fits
  <2>2. k \in 1..n
    BY <1>3 DEF Wanted
  <2>3. k <= done
    BY <1>2, <1>5, <1>7, <2>2
  <2>4. job.retention # <<>>
    BY <1>12
  <2> HIDE DEF stop
  <2> QED BY <1>1, <1>4, <1>5, <2>1, <2>3, <2>4, RetainedWhole DEF ms, limits, n
<1> HIDE DEF stop, axes, fits
<1>14. /\ Intact
       /\ \A k \in DOMAIN ms :
             /\ (proposal.members[k].state = "Verified") = (k < stop)
             /\ k < stop => proposal.members[k].content = TrueContent(ms[k])
       /\ <<proposal.interpretation, proposal.admission, proposal.verification>>
             = <<axes.interpretation, axes.admission, axes.verification>>
       /\ \A i \in DOMAIN kept : kept[i].status = "Retained" =>
             \E k \in Wanted(ms, kept[i]) : k < stop /\ kept[i].bytes = <<TrueContent(ms[k])>>
       /\ kept # <<>> => /\ RetainedBytes(kept) <= limits.max_total
                         /\ RetainedBytes(kept) <= MAX_TRANSFER_CONTENT_BYTES
                         /\ fits => \A i \in DOMAIN kept : \A k \in Wanted(ms, kept[i]) :
                                       k < stop => kept[i].status = "Retained"
  BY <1>8, <1>9, <1>10, <1>11, <1>12, <1>13
<1> QED BY <1>14, Zenon DEF AuthorizedIsTruth, ms, proposal, kept, limits, stop, axes, fits, n

-----------------------------------------------------------------------------
(***************************************************************************)
(* Reads of what was accepted                                              *)
(***************************************************************************)
\* What the in-process reader finds when it decodes a member again.
ReadAgain(m) ==
    verify_payload(job.payloads[m.payload.offset], m, job.budget, m.uncomp_size, TRUE)

\* A file that the replay verified can be decoded again.
LEMMA VerifiedAgain ==
    ASSUME NEW p, NEW m, SameMember(p, m), ~m.is_dir, MemberTrue(Snapshot, p),
           Readable(Snapshot, p, job.budget), job.payloads[m.payload.offset].chunks \in Seq(Nat)
    PROVE ReadAgain(m).finding = OK /\ ReadAgain(m).content = TrueContent(m)
<1> DEFINE q == job.payloads[m.payload.offset]
           budget == job.budget
<1>1. PayloadAt(Snapshot, p) = q
  BY DEF SameMember, PayloadAt, Snapshot
<1>2. HoldsTrue(q, m)
  BY <1>1 DEF MemberTrue, HoldsTrue, SameMember
<1>3. m.method \in {0, 8} /\ \E r : ChunksPass(q, p, budget, r)
  BY <1>1 DEF Readable, SameMember
<1>4. PICK r : ChunksPass(q, p, budget, r)
  BY <1>3
<1> HIDE DEF q, budget
<1>5. \A actual : ChunkFinding(actual, p, budget, r, TRUE) = ChunkFinding(actual, m, budget, r, TRUE)
  BY DEF ChunkFinding, SameMember
<1>6. ChunksPass(q, m, budget, r)
  BY <1>4, <1>5 DEF ChunksPass
<1>7. q.chunks \in Seq(Nat)
  BY DEF q
<1>8. verify_payload(q, m, budget, m.uncomp_size, TRUE).finding = OK
  <2>1. Passed(q, m, budget)
    BY <1>2, <1>3, <1>6, <1>7 DEF Passed
  <2> QED BY <2>1, PayloadAgain
<1>9. verify_payload(q, m, budget, m.uncomp_size, TRUE).content = Measured(SumOfChunks(q.chunks), q.crc, q.sha)
  BY <1>7, PayloadVerified
<1>10. verify_payload(q, m, budget, m.uncomp_size, TRUE).content = TrueContent(m)
  BY <1>2, <1>9 DEF HoldsTrue, TrueContent, q
<1> QED BY <1>8, <1>10 DEF ReadAgain, q, budget

\* What is known of the members of an accepted archive.
AcceptedMembers(ready) ==
    LET ms == Evidence[1].members
        members == authorized[1].proposal.members
        kept == authorized[1].retention
    IN  /\ decode_completion(outputs[1].completion, ready) = <<authorized[1].proposal>>
        /\ DOMAIN PlannedMembers(ready) = DOMAIN ms /\ DistinctPaths(ms)
        /\ \A i \in DOMAIN ms : SameMember(PlannedMembers(ready)[i], ms[i])
        /\ \A i \in DOMAIN ms : ~ms[i].is_dir /\ members[i].state = "Verified" =>
              /\ members[i].content = TrueContent(ms[i]) /\ ms[i].uncomp_size \in Nat
              /\ ReadAgain(ms[i]).finding = OK /\ ReadAgain(ms[i]).content = TrueContent(ms[i])
        /\ \A i \in DOMAIN kept : kept[i].status = "Retained" =>
              \E k \in DOMAIN ms : ms[k].components = kept[i].path /\ kept[i].bytes = <<TrueContent(ms[k])>>

\* Whatever was accepted is such an archive.
LEMMA AcceptedArchive ==
    ASSUME ReadInv, SentInv, AnswerInv, AuthInv, authorized # <<>>
    PROVE \E ready :
             /\ AcceptedMembers(ready)
             /\ decode_planning_for(planning[1], ExpectWorker(OPERATION, job.effect), Snapshot) = <<ready>>
<1> DEFINE ms == Evidence[1].members
           n == Len(ms)
           members == authorized[1].proposal.members
           kept == authorized[1].retention
<1>1. PICK ready :
         /\ SentOf(ready, n) /\ job \in Jobs
         /\ decode_planning_for(planning[1], ExpectWorker(OPERATION, job.effect), Snapshot) = <<ready>>
         /\ TrueAuthorization(ready, Snapshot, n, authorized[1])
         /\ decode_completion(outputs[1].completion, ready) = <<authorized[1].proposal>>
  BY AcceptedReplay
<1> DEFINE ps == PlannedMembers(ready)
<1>2. /\ n \in Nat /\ ms = [i \in 1..n |-> ms[i]] /\ PlanOf(ready, job, Evidence[1])
      /\ FitMembers(ms, job.payloads) /\ PlanReplays(ready, Snapshot, n)
  BY <1>1 DEF SentOf
<1>3. /\ DOMAIN ms = 1..n /\ \A i \in DOMAIN ms : SameMember(ps[i], ms[i])
      /\ ps = [i \in DOMAIN ms |-> ps[i]] /\ DistinctPaths(ps)
      /\ ready.record.binding.budget = job.budget
  BY <1>2 DEF PlanOf
<1>4. PICK done, code : /\ TrueStop(ready, Snapshot, n, done, code)
                        /\ TrueProposal(ready, Snapshot, n, done, code, authorized[1].proposal)
  BY <1>1 DEF TrueAuthorization
<1>5. /\ done \in 0..n
      /\ \A k \in 1..done : MemberTrue(Snapshot, ps[k]) /\ Readable(Snapshot, ps[k], job.budget)
  BY <1>3, <1>4 DEF TrueStop
<1>6. \A k \in 1..n : /\ (members[k].state = "Verified") = (k <= done)
                      /\ k <= done => members[k].content = RealContent(Snapshot, ps[k])
  BY <1>4 DEF TrueProposal
<1>7. AuthorizedIsTruth
  BY AcceptedIsTrue
<1> HIDE DEF ps, members, n
<1>8. \A i \in DOMAIN kept : kept[i].status = "Retained" =>
          \E k \in DOMAIN ms : ms[k].components = kept[i].path /\ kept[i].bytes = <<TrueContent(ms[k])>>
  <2>1. \A i \in DOMAIN kept : kept[i].status = "Retained" =>
          \E k \in Wanted(ms, kept[i]) : kept[i].bytes = <<TrueContent(ms[k])>>
    BY <1>7, Zenon DEF AuthorizedIsTruth
  <2> HIDE DEF ms, kept
  <2> QED BY <2>1 DEF Wanted
<1> HIDE DEF ms, kept
<1>9. ASSUME NEW i \in DOMAIN ms, ~ms[i].is_dir, members[i].state = "Verified"
      PROVE /\ members[i].content = TrueContent(ms[i]) /\ ms[i].uncomp_size \in Nat
            /\ ReadAgain(ms[i]).finding = OK /\ ReadAgain(ms[i]).content = TrueContent(ms[i])
  <2>1. i \in 1..n /\ i <= done /\ members[i].content = RealContent(Snapshot, ps[i])
    BY <1>3, <1>6, <1>9
  <2>2. MemberTrue(Snapshot, ps[i]) /\ Readable(Snapshot, ps[i], job.budget)
    BY <1>5, <2>1
  <2>3. SameMember(ps[i], ms[i])
    BY <1>3
  <2>4. FitMember(ms[i], job.payloads)
    BY <1>2 DEF FitMembers
  <2>5. ms[i].uncomp_size \in Nat /\ ms[i].payload.offset \in DOMAIN job.payloads
    BY <2>4 DEF FitMember
  <2>6. job.payloads[ms[i].payload.offset].chunks \in Seq(Nat)
    BY <1>1, <2>5, JobsAssumption
  <2>7. members[i].content = TrueContent(ms[i])
    BY <2>1, <2>3, SameTruth
  <2>8. ReadAgain(ms[i]).finding = OK /\ ReadAgain(ms[i]).content = TrueContent(ms[i])
    BY <1>9, <2>2, <2>3, <2>6, VerifiedAgain
  <2> QED BY <2>5, <2>7, <2>8
<1>10. DOMAIN ps = DOMAIN ms /\ DistinctPaths(ms)
  <2>1. DOMAIN ps = DOMAIN ms
    BY <1>3
  <2>2. \A i \in DOMAIN ms : ps[i].components = ms[i].components
    BY <1>3 DEF SameMember
  <2> QED BY <1>3, <2>1, <2>2 DEF DistinctPaths
<1>11. AcceptedMembers(ready)
  BY <1>1, <1>3, <1>8, <1>9, <1>10 DEF AcceptedMembers, ms, members, kept, ps
<1> QED BY <1>1, <1>11

\* What is kept of a read is never more than was asked for.
LEMMA KeptWithin ==
    ASSUME NEW size \in Nat, NEW max \in Nat, NEW kind \in ReadKinds, kind = "Full" => ~(size > max)
    PROVE retained_bytes(size, max, kind) <= max
<1>1. CASE kind = "Full"
  BY <1>1 DEF retained_bytes
<1>2. CASE kind # "Full"
  <2>1. Min({size, max}) <= max
    BY LeastOf
  <2> QED BY <1>2, <2>1 DEF retained_bytes
<1> QED BY <1>1, <1>2

\* The member a path names is found when it is a verified file, and only then.
LEMMA FoundMember ==
    ASSUME NEW archive, NEW path, DistinctPaths(archive.planned), NEW i \in DOMAIN archive.planned,
           archive.planned[i].components = path, ~archive.planned[i].is_dir,
           archive.members[i].state = "Verified"
    PROVE verified_regular_member(archive, path).error = OK /\ verified_regular_member(archive, path).index = i
<1> DEFINE hit == MemberAt(archive.planned, path)
           k == CHOOSE j \in hit : TRUE
           a1 == hit = {}
           a2 == hit # {} /\ archive.planned[k].is_dir
           a3 == hit # {} /\ archive.members[k].state # "Verified"
           f == FirstOf(<< <<a1, "NotFound">>, <<a2, "NotFile">>, <<a3, "IntegrityMismatch">> >>)
<1>1. hit = {i} /\ k = i
  BY OneHit
<1>2. ~a1 /\ ~a2 /\ ~a3
  BY <1>1
<1>3. verified_regular_member(archive, path) = [error |-> f, index |-> IF hit = {} THEN 0 ELSE k]
  BY DEF verified_regular_member
<1>4. f = OK
  <2> HIDE DEF a1, a2, a3
  <2> QED BY <1>2, CheckOf3
<1> HIDE DEF hit, k, f
<1> QED BY <1>1, <1>3, <1>4

\* What verified_regular_member finds is a verified file of that path.
LEMMA FoundIsVerified ==
    ASSUME NEW archive, NEW path, verified_regular_member(archive, path).error = OK
    PROVE LET i == verified_regular_member(archive, path).index
          IN  /\ i \in DOMAIN archive.planned /\ archive.planned[i].components = path
              /\ ~archive.planned[i].is_dir /\ archive.members[i].state = "Verified"
<1> DEFINE hit == MemberAt(archive.planned, path)
           k == CHOOSE j \in hit : TRUE
           a1 == hit = {}
           a2 == hit # {} /\ archive.planned[k].is_dir
           a3 == hit # {} /\ archive.members[k].state # "Verified"
           f == FirstOf(<< <<a1, "NotFound">>, <<a2, "NotFile">>, <<a3, "IntegrityMismatch">> >>)
<1>1. verified_regular_member(archive, path) = [error |-> f, index |-> IF hit = {} THEN 0 ELSE k]
  BY DEF verified_regular_member
<1>2. f = OK
  BY <1>1
<1>3. ~a1 /\ ~a2 /\ ~a3
  <2>1. "NotFound" # OK /\ "NotFile" # OK /\ "IntegrityMismatch" # OK
    BY DEF OK
  <2>2. \/ f = OK /\ ~a1 /\ ~a2 /\ ~a3
        \/ (a1 /\ f = "NotFound") \/ (a2 /\ f = "NotFile") \/ (a3 /\ f = "IntegrityMismatch")
    <3> HIDE DEF a1, a2, a3
    <3> QED BY CheckOf3
  <2> HIDE DEF a1, a2, a3, f
  <2> QED BY <1>2, <2>1, <2>2
<1>4. k \in hit
  BY <1>3
<1>5. k \in DOMAIN archive.planned /\ archive.planned[k].components = path
  BY <1>4 DEF MemberAt
<1> HIDE DEF k, f
<1> QED BY <1>1, <1>3, <1>5

\* The in-process reader on a verified file that is not too large: from the
\* retained copy, or decoded again.
Reads(archive, snapshot, path, max, kind, i, content, v) ==
    /\ verified_regular_member(archive, path).error = OK /\ i = verified_regular_member(archive, path).index
    /\ content = archive.members[i].content
    /\ v = verify_payload(snapshot.payloads[archive.planned[i].payload.offset], archive.planned[i],
                          archive.budget, content.size, TRUE)
    /\ ~(kind = "Full" /\ content.size > max)

ReadHere(archive, path, here, content, v, kept) ==
    /\ RetainedAt(archive, path) = {} /\ v.finding = OK /\ v.content = content =>
          here = [error |-> OK, content |-> content, kept |-> kept]
    /\ RetainedAt(archive, path) # {} /\ here.error = OK =>
          \E k \in RetainedAt(archive, path) :
              here = [error |-> OK, content |-> archive.retention[k].bytes[1], kept |-> kept]

\* read_member gives nothing else.
LEMMA ReadOf ==
    ASSUME NEW archive, NEW snapshot, NEW path, NEW max, NEW kind, NEW i, NEW content, NEW v,
           Reads(archive, snapshot, path, max, kind, i, content, v)
    PROVE ReadHere(archive, path, read_member(archive, snapshot, path, max, kind), content, v,
                   retained_bytes(content.size, max, kind))
<1> DEFINE kept == retained_bytes(content.size, max, kind)
           here == read_member(archive, snapshot, path, max, kind)
           e == archive.retention[CHOOSE k \in RetainedAt(archive, path) : TRUE]
<1>1. here = IF RetainedAt(archive, path) # {}
             THEN IF e.bytes[1].size # content.size
                  THEN [error |-> "IntegrityMismatch", content |-> EmptyContent, kept |-> 0]
                  ELSE [error |-> OK, content |-> e.bytes[1], kept |-> kept]
             ELSE IF v.finding # OK
             THEN [error |-> member_read_error(v.finding), content |-> EmptyContent, kept |-> 0]
             ELSE IF v.content # content
             THEN [error |-> "IntegrityMismatch", content |-> EmptyContent, kept |-> 0]
             ELSE [error |-> OK, content |-> v.content, kept |-> kept]
  BY DEF read_member, Reads
<1>2. RetainedAt(archive, path) # {} =>
          (CHOOSE k \in RetainedAt(archive, path) : TRUE) \in RetainedAt(archive, path)
  OBVIOUS
<1>3. "IntegrityMismatch" # OK
  BY DEF OK
<1>4. RetainedAt(archive, path) # {} /\ here.error = OK =>
          here = [error |-> OK, content |-> e.bytes[1], kept |-> kept]
  <2> HIDE DEF here, e
  <2> QED BY <1>1, <1>3
<1>5. RetainedAt(archive, path) = {} /\ v.finding = OK /\ v.content = content =>
          here = [error |-> OK, content |-> content, kept |-> kept]
  <2> HIDE DEF here, e
  <2> QED BY <1>1
<1> QED BY <1>2, <1>4, <1>5 DEF ReadHere

\* A request that is sent is for one verified file, within the ceiling.
LEMMA AskedFor ==
    ASSUME NEW ready, NEW completion, NEW read, NEW path, NEW max, NEW kind, NEW proposal,
           decode_completion(completion, ready) = <<proposal>>,
           encode_kind(ready, completion, read, path, max, kind) # <<>>,
           NEW frame, frame = encode_kind(ready, completion, read, path, max, kind)[1]
    PROVE LET d == decode_kind(ready, completion, frame, read, kind)
          IN  /\ d # <<>> /\ d[1].max = max
              /\ \E i \in selected_member(ready, proposal.members, path, max, kind) :
                    /\ d[1].content = proposal.members[i].content
                    /\ retained_bytes(proposal.members[i].content.size, max, kind) <= MAX_ISOLATED_READ_BYTES
<1> DEFINE d == decode_kind(ready, completion, frame, read, kind)
           hit == selected_member(ready, proposal.members, path, max, kind)
           i == CHOOSE k \in hit : TRUE
           input == Frame(kind, [read |-> read, operation |-> ready.record.binding.operation,
                                 request_id |-> ready.request_id, plan_id |-> ready.plan_id,
                                 completion |-> completion, index |-> i,
                                 reserved |-> 0, max |-> max, path |-> path])
<1>1. decode_completion(completion, ready)[1] = proposal
  OBVIOUS
<1>2. frame = input /\ decode_kind(ready, completion, input, read, kind) # <<>>
  BY <1>1 DEF encode_kind
<1>3. frame.body.path = path /\ frame.body.max = max
  BY <1>2 DEF Frame
<1> HIDE DEF input
<1>4. d # <<>>
  BY <1>2
<1>5. /\ hit # {} /\ retained_bytes(proposal.members[i].content.size, max, kind) <= MAX_ISOLATED_READ_BYTES
      /\ d = <<[path |-> path, max |-> max, kind |-> kind, index |-> i,
                content |-> proposal.members[i].content]>>
  BY <1>1, <1>3, <1>4 DEF decode_kind
<1>6. i \in hit
  BY <1>5
<1> HIDE DEF d, i, hit
<1>7. d[1].max = max /\ d[1].content = proposal.members[i].content
  BY <1>5
<1> QED BY <1>4, <1>5, <1>6, <1>7 DEF d, hit

\* What a read has to be.
ReadIsTrue(a, here) ==
    /\ a.error = OK =>
          /\ a = here
          /\ \E m \in Range(Evidence[1].members) : m.components = ask[1].path /\ a.content = TrueContent(m)
          /\ a.kept <= ask[1].max
          /\ stream # <<>> => a.kept <= MAX_ISOLATED_READ_BYTES
    /\ a.error \notin {OK, "LimitExceeded"} => a.error = here.error

\* A read that is answered without the worker.
LEMMA LocalReadIsTrue ==
    ASSUME NEW ready, AcceptedMembers(ready), ask[1] \in Asks, LocalAnswer(ask[1]) # <<>>, stream = <<>>
    PROVE ReadIsTrue(LocalAnswer(ask[1])[1],
                     read_member(Capability, Snapshot, ask[1].path, ask[1].max, ask[1].kind))
<1> DEFINE path == ask[1].path
           max == ask[1].max
           kind == ask[1].kind
           here == read_member(Capability, Snapshot, path, max, kind)
           found == verified_regular_member(Capability, path)
           size == Capability.members[found.index].content.size
           limit == [error |-> "LimitExceeded", content |-> EmptyContent, kept |-> 0]
           a == LocalAnswer(ask[1])[1]
           ms == Evidence[1].members
           members == authorized[1].proposal.members
           kept == authorized[1].retention
<1>1. /\ Capability.planned = ms /\ Capability.members = members /\ Capability.retention = kept
      /\ Capability.budget = job.budget
  BY DEF Capability
<1>2. max \in Nat /\ kind \in ReadKinds
  BY AsksAssumption
<1>3. \/ /\ found.error # OK \/ (kind = "Full" /\ size > max) \/ RetainedAt(Capability, path) # {}
         /\ a = here
      \/ a = limit
  BY DEF LocalAnswer
<1>4. CASE a = limit
  <2>1. a.error = "LimitExceeded"
    BY <1>4
  <2> HIDE DEF a, here
  <2> QED BY <2>1 DEF ReadIsTrue, OK, a, here
<1>5. CASE /\ found.error # OK \/ (kind = "Full" /\ size > max) \/ RetainedAt(Capability, path) # {}
           /\ a = here
  <2> SUFFICES ASSUME here.error = OK
               PROVE /\ \E m \in Range(ms) : m.components = path /\ here.content = TrueContent(m)
                     /\ here.kept <= max
    BY <1>5 DEF ReadIsTrue
  <2>1. found.error = OK /\ ~(kind = "Full" /\ size > max)
    <3>1. found.error # OK => here = [error |-> found.error, content |-> EmptyContent, kept |-> 0]
      BY DEF read_member
    <3>2. found.error = OK /\ kind = "Full" /\ size > max =>
             here = [error |-> "LimitExceeded", content |-> EmptyContent, kept |-> 0]
      BY DEF read_member
    <3>3. "LimitExceeded" # OK
      BY DEF OK
    <3> HIDE DEF here, found, size
    <3> QED BY <3>1, <3>2, <3>3
  <2>2. RetainedAt(Capability, path) # {}
    BY <1>5, <2>1
  <2> DEFINE i == found.index
             content == Capability.members[i].content
             part == retained_bytes(content.size, max, kind)
  <2>3. /\ i \in DOMAIN ms /\ ~ms[i].is_dir /\ members[i].state = "Verified"
    <3>1. /\ i \in DOMAIN Capability.planned /\ ~Capability.planned[i].is_dir
          /\ Capability.members[i].state = "Verified"
      BY <2>1, FoundIsVerified
    <3> HIDE DEF i
    <3> QED BY <1>1, <3>1
  <2> DEFINE v == verify_payload(Snapshot.payloads[Capability.planned[i].payload.offset],
                                 Capability.planned[i], Capability.budget, content.size, TRUE)
             cap == Capability
             x == Snapshot
  <2>4. PICK k \in RetainedAt(Capability, path) :
           here = [error |-> OK, content |-> Capability.retention[k].bytes[1], kept |-> part]
    <3>1. v = verify_payload(x.payloads[cap.planned[i].payload.offset], cap.planned[i], cap.budget,
                             content.size, TRUE)
      OBVIOUS
    <3>2. content = cap.members[i].content /\ i = verified_regular_member(cap, path).index
      OBVIOUS
    <3>3. ~(kind = "Full" /\ content.size > max)
      BY <2>1
    <3>4. verified_regular_member(cap, path).error = OK
      BY <2>1
    <3>5. read_member(cap, x, path, max, kind) = here /\ RetainedAt(cap, path) # {}
      BY <2>2
    <3> HIDE DEF v, content, i, cap, x, path, max, kind, here
    <3>6. Reads(cap, x, path, max, kind, i, content, v)
      BY <3>1, <3>2, <3>3, <3>4 DEF Reads
    <3>7. ReadHere(cap, path, here, content, v, part)
      BY <3>5, <3>6, ReadOf
    <3> HIDE DEF part
    <3> QED BY <3>5, <3>7 DEF ReadHere, cap
  <2>5. k \in DOMAIN kept /\ kept[k].path = path /\ kept[k].status = "Retained"
    BY <1>1, <2>4 DEF RetainedAt
  <2>6. PICK l \in DOMAIN ms : ms[l].components = path /\ kept[k].bytes = <<TrueContent(ms[l])>>
    <3> HIDE DEF path, ms
    <3> QED BY <2>5 DEF AcceptedMembers, ms
  <2>7. here.content = TrueContent(ms[l]) /\ here.kept = part
    <3>1. here.content = kept[k].bytes[1] /\ here.kept = part
      <4> HIDE DEF here, part
      <4> QED BY <1>1, <2>4
    <3> HIDE DEF here, part
    <3> QED BY <2>6, <3>1
  <2>8. content = TrueContent(ms[i]) /\ ms[i].uncomp_size \in Nat
    <3> HIDE DEF i, ms, members
    <3>1. members[i].content = TrueContent(ms[i]) /\ ms[i].uncomp_size \in Nat
      BY <2>3 DEF AcceptedMembers, ms, members
    <3> QED BY <1>1, <3>1
  <2>9. content.size \in Nat
    <3> HIDE DEF i, content
    <3> QED BY <2>3, <2>8 DEF TrueContent, Measured
  <2>10. part <= max
    <3>1. ~(kind = "Full" /\ content.size > max)
      BY <2>1
    <3> HIDE DEF content, max, kind
    <3> QED BY <1>2, <2>9, <3>1, KeptWithin
  <2>11. ms[l] \in Range(ms)
    BY DEF Range
  <2> HIDE DEF here, part, path, max, ms
  <2> QED BY <2>6, <2>7, <2>10, <2>11
<1> QED BY <1>3, <1>4, <1>5

\* A read that the worker answered.
LEMMA StreamedReadIsTrue ==
    ASSUME NEW ready, AcceptedMembers(ready), ask[1] \in Asks, LocalAnswer(ask[1]) = <<>>,
           request # <<>>,
           request = encode_kind(ready, outputs[1].completion, READ_OPERATION, ask[1].path, ask[1].max,
                                 ask[1].kind),
           validate_stream_result(ready, outputs[1].completion, request[1], READ_OPERATION, stream[1],
                                  KeptPart, ask[1].kind)
    PROVE ReadIsTrue([error |-> OK, content |-> stream[1], kept |-> KeptPart],
                     read_member(Capability, Snapshot, ask[1].path, ask[1].max, ask[1].kind))
<1> DEFINE path == ask[1].path
           max == ask[1].max
           kind == ask[1].kind
           cap == Capability
           x == Snapshot
           here == read_member(cap, x, path, max, kind)
           completion == outputs[1].completion
           proposal == authorized[1].proposal
           ms == Evidence[1].members
           ps == PlannedMembers(ready)
           members == authorized[1].proposal.members
           frame == request[1]
           d == decode_kind(ready, completion, frame, READ_OPERATION, kind)
<1>1. /\ cap.planned = ms /\ cap.members = members /\ cap.budget = job.budget
      /\ x.payloads = job.payloads
  BY DEF Capability, Snapshot
<1>2. max \in Nat /\ kind \in ReadKinds
  BY AsksAssumption
<1>3. /\ decode_completion(completion, ready) = <<proposal>> /\ DOMAIN ps = DOMAIN ms
      /\ DistinctPaths(ms) /\ \A i \in DOMAIN ms : SameMember(ps[i], ms[i])
  BY DEF AcceptedMembers
<1>4. \A i \in DOMAIN ms : ~ms[i].is_dir /\ members[i].state = "Verified" =>
              /\ members[i].content = TrueContent(ms[i]) /\ ms[i].uncomp_size \in Nat
              /\ ReadAgain(ms[i]).finding = OK /\ ReadAgain(ms[i]).content = TrueContent(ms[i])
  BY DEF AcceptedMembers
<1>5. /\ d # <<>> /\ stream[1] = d[1].content /\ KeptPart = retained_bytes(d[1].content.size, d[1].max, kind)
  BY DEF validate_stream_result
<1>6. /\ encode_kind(ready, completion, READ_OPERATION, path, max, kind) # <<>>
      /\ frame = encode_kind(ready, completion, READ_OPERATION, path, max, kind)[1]
  OBVIOUS
<1>7. RetainedAt(cap, path) = {}
  BY DEF LocalAnswer
<1> HIDE DEF path, max, kind, completion, proposal, ms, ps, frame, cap, x
<1>8. PICK i \in selected_member(ready, proposal.members, path, max, kind) :
         /\ d[1].content = proposal.members[i].content /\ d[1].max = max
         /\ retained_bytes(proposal.members[i].content.size, max, kind) <= MAX_ISOLATED_READ_BYTES
  BY <1>3, <1>6, AskedFor
<1> HIDE DEF d
<1>9. /\ i \in DOMAIN ms /\ ms[i].components = path /\ ~ms[i].is_dir /\ members[i].state = "Verified"
      /\ kind = "Full" => members[i].content.size <= max
  <2>1. /\ i \in MemberAt(ps, path) /\ ~ps[i].is_dir /\ proposal.members[i].state = "Verified"
        /\ kind = "Full" => proposal.members[i].content.size <= max
    BY <1>8 DEF selected_member, ps
  <2>2. i \in DOMAIN ps /\ ps[i].components = path
    BY <2>1 DEF MemberAt
  <2>3. SameMember(ps[i], ms[i])
    BY <1>3, <2>2
  <2> QED BY <1>3, <2>1, <2>2, <2>3 DEF SameMember, proposal
<1> DEFINE content == members[i].content
           part == retained_bytes(content.size, max, kind)
           v == verify_payload(x.payloads[cap.planned[i].payload.offset], cap.planned[i], cap.budget,
                               content.size, TRUE)
<1>10. /\ content = TrueContent(ms[i]) /\ ms[i].uncomp_size \in Nat
       /\ ReadAgain(ms[i]).finding = OK /\ ReadAgain(ms[i]).content = TrueContent(ms[i])
  BY <1>4, <1>9
<1>11. stream[1] = content /\ KeptPart = part /\ part <= MAX_ISOLATED_READ_BYTES
  BY <1>5, <1>8 DEF proposal
<1> HIDE DEF members
<1>12. content.size = ms[i].uncomp_size /\ content.size \in Nat
  <2> HIDE DEF content
  <2> QED BY <1>9, <1>10 DEF TrueContent, Measured
<1>13. v = ReadAgain(ms[i])
  <2> HIDE DEF content
  <2> QED BY <1>1, <1>12 DEF ReadAgain
<1> HIDE DEF v, content
<1>14. part <= max
  <2>1. kind = "Full" => ~(content.size > max)
    BY <1>2, <1>9, <1>12 DEF content
  <2> QED BY <1>2, <1>12, <2>1, KeptWithin
<1>15. Reads(cap, x, path, max, kind, i, content, v)
  <2>1. verified_regular_member(cap, path).error = OK /\ verified_regular_member(cap, path).index = i
    BY <1>1, <1>3, <1>9, FoundMember
  <2>2. content = cap.members[i].content
    BY <1>1 DEF content
  <2>3. ~(kind = "Full" /\ content.size > max)
    BY <1>2, <1>9, <1>12 DEF content
  <2> QED BY <2>1, <2>2, <2>3 DEF Reads, v
<1>16. ReadHere(cap, path, here, content, v, part)
  BY <1>15, ReadOf
<1>17. here = [error |-> OK, content |-> content, kept |-> part]
  <2>1. v.finding = OK /\ v.content = content
    BY <1>10, <1>13
  <2> HIDE DEF here, part
  <2> QED BY <1>7, <1>16, <2>1 DEF ReadHere
<1>18. ms[i] \in Range(ms)
  BY <1>9 DEF Range
<1> DEFINE a == [error |-> OK, content |-> stream[1], kept |-> KeptPart]
<1>19. a = here /\ a.error = OK /\ a.content = stream[1] /\ a.kept = part
  <2> HIDE DEF here, part
  <2> QED BY <1>11, <1>17
<1>20. a.kept <= max /\ a.kept <= MAX_ISOLATED_READ_BYTES
  BY <1>11, <1>14, <1>19
<1>21. \E m \in Range(ms) : m.components = path /\ a.content = TrueContent(m)
  <2> HIDE DEF a
  <2> QED BY <1>9, <1>10, <1>11, <1>18, <1>19
<1> HIDE DEF a, here
<1>22. ReadIsTrue(a, here)
  BY <1>19, <1>20, <1>21 DEF ReadIsTrue, path, max, ms
<1> QED BY <1>22 DEF a, here, cap, x, path, max, kind

\* The plan that a read is bound to is the one that was replayed.
LEMMA SameAuthority ==
    ASSUME NEW ready, ReadAuthority # <<>>,
           decode_planning_for(planning[1], ExpectWorker(OPERATION, job.effect), Snapshot) = <<ready>>
    PROVE ReadAuthority[1] = ready
<1> DEFINE input == planning[1]
           x == Snapshot
           e1 == ExpectWorker(OPERATION, job.effect)
           b == decode_planning_binding(input)[1]
           e2 == ExpectExact(b)
           made == [record |-> DecodedRecord(input, b), request_id |-> b, plan_id |-> input]
<1>1. ReadAuthority = decode_planning_for(input, e2, x)
  BY DEF ReadAuthority, bind_member_read_source
<1>2. decode_planning_for(input, e1, x) = <<ready>>
  OBVIOUS
<1> HIDE DEF input, x, e1, e2
<1>3. decode_planning_for(input, e2, x) = <<made>>
  BY <1>1, DecodedPlan
<1>4. decode_planning_for(input, e1, x) = <<made>>
  BY <1>2, DecodedPlan
<1> HIDE DEF made
<1> QED BY <1>1, <1>2, <1>3, <1>4

\* Whatever a read gives is what the in-process reader gives.
LEMMA ReadsAreTrue ==
    ASSUME ReadInv, SentInv, AnswerInv, AuthInv, AskInv
    PROVE ReadsAgree
<1> SUFFICES ASSUME answer # <<>> PROVE ReadsAgree
  BY DEF ReadsAgree
<1> DEFINE here == read_member(Capability, Snapshot, ask[1].path, ask[1].max, ask[1].kind)
<1>1. phase = "read" /\ ask[1] \in Asks
  BY DEF AskInv, AskPhases
<1>2. authorized # <<>>
  BY <1>1 DEF AuthInv, AuthPhases, AskPhases
<1>3. PICK ready : /\ AcceptedMembers(ready)
                   /\ decode_planning_for(planning[1], ExpectWorker(OPERATION, job.effect), Snapshot) = <<ready>>
  BY <1>2, AcceptedArchive
<1>4. ReadIsTrue(answer[1], here)
  <2>1. CASE answer = LocalAnswer(ask[1]) /\ answer # <<>> /\ stream = <<>>
    BY <1>1, <1>3, <2>1, LocalReadIsTrue
  <2>2. CASE Asking /\ Released
    <3>1. /\ LocalAnswer(ask[1]) = <<>> /\ ReadAuthority # <<>> /\ request # <<>>
          /\ request = encode_kind(ReadAuthority[1], outputs[1].completion, READ_OPERATION, ask[1].path,
                                   ask[1].max, ask[1].kind)
          /\ validate_stream_result(ReadAuthority[1], outputs[1].completion, request[1], READ_OPERATION,
                                    stream[1], KeptPart, ask[1].kind)
          /\ answer = <<[error |-> OK, content |-> stream[1], kept |-> KeptPart]>>
      BY <2>2 DEF Asking, Released
    <3>2. ReadAuthority[1] = ready
      BY <1>3, <3>1, SameAuthority
    <3>3. ReadIsTrue([error |-> OK, content |-> stream[1], kept |-> KeptPart], here)
      BY <1>1, <1>3, <3>1, <3>2, StreamedReadIsTrue
    <3> HIDE DEF here
    <3> QED BY <3>1, <3>3
  <2> QED BY <1>1, <2>1, <2>2 DEF AskInv
<1> QED BY <1>4 DEF ReadIsTrue, ReadsAgree

-----------------------------------------------------------------------------
(***************************************************************************)
(* The invariant is inductive                                              *)
(***************************************************************************)
\* A completion that an execution hands over is for the plan it executed.
LEMMA FinishedForPlan ==
    ASSUME NEW ready, NEW x, finish_execution(ready, x) # <<>>
    PROVE finish_execution(ready, x)
             = <<[completion |-> Frame("completion", CompletionRecordOf(ready, x)),
                  retained |-> finish_execution(ready, x)[1].retained]>>
<1> DEFINE r == CompletionRecordOf(ready, x)
           completion == encode_completion(r, ready)
<1>1. /\ completion # <<>>
      /\ finish_execution(ready, x)
            = <<[completion |-> completion[1], retained |-> encode_retained(ready, completion[1], x.retention)]>>
  BY DEF finish_execution
<1>2. completion = <<Frame("completion", r)>>
  BY <1>1 DEF encode_completion
<1> HIDE DEF completion, r
<1>3. completion[1] = Frame("completion", r)
  BY <1>2
<1> QED BY <1>1, <1>3 DEF r

\* A completion record names the plan it is for.
LEMMA RecordForPlan ==
    ASSUME NEW ready, NEW x
    PROVE LET r == CompletionRecordOf(ready, x)
          IN  /\ r.plan_id = ready.plan_id /\ Frame("completion", r).body = r
              /\ r = [operation |-> r.operation, request_id |-> r.request_id, plan_id |-> r.plan_id,
                      disposition |-> r.disposition, members |-> r.members, findings |-> r.findings]
BY DEF CompletionRecordOf, Frame

\* So is every misreport.
LEMMA MisreportForPlan ==
    ASSUME NEW ready, NEW x, NEW out, out = [completion |-> Frame("completion", CompletionRecordOf(ready, x)),
                                             retained |-> out.retained],
           NEW other \in Misreports(ready, out)
    PROVE other.completion.body.plan_id = ready.plan_id
<1> DEFINE r == out.completion.body
           es == out.retained.body.entries
           all == [r EXCEPT !.disposition = [tag |-> 0, verified |-> 0, pending |-> 0],
                            !.findings = <<>>, !.members = ClaimedContents(PlannedMembers(ready))]
           second == [r EXCEPT !.operation = 2]
           stops == Stops(ready, r)
           f0 == [i \in DOMAIN es |-> ClaimedEntry(es[i])]
           kept == OtherEntries(es)
           w == WithCompletion(out, all)
           fourth == [out EXCEPT !.retained.body.operation = 2]
<1>1. r.plan_id = ready.plan_id /\ out.completion.body = r
      /\ r = [operation |-> r.operation, request_id |-> r.request_id, plan_id |-> r.plan_id,
              disposition |-> r.disposition, members |-> r.members, findings |-> r.findings]
  <2> DEFINE q == CompletionRecordOf(ready, x)
  <2>1. /\ q.plan_id = ready.plan_id /\ Frame("completion", q).body = q
        /\ q = [operation |-> q.operation, request_id |-> q.request_id, plan_id |-> q.plan_id,
                disposition |-> q.disposition, members |-> q.members, findings |-> q.findings]
    BY RecordForPlan
  <2> HIDE DEF q
  <2>2. out.completion = Frame("completion", q)
    BY DEF q
  <2>3. r = q
    BY <2>1, <2>2
  <2> QED BY <2>1, <2>3
<1>2. \A s : WithCompletion(out, s).completion.body = s
  BY DEF WithCompletion, Frame
<1>3. all.plan_id = ready.plan_id /\ second.plan_id = ready.plan_id
  <2> HIDE DEF r
  <2> QED BY <1>1
<1>4. \A s \in stops : s.plan_id = ready.plan_id
  <2>1. \A y : CompletionRecordOf(ready, y).plan_id = ready.plan_id
    BY RecordForPlan
  <2> SUFFICES ASSUME NEW s \in stops PROVE s.plan_id = ready.plan_id
    OBVIOUS
  <2> HIDE DEF r
  <2>2. PICK y : s = CompletionRecordOf(ready, y)
    BY DEF Stops
  <2> QED BY <2>1, <2>2
<1>5. Misreports(ready, out) =
          ({WithCompletion(out, s) : s \in {all, second} \cup stops}
           \cup {fourth, [w EXCEPT !.retained.body.entries = f0]})
          \cup {[out EXCEPT !.retained.body.entries = f] : f \in kept}
  BY DEF Misreports
<1> HIDE DEF r, all, second, stops, es, f0, kept
<1>6. [w EXCEPT !.retained.body.entries = f0].completion = w.completion
  BY DEF WithCompletion
<1>7. /\ fourth.completion = out.completion
      /\ \A f : [out EXCEPT !.retained.body.entries = f].completion = out.completion
  OBVIOUS
<1> DEFINE third == [w EXCEPT !.retained.body.entries = f0]
           G(f) == [out EXCEPT !.retained.body.entries = f]
<1>8. third.completion = w.completion /\ \A f : G(f).completion = out.completion
  BY <1>6, <1>7
<1>9. w.completion.body = all
  BY <1>2
<1>10. \/ \E s \in {all, second} \cup stops : other = WithCompletion(out, s)
       \/ other = fourth \/ other = third \/ \E f \in kept : other = G(f)
  BY <1>5
<1> HIDE DEF third, G, fourth, w
<1> QED BY <1>1, <1>2, <1>3, <1>4, <1>7, <1>8, <1>9, <1>10

\* What a step that leaves a part alone keeps of it.
LEMMA KeepsReading ==
    ASSUME ReadInv, UNCHANGED <<job, reading>>, phase # "start", phase' \in Phases
    PROVE ReadInv'
BY DEF ReadInv

\* The record stays the record of the evidence.
LEMMA KeepsSent ==
    ASSUME SentInv, UNCHANGED <<job, reading, planning>>, phase \in SentPhases
    PROVE SentInv'
BY DEF SentInv, Evidence

\* The worker's answer stays for the record it was given.
LEMMA KeepsAnswer ==
    ASSUME AnswerInv, UNCHANGED <<delivered, plan, exec, outputs>>,
           phase' \in DeliveredPhases => phase \in DeliveredPhases, phase' \in RunPhases => phase \in RunPhases,
           phase' \in OutPhases => phase \in OutPhases, phase' = "answered" => phase = "answered"
    PROVE AnswerInv'
BY DEF AnswerInv

\* What was accepted stays accepted.
LEMMA KeepsAuthorized ==
    ASSUME AuthInv, UNCHANGED <<job, reading, planning, outputs, authorized>>,
           phase' \in AuthPhases <=> phase \in AuthPhases
    PROVE AuthInv'
BY DEF AuthInv, Authorization, Snapshot

\* Nothing is accepted before the replay.
LEMMA NothingAccepted ==
    ASSUME AuthInv, phase \notin AuthPhases, phase' \notin AuthPhases, UNCHANGED authorized
    PROVE AuthInv'
BY DEF AuthInv

\* Nothing is read before something is accepted.
LEMMA NothingAsked ==
    ASSUME AskInv, UNCHANGED <<stream, answer>>, phase \notin AskPhases, phase' \notin AskPhases
    PROVE AskInv'
BY DEF AskInv, AskPhases

\* The initial states.
LEMMA ExchangeStarts == Init => ExchangeInv
<1> SUFFICES ASSUME Init PROVE ExchangeInv
  OBVIOUS
<1>1. phase = "start" /\ phase \in Phases /\ phase \notin SentPhases /\ phase \notin DeliveredPhases
      /\ phase \notin RunPhases /\ phase \notin OutPhases /\ phase \notin AuthPhases /\ phase \notin AskPhases
  BY DEF Init, Phases, SentPhases, DeliveredPhases, RunPhases, OutPhases, AuthPhases, AskPhases
<1>2. ReadInv /\ SentInv
  BY <1>1 DEF Init, ReadInv, SentInv
<1>3. AnswerInv /\ AuthInv /\ AskInv
  BY <1>1 DEF Init, AnswerInv, AuthInv, AskInv
<1> QED BY <1>2, <1>3 DEF ExchangeInv

\* The steps before anything is sent.
LEMMA StepsOfReading ==
    ASSUME ExchangeInv, Interpret \/ PreparePlan \/ EncodeTerminal \/ EncodeCoveringFailure \/ DecodeTerminal
    PROVE ExchangeInv'
<1> USE DEF ExchangeInv
<1>1. ASSUME phase' \notin SentPhases, phase' \in Phases, phase \notin SentPhases,
             UNCHANGED <<exec, faulted, outputs, authorized, ask, request, asked, stream, answer>>
      PROVE SentInv' /\ AnswerInv' /\ AuthInv' /\ AskInv'
  <2>1. SentInv' /\ AnswerInv'
    BY <1>1 DEF SentInv, AnswerInv, SentPhases, DeliveredPhases, RunPhases, OutPhases
  <2>2. AuthInv'
    BY <1>1, NothingAccepted DEF SentPhases, DeliveredPhases, RunPhases, OutPhases
  <2>3. AskInv'
    BY <1>1, NothingAsked DEF SentPhases, DeliveredPhases, RunPhases, OutPhases, AuthPhases
  <2> QED BY <2>1, <2>2, <2>3
<1> DEFINE early == {"start", "interpreted", "unsendable", "terminal", "ended"}
<1>2. \A p \in early : p \in Phases /\ p \notin SentPhases
  BY DEF Phases, SentPhases, DeliveredPhases, RunPhases, OutPhases, AuthPhases, AskPhases
<1>3. CASE Interpret
  <2>1. /\ phase = "start" /\ phase' = "interpreted" /\ UNCHANGED job
        /\ reading' = <<[scan |-> ReadZip(job).scan, src |-> ReadZip(job).src,
                         result |-> plan_snapshot(ReadZip(job).scan, job.magic, job.budget)]>>
        /\ UNCHANGED <<exec, faulted, outputs, authorized, ask, request, asked, stream, answer>>
    BY <1>3 DEF Interpret, workVars, readVars
  <2>2. ReadInv'
    BY <1>2, <2>1 DEF ReadInv
  <2> QED BY <1>1, <1>2, <2>1, <2>2
<1>4. CASE EncodeTerminal \/ EncodeCoveringFailure \/ DecodeTerminal
  <2>1. /\ phase \in {"interpreted", "terminal"} /\ phase' \in {"unsendable", "terminal", "ended"}
        /\ UNCHANGED <<job, reading>>
        /\ UNCHANGED <<exec, faulted, outputs, authorized, ask, request, asked, stream, answer>>
    BY <1>4 DEF EncodeTerminal, EncodeCoveringFailure, DecodeTerminal, workVars, readVars
  <2>2. ReadInv'
    BY <1>2, <2>1, KeepsReading
  <2> QED BY <1>1, <1>2, <2>1, <2>2
<1>5. CASE PreparePlan
  <2>1. /\ phase = "interpreted" /\ Evidence # <<>>
        /\ planning' = prepare_ready_plan(BindingOf(job), Evidence[1])
        /\ phase' = IF planning' = <<>> THEN "unsendable" ELSE "sent"
        /\ UNCHANGED <<job, reading, delivered, plan>>
        /\ UNCHANGED <<exec, faulted, outputs, authorized, ask, request, asked, stream, answer>>
    BY <1>5 DEF PreparePlan, workVars, readVars
  <2>2. /\ phase' \in Phases /\ phase' \notin DeliveredPhases /\ phase' \notin AuthPhases
        /\ phase' \notin AskPhases
    BY <2>1 DEF Phases, SentPhases, DeliveredPhases, RunPhases, OutPhases, AuthPhases, AskPhases
  <2>3. ReadInv'
    BY <2>1, <2>2, KeepsReading
  <2>4. SentInv'
    <3>1. Evidence' = Evidence
      BY <2>1 DEF Evidence
    <3>2. phase' = "sent" => planning' # <<>>
      BY <2>1
    <3>3. phase' \in SentPhases => phase' = "sent"
      BY <2>1, <1>2
    <3> QED BY <2>1, <3>1, <3>2, <3>3 DEF SentInv
  <2>5. AnswerInv'
    BY <2>1, <2>2 DEF AnswerInv, DeliveredPhases, RunPhases, OutPhases
  <2>6. AuthInv'
    BY <1>2, <2>1, <2>2, NothingAccepted DEF SentPhases, DeliveredPhases, RunPhases, OutPhases
  <2>7. AskInv'
    BY <1>2, <2>1, <2>2, NothingAsked DEF SentPhases, DeliveredPhases, RunPhases, OutPhases, AuthPhases
  <2> QED BY <2>3, <2>4, <2>5, <2>6, <2>7
<1> QED BY <1>3, <1>4, <1>5

\* The steps of the worker.
LEMMA StepsOfWork ==
    ASSUME ExchangeInv,
           Deliver \/ WorkerValidates \/ ExecuteNext \/ WorkerAnswers \/ WorkerMisreports
    PROVE ExchangeInv'
<1> USE DEF ExchangeInv
<1> DEFINE before == {"sent", "delivered", "executing", "answered"}
           after == {"delivered", "executing", "unbound", "refused", "broken", "answered", "misreported"}
<1>1. /\ \A p \in before \cup after : /\ p \in Phases /\ p \in SentPhases /\ p # "start"
                                      /\ p \notin AuthPhases /\ p \notin AskPhases
      /\ \A p \in after : p \in DeliveredPhases
  BY DEF Phases, SentPhases, DeliveredPhases, RunPhases, OutPhases, AuthPhases, AskPhases
<1>2. ASSUME phase \in before, phase' \in after,
             UNCHANGED <<job, reading, planning, authorized, ask, request, asked, stream, answer>>
      PROVE ReadInv' /\ SentInv' /\ AuthInv' /\ AskInv'
  <2>1. ReadInv'
    BY <1>1, <1>2, KeepsReading
  <2>2. SentInv'
    BY <1>1, <1>2, KeepsSent
  <2>3. AuthInv'
    BY <1>1, <1>2, NothingAccepted
  <2>4. AskInv'
    BY <1>1, <1>2, NothingAsked
  <2> QED BY <2>1, <2>2, <2>3, <2>4
<1>3. CASE Deliver
  <2>1. /\ phase = "sent" /\ phase' = "delivered"
        /\ \E frame : delivered' = <<frame>>
        /\ UNCHANGED <<job, reading, planning, authorized, ask, request, asked, stream, answer>>
    BY <1>3 DEF Deliver, workVars, readVars
  <2>2. phase' \notin RunPhases /\ phase' \notin OutPhases
    BY <2>1 DEF RunPhases, OutPhases, AuthPhases, AskPhases
  <2>3. delivered' = <<delivered'[1]>>
    BY <2>1
  <2>4. AnswerInv'
    BY <2>1, <2>2, <2>3 DEF AnswerInv
  <2> QED BY <1>2, <2>1, <2>4
<1>4. CASE WorkerValidates
  <2>1. /\ phase = "delivered" /\ phase' \in {"executing", "unbound", "refused"}
        /\ plan' = validate_operation(Snapshot, OPERATION, delivered[1], job.effect)
        /\ phase' = "executing" => plan' # <<>>
        /\ UNCHANGED <<job, reading, planning, delivered, authorized, ask, request, asked, stream, answer>>
    BY <1>4 DEF WorkerValidates, workVars, readVars
  <2>2. phase' \in RunPhases => phase' = "executing"
    BY <2>1 DEF RunPhases, OutPhases, AuthPhases, AskPhases
  <2>3. phase' \notin OutPhases
    BY <2>1 DEF OutPhases, AuthPhases, AskPhases
  <2>4. plan' # <<>> => plan'[1].plan_id = delivered[1]
    <3> SUFFICES ASSUME plan' # <<>> PROVE plan'[1].plan_id = delivered[1]
      OBVIOUS
    <3> DEFINE input == delivered[1]
               e == ExpectWorker(OPERATION, job.effect)
               x == Snapshot
    <3>1. plan' = decode_planning_for(input, e, x)
      BY <2>1 DEF validate_operation
    <3> HIDE DEF input, e, x
    <3> DEFINE b == decode_planning_binding(input)[1]
    <3>2. plan' = <<[record |-> DecodedRecord(input, b), request_id |-> b, plan_id |-> input]>>
      BY <3>1, DecodedPlan
    <3> HIDE DEF b
    <3>3. plan'[1].plan_id = input
      BY <3>2
    <3> QED BY <3>3 DEF input
  <2>5. delivered = <<delivered[1]>>
    BY <1>1, <2>1 DEF AnswerInv
  <2>6. AnswerInv'
    BY <2>1, <2>2, <2>3, <2>4, <2>5 DEF AnswerInv
  <2> QED BY <1>2, <2>1, <2>6
<1>5. CASE ExecuteNext
  <2>1. /\ phase = "executing" /\ phase' = phase
        /\ UNCHANGED <<job, reading, planning, delivered, plan, outputs, authorized, ask, request, asked,
                       stream, answer>>
    BY <1>5 DEF ExecuteNext, readVars
  <2>2. phase \notin OutPhases
    BY <2>1 DEF OutPhases, AuthPhases, AskPhases
  <2>3. AnswerInv'
    BY <2>1, <2>2 DEF AnswerInv
  <2> QED BY <1>2, <2>1, <2>3
<1>6. CASE WorkerAnswers
  <2>1. /\ phase = "executing" /\ outputs' = finish_execution(plan[1], exec[1])
        /\ phase' = IF outputs' = <<>> THEN "broken" ELSE "answered"
        /\ UNCHANGED <<job, reading, planning, delivered, plan, exec, authorized, ask, request, asked,
                       stream, answer>>
    BY <1>6 DEF WorkerAnswers, readVars
  <2>2. phase \in RunPhases /\ phase \in DeliveredPhases
    BY <2>1 DEF RunPhases, DeliveredPhases
  <2>3. /\ phase' = "answered" => outputs' # <<>>
        /\ phase' \in OutPhases => phase' = "answered"
    BY <2>1 DEF OutPhases, AuthPhases, AskPhases
  <2>4. outputs' # <<>> => outputs'[1].completion.body.plan_id = plan[1].plan_id
    <3> SUFFICES ASSUME outputs' # <<>> PROVE outputs'[1].completion.body.plan_id = plan[1].plan_id
      OBVIOUS
    <3> DEFINE ready == plan[1]
               x == exec[1]
               r == CompletionRecordOf(ready, x)
               f == finish_execution(ready, x)
    <3>1. outputs' = f /\ f # <<>>
      BY <2>1
    <3> HIDE DEF ready, x
    <3>2. f = <<[completion |-> Frame("completion", r), retained |-> f[1].retained]>>
      BY <3>1, FinishedForPlan
    <3>3. Frame("completion", r).body = r /\ r.plan_id = ready.plan_id
      BY RecordForPlan
    <3> HIDE DEF r, f
    <3>4. f[1].completion = Frame("completion", r)
      BY <3>2
    <3>5. f[1].completion.body.plan_id = ready.plan_id
      BY <3>3, <3>4
    <3> QED BY <3>1, <3>5 DEF ready
  <2>5. AnswerInv'
    BY <2>1, <2>2, <2>3, <2>4 DEF AnswerInv
  <2> QED BY <1>2, <2>1, <2>5
<1>7. CASE WorkerMisreports
  <2>1. /\ phase = "answered" /\ phase' = "misreported"
        /\ \E out \in Misreports(plan[1], outputs[1]) : outputs' = <<out>>
        /\ UNCHANGED <<job, reading, planning, delivered, plan, exec, authorized, ask, request, asked,
                       stream, answer>>
    BY <1>7 DEF WorkerMisreports, readVars
  <2>2. phase \in RunPhases /\ phase \in DeliveredPhases
    BY <2>1 DEF RunPhases, DeliveredPhases, OutPhases
  <2>3. PICK other \in Misreports(plan[1], outputs[1]) : outputs' = <<other>>
    BY <2>1
  <2>4. other.completion.body.plan_id = plan[1].plan_id
    <3> DEFINE ready == plan[1]
               x == exec[1]
               out == outputs[1]
               f == finish_execution(ready, x)
    <3>1. outputs = f /\ f # <<>>
      BY <2>1 DEF AnswerInv
    <3>2. other \in Misreports(ready, out)
      OBVIOUS
    <3> HIDE DEF ready, x
    <3>3. f = <<[completion |-> Frame("completion", CompletionRecordOf(ready, x)), retained |-> f[1].retained]>>
      BY <3>1, FinishedForPlan
    <3> HIDE DEF f
    <3>4. out = [completion |-> Frame("completion", CompletionRecordOf(ready, x)), retained |-> out.retained]
      BY <3>1, <3>3
    <3> HIDE DEF out
    <3>5. other.completion.body.plan_id = ready.plan_id
      BY <3>2, <3>4, MisreportForPlan
    <3> QED BY <3>5 DEF ready
  <2>5. outputs'[1] = other
    BY <2>3
  <2>6. AnswerInv'
    BY <2>1, <2>2, <2>4, <2>5 DEF AnswerInv
  <2> QED BY <1>2, <2>1, <2>6
<1> QED BY <1>3, <1>4, <1>5, <1>6, <1>7

\* What a read depends on.
LEMMA KeepsAsking ==
    ASSUME UNCHANGED <<job, reading, planning, authorized, outputs, ask, request>>
    PROVE /\ Asking' <=> Asking
          /\ (LocalAnswer(ask[1]))' = LocalAnswer(ask[1])
          /\ ReadAuthority' = ReadAuthority
<1>1. Snapshot' = Snapshot /\ Evidence' = Evidence
  BY DEF Snapshot, Evidence
<1>2. Capability' = Capability
  BY <1>1 DEF Capability
<1>3. ReadAuthority' = ReadAuthority
  BY <1>1 DEF ReadAuthority
<1>4. (LocalAnswer(ask[1]))' = LocalAnswer(ask[1])
  BY <1>1, <1>2 DEF LocalAnswer
<1>5. Asking' <=> Asking
  BY <1>3, <1>4 DEF Asking
<1> QED BY <1>3, <1>4, <1>5

\* The steps that accept an answer and read what was accepted.
LEMMA StepsOfAccepting ==
    ASSUME ExchangeInv, Authorize \/ AskMember \/ DeliverRequest \/ WorkerReads \/ Release
    PROVE ExchangeInv'
<1> USE DEF ExchangeInv
<1> DEFINE before == {"answered", "misreported", "authorized", "asking", "asked", "streamed"}
           after == {"unauthorized"} \cup AuthPhases
<1>1. /\ \A p \in before \cup after : /\ p \in Phases /\ p \in SentPhases /\ p # "start"
                                      /\ p \in DeliveredPhases /\ p \in RunPhases /\ p \in OutPhases
      /\ \A p \in after : p # "answered"
      /\ \A p \in {"asking", "asked", "streamed"} : p \in AuthPhases
  BY DEF Phases, SentPhases, DeliveredPhases, RunPhases, OutPhases, AuthPhases, AskPhases
<1>2. ASSUME phase \in before, phase' \in after,
             UNCHANGED <<job, reading, planning, delivered, plan, exec, outputs>>
      PROVE ReadInv' /\ SentInv' /\ AnswerInv'
  <2>1. ReadInv'
    BY <1>1, <1>2, KeepsReading DEF Phases, SentPhases, DeliveredPhases, RunPhases, OutPhases
  <2>2. SentInv'
    BY <1>1, <1>2, KeepsSent DEF SentPhases, DeliveredPhases, RunPhases, OutPhases, AuthPhases, AskPhases
  <2>3. AnswerInv'
    BY <1>1, <1>2, KeepsAnswer
  <2> QED BY <2>1, <2>2, <2>3
<1>3. CASE Authorize
  <2>1. /\ phase \in {"answered", "misreported"} /\ authorized' = Authorization
        /\ phase' = IF authorized' = <<>> THEN "unauthorized" ELSE "authorized"
        /\ UNCHANGED <<job, reading, planning, delivered, plan, exec, outputs, stream, answer>>
    BY <1>3 DEF Authorize, Authorization, readVars
  <2>2. /\ phase \notin AskPhases /\ phase' \notin AskPhases /\ phase' \in after
        /\ phase' \in AuthPhases => phase' = "authorized"
        /\ phase' = "authorized" => phase' \in AuthPhases
    BY <2>1 DEF AuthPhases, AskPhases
  <2>3. Authorization' = Authorization
    BY <2>1 DEF Authorization, Snapshot
  <2>4. AuthInv'
    BY <2>1, <2>2, <2>3 DEF AuthInv
  <2>5. AskInv'
    BY <2>1, <2>2, NothingAsked
  <2> QED BY <1>2, <2>1, <2>2, <2>4, <2>5
<1>4. ASSUME phase \in {"authorized", "asking", "asked", "streamed"}, phase' \in AskPhases,
             UNCHANGED <<job, reading, planning, delivered, plan, exec, faulted, outputs, authorized>>
      PROVE ReadInv' /\ SentInv' /\ AnswerInv' /\ AuthInv'
  <2>1. phase \in AuthPhases /\ phase' \in AuthPhases /\ phase' \in after /\ phase \in before
    BY <1>4 DEF AuthPhases, AskPhases
  <2>2. AuthInv'
    BY <1>4, <2>1, KeepsAuthorized
  <2> QED BY <1>2, <1>4, <2>1, <2>2
<1>5. CASE AskMember
  <2>1. /\ phase = "authorized"
        /\ UNCHANGED <<job, reading, planning, delivered, plan, exec, faulted, outputs, authorized, stream>>
    BY <1>5 DEF AskMember, workVars
  <2>2. PICK a \in Asks :
          /\ ask' = <<a>> /\ answer' = LocalAnswer(a)
          /\ request' = IF answer' # <<>> \/ ReadAuthority = <<>> THEN <<>>
                        ELSE encode_kind(ReadAuthority[1], outputs[1].completion, READ_OPERATION,
                                         a.path, a.max, a.kind)
          /\ phase' = IF answer' # <<>> THEN "read" ELSE IF request' = <<>> THEN "notasked" ELSE "asking"
    BY <1>5 DEF AskMember
  <2>3. phase' \in AskPhases /\ phase' \in {"read", "notasked", "asking"}
    BY <2>2 DEF AskPhases
  <2>4. Snapshot' = Snapshot /\ Evidence' = Evidence
    BY <2>1 DEF Snapshot, Evidence
  <2>5. Capability' = Capability /\ ReadAuthority' = ReadAuthority
    BY <2>1, <2>4 DEF Capability, ReadAuthority
  <2>6. ask'[1] = a
    BY <2>2
  <2>7. (LocalAnswer(ask[1]))' = LocalAnswer(a)
    BY <2>4, <2>5, <2>6 DEF LocalAnswer
  <2>8. phase' = "asking" => Asking' /\ answer' = <<>>
    BY <2>1, <2>2, <2>5, <2>6, <2>7 DEF Asking
  <2>9. stream' = <<>>
    BY <2>1 DEF AskInv
  <2>10. phase' = "read" => answer' # <<>>
    BY <2>2
  <2>11. phase' # "read" => answer' = <<>>
    BY <2>2
  <2>12. ask' = <<ask'[1]>> /\ ask'[1] \in Asks
    BY <2>2, <2>6
  <2>13. AskInv'
    BY <2>2, <2>3, <2>7, <2>8, <2>9, <2>10, <2>11, <2>12 DEF AskInv
  <2> QED BY <1>4, <2>1, <2>3, <2>13
<1>6. CASE DeliverRequest
  <2>1. /\ phase = "asking" /\ phase' = "asked"
        /\ UNCHANGED <<job, reading, planning, delivered, plan, exec, faulted, outputs, authorized, ask,
                       request, stream, answer>>
    BY <1>6 DEF DeliverRequest, workVars
  <2>2. phase \in AskPhases /\ phase' \in AskPhases
    BY <2>1 DEF AskPhases
  <2>3. Asking' <=> Asking
    BY <2>1, KeepsAsking
  <2>4. AskInv'
    BY <2>1, <2>2, <2>3 DEF AskInv
  <2> QED BY <1>4, <2>1, <2>2, <2>4
<1>7. CASE WorkerReads
  <2>1. /\ phase = "asked"
        /\ (phase' = "unread" /\ stream' = <<>>) \/ phase' = "streamed"
        /\ UNCHANGED <<job, reading, planning, delivered, plan, exec, faulted, outputs, authorized, ask,
                       request, answer>>
    BY <1>7 DEF WorkerReads, workVars
  <2>2. phase \in AskPhases /\ phase' \in AskPhases
    BY <2>1 DEF AskPhases
  <2>3. Asking' <=> Asking
    BY <2>1, KeepsAsking
  <2>4. AskInv'
    BY <2>1, <2>2, <2>3 DEF AskInv
  <2> QED BY <1>4, <2>1, <2>2, <2>4
<1>8. CASE Release
  <2>1. /\ phase = "streamed"
        /\ \/ /\ validate_stream_result(ReadAuthority[1], outputs[1].completion, request[1], READ_OPERATION,
                                        stream[1], KeptPart, ask[1].kind)
              /\ answer' = <<[error |-> OK, content |-> stream[1], kept |-> KeptPart]>> /\ phase' = "read"
           \/ answer' = <<>> /\ phase' = "withheld"
        /\ UNCHANGED <<job, reading, planning, delivered, plan, exec, faulted, outputs, authorized, ask,
                       request, stream>>
    BY <1>8 DEF Release, KeptPart, workVars
  <2>2. phase \in AskPhases /\ phase' \in AskPhases
    BY <2>1 DEF AskPhases
  <2>3. (Asking' <=> Asking) /\ ReadAuthority' = ReadAuthority
    BY <2>1, KeepsAsking
  <2>4. KeptPart' = KeptPart
    BY <2>1 DEF KeptPart
  <2>5. phase' = "read" => Released'
    BY <2>1, <2>3, <2>4 DEF Released
  <2>6. Asking
    BY <2>1 DEF AskInv
  <2>7. AskInv'
    BY <2>1, <2>2, <2>3, <2>5, <2>6 DEF AskInv
  <2> QED BY <1>4, <2>1, <2>2, <2>7
<1> QED BY <1>3, <1>5, <1>6, <1>7, <1>8

\* The invariant holds for every job, every change to a record and every
\* answer of the worker.
THEOREM ExchangeInductive == Spec => []ExchangeInv
<1>1. ExchangeInv /\ [Next]_vars => ExchangeInv'
  <2> SUFFICES ASSUME ExchangeInv, [Next]_vars PROVE ExchangeInv'
    OBVIOUS
  <2>1. CASE UNCHANGED vars
    <3>1. UNCHANGED <<job, reading, phase, planning, delivered, plan, exec, outputs, authorized, ask, request,
                      stream, answer>>
      BY <2>1 DEF vars
    <3>2. ReadInv' /\ SentInv' /\ AnswerInv'
      BY <3>1 DEF ExchangeInv, ReadInv, SentInv, AnswerInv, Evidence
    <3>3. AuthInv'
      BY <3>1, KeepsAuthorized DEF ExchangeInv
    <3>4. /\ Asking' <=> Asking
          /\ (LocalAnswer(ask[1]))' = LocalAnswer(ask[1])
          /\ ReadAuthority' = ReadAuthority
      BY <3>1, KeepsAsking
    <3>5. Released' <=> Released
      BY <3>1, <3>4 DEF Released, KeptPart
    <3>6. AskInv'
      BY <3>1, <3>4, <3>5 DEF ExchangeInv, AskInv
    <3> QED BY <3>2, <3>3, <3>6 DEF ExchangeInv
  <2>2. CASE Interpret \/ PreparePlan \/ EncodeTerminal \/ EncodeCoveringFailure \/ DecodeTerminal
    BY <2>2, StepsOfReading
  <2>3. CASE Deliver \/ WorkerValidates \/ ExecuteNext \/ WorkerAnswers \/ WorkerMisreports
    BY <2>3, StepsOfWork
  <2>4. CASE Authorize \/ AskMember \/ DeliverRequest \/ WorkerReads \/ Release
    BY <2>4, StepsOfAccepting
  <2> QED BY <2>1, <2>2, <2>3, <2>4 DEF Next
<1> QED BY <1>1, ExchangeStarts, PTL DEF Spec

\* What the supervisor accepts is true of the source and belongs to the plan
\* it sent (authorize_execution, decode_completion, decode_retained).
THEOREM AuthorizedTruth == Spec => []AuthorizedIsTruth
<1>1. ExchangeInv => AuthorizedIsTruth
  BY AcceptedIsTrue DEF ExchangeInv
<1> QED BY <1>1, ExchangeInductive, PTL

\* A read through the worker gives what the in-process reader gives for the
\* same call (read_member, decode_kind, validate_stream_result).
THEOREM ReadsAgreeWithSource == Spec => []ReadsAgree
<1>1. ExchangeInv => ReadsAgree
  BY ReadsAreTrue DEF ExchangeInv
<1> QED BY <1>1, ExchangeInductive, PTL

=================================================================================
