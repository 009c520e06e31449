------------------------------ MODULE FoldTheorems ------------------------------
(***************************************************************************)
(* What a left fold computes, for every operator: the provers cannot take  *)
(* an operator for the parameter of a theorem, so the operator is a        *)
(* constant of this module, and a proof that needs the fact for an         *)
(* operator of its own makes an instance of the module.                    *)
(***************************************************************************)
EXTENDS SequencesExt, WellFoundedInduction, TLAPS

CONSTANT Op(_, _, _)    \* the operator of the fold, with a parameter

Fold(p, base, seq) == FoldLeft(LAMBDA a, x : Op(p, a, x), base, seq)

\* The function FoldLeft defines, on the sets of the first k positions.
IsIter(f, p, base, seq, k) ==
    f = [s \in SUBSET (1..k) |-> IF s = {} THEN base
                                 ELSE Op(p, f[s \ {Max(s)}], seq[Max(s)])]

\* Induction over the naturals, for a set instead of a predicate.
LEMMA SetInduction ==
    ASSUME NEW S, 0 \in S, \A k \in Nat : k \in S => k + 1 \in S
    PROVE \A k \in Nat : k \in S
<1> DEFINE T == Nat \ S
<1> SUFFICES ASSUME T # {} PROVE FALSE
  OBVIOUS
<1>1. PICK x \in T : \A y \in T : ~ (<<y, x>> \in OpToRel(<, Nat))
  BY WFMin, NatLessThanWellFounded
<1>2. x \in Nat /\ x # 0 /\ x - 1 \in Nat /\ x - 1 < x /\ (x - 1) + 1 = x
  <2>1. x \in Nat /\ x # 0
    BY Zenon
  <2> QED BY <2>1
<1>3. <<x - 1, x>> \in Nat \X Nat /\ <<x - 1, x>>[1] < <<x - 1, x>>[2]
  BY <1>2
<1>4. <<x - 1, x>> \in OpToRel(<, Nat)
  BY <1>3, Zenon DEF OpToRel
<1>5. x - 1 \in S
  BY <1>1, <1>2, <1>4
<1> QED BY <1>1, <1>2, <1>5

\* A nonempty set of positions has the greatest element that Max chooses.
LEMMA MaxIn ==
    ASSUME NEW k \in Nat, NEW s, s \subseteq 1..k, s # {}
    PROVE Max(s) \in s /\ \A y \in s : y <= Max(s)
<1> DEFINE S == {j \in Nat : \A t \in SUBSET (1..j) :
                    t # {} => \E x \in t : \A y \in t : x >= y}
<1>1. 0 \in S
  <2>1. \A t \in SUBSET (1..0) : t = {}
    OBVIOUS
  <2> QED BY <2>1, Zenon
<1>2. ASSUME NEW j \in Nat, j \in S PROVE j + 1 \in S
  <2> SUFFICES ASSUME NEW t \in SUBSET (1..(j + 1)), t # {}
               PROVE \E x \in t : \A y \in t : x >= y
    OBVIOUS
  <2>1. CASE j + 1 \in t
    BY <2>1
  <2>2. CASE j + 1 \notin t
    <3>1. t \in SUBSET (1..j)
      BY <2>2
    <3> QED BY <1>2, <3>1
  <2> QED BY <2>1, <2>2
<1>3. \A j \in Nat : j \in S
  <2> HIDE DEF S
  <2> QED BY <1>1, <1>2, SetInduction
<1>4. PICK x \in s : \A y \in s : x >= y
  BY <1>3
<1>5. Max(s) \in s /\ \A y \in s : Max(s) >= y
  BY <1>4, Zenon DEF Max
<1> QED BY <1>5

\* The recursion of FoldLeft defines a function.
LEMMA IterExists ==
    ASSUME NEW p, NEW base, NEW seq
    PROVE \A n \in Nat : \E f : IsIter(f, p, base, seq, n)
<1> DEFINE S == {k \in Nat : \E f : IsIter(f, p, base, seq, k)}
<1>1. 0 \in S
  <2> DEFINE f == [s \in SUBSET (1..0) |-> base]
  <2>1. IsIter(f, p, base, seq, 0)
    BY DEF IsIter
  <2> QED BY <2>1
<1>2. ASSUME NEW k \in Nat, k \in S PROVE k + 1 \in S
  <2>1. PICK f : IsIter(f, p, base, seq, k)
    BY <1>2
  <2> DEFINE g == [s \in SUBSET (1..(k + 1)) |->
                      IF s = {} THEN base ELSE Op(p, f[s \ {Max(s)}], seq[Max(s)])]
  <2>2. ASSUME NEW t \in SUBSET (1..k) PROVE g[t] = f[t]
    <3>1. t \in SUBSET (1..(k + 1))
      OBVIOUS
    <3>2. f[t] = IF t = {} THEN base ELSE Op(p, f[t \ {Max(t)}], seq[Max(t)])
      BY <2>1 DEF IsIter
    <3> QED BY <3>1, <3>2
  <2>3. ASSUME NEW s \in SUBSET (1..(k + 1)), s # {} PROVE s \ {Max(s)} \in SUBSET (1..k)
    <3>1. k + 1 \in Nat
      OBVIOUS
    <3>2. Max(s) \in s /\ \A y \in s : y <= Max(s)
      BY <2>3, <3>1, MaxIn
    <3>3. ASSUME NEW y \in s, y # Max(s) PROVE y \in 1..k
      <4>1. y \in 1..(k + 1) /\ Max(s) \in 1..(k + 1) /\ y <= Max(s)
        BY <3>2
      <4> QED BY <3>3, <4>1
    <3> QED BY <3>3
  <2>4. g = [s \in SUBSET (1..(k + 1)) |->
                IF s = {} THEN base ELSE Op(p, g[s \ {Max(s)}], seq[Max(s)])]
    <3> HIDE DEF g
    <3>1. \A s \in SUBSET (1..(k + 1)) :
             (IF s = {} THEN base ELSE Op(p, f[s \ {Max(s)}], seq[Max(s)]))
             = (IF s = {} THEN base ELSE Op(p, g[s \ {Max(s)}], seq[Max(s)]))
      BY <2>2, <2>3
    <3>2. g = [s \in SUBSET (1..(k + 1)) |->
                  IF s = {} THEN base ELSE Op(p, f[s \ {Max(s)}], seq[Max(s)])]
      BY DEF g
    <3> QED BY <3>1, <3>2
  <2>5. IsIter(g, p, base, seq, k + 1)
    <3> HIDE DEF g
    <3> QED BY <2>4 DEF IsIter
  <2> QED BY <2>5
<1>3. \A k \in Nat : k \in S
  <2> HIDE DEF S
  <2> QED BY <1>1, <1>2, SetInduction
<1> QED BY <1>3

\* The values a fold runs through, one for each position.
IsRun(h, p, base, seq, n) ==
    /\ h[0] = base
    /\ \A k \in Nat : k < n => h[k + 1] = Op(p, h[k], seq[k + 1])

\* A fold starts with its base, applies the operator to one item after the
\* other and returns the last value.
THEOREM FoldRuns ==
    ASSUME NEW p, NEW base, NEW n \in Nat, NEW seq, DOMAIN seq = 1..n
    PROVE \E h : IsRun(h, p, base, seq, n) /\ Fold(p, base, seq) = h[n]
<1>1. \E f : IsIter(f, p, base, seq, n)
  BY IterExists
<1>2. PICK f : IsIter(f, p, base, seq, n) /\ Fold(p, base, seq) = f[1..n]
  BY <1>1 DEF Fold, IsIter, FoldLeft, MapThenFoldSet
<1> DEFINE h == [k \in Nat |-> f[1..k]]
<1>3. h[0] = base
  <2>1. 1..0 = {} /\ {} \in SUBSET (1..n)
    OBVIOUS
  <2>2. f[{}] = base
    BY <1>2, <2>1 DEF IsIter
  <2> QED BY <2>1, <2>2
<1>4. ASSUME NEW k \in Nat, k < n PROVE h[k + 1] = Op(p, h[k], seq[k + 1])
  <2> DEFINE s == 1..(k + 1)
  <2>1. s \in SUBSET (1..n) /\ s # {} /\ k + 1 \in s /\ s \ {k + 1} = 1..k
    <3>1. \A y \in s : y \in 1..n
      BY <1>4
    <3>2. k + 1 \in s
      OBVIOUS
    <3>3. \A y : y \in s \ {k + 1} <=> y \in 1..k
      OBVIOUS
    <3> HIDE DEF s
    <3>4. s \ {k + 1} = 1..k
      BY <3>3, Zenon
    <3> QED BY <3>1, <3>2, <3>4
  <2>2. Max(s) \in s /\ \A y \in s : y <= Max(s)
    BY <2>1, MaxIn
  <2>3. Max(s) = k + 1
    BY <2>1, <2>2
  <2>4. f[s] = Op(p, f[s \ {Max(s)}], seq[Max(s)])
    <3> HIDE DEF s
    <3> QED BY <1>2, <2>1 DEF IsIter
  <2>5. f[s] = Op(p, f[1..k], seq[k + 1])
    <3> HIDE DEF s
    <3> QED BY <2>1, <2>3, <2>4
  <2> QED BY <2>5
<1>5. h[n] = f[1..n]
  OBVIOUS
<1>6. IsRun(h, p, base, seq, n)
  <2> HIDE DEF h
  <2> QED BY <1>3, <1>4 DEF IsRun
<1> QED BY <1>2, <1>5, <1>6
=================================================================================
