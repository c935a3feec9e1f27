---------------------------- MODULE FoldInduction ----------------------------
(***************************************************************************)
(* What a fold from the left computes, for any operator: its value for a   *)
(* prefix is the operator applied to its value for the prefix before.  The *)
(* facts rest on induction over the natural numbers, which is stated here  *)
(* for sets, so that the provers can use it.                               *)
(***************************************************************************)
EXTENDS Naturals, Sequences, SequencesExt, WellFoundedInduction, TLAPS

CONSTANT Op(_, _)

(* The fold as an operator without an operator for a parameter.            *)
Folded(base, seq) == FoldLeft(Op, base, seq)

(* Induction on the natural numbers, for a set of them.                    *)
LEMMA SetInduction ==
    ASSUME NEW S, 0 \in S, \A n \in Nat : n \in S => n + 1 \in S
    PROVE  Nat \subseteq S
<1>. SUFFICES ASSUME Nat \ S # {} PROVE FALSE
    OBVIOUS
<1>1. PICK m \in Nat \ S : \A y \in Nat \ S : ~ (<<y, m>> \in OpToRel(<, Nat))
    BY NatLessThanWellFounded, WFMin
<1>2. ASSUME NEW y \in Nat \ S, y < m PROVE FALSE
    <2>1. <<y, m>> \in {ss \in Nat \X Nat : ss[1] < ss[2]}
        BY <1>2
    <2>2. <<y, m>> \in OpToRel(<, Nat)
        BY <2>1 DEF OpToRel
    <2>. QED BY <1>1, <2>2
<1>3. m # 0 /\ m - 1 \in Nat /\ m - 1 < m
    OBVIOUS
<1>. QED BY <1>2, <1>3

(* A bounded set of natural numbers has a greatest member.                 *)
LEMMA HasGreatest ==
    ASSUME NEW T \in SUBSET Nat, T # {}, NEW b \in Nat, \A x \in T : x <= b
    PROVE  \E m \in T : \A y \in T : m >= y
<1>. DEFINE S == {n \in Nat : \A x \in T : x + n >= b => \E m \in T : \A y \in T : m >= y}
<1>1. 0 \in S
    <2>1. ASSUME NEW x \in T, x + 0 >= b PROVE \A y \in T : x >= y
        BY <2>1
    <2>. QED BY <2>1
<1>2. ASSUME NEW n \in Nat, n \in S PROVE n + 1 \in S
    <2>1. ASSUME NEW x \in T, x + (n + 1) >= b PROVE \E m \in T : \A y \in T : m >= y
        <3>1. CASE \A y \in T : x >= y
            BY <3>1
        <3>2. CASE \E y \in T : ~(x >= y)
            <4>1. PICK y \in T : y > x
                BY <3>2
            <4>2. y + n >= b
                BY <2>1, <4>1
            <4>. QED BY <1>2, <4>2
        <3>. QED BY <3>1, <3>2
    <2>. QED BY <2>1
<1>3. Nat \subseteq S
    <2>. HIDE DEF S
    <2>. QED BY <1>1, <1>2, SetInduction
<1>4. \E m \in T : \A y \in T : m >= y
    <2>1. PICK x \in T : TRUE
        OBVIOUS
    <2>2. b \in S
        BY <1>3
    <2>3. x + b >= b
        OBVIOUS
    <2>. QED BY <2>2, <2>3
<1>. QED BY <1>4

LEMMA HasMax ==
    ASSUME NEW T \in SUBSET Nat, T # {}, NEW b \in Nat, \A x \in T : x <= b
    PROVE  Max(T) \in T /\ \A y \in T : Max(T) >= y
BY HasGreatest DEF Max

LEMMA MaxOfInterval == \A n \in Nat : Max(1..(n + 1)) = n + 1
<1>. SUFFICES ASSUME NEW n \in Nat PROVE Max(1..(n + 1)) = n + 1
    OBVIOUS
<1>0. n + 1 \in 1..(n + 1)
    OBVIOUS
<1>1. /\ 1..(n + 1) \in SUBSET Nat /\ 1..(n + 1) # {} /\ n + 1 \in Nat
      /\ \A x \in 1..(n + 1) : x <= n + 1
    BY <1>0
<1>2. Max(1..(n + 1)) \in 1..(n + 1) /\ \A y \in 1..(n + 1) : Max(1..(n + 1)) >= y
    BY <1>1, HasMax
<1>. HIDE DEF Max
<1>. QED BY <1>2

LEMMA MaxOfSubset ==
    ASSUME NEW n \in Nat, NEW s \in SUBSET (1..n), s # {}
    PROVE  Max(s) \in s
<1>1. s \in SUBSET Nat /\ \A x \in s : x <= n
    OBVIOUS
<1>. QED BY <1>1, HasMax

(* One unfolding of the recursive function that defines a fold.            *)
Folding(base, seq, len, f) ==
    [s \in SUBSET (1..len) |-> IF s = {} THEN base ELSE Op(f[s \ {Max(s)}], seq[Max(s)])]

(* The recursion of a fold has a solution.                                 *)
LEMMA FoldingHasSolution ==
    ASSUME NEW base, NEW seq, NEW len \in Nat
    PROVE  \E f : f = Folding(base, seq, len, f)
<1>. DEFINE S == {n \in Nat : \E f : f = Folding(base, seq, n, f)}
<1>1. 0 \in S
    <2>. DEFINE f == [s \in SUBSET (1..0) |-> base]
    <2>1. f = Folding(base, seq, 0, f)
        BY DEF Folding
    <2>. HIDE DEF f
    <2>. QED BY <2>1
<1>2. ASSUME NEW n \in Nat, n \in S PROVE n + 1 \in S
    <2>1. PICK f : f = Folding(base, seq, n, f)
        BY <1>2
    <2>0. \A s \in SUBSET (1..n) : f[s] = IF s = {} THEN base ELSE Op(f[s \ {Max(s)}], seq[Max(s)])
        BY <2>1 DEF Folding
    <2>. DEFINE g == [s \in SUBSET (1..(n + 1)) |->
                        IF n + 1 \in s THEN Op(f[s \ {n + 1}], seq[n + 1]) ELSE f[s]]
    <2>2. ASSUME NEW s \in SUBSET (1..(n + 1))
          PROVE  g[s] = IF s = {} THEN base ELSE Op(g[s \ {Max(s)}], seq[Max(s)])
        <3>1. CASE n + 1 \in s
            <4>1. Max(s) = n + 1
                <5>1. s \in SUBSET Nat /\ s # {} /\ n + 1 \in Nat /\ \A x \in s : x <= n + 1
                    BY <3>1
                <5>2. Max(s) \in s /\ \A y \in s : Max(s) >= y
                    BY <5>1, HasMax
                <5>3. Max(s) >= n + 1 /\ Max(s) <= n + 1 /\ Max(s) \in Nat
                    BY <3>1, <5>1, <5>2
                <5>. QED BY <5>3
            <4>2. s \ {n + 1} \in SUBSET (1..(n + 1)) /\ n + 1 \notin s \ {n + 1}
                OBVIOUS
            <4>3. g[s \ {n + 1}] = f[s \ {n + 1}]
                BY <4>2
            <4>4. g[s] = Op(f[s \ {n + 1}], seq[n + 1])
                BY <3>1
            <4>. HIDE DEF g
            <4>. QED BY <3>1, <4>1, <4>3, <4>4
        <3>2. CASE n + 1 \notin s
            <4>1. s \in SUBSET (1..n)
                BY <3>2
            <4>2. g[s] = f[s]
                BY <3>2
            <4>3. CASE s = {}
                <5>1. f[s] = base
                    BY <2>0, <4>1, <4>3
                <5>. QED BY <4>2, <4>3, <5>1
            <4>4. CASE s # {}
                <5>1. Max(s) \in s
                    BY <4>1, <4>4, MaxOfSubset
                <5>. DEFINE r == s \ {Max(s)}
                <5>2. r \in SUBSET (1..n) /\ r \in SUBSET (1..(n + 1)) /\ n + 1 \notin r
                    <6>1. r \subseteq s
                        OBVIOUS
                    <6>. HIDE DEF r
                    <6>. QED BY <4>1, <6>1
                <5>3. g[r] = f[r]
                    BY <5>2
                <5>4. f[s] = Op(f[r], seq[Max(s)])
                    BY <2>0, <4>1, <4>4
                <5>. HIDE DEF g, r
                <5>5. g[s] = Op(g[r], seq[Max(s)])
                    BY <4>2, <5>3, <5>4
                <5>. QED BY <4>4, <5>5 DEF r
            <4>. QED BY <4>3, <4>4
        <3>. QED BY <3>1, <3>2
    <2>3. g = Folding(base, seq, n + 1, g)
        <3>1. g = [s \in SUBSET (1..(n + 1)) |-> g[s]]
            OBVIOUS
        <3>. HIDE DEF g
        <3>. QED BY <2>2, <3>1 DEF Folding
    <2>. HIDE DEF g
    <2>. QED BY <2>3
<1>3. len \in S
    <2>. HIDE DEF S
    <2>. QED BY <1>1, <1>2, SetInduction
<1>. QED BY <1>3

(* A fold from the left goes through the values of its prefixes.           *)
THEOREM FoldOfPrefixes ==
    ASSUME NEW V, NEW base, NEW seq \in Seq(V)
    PROVE  \E f : /\ f[0] = base
                  /\ \A n \in 0..(Len(seq) - 1) : f[n + 1] = Op(f[n], seq[n + 1])
                  /\ f[Len(seq)] = Folded(base, seq)
<1>. DEFINE D == DOMAIN seq
            f == CHOOSE h : h = Folding(base, seq, Len(seq), h)
            g == [n \in 0..Len(seq) |-> f[1..n]]
<1>1. D = 1..Len(seq) /\ Len(seq) \in Nat
    OBVIOUS
<1>2. Folded(base, seq) = f[D]
    BY <1>1 DEF Folded, FoldLeft, MapThenFoldSet, Folding
<1>3. f = Folding(base, seq, Len(seq), f)
    BY <1>1, FoldingHasSolution, Zenon
<1>. HIDE DEF f
<1>4. \A s \in SUBSET D : f[s] = IF s = {} THEN base ELSE Op(f[s \ {Max(s)}], seq[Max(s)])
    BY <1>1, <1>3 DEF Folding
<1>5. g[0] = base
    <2>1. 1..0 = {} /\ 1..0 \in SUBSET D
        OBVIOUS
    <2>2. f[1..0] = base
        BY <1>4, <2>1
    <2>. QED BY <1>1, <2>2
<1>6. ASSUME NEW n \in 0..(Len(seq) - 1) PROVE g[n + 1] = Op(g[n], seq[n + 1])
    <2>1. n \in Nat /\ n \in 0..Len(seq) /\ n + 1 \in 0..Len(seq) /\ n + 1 \in 1..(n + 1)
        BY <1>1
    <2>2. \A i \in 1..(n + 1) : i \in D
        BY <1>1, <2>1
    <2>3. 1..(n + 1) \in SUBSET D /\ 1..(n + 1) # {}
        BY <2>1, <2>2
    <2>4. Max(1..(n + 1)) = n + 1
        BY <2>1, MaxOfInterval
    <2>5. (1..(n + 1)) \ {n + 1} = 1..n
        BY <2>1
    <2>6. f[1..(n + 1)] = Op(f[1..n], seq[n + 1])
        BY <1>4, <2>3, <2>4, <2>5
    <2>. QED BY <2>1, <2>6
<1>7. g[Len(seq)] = Folded(base, seq)
    BY <1>1, <1>2
<1>. HIDE DEF g
<1>. QED BY <1>5, <1>6, <1>7, Zenon

(* Whatever every application keeps holds of the fold.                     *)
LEMMA FoldedKeeps ==
    ASSUME NEW V, NEW seq \in Seq(V), NEW T, NEW base \in T,
           \A x \in T, e \in V : Op(x, e) \in T
    PROVE  Folded(base, seq) \in T
<1>1. PICK f : /\ f[0] = base
               /\ \A n \in 0..(Len(seq) - 1) : f[n + 1] = Op(f[n], seq[n + 1])
               /\ f[Len(seq)] = Folded(base, seq)
    BY FoldOfPrefixes
<1>. DEFINE S == {n \in Nat : n <= Len(seq) => f[n] \in T}
<1>2. Len(seq) \in Nat
    OBVIOUS
<1>3. 0 \in S
    BY <1>1
<1>4. ASSUME NEW n \in Nat, n \in S PROVE n + 1 \in S
    <2>. SUFFICES ASSUME n + 1 <= Len(seq) PROVE f[n + 1] \in T
        OBVIOUS
    <2>1. f[n + 1] = Op(f[n], seq[n + 1]) /\ f[n] \in T /\ seq[n + 1] \in V
        BY <1>1, <1>2, <1>4
    <2>. QED BY <2>1
<1>5. Len(seq) \in S
    <2>. HIDE DEF S
    <2>. QED BY <1>2, <1>3, <1>4, SetInduction
<1>. QED BY <1>1, <1>2, <1>5

Skipped(e) == \A x : Op(x, e) = x

(* What the operator skips makes no difference, in the sequence or after   *)
(* its end.                                                                *)
LEMMA FoldedSkips ==
    ASSUME NEW V, NEW r \in Seq(V), NEW seq \in Seq(V), NEW base, Len(r) <= Len(seq),
           \A i \in 1..Len(r) : r[i] = seq[i] \/ (Skipped(r[i]) /\ Skipped(seq[i])),
           \A i \in 1..Len(seq) : i > Len(r) => Skipped(seq[i])
    PROVE  Folded(base, r) = Folded(base, seq)
<1>1. PICK f : /\ f[0] = base
               /\ \A n \in 0..(Len(r) - 1) : f[n + 1] = Op(f[n], r[n + 1])
               /\ f[Len(r)] = Folded(base, r)
    BY FoldOfPrefixes
<1>2. PICK g : /\ g[0] = base
               /\ \A n \in 0..(Len(seq) - 1) : g[n + 1] = Op(g[n], seq[n + 1])
               /\ g[Len(seq)] = Folded(base, seq)
    BY FoldOfPrefixes
<1>. DEFINE S == {n \in Nat : n <= Len(seq) => g[n] = IF n <= Len(r) THEN f[n] ELSE f[Len(r)]}
<1>3. Len(r) \in Nat /\ Len(seq) \in Nat
    OBVIOUS
<1>4. 0 \in S
    BY <1>1, <1>2, <1>3
<1>5. ASSUME NEW n \in Nat, n \in S PROVE n + 1 \in S
    <2>. SUFFICES ASSUME n + 1 <= Len(seq)
                  PROVE  g[n + 1] = IF n + 1 <= Len(r) THEN f[n + 1] ELSE f[Len(r)]
        OBVIOUS
    <2>1. g[n + 1] = Op(g[n], seq[n + 1]) /\ g[n] = IF n <= Len(r) THEN f[n] ELSE f[Len(r)]
        BY <1>2, <1>3, <1>5
    <2>2. CASE n + 1 <= Len(r)
        <3>1. f[n + 1] = Op(f[n], r[n + 1]) /\ g[n] = f[n]
            BY <1>1, <1>3, <2>1, <2>2
        <3>2. r[n + 1] = seq[n + 1] \/ (Skipped(r[n + 1]) /\ Skipped(seq[n + 1]))
            BY <1>3, <2>2
        <3>3. Op(f[n], seq[n + 1]) = Op(f[n], r[n + 1])
            BY <3>2 DEF Skipped
        <3>. QED BY <2>1, <2>2, <3>1, <3>3
    <2>3. CASE ~(n + 1 <= Len(r))
        <3>1. g[n] = f[Len(r)]
            BY <1>3, <2>1, <2>3
        <3>2. Skipped(seq[n + 1])
            BY <1>3, <2>3
        <3>3. Op(g[n], seq[n + 1]) = g[n]
            BY <3>2 DEF Skipped
        <3>. QED BY <2>1, <2>3, <3>1, <3>3
    <2>. QED BY <2>2, <2>3
<1>6. Len(seq) \in S
    <2>. HIDE DEF S
    <2>. QED BY <1>3, <1>4, <1>5, SetInduction
<1>. QED BY <1>1, <1>2, <1>3, <1>6
=============================================================================
