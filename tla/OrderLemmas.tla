----------------------------- MODULE OrderLemmas -----------------------------
(***************************************************************************)
(* Facts about numbers, sets of numbers and increasing sequences of them   *)
(* that the proofs about logs, prompts and pages need: sequence numbers    *)
(* and run numbers are what these keep things in order by.                 *)
(***************************************************************************)
EXTENDS SequencesExt, FiniteSetTheorems, SequenceTheorems, TLAPS

-----------------------------------------------------------------------------
(* Induction.  A set that is closed under adding one has every number: the rule
   with a set in place of a predicate. *)

LEMMA NatClosed ==
    ASSUME NEW S, 0 \in S, \A n \in Nat : n \in S => n + 1 \in S
    PROVE  \A n \in Nat : n \in S
<1> SUFFICES ASSUME NEW n \in Nat, n \notin S PROVE FALSE
  OBVIOUS
<1> DEFINE Out == {m \in Nat : m \notin S}
<1>1. Out \subseteq Nat /\ Out # {}
  OBVIOUS
<1>2. PICK k \in Out : \A j \in Out : <<j, k>> \notin OpToRel(<, Nat)
  BY <1>1, WFMin, NatLessThanWellFounded, Zenon
<1>3. \A j \in Out : ~(j < k)
  BY <1>1, <1>2, Zenon DEF OpToRel
<1>4. k \in Nat /\ k \notin S
  OBVIOUS
<1>5. k # 0 /\ k - 1 \in Nat
  BY <1>4
<1>6. k - 1 \in S
  BY <1>3, <1>5
<1>7. QED
  BY <1>4, <1>5, <1>6

\* Among finitely many numbers there is a last one.
LEMMA MaxElement ==
    ASSUME NEW n \in Nat, NEW S \in SUBSET (1..n), S # {}
    PROVE  Max(S) \in S /\ \A i \in S : i <= Max(S)
<1> DEFINE Above == {n - i : i \in S}
<1>1. Above \subseteq Nat /\ Above # {}
  <2>1. \A i \in S : n - i \in Nat
    OBVIOUS
  <2>2. PICK i \in S : TRUE
    OBVIOUS
  <2>3. n - i \in Above
    OBVIOUS
  <2>4. QED BY <2>1, <2>3
<1>2. PICK k \in Above : \A j \in Above : <<j, k>> \notin OpToRel(<, Nat)
  BY <1>1, WFMin, NatLessThanWellFounded, Zenon
<1>3. \A j \in Above : ~(j < k)
  BY <1>1, <1>2, Zenon DEF OpToRel
<1>4. \E m \in S : \A i \in S : m >= i
  <2>1. PICK m \in S : k = n - m
    OBVIOUS
  <2>2. ASSUME NEW i \in S PROVE m >= i
    <3>1. n - i \in Above
      OBVIOUS
    <3>2. ~(n - i < n - m)
      BY <1>3, <2>1, <3>1
    <3>3. QED BY <3>2
  <2>3. QED BY <2>2
<1>5. QED
  BY <1>4 DEF Max

\* The last number is the one that is not below another.
LEMMA MaxIs ==
    ASSUME NEW S \in SUBSET Nat, NEW m \in S, \A i \in S : i <= m
    PROVE  Max(S) = m
<1>1. \E x \in S : \A y \in S : x >= y
  OBVIOUS
<1>2. Max(S) \in S /\ \A y \in S : Max(S) >= y
  BY <1>1 DEF Max
<1>3. Max(S) \in Nat /\ m \in Nat /\ Max(S) <= m /\ m <= Max(S)
  BY <1>2
<1>4. QED
  BY <1>3

-----------------------------------------------------------------------------
(* Increasing sequences *)

Increasing(s) == \A i, j \in DOMAIN s : i < j => s[i] < s[j]

\* Enumerates: s is the increasing sequence of the elements of S.
Enumerates(s, S) == s \in Seq(S) /\ Range(s) = S /\ Increasing(s)

LEMMA IncreasingInjective ==
    ASSUME NEW s \in Seq(Nat), Increasing(s), NEW i \in DOMAIN s, NEW j \in DOMAIN s
    PROVE  s[i] < s[j] <=> i < j
<1>1. DOMAIN s = 1..Len(s) /\ Len(s) \in Nat /\ s[i] \in Nat /\ s[j] \in Nat
  BY ElementOfSeq, LenProperties
<1>2. i \in Int /\ j \in Int
  BY <1>1
<1>3. CASE i < j
  BY <1>3 DEF Increasing
<1>4. CASE i = j
  BY <1>1, <1>4
<1>5. CASE j < i
  BY <1>1, <1>5 DEF Increasing
<1>6. QED BY <1>2, <1>3, <1>4, <1>5

\* A number further on adds one at the end.
LEMMA EnumeratesMore ==
    ASSUME NEW S \in SUBSET Nat, NEW s, Enumerates(s, S),
           NEW n \in Nat, \A i \in S : i < n
    PROVE  Enumerates(Append(s, n), S \cup {n})
<1> DEFINE t == Append(s, n)
<1>1. s \in Seq(Nat) /\ Len(s) \in Nat /\ DOMAIN s = 1..Len(s)
  BY LenProperties, SeqMonotonic DEF Enumerates
<1>2. /\ t \in Seq(Nat) /\ Len(t) = Len(s) + 1 /\ DOMAIN t = 1..(Len(s) + 1)
      /\ \A i \in 1..Len(s) : t[i] = s[i]
      /\ t[Len(s) + 1] = n
  BY <1>1, AppendProperties
<1> HIDE DEF t
<1>3. \A i \in 1..Len(s) : s[i] \in S
  BY <1>1 DEF Enumerates, Range
<1>4. Increasing(t)
  BY <1>1, <1>2, <1>3 DEF Increasing, Enumerates
<1>5. Range(t) = S \cup {n}
  <2>1. ASSUME NEW x \in S \cup {n} PROVE x \in Range(t)
    <3>1. CASE x = n
      <4>1. Len(s) + 1 \in DOMAIN t
        BY <1>1, <1>2
      <4>2. QED BY <1>2, <3>1, <4>1 DEF Range
    <3>2. CASE x \in S
      <4>1. PICK i \in 1..Len(s) : s[i] = x
        BY <1>1, <3>2 DEF Enumerates, Range
      <4>2. i \in DOMAIN t /\ t[i] = x
        BY <1>1, <1>2, <4>1
      <4>3. QED BY <4>2 DEF Range
    <3>3. QED BY <3>1, <3>2
  <2>2. ASSUME NEW x \in Range(t) PROVE x \in S \cup {n}
    <3>1. PICK i \in 1..(Len(s) + 1) : t[i] = x
      BY <1>2, <2>2 DEF Range
    <3>2. QED BY <1>1, <1>2, <1>3, <3>1
  <2>3. QED BY <2>1, <2>2
<1>6. \A i \in 1..Len(t) : t[i] \in S \cup {n}
  BY <1>2, <1>5 DEF Range
<1>7. t \in Seq(S \cup {n})
  BY <1>2, <1>6, IsASeq, SeqEqual
<1>8. QED
  BY <1>4, <1>5, <1>7 DEF Enumerates, t

\* As many elements as places.
LEMMA ImageOfInterval ==
    ASSUME NEW s \in Seq(Nat), Increasing(s), NEW a \in Nat, NEW b \in Nat,
           a..b \subseteq DOMAIN s
    PROVE  LET T == {s[j] : j \in a..b}
           IN  IsFiniteSet(T) /\ Cardinality(T) = IF a > b THEN 0 ELSE b - a + 1
<1> DEFINE T == {s[j] : j \in a..b}
           f == [j \in a..b |-> s[j]]
<1>1. \A i, j \in a..b : s[i] = s[j] => i = j
  <2> SUFFICES ASSUME NEW i \in a..b, NEW j \in a..b, s[i] = s[j] PROVE i = j
    OBVIOUS
  <2>1. s[i] \in Nat /\ i \in DOMAIN s /\ j \in DOMAIN s
    BY ElementOfSeq, LenProperties
  <2>2. ~(i < j) /\ ~(j < i)
    BY <2>1 DEF Increasing
  <2>3. QED BY <2>2
<1>2. f \in Bijection(a..b, T)
  <2>1. f \in [a..b -> T]
    OBVIOUS
  <2>2. f \in Injection(a..b, T)
    BY <1>1, <2>1 DEF Injection, IsInjective
  <2>3. \A t \in T : \E j \in a..b : f[j] = t
    OBVIOUS
  <2>4. f \in Surjection(a..b, T)
    BY <2>1, <2>3 DEF Surjection
  <2>5. QED BY <2>2, <2>4 DEF Bijection
<1>3. IsFiniteSet(a..b) /\ Cardinality(a..b) = IF a > b THEN 0 ELSE b - a + 1
  BY FS_Interval
<1>4. ExistsBijection(a..b, T)
  BY <1>2 DEF ExistsBijection
<1>5. IsFiniteSet(T) /\ Cardinality(T) = Cardinality(a..b)
  BY <1>3, <1>4, FS_Bijection, Zenon
<1>6. QED
  BY <1>3, <1>5

\* The place of an element tells how many are below and above it.
LEMMA Ranks ==
    ASSUME NEW S \in SUBSET Nat, NEW s, Enumerates(s, S)
    PROVE  /\ IsFiniteSet(S) /\ Cardinality(S) = Len(s)
           /\ \A i \in 1..Len(s) :
                  /\ Cardinality({x \in S : x < s[i]}) = i - 1
                  /\ Cardinality({x \in S : x > s[i]}) = Len(s) - i
<1>1. s \in Seq(Nat) /\ Len(s) \in Nat /\ DOMAIN s = 1..Len(s) /\ Increasing(s)
  BY LenProperties, SeqMonotonic DEF Enumerates
<1>2. S = {s[j] : j \in 1..Len(s)}
  BY <1>1 DEF Enumerates, Range
<1>3. IsFiniteSet(S) /\ Cardinality(S) = Len(s)
  <2>1. 1..Len(s) \subseteq DOMAIN s /\ 1 \in Nat
    BY <1>1
  <2>2. /\ IsFiniteSet({s[j] : j \in 1..Len(s)})
        /\ Cardinality({s[j] : j \in 1..Len(s)}) = IF 1 > Len(s) THEN 0 ELSE Len(s) - 1 + 1
    BY <1>1, <2>1, ImageOfInterval
  <2>3. Cardinality({s[j] : j \in 1..Len(s)}) = Len(s)
    BY <1>1, <2>2
  <2>4. QED BY <1>2, <2>2, <2>3
<1>4. ASSUME NEW i \in 1..Len(s)
      PROVE  /\ Cardinality({x \in S : x < s[i]}) = i - 1
             /\ Cardinality({x \in S : x > s[i]}) = Len(s) - i
  <2>1. \A j \in 1..Len(s) : s[j] < s[i] <=> j < i
    BY <1>1, IncreasingInjective
  <2>2. \A j \in 1..Len(s) : s[i] < s[j] <=> i < j
    BY <1>1, IncreasingInjective
  <2>3. {x \in S : x < s[i]} = {s[j] : j \in 1..(i - 1)}
    BY <1>1, <1>2, <2>1
  <2>4. {x \in S : x > s[i]} = {s[j] : j \in (i + 1)..Len(s)}
    <3>1. \A j \in 1..Len(s) : s[j] \in Nat /\ s[i] \in Nat
      BY <1>1, ElementOfSeq
    <3>2. \A j \in 1..Len(s) : s[j] > s[i] <=> i < j
      BY <2>2, <3>1
    <3>3. QED BY <1>1, <1>2, <3>2
  <2>5. 1..(i - 1) \subseteq DOMAIN s /\ (i + 1)..Len(s) \subseteq DOMAIN s
        /\ i - 1 \in Nat /\ i + 1 \in Nat
    BY <1>1
  <2>6. Cardinality({s[j] : j \in 1..(i - 1)}) = IF 1 > i - 1 THEN 0 ELSE (i - 1) - 1 + 1
    BY <1>1, <2>5, ImageOfInterval
  <2>7. Cardinality({s[j] : j \in (i + 1)..Len(s)}) =
            IF i + 1 > Len(s) THEN 0 ELSE Len(s) - (i + 1) + 1
    BY <1>1, <2>5, ImageOfInterval
  <2>8. Cardinality({s[j] : j \in 1..(i - 1)}) = i - 1
    BY <1>1, <2>6
  <2>9. Cardinality({s[j] : j \in (i + 1)..Len(s)}) = Len(s) - i
    BY <1>1, <2>7
  <2>10. QED
    BY <2>3, <2>4, <2>8, <2>9
<1>5. QED
  BY <1>3, <1>4

\* There is one enumeration of a set.
LEMMA EnumerationUnique ==
    ASSUME NEW S \in SUBSET Nat, NEW s, NEW t, Enumerates(s, S), Enumerates(t, S)
    PROVE  s = t
<1>1. /\ s \in Seq(S) /\ t \in Seq(S) /\ Len(s) = Len(t) /\ Len(s) \in Nat
      /\ DOMAIN s = 1..Len(s) /\ DOMAIN t = 1..Len(s)
  BY Ranks, LenProperties DEF Enumerates
<1>2. ASSUME NEW i \in 1..Len(s) PROVE s[i] = t[i]
  <2>1. s[i] \in Range(t)
    BY <1>1 DEF Enumerates, Range
  <2>2. PICK j \in 1..Len(s) : s[i] = t[j]
    BY <1>1, <2>1 DEF Range
  <2>3. Cardinality({x \in S : x < s[i]}) = i - 1
    BY Ranks
  <2>4. Cardinality({x \in S : x < t[j]}) = j - 1
    BY <1>1, Ranks
  <2>5. QED BY <2>2, <2>3, <2>4
<1>3. QED
  BY <1>1, <1>2, SeqEqual

=============================================================================
