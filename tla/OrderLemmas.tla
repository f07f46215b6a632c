---------------------------- MODULE OrderLemmas ----------------------------
(***************************************************************************)
(* Facts about order that the proofs about several components need: the    *)
(* least number of a set, where the messages of a topic stand when one     *)
(* more is sent, and how many there are.                                   *)
(***************************************************************************)
EXTENDS Integers, Sequences, FiniteSetTheorems, WellFoundedInduction, TLAPS

-----------------------------------------------------------------------------
\* A set of naturals has a least element.
LEMMA Least ==
    ASSUME NEW T, T \subseteq Nat, T # {}
    PROVE  \E x \in T : \A y \in T : x <= y
<1> DEFINE R == {pair \in Nat \X Nat : pair[1] < pair[2]}
<1>1. IsWellFoundedOn(R, Nat)
  BY NatLessThanWellFounded DEF OpToRel
<1>2. PICK x \in T : \A y \in T : <<y, x>> \notin R
  <2> HIDE DEF R
  <2> QED BY <1>1, WFMin
<1>3. \A y \in T : ~ (y < x)
  BY <1>2
<1> QED BY <1>3

\* A bounded set of naturals has a greatest element.
LEMMA Greatest ==
    ASSUME NEW T, NEW n \in Nat, T \subseteq 0..n, T # {}
    PROVE  \E x \in T : \A y \in T : y <= x
<1> DEFINE D == {n - y : y \in T}
<1>1. D \subseteq Nat /\ D # {}
  <2>1. \A y \in T : y \in Int /\ n - y \in Nat
    OBVIOUS
  <2>2. PICK y \in T : TRUE
    OBVIOUS
  <2> QED BY <2>1, <2>2
<1>2. PICK d \in D : \A y \in D : d <= y
  <2> HIDE DEF D
  <2> QED BY <1>1, Least
<1>3. PICK x \in T : d = n - x
  BY <1>2
<1>4. ASSUME NEW y \in T PROVE y <= x
  <2>1. n - y \in D
    OBVIOUS
  <2>2. n - x <= n - y
    BY <1>2, <1>3, <2>1
  <2> QED BY <2>2
<1> QED BY <1>4

-----------------------------------------------------------------------------
Elements(s) == {s[i] : i \in 1..Len(s)}

\* Where everything is after a message more.
LEMMA Appended ==
    ASSUME NEW S, NEW s \in Seq(S), NEW x \in S, NEW t, t = Append(s, x)
    PROVE  /\ t \in Seq(S)
           /\ Len(t) = Len(s) + 1 /\ Len(s) \in Nat
           /\ \A i \in 1..Len(s) : t[i] = s[i]
           /\ \A i \in 1..Len(t) : i > Len(s) => t[i] = x
OBVIOUS

\* A transmission adds its message to the topic, at the end.
LEMMA AppendGrows ==
    ASSUME NEW S, NEW s \in Seq(S), NEW x \in S
    PROVE  /\ Append(s, x) \in Seq(S)
           /\ Elements(Append(s, x)) = Elements(s) \cup {x}
           /\ Append(s, x)[Len(Append(s, x))] = x
<1> DEFINE t == Append(s, x)
<1>1. /\ t \in Seq(S)
      /\ Len(t) = Len(s) + 1
      /\ \A i \in 1..Len(s) : t[i] = s[i]
      /\ \A i \in 1..Len(t) : i > Len(s) => t[i] = x
  BY Appended
<1> HIDE DEF t
<1>2. Len(s) \in Nat /\ Len(t) \in 1..Len(t)
  BY <1>1
<1>3. Elements(t) \subseteq Elements(s) \cup {x}
  BY <1>1, <1>2 DEF Elements
<1>4. Elements(s) \subseteq Elements(t)
  BY <1>1, <1>2 DEF Elements
<1>5. x \in Elements(t) /\ t[Len(t)] = x
  BY <1>1, <1>2 DEF Elements
<1> QED BY <1>1, <1>3, <1>4, <1>5 DEF t

\* Every x in s has a y after it.
Outlasts(s, y, x) ==
    \A i \in 1..Len(s) : s[i] = x => \E j \in i + 1..Len(s) : s[j] = y

\* It goes on to have one as long as x is not sent again.
LEMMA OutlastsStays ==
    ASSUME NEW S, NEW s \in Seq(S), NEW z \in S, NEW t, t = Append(s, z),
           NEW x, NEW y, z # x, Outlasts(s, y, x)
    PROVE  Outlasts(t, y, x)
<1>1. /\ Len(t) = Len(s) + 1
      /\ \A i \in 1..Len(s) : t[i] = s[i]
      /\ \A i \in 1..Len(t) : i > Len(s) => t[i] = z
      /\ Len(s) \in Nat
  BY Appended
<1>2. ASSUME NEW i \in 1..Len(t), t[i] = x
      PROVE  \E j \in i + 1..Len(t) : t[j] = y
  <2>1. i \in 1..Len(s)
    BY <1>1, <1>2
  <2>2. PICK j \in i + 1..Len(s) : s[j] = y
    BY <1>1, <1>2, <2>1 DEF Outlasts
  <2>3. j \in 1..Len(s) /\ j \in i + 1..Len(t)
    BY <1>1, <2>1, <2>2
  <2> QED BY <1>1, <2>2, <2>3
<1> QED BY <1>2 DEF Outlasts

\* What is sent now comes after everything else.
LEMMA NewestOutlasts ==
    ASSUME NEW S, NEW s \in Seq(S), NEW y \in S, NEW t, t = Append(s, y), NEW x, y # x
    PROVE  Outlasts(t, y, x)
<1>1. /\ Len(t) = Len(s) + 1
      /\ \A i \in 1..Len(t) : i > Len(s) => t[i] = y
      /\ Len(s) \in Nat
  BY Appended
<1>2. ASSUME NEW i \in 1..Len(t), t[i] = x
      PROVE  Len(t) \in i + 1..Len(t) /\ t[Len(t)] = y
  BY <1>1, <1>2
<1> QED BY <1>2 DEF Outlasts

\* A message that was sent has a last position.
LEMMA LastPosition ==
    ASSUME NEW S, NEW s \in Seq(S), NEW x \in Elements(s)
    PROVE  \E i \in 1..Len(s) : s[i] = x /\ \A j \in i + 1..Len(s) : s[j] # x
<1> DEFINE T == {i \in 1..Len(s) : s[i] = x}
<1>1. T \subseteq 0..Len(s) /\ T # {} /\ Len(s) \in Nat
  BY DEF Elements
<1>2. PICK i \in T : \A j \in T : j <= i
  <2> HIDE DEF T
  <2> QED BY <1>1, Greatest
<1>3. ASSUME NEW j \in i + 1..Len(s) PROVE s[j] # x
  BY <1>1, <1>2
<1> QED BY <1>2, <1>3

-----------------------------------------------------------------------------
\* Where x stands in s.
Places(s, x) == {i \in 1..Len(s) : s[i] = x}

\* They can be counted.
LEMMA PlacesFinite ==
    ASSUME NEW S, NEW s \in Seq(S), NEW x
    PROVE  IsFiniteSet(Places(s, x)) /\ Cardinality(Places(s, x)) \in Nat
<1>1. IsFiniteSet(1..Len(s))
  BY FS_Interval
<1>2. IsFiniteSet(Places(s, x))
  BY <1>1, FS_Subset DEF Places
<1> QED BY <1>2, FS_CardinalityType

\* A message more is one place more for it and none for another.
LEMMA AppendCounts ==
    ASSUME NEW S, NEW s \in Seq(S), NEW x \in S
    PROVE  /\ Cardinality(Places(Append(s, x), x)) = Cardinality(Places(s, x)) + 1
           /\ \A y : y # x => Places(Append(s, x), y) = Places(s, y)
<1> DEFINE t == Append(s, x)
<1>1. /\ t \in Seq(S)
      /\ Len(t) = Len(s) + 1 /\ Len(s) \in Nat
      /\ \A i \in 1..Len(s) : t[i] = s[i]
      /\ t[Len(s) + 1] = x
  BY Appended
<1> HIDE DEF t
<1>2. Places(t, x) = Places(s, x) \cup {Len(s) + 1}
  BY <1>1 DEF Places
<1>3. Len(s) + 1 \notin Places(s, x)
  BY <1>1 DEF Places
<1>4. Cardinality(Places(t, x)) = Cardinality(Places(s, x)) + 1
  BY <1>2, <1>3, PlacesFinite, FS_AddElement
<1>5. ASSUME NEW y, y # x PROVE Places(t, y) = Places(s, y)
  BY <1>1, <1>5 DEF Places
<1> QED BY <1>4, <1>5 DEF t
=============================================================================
