----------------------------- MODULE ListFacts -----------------------------
(***************************************************************************)
(* Facts about lists and tables that the proofs of several components use: *)
(* the smallest index with a property, and what appending to a list and    *)
(* taking its first entry leave in it.                                     *)
(***************************************************************************)
EXTENDS Integers, Sequences, FiniteSets, FiniteSetsExt, SequencesExt,
        SequenceTheorems, WellFoundedInduction, TLAPS

(* A set of numbers that is not empty has a smallest one.                  *)
LEMMA MinInSet ==
  ASSUME NEW S \in SUBSET Nat, S # {}
  PROVE  Min(S) \in S /\ \A y \in S : Min(S) <= y
<1>1. \E x \in S : \A y \in S : ~ (<<y, x>> \in OpToRel(<, Nat))
  BY NatLessThanWellFounded, WFMin
<1>2. PICK x \in S : \A y \in S : ~ (<<y, x>> \in OpToRel(<, Nat))
  BY <1>1
<1>3. \A y \in S : x <= y
  <2> SUFFICES ASSUME NEW y \in S, y < x
               PROVE  FALSE
    OBVIOUS
  <2>1. OpToRel(<, Nat) = {ss \in Nat \X Nat : ss[1] < ss[2]}
    BY Zenon DEF OpToRel
  <2>2. <<y, x>> \in {ss \in Nat \X Nat : ss[1] < ss[2]}
    OBVIOUS
  <2>3. QED BY <1>2, <2>1, <2>2, Zenon
<1>4. QED BY <1>3 DEF Min

(* A search that returns 0 when it finds nothing returns the place of      *)
(* something it looks for otherwise.                                       *)
LEMMA FirstOrZero ==
  ASSUME NEW S \in SUBSET (Nat \ {0}), NEW i, i = IF S = {} THEN 0 ELSE Min(S)
  PROVE  /\ i \in S \cup {0}
         /\ i = 0 <=> S = {}
BY MinInSet

(* The largest number of a set, when one is known.                         *)
LEMMA MaxIs ==
  ASSUME NEW S \in SUBSET Int, NEW m \in S, \A x \in S : x <= m
  PROVE  Max(S) = m
<1>1. \A x \in S : (\A y \in S : x >= y) => x = m
  OBVIOUS
<1>2. \A y \in S : m >= y
  OBVIOUS
<1>3. QED BY <1>1, <1>2 DEF Max

(* A list over a set is a list over a larger one.                          *)
LEMMA SeqWider ==
  ASSUME NEW S, NEW T, S \subseteq T, NEW s \in Seq(S)
  PROVE  s \in Seq(T)
OBVIOUS

(* list_del of the i-th entry, by position: the entries after it move up.  *)
LEMMA RemoveAtIndices ==
  ASSUME NEW T, NEW s \in Seq(T), NEW i \in 1 .. Len(s)
  PROVE  /\ RemoveAt(s, i) \in Seq(T)
         /\ Len(RemoveAt(s, i)) = Len(s) - 1
         /\ \A j \in 1 .. Len(s) - 1 :
              RemoveAt(s, i)[j] = IF j < i THEN s[j] ELSE s[j + 1]
<1> DEFINE a == SubSeq(s, 1, i - 1)
           b == SubSeq(s, i + 1, Len(s))
<1>1. /\ a \in Seq(T) /\ Len(a) = i - 1
      /\ \A j \in 1 .. i - 1 : a[j] = s[j]
  OBVIOUS
<1>2. /\ b \in Seq(T) /\ Len(b) = Len(s) - i
      /\ \A j \in 1 .. Len(s) - i : b[j] = s[i + j]
  OBVIOUS
<1> HIDE DEF a, b
<1>3. /\ a \o b \in Seq(T)
      /\ Len(a \o b) = Len(a) + Len(b)
      /\ \A j \in 1 .. Len(a) + Len(b) :
           (a \o b)[j] = IF j <= Len(a) THEN a[j] ELSE b[j - Len(a)]
  BY <1>1, <1>2, ConcatProperties
<1>4. ASSUME NEW j \in 1 .. Len(s) - 1
      PROVE  (a \o b)[j] = IF j < i THEN s[j] ELSE s[j + 1]
  <2>1. CASE j < i
    BY <2>1, <1>3, <1>1, <1>2
  <2>2. CASE ~(j < i)
    <3>1. j - (i - 1) \in 1 .. Len(s) - i
      BY <2>2
    <3>2. b[j - (i - 1)] = s[i + (j - (i - 1))] /\ i + (j - (i - 1)) = j + 1
      BY <3>1, <1>2
    <3>3. QED BY <2>2, <3>1, <3>2, <1>3, <1>1, <1>2
  <2>3. QED BY <2>1, <2>2
<1>5. RemoveAt(s, i) = a \o b
  BY DEF RemoveAt, a, b
<1>6. Len(a \o b) = Len(s) - 1
  BY <1>1, <1>2, <1>3
<1>7. QED BY <1>3, <1>4, <1>5, <1>6

(* And by entry: one entry less, the others stay, none new.                *)
LEMMA RemoveAtProperties ==
  ASSUME NEW T, NEW s \in Seq(T), NEW i \in 1 .. Len(s)
  PROVE  /\ RemoveAt(s, i) \in Seq(T)
         /\ Len(RemoveAt(s, i)) = Len(s) - 1
         /\ ToSet(RemoveAt(s, i)) \subseteq ToSet(s)
         /\ \A t \in ToSet(s) : t # s[i] => t \in ToSet(RemoveAt(s, i))
<1> DEFINE r == RemoveAt(s, i)
<1>5. r \in Seq(T) /\ Len(r) = Len(s) - 1
      /\ (\A j \in 1 .. Len(s) - 1 : j < i => r[j] = s[j])
      /\ (\A j \in 1 .. Len(s) - 1 : ~(j < i) => r[j] = s[j + 1])
  BY RemoveAtIndices
<1> HIDE DEF r
<1>6. /\ \A x : x \in ToSet(s) <=> \E j \in 1 .. Len(s) : x = s[j]
      /\ \A x : x \in ToSet(r) <=> \E j \in 1 .. Len(s) - 1 : x = r[j]
  <2>1. DOMAIN s = 1 .. Len(s) /\ DOMAIN r = 1 .. Len(r)
    BY <1>5
  <2>2. QED BY <2>1, <1>5 DEF ToSet
<1>7. ASSUME NEW t \in ToSet(s), t # s[i]
      PROVE  t \in ToSet(r)
  <2>1. PICK j \in 1 .. Len(s) : t = s[j]
    BY <1>6
  <2>2. CASE j < i
    <3>1. j \in 1 .. Len(s) - 1 /\ r[j] = s[j]
      BY <2>2, <1>5
    <3>2. QED BY <3>1, <2>1, <1>6
  <2>3. CASE j > i
    <3>1. j - 1 \in 1 .. Len(s) - 1 /\ ~(j - 1 < i) /\ (j - 1) + 1 = j
      BY <2>3
    <3>2. r[j - 1] = s[j]
      BY <3>1, <1>5
    <3>3. QED BY <3>1, <3>2, <2>1, <1>6
  <2>4. QED BY <2>1, <2>2, <2>3, <1>7
<1>8. ASSUME NEW t \in ToSet(r)
      PROVE  t \in ToSet(s)
  <2>1. PICK j \in 1 .. Len(s) - 1 : t = r[j]
    BY <1>6
  <2>2. j \in 1 .. Len(s) /\ j + 1 \in 1 .. Len(s) /\ (t = s[j] \/ t = s[j + 1])
    BY <2>1, <1>5
  <2>3. QED BY <2>2, <1>6
<1>9. QED BY <1>5, <1>7, <1>8 DEF r

(* list_add_tail.                                                          *)
LEMMA AppendedProperties ==
  ASSUME NEW T, NEW s \in Seq(T), NEW x \in T
  PROVE  /\ Append(s, x) \in Seq(T)
         /\ Len(Append(s, x)) = Len(s) + 1
         /\ ToSet(Append(s, x)) = ToSet(s) \cup {x}
<1>1. /\ Append(s, x) \in Seq(T)
      /\ Len(Append(s, x)) = Len(s) + 1
      /\ \A i \in 1 .. Len(s) : Append(s, x)[i] = s[i]
      /\ Append(s, x)[Len(s) + 1] = x
      /\ DOMAIN Append(s, x) = 1 .. Len(s) + 1
      /\ DOMAIN s = 1 .. Len(s)
      /\ Len(s) \in Nat
  OBVIOUS
<1>2. QED BY <1>1 DEF ToSet

(* An entry is in the set of its list.                                     *)
LEMMA InToSet ==
  ASSUME NEW T, NEW s \in Seq(T), NEW i \in 1 .. Len(s)
  PROVE  s[i] \in T /\ s[i] \in ToSet(s)
BY DEF ToSet

(* The entries of a typed list have its type.                              *)
LEMMA ToSetInT ==
  ASSUME NEW T, NEW s \in Seq(T)
  PROVE  ToSet(s) \subseteq T
BY DEF ToSet

(* A list whose entries are replaced one for one.                          *)
LEMMA MapProperties ==
  ASSUME NEW T, NEW n \in Nat, NEW g \in [1 .. n -> T]
  PROVE  /\ g \in Seq(T)
         /\ Len(g) = n
         /\ ToSet(g) = {g[i] : i \in 1 .. n}
BY DEF ToSet

(* Domains of the typed lists.                                             *)
LEMMA ListDomain ==
  ASSUME NEW T, NEW s \in Seq(T)
  PROVE  DOMAIN s = 1 .. Len(s) /\ Len(s) \in Nat
OBVIOUS

(* A list without entries.                                                 *)
LEMMA EmptyList ==
  ASSUME NEW T, NEW s \in Seq(T), Len(s) = 0
  PROVE  ToSet(s) = {}
BY ListDomain DEF ToSet

(* list_first_entry and list_del: the first entry goes, the others stay.   *)
LEMMA DequeuedProperties ==
  ASSUME NEW S, NEW s \in Seq(S), s # <<>>
  PROVE  /\ Tail(s) \in Seq(S) /\ Head(s) \in S
         /\ Len(Tail(s)) = Len(s) - 1
         /\ Len(s) > 0
         /\ ToSet(s) = ToSet(Tail(s)) \cup {Head(s)}
<1> DEFINE t == Tail(s)
<1>1. /\ t \in Seq(S) /\ Len(t) = Len(s) - 1 /\ Len(s) \in Nat \ {0}
      /\ \A i \in 1 .. Len(s) - 1 : t[i] = s[i + 1]
      /\ Head(s) = s[1] /\ s[1] \in S
  OBVIOUS
<1>2. DOMAIN s = 1 .. Len(s) /\ DOMAIN t = 1 .. Len(s) - 1
  BY <1>1
<1> HIDE DEF t
<1>3. \A x : x \in ToSet(t) <=> \E i \in 1 .. Len(s) - 1 : x = t[i]
  BY <1>2 DEF ToSet
<1>4. \A x : x \in ToSet(s) <=> \E i \in 1 .. Len(s) : x = s[i]
  BY <1>2 DEF ToSet
<1>5. ToSet(s) \subseteq ToSet(t) \cup {Head(s)}
  <2>1. ASSUME NEW x \in ToSet(s), x # s[1] PROVE x \in ToSet(t)
    <3>1. PICK i \in 1 .. Len(s) : x = s[i]
      BY <1>4
    <3>2. i - 1 \in 1 .. Len(s) - 1 /\ t[i - 1] = s[i]
      <4>1. i - 1 \in 1 .. Len(s) - 1 /\ (i - 1) + 1 = i
        BY <3>1, <2>1, <1>1
      <4>2. QED BY <4>1, <1>1
    <3>3. QED BY <3>1, <3>2, <1>3
  <2>2. QED BY <2>1, <1>1
<1>6. ToSet(t) \cup {Head(s)} \subseteq ToSet(s)
  <2>1. ASSUME NEW x \in ToSet(t) PROVE x \in ToSet(s)
    <3>1. PICK i \in 1 .. Len(s) - 1 : x = t[i]
      BY <1>3
    <3>2. i + 1 \in 1 .. Len(s) /\ x = s[i + 1]
      BY <3>1, <1>1
    <3>3. QED BY <3>2, <1>4
  <2>2. Head(s) \in ToSet(s)
    <3>1. 1 \in 1 .. Len(s)
      BY <1>1
    <3>2. QED BY <3>1, <1>1, <1>4
  <2>3. QED BY <2>1, <2>2
<1>7. QED BY <1>1, <1>5, <1>6 DEF t
=============================================================================
