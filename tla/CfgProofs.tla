------------------------------ MODULE CfgProofs ------------------------------
(***************************************************************************)
(* Proofs about the configuration, for files of any length with any lines, *)
(* all addresses and every answer of the driver.                           *)
(***************************************************************************)
EXTENDS Cfg, ListFacts

(* The largest number of a set of positions.                               *)
LEMMA MaxInSet ==
  ASSUME NEW n \in Nat, NEW S \in SUBSET (1 .. n), S # {}
  PROVE  Max(S) \in S /\ \A x \in S : x <= Max(S)
<1> DEFINE T == {n - x : x \in S}
<1>1. T \in SUBSET Nat /\ T # {}
  OBVIOUS
<1>2. Min(T) \in T /\ \A y \in T : Min(T) <= y
  BY <1>1, MinInSet
<1>3. PICK x \in S : Min(T) = n - x
  BY <1>2
<1>4. \A y \in S : y <= x
  <2>1. \A y \in S : n - x <= n - y
    BY <1>2, <1>3
  <2>2. QED BY <2>1
<1>5. Max(S) = x
  BY <1>4, MaxIs
<1>6. QED BY <1>4, <1>5
-----------------------------------------------------------------------------
(* A list without its empty lines is a list of the same lines.  The        *)
(* recursive function exists up to every length, and the one that is       *)
(* chosen has lists as its values: in both cases there is no smallest      *)
(* length at which it fails.                                               *)
LEMMA NonEmptyIsList ==
  ASSUME NEW T, NEW s \in Seq(T)
  PROVE  NonEmpty(s) \in Seq(T)
<1> DEFINE Kept(g, n) == IF n = 0 THEN <<>>
                         ELSE IF s[n] = <<>> THEN g[n - 1] ELSE Append(g[n - 1], s[n])
           Good(k) == \E g \in [0 .. k -> Seq(T)] : g = [n \in 0 .. k |-> Kept(g, n)]
           Bad == {k \in 0 .. Len(s) : ~Good(k)}
<1>1. ASSUME Bad # {}
      PROVE  FALSE
  <2>1. PICK k \in Bad : \A j \in Bad : k <= j
    <3>1. Bad \in SUBSET Nat
      OBVIOUS
    <3> HIDE DEF Bad
    <3>2. QED BY <1>1, <3>1, MinInSet
  <2>2. CASE k = 0
    <3>1. [n \in 0 .. 0 |-> <<>>] \in [0 .. 0 -> Seq(T)]
      OBVIOUS
    <3>2. [n \in 0 .. 0 |-> <<>>] = [n \in 0 .. 0 |-> Kept([i \in 0 .. 0 |-> <<>>], n)]
      OBVIOUS
    <3>3. QED BY <2>1, <2>2, <3>1, <3>2
  <2>3. CASE k # 0
    <3>1. k - 1 \in 0 .. Len(s) /\ k - 1 < k /\ k \in 1 .. Len(s)
      BY <2>1, <2>3
    <3>2. Good(k - 1)
      <4>1. k - 1 \notin Bad
        <5> HIDE DEF Bad
        <5> QED BY <2>1, <3>1
      <4> HIDE DEF Good
      <4>2. QED BY <3>1, <4>1
    <3>3. PICK g \in [0 .. k - 1 -> Seq(T)] : g = [n \in 0 .. k - 1 |-> Kept(g, n)]
      BY <3>2
    <3> DEFINE h == [n \in 0 .. k |-> IF n = k THEN Kept(g, k) ELSE g[n]]
    <3>4. Kept(g, k) \in Seq(T)
      <4>1. g[k - 1] \in Seq(T) /\ s[k] \in T
        BY <3>1
      <4>2. QED BY <3>1, <4>1
    <3>5. h \in [0 .. k -> Seq(T)]
      BY <3>1, <3>4
    <3>6. ASSUME NEW n \in 0 .. k
          PROVE  h[n] = Kept(h, n)
      <4>1. CASE n = k
        <5>1. k - 1 \in 0 .. k /\ h[k - 1] = g[k - 1]
          BY <3>1
        <5>2. h[k] = Kept(g, k)
          OBVIOUS
        <5>3. QED BY <4>1, <5>1, <5>2
      <4>2. CASE n # k
        <5>1. n \in 0 .. k - 1 /\ (n # 0 => n - 1 \in 0 .. k /\ n - 1 # k)
          BY <3>1, <4>2
        <5>2. h[n] = g[n] /\ Kept(h, n) = Kept(g, n)
          BY <4>2, <5>1
        <5>3. g[n] = Kept(g, n)
          <6> HIDE DEF Kept
          <6> QED BY <3>3, <5>1
        <5>4. QED BY <5>2, <5>3
      <4>3. QED BY <4>1, <4>2
    <3>7. Good(k)
      <4> HIDE DEF h, Kept
      <4>1. h = [n \in 0 .. k |-> Kept(h, n)]
        BY <3>5, <3>6
      <4>2. QED BY <3>5, <4>1
    <3>8. QED
      <4> HIDE DEF Good
      <4> QED BY <2>1, <3>7
  <2>4. QED BY <2>2, <2>3
<1> DEFINE kept == CHOOSE g : g = [n \in 0 .. Len(s) |-> Kept(g, n)]
<1>2. kept = [n \in 0 .. Len(s) |-> Kept(kept, n)]
  <2>1. \E g : g = [n \in 0 .. Len(s) |-> Kept(g, n)]
    <3> HIDE DEF Kept
    <3>1. Len(s) \in 0 .. Len(s)
      OBVIOUS
    <3>2. QED BY <1>1, <3>1
  <2> HIDE DEF Kept
  <2>2. QED BY <2>1, Zenon
<1>3. NonEmpty(s) = kept[Len(s)]
  BY Zenon DEF NonEmpty
<1> HIDE DEF kept
<1>4. ASSUME NEW n \in 0 .. Len(s)
      PROVE  kept[n] = Kept(kept, n)
  <2> HIDE DEF Kept
  <2> QED BY <1>2
<1> DEFINE Wrong == {k \in 0 .. Len(s) : kept[k] \notin Seq(T)}
<1>5. ASSUME Wrong # {}
      PROVE  FALSE
  <2>1. PICK k \in Wrong : \A j \in Wrong : k <= j
    <3>1. Wrong \in SUBSET Nat
      OBVIOUS
    <3> HIDE DEF Wrong
    <3>2. QED BY <1>5, <3>1, MinInSet
  <2>2. CASE k = 0
    <3>1. kept[0] = <<>>
      BY <1>4
    <3>2. <<>> \in Seq(T)
      OBVIOUS
    <3>3. QED BY <2>1, <2>2, <3>1, <3>2
  <2>3. CASE k # 0
    <3>1. k - 1 \in 0 .. Len(s) /\ k - 1 < k /\ k \in 1 .. Len(s)
      BY <2>1, <2>3
    <3>2. kept[k - 1] \in Seq(T)
      BY <2>1, <3>1
    <3>3. s[k] \in T
      BY <3>1
    <3>4. kept[k] = Kept(kept, k) /\ k # 0
      BY <1>4, <3>1
    <3>5. kept[k] \in Seq(T)
      BY <3>2, <3>3, <3>4
    <3>6. QED BY <2>1, <3>5
  <2>4. QED BY <2>2, <2>3
<1>6. QED BY <1>3, <1>5
-----------------------------------------------------------------------------
(* What reading one more item does to what a line says.                    *)
LEMMA ReadingOfNothing == Reading(<<>>) = Default
<1>1. Given(<<>>) = {}
  BY DEF Given
<1>2. QED BY <1>1 DEF Reading, Default

LEMMA GivenAppended ==
  ASSUME NEW T, NEW s \in Seq(T), NEW it \in T
  PROVE  Given(Append(s, it)) = Given(s) \cup {it.option}
<1> DEFINE a == Append(s, it)
<1>1. /\ DOMAIN s = 1 .. Len(s) /\ DOMAIN a = 1 .. Len(s) + 1 /\ Len(s) \in Nat
      /\ \A i \in 1 .. Len(s) : a[i] = s[i]
      /\ a[Len(s) + 1] = it
  OBVIOUS
<1> HIDE DEF a
<1>2. Given(a) \subseteq Given(s) \cup {it.option}
  <2>1. ASSUME NEW i \in 1 .. Len(s) + 1
        PROVE  a[i].option \in Given(s) \cup {it.option}
    <3>1. i \in 1 .. Len(s) \/ i = Len(s) + 1
      BY <1>1
    <3>2. QED BY <1>1, <3>1 DEF Given
  <2>2. QED BY <1>1, <2>1 DEF Given
<1>3. Given(s) \cup {it.option} \subseteq Given(a)
  <2>1. \A i \in 1 .. Len(s) : i \in 1 .. Len(s) + 1
    BY <1>1
  <2>2. Len(s) + 1 \in 1 .. Len(s) + 1
    BY <1>1
  <2>3. QED BY <1>1, <2>1, <2>2 DEF Given
<1>4. QED BY <1>2, <1>3 DEF a

LEMMA LastOfAppended ==
  ASSUME NEW T, NEW s \in Seq(T), NEW it \in T, NEW o
  PROVE  /\ o = it.option => LastOf(Append(s, it), o) = it.value
         /\ o # it.option /\ o \in Given(s) => LastOf(Append(s, it), o) = LastOf(s, o)
<1> DEFINE a == Append(s, it)
           I(l) == {i \in DOMAIN l : l[i].option = o}
<1>1. /\ DOMAIN s = 1 .. Len(s) /\ DOMAIN a = 1 .. Len(s) + 1 /\ Len(s) \in Nat
      /\ \A i \in 1 .. Len(s) : a[i] = s[i]
      /\ a[Len(s) + 1] = it
  OBVIOUS
<1> HIDE DEF a
<1>2. CASE o = it.option
  <2>1. Len(s) + 1 \in I(a) /\ I(a) \in SUBSET Int /\ \A i \in I(a) : i <= Len(s) + 1
    BY <1>1, <1>2
  <2> HIDE DEF I
  <2>2. Max(I(a)) = Len(s) + 1
    BY <2>1, MaxIs
  <2>3. QED BY <1>1, <1>2, <2>2 DEF LastOf, I, a
<1>3. CASE o # it.option /\ o \in Given(s)
  <2>1. I(a) = I(s)
    <3>1. \A i : i \in 1 .. Len(s) + 1 <=> (i \in 1 .. Len(s) \/ i = Len(s) + 1)
      BY <1>1
    <3>2. QED BY <1>1, <1>3, <3>1
  <2>2. I(s) \in SUBSET (1 .. Len(s)) /\ I(s) # {}
    BY <1>1, <1>3 DEF Given
  <2>3. Max(I(s)) \in 1 .. Len(s)
    <3> HIDE DEF I
    <3> QED BY <1>1, <2>2, MaxInSet
  <2>4. QED BY <1>1, <1>3, <2>1, <2>3 DEF LastOf, a
<1>4. QED BY <1>2, <1>3

LEMMA ReadingAppended ==
  ASSUME NEW T, NEW s \in Seq(T), NEW it \in T
  PROVE  Reading(Append(s, it)) = With(Reading(s), it)
<1>1. DOMAIN Reading(s) = Given(s)
  BY DEF Reading
<1>2. Given(Append(s, it)) = Given(s) \cup {it.option}
  BY GivenAppended
<1>3. ASSUME NEW o \in Given(s) \cup {it.option}
      PROVE  LastOf(Append(s, it), o) = IF o = it.option THEN it.value ELSE Reading(s)[o]
  BY LastOfAppended DEF Reading
<1>4. QED BY <1>1, <1>2, <1>3 DEF Reading, With

(* And what it does to what several lines say together.                    *)
LEMMA TogetherOfNothing == Together(<<>>) = Default
<1>1. GivenIn(<<>>) = {}
  BY DEF GivenIn
<1>2. QED BY <1>1 DEF Together, Default

LEMMA GivenInAppended ==
  ASSUME NEW T, NEW p \in Seq(Seq(T)), NEW c \in Seq(T)
  PROVE  GivenIn(Append(p, c)) = GivenIn(p) \cup Given(c)
<1> DEFINE a == Append(p, c)
<1>1. /\ DOMAIN p = 1 .. Len(p) /\ DOMAIN a = 1 .. Len(p) + 1 /\ Len(p) \in Nat
      /\ \A i \in 1 .. Len(p) : a[i] = p[i]
      /\ a[Len(p) + 1] = c
  OBVIOUS
<1> HIDE DEF a
<1>2. \A i : i \in 1 .. Len(p) + 1 <=> (i \in 1 .. Len(p) \/ i = Len(p) + 1)
  BY <1>1
<1>3. GivenIn(a) = UNION {Given(a[i]) : i \in 1 .. Len(p) + 1}
  BY <1>1 DEF GivenIn
<1>4. GivenIn(p) = UNION {Given(p[i]) : i \in 1 .. Len(p)}
  BY <1>1 DEF GivenIn
<1>5. \A o : o \in GivenIn(a) <=> \E i \in 1 .. Len(p) + 1 : o \in Given(a[i])
  BY <1>3
<1>6. \A o : o \in GivenIn(p) <=> \E i \in 1 .. Len(p) : o \in Given(p[i])
  BY <1>4
<1>7. QED BY <1>1, <1>2, <1>5, <1>6 DEF a

LEMMA LastInAppended ==
  ASSUME NEW T, NEW p \in Seq(Seq(T)), NEW c \in Seq(T), NEW o
  PROVE  /\ o \in Given(c) => LastIn(Append(p, c), o) = LastOf(c, o)
         /\ o \notin Given(c) /\ o \in GivenIn(p) => LastIn(Append(p, c), o) = LastIn(p, o)
<1> DEFINE a == Append(p, c)
           I(l) == {i \in DOMAIN l : o \in Given(l[i])}
<1>1. /\ DOMAIN p = 1 .. Len(p) /\ DOMAIN a = 1 .. Len(p) + 1 /\ Len(p) \in Nat
      /\ \A i \in 1 .. Len(p) : a[i] = p[i]
      /\ a[Len(p) + 1] = c
  OBVIOUS
<1> HIDE DEF a
<1>2. CASE o \in Given(c)
  <2>1. Len(p) + 1 \in I(a) /\ I(a) \in SUBSET Int /\ \A i \in I(a) : i <= Len(p) + 1
    BY <1>1, <1>2
  <2> HIDE DEF I
  <2>2. Max(I(a)) = Len(p) + 1
    BY <2>1, MaxIs
  <2>3. QED BY <1>1, <1>2, <2>2 DEF LastIn, I, a
<1>3. CASE o \notin Given(c) /\ o \in GivenIn(p)
  <2>1. I(a) = I(p)
    <3>1. \A i : i \in 1 .. Len(p) + 1 <=> (i \in 1 .. Len(p) \/ i = Len(p) + 1)
      BY <1>1
    <3>2. QED BY <1>1, <1>3, <3>1
  <2>2. I(p) \in SUBSET (1 .. Len(p)) /\ I(p) # {}
    BY <1>1, <1>3 DEF GivenIn
  <2>3. Max(I(p)) \in 1 .. Len(p)
    <3> HIDE DEF I
    <3> QED BY <1>1, <2>2, MaxInSet
  <2>4. QED BY <1>1, <1>3, <2>1, <2>3 DEF LastIn, a
<1>4. QED BY <1>2, <1>3

LEMMA TogetherOpened ==
  ASSUME NEW T, NEW p \in Seq(Seq(T))
  PROVE  Together(Append(p, <<>>)) = Together(p)
<1>1. Given(<<>>) = {} /\ <<>> \in Seq(T)
  BY DEF Given
<1>2. GivenIn(Append(p, <<>>)) = GivenIn(p)
  BY <1>1, GivenInAppended
<1>3. \A o \in GivenIn(p) : LastIn(Append(p, <<>>), o) = LastIn(p, o)
  BY <1>1, LastInAppended
<1>4. QED BY <1>2, <1>3 DEF Together

LEMMA TogetherAppended ==
  ASSUME NEW T, NEW p \in Seq(Seq(T)), NEW c \in Seq(T), NEW it \in T
  PROVE  Together(Append(p, Append(c, it))) = With(Together(Append(p, c)), it)
<1> DEFINE d == Append(c, it)
           old == Together(Append(p, c))
<1>1. d \in Seq(T) /\ Given(d) = Given(c) \cup {it.option}
  BY GivenAppended
<1>2. /\ GivenIn(Append(p, c)) = GivenIn(p) \cup Given(c)
      /\ GivenIn(Append(p, d)) = GivenIn(p) \cup Given(d)
  BY <1>1, GivenInAppended
<1>3. DOMAIN old = GivenIn(p) \cup Given(c)
  BY <1>2 DEF Together
<1> HIDE DEF d
<1>4. ASSUME NEW o \in GivenIn(p) \cup Given(d)
      PROVE  LastIn(Append(p, d), o) = IF o = it.option THEN it.value ELSE old[o]
  <2>1. CASE o = it.option
    <3>1. LastIn(Append(p, d), o) = LastOf(d, o)
      BY <1>1, <2>1, LastInAppended
    <3>2. LastOf(d, o) = it.value
      BY <2>1, LastOfAppended DEF d
    <3>3. QED BY <2>1, <3>1, <3>2
  <2>2. CASE o # it.option
    <3>1. old[o] = LastIn(Append(p, c), o)
      BY <1>1, <1>2, <2>2 DEF Together
    <3>2. CASE o \in Given(c)
      <4>1. LastIn(Append(p, d), o) = LastOf(d, o) /\ LastIn(Append(p, c), o) = LastOf(c, o)
        BY <1>1, <3>2, LastInAppended
      <4>2. LastOf(d, o) = LastOf(c, o)
        BY <2>2, <3>2, LastOfAppended DEF d
      <4>3. LastIn(Append(p, d), o) = old[o]
        BY <3>1, <4>1, <4>2, Zenon
      <4>4. QED BY <2>2, <4>3
    <3>3. CASE o \notin Given(c)
      <4>1. o \notin Given(d) /\ o \in GivenIn(p)
        BY <1>1, <2>2, <3>3
      <4>2. LastIn(Append(p, d), o) = LastIn(p, o) /\ LastIn(Append(p, c), o) = LastIn(p, o)
        BY <1>1, <3>3, <4>1, LastInAppended
      <4>3. QED BY <2>2, <3>1, <4>2
    <3>4. QED BY <3>2, <3>3
  <2>3. QED BY <2>1, <2>2
<1> HIDE DEF old
<1>5. GivenIn(p) \cup Given(d) = DOMAIN old \cup {it.option}
  BY <1>1, <1>3
<1>6. QED BY <1>2, <1>4, <1>5 DEF Together, With, d, old

-----------------------------------------------------------------------------
(* What the file has between brackets, as the reader of sections sees it.  *)
Items    == UNION {ToSet(file[i].items) : i \in DOMAIN file}
Lines(s) == Body(Min(Found(s)))

ItemOK(s, item) == item.option \in Options(s) /\ Valid(s, item)
LineOK(s, line) ==
  /\ Necessary(s) \subseteq Given(line)
  /\ \A j \in DOMAIN line : ItemOK(s, line[j])

Entries(lines) == [i \in DOMAIN lines |-> Reading(lines[i])]

(* The sections that have been read.                                       *)
Behind == CASE stage = "BASE" -> {}
            [] stage = "SW"   -> {"BASE"}
            [] stage = "DC"   -> {"BASE", "SW"}
            [] OTHER          -> Section

(* The lines have gone into the list of the section, or into base_cfg.     *)
Entered(s, lines) ==
  /\ s \in Mode => NetCfg(s) = Entries(lines)
  /\ s = "BASE" => base_cfg = Together(lines)

(* Between two lines, the first n of the section's lines L are read.       *)
AtLine(s, L, n) ==
  /\ \A i \in 1 .. Len(rest) : rest[i] = L[n + i]
  /\ s = "BASE" => base_cfg = Together(SubSeq(L, 1, n))

(* Between two items of line n + 1, the first k of its items are read.     *)
AtItem(s, L, n) ==
  /\ rest # <<>>
  /\ \A i \in 2 .. Len(rest) : rest[i] = L[n + i]
  /\ \E k \in 0 .. Len(L[n + 1]) :
       /\ Len(Head(rest)) = Len(L[n + 1]) - k
       /\ \A j \in 1 .. Len(Head(rest)) : Head(rest)[j] = L[n + 1][k + j]
       /\ \A j \in 1 .. k : ItemOK(s, L[n + 1][j])
       /\ s \in Mode => cfg = Reading(SubSeq(L[n + 1], 1, k))
       /\ s = "BASE" => base_cfg = Together(Append(SubSeq(L, 1, n), SubSeq(L[n + 1], 1, k)))

InSection(s, L) ==
  \E n \in 0 .. Len(L) :
    /\ rest \in Seq(Seq(Items)) /\ Len(rest) = Len(L) - n
    /\ \A i \in 1 .. n : LineOK(s, L[i])
    /\ s \in Mode => NetCfg(s) = Entries(SubSeq(L, 1, n))
    /\ step = "line" => AtLine(s, L, n)
    /\ step = "item" => AtItem(s, L, n)

SectionInv(s) ==
  /\ s \in Behind =>
       /\ Found(s) # {}
       /\ \A i \in DOMAIN Lines(s) : LineOK(s, Lines(s)[i])
       /\ Entered(s, Lines(s))
  /\ s = stage /\ step # "load" => Found(s) # {} /\ InSection(s, Lines(s))
  /\ s \notin Behind /\ (s = stage => step = "load") => Entered(s, <<>>)

(* A file with nothing that stops the reader.                              *)
Host(s, i) == LastOf(Lines(s)[i], "host_traddr")
Readable ==
  /\ \A s \in Section : Found(s) # {} /\ \A i \in DOMAIN Lines(s) : LineOK(s, Lines(s)[i])
  /\ \A m, q \in Mode : \A i \in DOMAIN Lines(m), j \in DOMAIN Lines(q) :
       m # q \/ i # j => Host(m, i) # Host(q, j)
  /\ \A i, j \in DOMAIN Lines("SW") : Host("SW", i) = "any" => i = j

(* Some line of SW is for any host.                                        *)
AnyHost == \E i \in DOMAIN sw_info_list : sw_info_list[i].host_traddr = "any"

(* The invariant of the loops of snsd_cfg_init.                            *)
ReadInv ==
  /\ file \in File
  /\ stage \in Section \cup {"hostnqn", "conflict", "ready", "failed", "exit"}
  /\ step \in {"load", "line", "item"}
  /\ stage \notin {"failed", "exit"} =>
       /\ \A s \in Section : SectionInv(s)
       /\ anyflag \in BOOLEAN /\ (anyflag <=> AnyHost)
  /\ stage \in {"failed", "exit"} => sw_info_list = <<>> /\ dc_info_list = <<>>
  /\ stage = "ready" => Readable
  /\ stage = "failed" => ~Readable \/ upset
-----------------------------------------------------------------------------
(* The file does not change, nor does anything that only depends on it.    *)
LEMMA SameFile ==
  ASSUME file' = file
  PROVE  /\ Items' = Items
         /\ \A s : Found(s)' = Found(s) /\ Lines(s)' = Lines(s)
         /\ Readable' = Readable
<1>1. \A s : Found(s)' = Found(s)
  BY DEF Found
<1>2. \A i : End(i)' = End(i)
  BY DEF End
<1>3. \A i, j : Text(i, j)' = Text(i, j)
  BY DEF Text
<1>4. \A i : Body(i)' = Body(i)
  BY <1>2, <1>3 DEF Body
<1>5. \A s : Lines(s)' = Lines(s)
  BY <1>1, <1>4 DEF Lines
<1>6. \A s, i : Host(s, i)' = Host(s, i)
  BY <1>5 DEF Host
<1>7. Readable' = Readable
  BY <1>1, <1>5, <1>6 DEF Readable
<1>8. Items' = Items
  BY DEF Items
<1>9. QED BY <1>1, <1>5, <1>7, <1>8

(* The heading that is found is one of the file's lines.                   *)
LEMMA FoundIsLine ==
  ASSUME file \in File, NEW s, Found(s) # {}
  PROVE  Min(Found(s)) \in DOMAIN file /\ Min(Found(s)) \in Found(s)
<1>1. DOMAIN file = 1 .. Len(file) /\ Len(file) \in Nat
  BY CfgAssumption
<1>2. Found(s) \in SUBSET Nat /\ Found(s) \subseteq DOMAIN file
  BY <1>1 DEF Found
<1>3. QED BY <1>2, MinInSet

(* A section ends in the file.                                             *)
LEMMA EndInFile ==
  ASSUME file \in File, NEW i \in DOMAIN file
  PROVE  End(i) \in i + 1 .. Len(file) + 1
<1>1. DOMAIN file = 1 .. Len(file) /\ Len(file) \in Nat
  BY CfgAssumption
<1> DEFINE S == {j \in i + 1 .. Len(file) : file[j].bracket # ""} \cup {Len(file) + 1}
<1>2. S \in SUBSET Nat /\ S # {} /\ S \subseteq i + 1 .. Len(file) + 1
  <2>1. i \in 1 .. Len(file) /\ Len(file) \in Nat
    BY <1>1
  <2>2. Len(file) + 1 \in i + 1 .. Len(file) + 1
    BY <2>1
  <2>3. \A j \in i + 1 .. Len(file) : j \in i + 1 .. Len(file) + 1
    BY <2>1
  <2>4. \A j \in i + 1 .. Len(file) + 1 : j \in Nat
    BY <2>1
  <2>5. S # {}
    OBVIOUS
  <2>6. S \subseteq i + 1 .. Len(file) + 1
    BY <2>2, <2>3
  <2>7. QED BY <2>4, <2>5, <2>6
<1>3. End(i) = Min(S)
  BY DEF End
<1> HIDE DEF S
<1>4. QED BY <1>2, <1>3, MinInSet

(* The lines of a section are lists of items of the file.                  *)
LEMMA LinesTyped ==
  ASSUME file \in File, NEW s, Found(s) # {}
  PROVE  Lines(s) \in Seq(Seq(Items))
<1> DEFINE i == Min(Found(s))
           T(n) == Text(i, i + n - 1)
<1>1. i \in DOMAIN file /\ DOMAIN file = 1 .. Len(file) /\ Len(file) \in Nat
  BY FoundIsLine, CfgAssumption
<1> HIDE DEF i
<1>2. End(i) \in i + 1 .. Len(file) + 1
  BY <1>1, EndInFile
<1>3. ASSUME NEW j \in DOMAIN file
      PROVE  file[j].items \in Seq(Items)
  <2>1. file[j].items \in Seq(ToSet(file[j].items))
    BY CfgAssumption
  <2>2. ToSet(file[j].items) \subseteq Items
    BY DEF Items
  <2>3. QED BY <2>1, <2>2, SeqWider
<1>4. ASSUME NEW n \in 1 .. End(i) - i
      PROVE  T(n) \in Seq(Items)
  <2>1. i + n - 1 \in DOMAIN file
    BY <1>1, <1>2
  <2>2. <<>> \in Seq(Items)
    OBVIOUS
  <2>3. QED BY <1>3, <2>1, <2>2 DEF Text
<1> HIDE DEF T
<1>5. End(i) - i \in Nat
  BY <1>1, <1>2
<1>6. [n \in 1 .. End(i) - i |-> T(n)] \in [1 .. End(i) - i -> Seq(Items)]
  BY <1>4
<1>7. [n \in 1 .. End(i) - i |-> T(n)] \in Seq(Seq(Items))
  BY <1>5, <1>6, MapProperties
<1>8. QED BY <1>7, NonEmptyIsList DEF Lines, Body, T, i

-----------------------------------------------------------------------------
(* The first entries of a list, and one more.                              *)
LEMMA Prefix ==
  ASSUME NEW T, NEW L \in Seq(T), NEW n \in 0 .. Len(L)
  PROVE  /\ SubSeq(L, 1, n) \in Seq(T) /\ DOMAIN SubSeq(L, 1, n) = 1 .. n
         /\ \A i \in 1 .. n : SubSeq(L, 1, n)[i] = L[i]
         /\ SubSeq(L, 1, 0) = <<>> /\ SubSeq(L, 1, Len(L)) = L
         /\ n < Len(L) => SubSeq(L, 1, n + 1) = Append(SubSeq(L, 1, n), L[n + 1])
OBVIOUS

LEMMA AppendedIndices ==
  ASSUME NEW T, NEW s \in Seq(T), NEW x \in T
  PROVE  /\ Append(s, x) \in Seq(T) /\ DOMAIN Append(s, x) = 1 .. Len(s) + 1
         /\ \A i \in 1 .. Len(s) : Append(s, x)[i] = s[i]
         /\ Append(s, x)[Len(s) + 1] = x
         /\ Append(s, x) = [i \in 1 .. Len(s) + 1 |-> Append(s, x)[i]]
<1>1. Append(s, x) \in Seq(T) /\ Len(Append(s, x)) = Len(s) + 1 /\ Len(s) \in Nat
  OBVIOUS
<1>2. Append(s, x) \in [1 .. Len(s) + 1 -> T]
  BY <1>1, LenProperties
<1>3. \A a \in [1 .. Len(s) + 1 -> T] : a = [i \in 1 .. Len(s) + 1 |-> a[i]]
  OBVIOUS
<1>4. Append(s, x) = [i \in 1 .. Len(s) + 1 |-> Append(s, x)[i]]
  BY <1>2, <1>3, Zenon
<1>5. /\ DOMAIN Append(s, x) = 1 .. Len(s) + 1
      /\ \A i \in 1 .. Len(s) : Append(s, x)[i] = s[i]
      /\ Append(s, x)[Len(s) + 1] = x
  OBVIOUS
<1>6. QED BY <1>1, <1>4, <1>5, Zenon

(* A line more is an entry more.                                           *)
LEMMA EntriesAppended ==
  ASSUME NEW T, NEW p \in Seq(T), NEW line \in T
  PROVE  Entries(Append(p, line)) = Append(Entries(p), Reading(line))
<1> DEFINE a == Append(p, line)
           S == {Reading(x) : x \in T}
<1>1. /\ DOMAIN p = 1 .. Len(p) /\ DOMAIN a = 1 .. Len(p) + 1 /\ Len(p) \in Nat
      /\ \A i \in 1 .. Len(p) : a[i] = p[i] /\ p[i] \in T
      /\ a[Len(p) + 1] = line
  OBVIOUS
<1> HIDE DEF a
<1>2. Entries(p) = [i \in 1 .. Len(p) |-> Reading(p[i])]
  BY <1>1 DEF Entries
<1>3. Entries(p) \in Seq(S) /\ Len(Entries(p)) = Len(p)
  <2>1. [i \in 1 .. Len(p) |-> Reading(p[i])] \in [1 .. Len(p) -> S]
    BY <1>1
  <2> HIDE DEF S
  <2>2. [i \in 1 .. Len(p) |-> Reading(p[i])] \in Seq(S)
        /\ Len([i \in 1 .. Len(p) |-> Reading(p[i])]) = Len(p)
    BY <1>1, <2>1, MapProperties
  <2>3. QED BY <1>2, <2>2
<1> DEFINE b == Append(Entries(p), Reading(line))
<1>4. /\ DOMAIN b = 1 .. Len(p) + 1
      /\ \A i \in 1 .. Len(p) : b[i] = Entries(p)[i]
      /\ b[Len(p) + 1] = Reading(line)
      /\ b = [i \in 1 .. Len(p) + 1 |-> b[i]]
  <2>1. Reading(line) \in S
    OBVIOUS
  <2> HIDE DEF S
  <2>2. QED BY <1>3, <2>1, AppendedIndices
<1> HIDE DEF b
<1>5. Entries(a) = [i \in 1 .. Len(p) + 1 |-> Reading(a[i])]
  BY <1>1 DEF Entries
<1>6. ASSUME NEW i \in 1 .. Len(p) + 1
      PROVE  Reading(a[i]) = b[i]
  <2>1. i \in 1 .. Len(p) \/ i = Len(p) + 1
    BY <1>1
  <2>2. CASE i \in 1 .. Len(p)
    BY <1>1, <1>2, <1>4, <2>2
  <2>3. CASE i = Len(p) + 1
    BY <1>1, <1>4, <2>3
  <2>4. QED BY <2>1, <2>2, <2>3
<1>7. Entries(a) = b
  BY <1>4, <1>5, <1>6
<1>8. QED BY <1>7 DEF a, b

LEMMA EntriesOfNothing == Entries(<<>>) = <<>>
BY DEF Entries
-----------------------------------------------------------------------------
(* An error ends the reading; there is a reason for it.                    *)
LEMMA FailStep ==
  ASSUME ReadInv, Fail, ~Readable \/ upset'
  PROVE  ReadInv'
<1>1. file' = file /\ stage' = "failed" /\ step' = step
      /\ sw_info_list' = <<>> /\ dc_info_list' = <<>>
  BY DEF Fail
<1>2. ~Readable' \/ upset'
  BY <1>1, SameFile
<1>3. QED BY <1>1, <1>2 DEF ReadInv

(* A step in one section leaves the others as they are.                    *)
LEMMA OtherSection ==
  ASSUME file' = file, stage' = stage, NEW s \in Section, s # stage, SectionInv(s),
         s \in Mode => NetCfg(s)' = NetCfg(s),
         s = "BASE" => base_cfg' = base_cfg
  PROVE  SectionInv(s)'
<1>1. Found(s)' = Found(s) /\ Lines(s)' = Lines(s)
  BY SameFile
<1>2. Behind' = Behind
  BY DEF Behind
<1>3. ASSUME NEW L
      PROVE  Entered(s, L)' <=> Entered(s, L)
  BY DEF Entered
<1>4. Entered(s, Lines(s))' <=> Entered(s, Lines(s))
  BY <1>1 DEF Entered
<1>5. QED BY <1>1, <1>2, <1>3, <1>4 DEF SectionInv

(* The step in the section that is read.                                   *)
LEMMA ThisSection ==
  ASSUME ReadInv, file' = file, stage' = stage, stage \in Section, step' \in {"line", "item"},
         Found(stage) # {},
         \A s \in Mode : s # stage => NetCfg(s)' = NetCfg(s),
         stage # "BASE" => base_cfg' = base_cfg,
         \A s \in Section : s = stage => InSection(s, Lines(s))',
         anyflag' \in BOOLEAN, anyflag' <=> AnyHost'
  PROVE  ReadInv'
<1>1. ASSUME NEW s \in Section
      PROVE  SectionInv(s)'
  <2>1. CASE s # stage
    <3>1. SectionInv(s)
      BY DEF ReadInv, Section, Mode
    <3>2. QED BY <2>1, <3>1, OtherSection
  <2>2. CASE s = stage
    <3>1. s \notin Behind'
      BY <2>2 DEF Behind, Section, Mode
    <3>2. Found(s)' # {}
      BY <2>2, SameFile
    <3>3. QED BY <2>2, <3>1, <3>2 DEF SectionInv
  <2>3. QED BY <2>1, <2>2
<1>2. QED BY <1>1 DEF ReadInv, Section, Mode

-----------------------------------------------------------------------------
LEMMA LoadStep ==
  ASSUME ReadInv, snsd_section_load
  PROVE  ReadInv'
<1>1. stage \in Section /\ step = "load" /\ file \in File
  BY DEF snsd_section_load, ReadInv
<1>2. CASE Found(stage) = {}
  <2>1. Fail
    BY <1>2 DEF snsd_section_load
  <2>2. ~Readable
    BY <1>1, <1>2 DEF Readable
  <2>3. QED BY <2>1, <2>2, FailStep
<1>3. CASE Found(stage) # {}
  <2>1. /\ file' = file /\ stage' = stage /\ rest' = Lines(stage) /\ step' = "line"
        /\ base_cfg' = base_cfg /\ anyflag' = anyflag
        /\ sw_info_list' = sw_info_list /\ dc_info_list' = dc_info_list
    BY <1>3 DEF snsd_section_load, Lines, infos
  <2>2. ASSUME NEW s \in Section, s = stage
        PROVE  InSection(s, Lines(s))'
    <3>1. /\ Lines(s) \in Seq(Seq(Items)) /\ Lines(s)' = Lines(s) /\ Items' = Items
      BY <1>1, <1>3, <2>1, <2>2, LinesTyped, SameFile
    <3>2. Entered(s, <<>>)
      <4>1. SectionInv(s) /\ s \notin Behind
        BY <1>1, <2>2 DEF ReadInv, Behind, Section, Mode
      <4>2. QED BY <1>1, <4>1 DEF SectionInv
    <3>3. /\ s \in Mode => NetCfg(s)' = Entries(SubSeq(Lines(s), 1, 0))
          /\ s = "BASE" => base_cfg' = Together(SubSeq(Lines(s), 1, 0))
      <4>1. SubSeq(Lines(s), 1, 0) = <<>>
        BY <3>1
      <4>2. QED BY <2>1, <3>2, <4>1 DEF Entered, NetCfg
    <3>4. /\ 0 \in 0 .. Len(Lines(s)) /\ Len(rest') = Len(Lines(s)) - 0
          /\ rest' \in Seq(Seq(Items))
          /\ \A i \in 1 .. Len(rest') : rest'[i] = Lines(s)[0 + i]
      BY <2>1, <2>2, <3>1
    <3>5. AtLine(s, Lines(s), 0)'
      BY <3>1, <3>3, <3>4 DEF AtLine
    <3>6. \A i \in 1 .. 0 : LineOK(s, Lines(s)[i])
      OBVIOUS
    <3>7. QED BY <2>1, <3>1, <3>3, <3>4, <3>5, <3>6 DEF InSection
  <2>3. QED BY <1>1, <1>3, <2>1, <2>2, ThisSection DEF ReadInv, AnyHost, NetCfg, Section, Mode
<1>4. QED BY <1>2, <1>3

(* What is left of the section, and what was read of it.                   *)
LEMMA Position ==
  ASSUME ReadInv, stage \in Section, step # "load"
  PROVE  /\ Found(stage) # {} /\ Lines(stage) \in Seq(Seq(Items))
         /\ InSection(stage, Lines(stage))
         /\ stage \notin Behind
<1>1. SectionInv(stage) /\ file \in File
  BY DEF ReadInv, Section, Mode
<1>2. Found(stage) # {} /\ InSection(stage, Lines(stage))
  BY <1>1 DEF SectionInv
<1>3. stage \notin Behind
  BY DEF Behind, Section, Mode
<1>4. QED BY <1>1, <1>2, <1>3, LinesTyped

LEMMA LineStep ==
  ASSUME ReadInv, snsd_init_cfg
  PROVE  ReadInv'
<1>1. /\ stage \in Section /\ step = "line" /\ rest # <<>> /\ cfg' = Default /\ step' = "item"
      /\ file' = file /\ stage' = stage /\ rest' = rest
      /\ base_cfg' = base_cfg /\ anyflag' = anyflag
      /\ sw_info_list' = sw_info_list /\ dc_info_list' = dc_info_list
  BY DEF snsd_init_cfg, infos
<1>2. Found(stage) # {}
  BY <1>1, Position
<1>3. ASSUME NEW s \in Section, s = stage
      PROVE  InSection(s, Lines(s))'
  <2> DEFINE L == Lines(s)
  <2>1. L \in Seq(Seq(Items)) /\ L' = L /\ Items' = Items /\ InSection(s, L)
    BY <1>1, <1>3, Position, SameFile
  <2> HIDE DEF L
  <2>2. PICK n \in 0 .. Len(L) :
          /\ rest \in Seq(Seq(Items)) /\ Len(rest) = Len(L) - n
          /\ \A i \in 1 .. n : LineOK(s, L[i])
          /\ s \in Mode => NetCfg(s) = Entries(SubSeq(L, 1, n))
          /\ AtLine(s, L, n)
    BY <1>1, <2>1 DEF InSection
  <2>3. n + 1 \in 1 .. Len(L) /\ Head(rest) = L[n + 1] /\ Len(rest) \in Nat /\ Len(L) \in Nat
    <3>1. Len(rest) \in Nat \ {0} /\ Head(rest) = rest[1] /\ 1 \in 1 .. Len(rest)
      BY <1>1, <2>2
    <3>2. rest[1] = L[n + 1]
      BY <2>2, <3>1 DEF AtLine
    <3>3. QED BY <2>1, <2>2, <3>1, <3>2
  <2> DEFINE line == L[n + 1]
  <2>4. line \in Seq(Items) /\ SubSeq(line, 1, 0) = <<>> /\ SubSeq(L, 1, n) \in Seq(Seq(Items))
    <3>1. line \in Seq(Items)
      BY <2>1, <2>3
    <3>2. QED BY <2>1, <3>1, Prefix
  <2>5. cfg' = Reading(SubSeq(line, 1, 0))
    BY <1>1, <2>4, ReadingOfNothing
  <2>6. s = "BASE" => base_cfg' = Together(Append(SubSeq(L, 1, n), SubSeq(line, 1, 0)))
    BY <1>1, <2>2, <2>4, TogetherOpened DEF AtLine
  <2>7. \A i \in 2 .. Len(rest') : rest'[i] = L[n + i]
    <3>1. \A i \in 2 .. Len(rest) : i \in 1 .. Len(rest)
      BY <2>3
    <3>2. QED BY <1>1, <2>2, <3>1 DEF AtLine
  <2>8. /\ 0 \in 0 .. Len(line) /\ Len(Head(rest')) = Len(line) - 0
        /\ \A j \in 1 .. Len(Head(rest')) : Head(rest')[j] = line[0 + j]
        /\ \A j \in 1 .. 0 : ItemOK(s, line[j])
    BY <1>1, <2>3, <2>4
  <2>9. AtItem(s, L, n)'
    BY <1>1, <2>1, <2>5, <2>6, <2>7, <2>8 DEF AtItem
  <2>10. NetCfg(s)' = NetCfg(s)
    BY <1>1 DEF NetCfg
  <2>11. InSection(s, L)'
    BY <1>1, <2>1, <2>2, <2>9, <2>10 DEF InSection
  <2>12. QED BY <2>11 DEF L
<1>4. QED BY <1>1, <1>2, <1>3, ThisSection DEF ReadInv, AnyHost, NetCfg, Section, Mode

(* The line and the item that are read.                                    *)
LEMMA ItemPosition ==
  ASSUME ReadInv, stage \in Section, step = "item"
  PROVE  \E n \in 0 .. Len(Lines(stage)) - 1 :
           /\ rest \in Seq(Seq(Items)) /\ rest # <<>> /\ Len(rest) = Len(Lines(stage)) - n
           /\ \A i \in 1 .. n : LineOK(stage, Lines(stage)[i])
           /\ stage \in Mode => NetCfg(stage) = Entries(SubSeq(Lines(stage), 1, n))
           /\ Lines(stage)[n + 1] \in Seq(Items)
           /\ SubSeq(Lines(stage), 1, n) \in Seq(Seq(Items))
           /\ AtItem(stage, Lines(stage), n)
<1> DEFINE L == Lines(stage)
<1>1. L \in Seq(Seq(Items)) /\ InSection(stage, L)
  BY Position
<1> HIDE DEF L
<1>2. PICK n \in 0 .. Len(L) :
        /\ rest \in Seq(Seq(Items)) /\ Len(rest) = Len(L) - n
        /\ \A i \in 1 .. n : LineOK(stage, L[i])
        /\ stage \in Mode => NetCfg(stage) = Entries(SubSeq(L, 1, n))
        /\ AtItem(stage, L, n)
  BY <1>1 DEF InSection
<1>3. rest # <<>>
  BY <1>2 DEF AtItem
<1>4. n \in 0 .. Len(L) - 1
  <2>1. Len(rest) \in Nat \ {0}
    BY <1>2, <1>3
  <2>2. QED BY <1>1, <1>2, <2>1
<1>5. L[n + 1] \in Seq(Items) /\ SubSeq(L, 1, n) \in Seq(Seq(Items))
  BY <1>1, <1>4
<1>6. QED BY <1>2, <1>3, <1>4, <1>5 DEF L

LEMMA ItemStep ==
  ASSUME ReadInv, snsd_save_one_item
  PROVE  ReadInv'
<1> DEFINE item == Head(Head(rest))
           L == Lines(stage)
<1>1. stage \in Section /\ step = "item" /\ Head(rest) # <<>>
  BY DEF snsd_save_one_item
<1>2. PICK n \in 0 .. Len(L) - 1 :
        /\ rest \in Seq(Seq(Items)) /\ rest # <<>> /\ Len(rest) = Len(L) - n
        /\ \A i \in 1 .. n : LineOK(stage, L[i])
        /\ stage \in Mode => NetCfg(stage) = Entries(SubSeq(L, 1, n))
        /\ L[n + 1] \in Seq(Items)
        /\ SubSeq(L, 1, n) \in Seq(Seq(Items))
        /\ AtItem(stage, L, n)
  BY <1>1, ItemPosition
<1>3. L \in Seq(Seq(Items)) /\ Found(stage) # {}
  BY <1>1, Position
<1> HIDE DEF L
<1> DEFINE line == L[n + 1]
<1>4. PICK k \in 0 .. Len(line) :
        /\ Len(Head(rest)) = Len(line) - k
        /\ \A j \in 1 .. Len(Head(rest)) : Head(rest)[j] = line[k + j]
        /\ \A j \in 1 .. k : ItemOK(stage, line[j])
        /\ stage \in Mode => cfg = Reading(SubSeq(line, 1, k))
        /\ stage = "BASE" => base_cfg = Together(Append(SubSeq(L, 1, n), SubSeq(line, 1, k)))
  BY <1>2 DEF AtItem
<1>5. /\ Head(rest) \in Seq(Items) /\ Len(Head(rest)) \in Nat \ {0}
      /\ Len(rest) \in Nat \ {0} /\ rest[1] = Head(rest) /\ Len(L) \in Nat
  BY <1>1, <1>2, <1>3
<1>6. k + 1 \in 1 .. Len(line) /\ k < Len(line) /\ item = line[k + 1] /\ line \in Seq(Items)
      /\ DOMAIN line = 1 .. Len(line) /\ k \in Nat
  <2>1. item = Head(rest)[1] /\ 1 \in 1 .. Len(Head(rest))
    BY <1>1, <1>5
  <2>2. item = line[k + 1]
    BY <1>4, <2>1
  <2>3. QED BY <1>2, <1>4, <1>5, <2>2
<1> HIDE DEF item, line
<1>7. CASE ~ItemOK(stage, item)
  <2>1. Fail
    BY <1>7 DEF snsd_save_one_item, ItemOK, item
  <2>2. ~LineOK(stage, line)
    BY <1>6, <1>7 DEF LineOK
  <2>3. ~Readable
    <3>1. n + 1 \in DOMAIN L
      BY <1>2, <1>3
    <3>2. QED BY <1>1, <2>2, <3>1 DEF Readable, L, line
  <2>4. QED BY <2>1, <2>3, FailStep
<1>8. CASE ItemOK(stage, item)
  <2>1. /\ stage = "BASE" => base_cfg' = With(base_cfg, item) /\ cfg' = cfg
        /\ stage # "BASE" => cfg' = With(cfg, item) /\ base_cfg' = base_cfg
        /\ rest' = [rest EXCEPT ![1] = Tail(@)]
        /\ file' = file /\ stage' = stage /\ step' = step /\ anyflag' = anyflag
        /\ sw_info_list' = sw_info_list /\ dc_info_list' = dc_info_list
    BY <1>8 DEF snsd_save_one_item, ItemOK, item, infos
  <2>2. L' = L /\ Items' = Items
    BY <2>1, SameFile DEF L
  <2>3. /\ SubSeq(line, 1, k) \in Seq(Items)
        /\ SubSeq(line, 1, k + 1) = Append(SubSeq(line, 1, k), item)
        /\ item \in Items
    BY <1>6
  <2>4. stage \in Mode => cfg' = Reading(SubSeq(line, 1, k + 1))
    BY <1>4, <2>1, <2>3, ReadingAppended DEF Mode, line
  <2>5. stage = "BASE" =>
          base_cfg' = Together(Append(SubSeq(L, 1, n), SubSeq(line, 1, k + 1)))
    <3>1. stage = "BASE" =>
            base_cfg = Together(Append(SubSeq(L, 1, n), SubSeq(line, 1, k)))
      BY <1>4 DEF line
    <3>2. Together(Append(SubSeq(L, 1, n), Append(SubSeq(line, 1, k), item)))
            = With(Together(Append(SubSeq(L, 1, n), SubSeq(line, 1, k))), item)
      <4> DEFINE p == SubSeq(L, 1, n)
                 c == SubSeq(line, 1, k)
      <4>1. p \in Seq(Seq(Items)) /\ c \in Seq(Items) /\ item \in Items
        BY <1>2, <2>3
      <4> HIDE DEF p, c
      <4>2. Together(Append(p, Append(c, item))) = With(Together(Append(p, c)), item)
        BY <4>1, TogetherAppended
      <4>3. QED BY <4>2 DEF p, c
    <3>3. QED BY <2>1, <2>3, <3>1, <3>2
  <2>6. /\ rest' \in Seq(Seq(Items)) /\ Len(rest') = Len(rest)
        /\ Head(rest') = Tail(Head(rest))
        /\ \A i \in 2 .. Len(rest) : rest'[i] = rest[i]
    <3>1. Tail(Head(rest)) \in Seq(Items)
      BY <1>1, <1>5
    <3>2. 1 \in 1 .. Len(rest)
      BY <1>5
    <3>3. rest' = [rest EXCEPT ![1] = Tail(Head(rest))]
      BY <1>5, <2>1
    <3>4. /\ rest' \in Seq(Seq(Items)) /\ Len(rest') = Len(rest)
          /\ rest'[1] = Tail(Head(rest)) /\ \A i \in 2 .. Len(rest) : rest'[i] = rest[i]
      BY <1>2, <3>1, <3>2, <3>3
    <3>5. Head(rest') = rest'[1]
      BY <1>5, <3>4
    <3>6. QED BY <3>4, <3>5
  <2>7. /\ Len(Head(rest')) = Len(line) - (k + 1)
        /\ \A j \in 1 .. Len(Head(rest')) : Head(rest')[j] = line[k + 1 + j]
    <3> DEFINE t == Tail(Head(rest))
    <3>1. Len(t) = Len(Head(rest)) - 1
          /\ \A j \in 1 .. Len(t) : t[j] = Head(rest)[j + 1] /\ j + 1 \in 1 .. Len(Head(rest))
      BY <1>1, <1>5
    <3> HIDE DEF t
    <3>2. \A j \in 1 .. Len(t) : t[j] = line[k + (j + 1)] /\ k + (j + 1) = k + 1 + j
      BY <1>4, <1>6, <3>1 DEF line
    <3>3. Len(t) = Len(line) - (k + 1)
      BY <1>4, <1>6, <3>1 DEF line
    <3>4. QED BY <2>6, <3>2, <3>3 DEF t
  <2>8. \A j \in 1 .. k + 1 : ItemOK(stage, line[j])
    <3>1. \A j \in 1 .. k + 1 : j \in 1 .. k \/ j = k + 1
      BY <1>6
    <3>2. QED BY <1>4, <1>6, <1>8, <3>1 DEF line
  <2>9. rest' # <<>>
    BY <1>5, <2>6
  <2>10. \A i \in 2 .. Len(rest') : rest'[i] = L[n + i]
    BY <1>2, <2>6 DEF AtItem
  <2>11. AtItem(stage, L, n)'
    <3>1. k + 1 \in 0 .. Len(line)
      BY <1>6
    <3>2. QED BY <2>1, <2>2, <2>4, <2>5, <2>7, <2>8, <2>9, <2>10, <3>1 DEF AtItem, line
  <2>12. NetCfg(stage)' = NetCfg(stage)
    BY <2>1 DEF NetCfg
  <2>13. n \in 0 .. Len(L)
    BY <1>2, <1>3
  <2>14. InSection(stage, L)'
    BY <1>1, <1>2, <2>1, <2>2, <2>6, <2>11, <2>12, <2>13 DEF InSection
  <2>15. \A s \in Section : s = stage => InSection(s, Lines(s))'
    BY <2>1, <2>14 DEF L
  <2>16. QED BY <1>1, <1>3, <2>1, <2>15, ThisSection DEF ReadInv, AnyHost, NetCfg, Section, Mode
<1>9. QED BY <1>7, <1>8

(* Entries are what their lines say.                                       *)
LEMMA EntriesTyped ==
  ASSUME NEW T, NEW p \in Seq(T)
  PROVE  Entries(p) \in Seq({Reading(x) : x \in T}) /\ DOMAIN Entries(p) = DOMAIN p
<1> DEFINE S == {Reading(x) : x \in T}
           e == [i \in 1 .. Len(p) |-> Reading(p[i])]
<1>1. DOMAIN p = 1 .. Len(p) /\ Len(p) \in Nat /\ Entries(p) = e
  <2>1. DOMAIN p = 1 .. Len(p) /\ Len(p) \in Nat
    OBVIOUS
  <2>2. QED BY <2>1 DEF Entries
<1>2. e \in [1 .. Len(p) -> S]
  OBVIOUS
<1> HIDE DEF S, e
<1>3. e \in Seq(S)
  BY <1>1, <1>2, MapProperties
<1>4. DOMAIN e = 1 .. Len(p)
  BY <1>2
<1>5. QED BY <1>1, <1>3, <1>4 DEF S

LEMMA LineEndStep ==
  ASSUME ReadInv, snsd_add_one_cfg
  PROVE  ReadInv'
<1> DEFINE L == Lines(stage)
<1>1. stage \in Section /\ step = "item" /\ Head(rest) = <<>>
  BY DEF snsd_add_one_cfg
<1>2. PICK n \in 0 .. Len(L) - 1 :
        /\ rest \in Seq(Seq(Items)) /\ rest # <<>> /\ Len(rest) = Len(L) - n
        /\ \A i \in 1 .. n : LineOK(stage, L[i])
        /\ stage \in Mode => NetCfg(stage) = Entries(SubSeq(L, 1, n))
        /\ L[n + 1] \in Seq(Items)
        /\ SubSeq(L, 1, n) \in Seq(Seq(Items))
        /\ AtItem(stage, L, n)
  BY <1>1, ItemPosition
<1>3. L \in Seq(Seq(Items)) /\ Found(stage) # {}
  BY <1>1, Position
<1> HIDE DEF L
<1> DEFINE line == L[n + 1]
<1>4. PICK k \in 0 .. Len(line) :
        /\ Len(Head(rest)) = Len(line) - k
        /\ \A j \in 1 .. k : ItemOK(stage, line[j])
        /\ stage \in Mode => cfg = Reading(SubSeq(line, 1, k))
        /\ stage = "BASE" => base_cfg = Together(Append(SubSeq(L, 1, n), SubSeq(line, 1, k)))
  BY <1>2 DEF AtItem
<1>5. k = Len(line) /\ SubSeq(line, 1, k) = line /\ DOMAIN line = 1 .. k
  <2>1. Len(Head(rest)) = 0 /\ Len(line) \in Nat
    BY <1>1, <1>2
  <2>2. QED BY <1>2, <1>4, <2>1
<1>6. /\ n + 1 \in 1 .. Len(L) /\ DOMAIN L = 1 .. Len(L) /\ n \in 0 .. Len(L)
      /\ SubSeq(L, 1, n + 1) = Append(SubSeq(L, 1, n), line) /\ Len(L) \in Nat
  BY <1>2, <1>3, Prefix
<1> HIDE DEF line
<1>7. check_necessary(stage) <=> LineOK(stage, line)
  <2>1. CASE stage = "BASE"
    BY <1>4, <1>5, <2>1 DEF check_necessary, LineOK, Necessary, line
  <2>2. CASE stage \in Mode
    <3>1. DOMAIN cfg = Given(line)
      BY <1>4, <1>5, <2>2 DEF Reading, line
    <3>2. QED BY <1>4, <1>5, <3>1 DEF check_necessary, LineOK, line
  <2>3. QED BY <1>1, <2>1, <2>2 DEF Section
<1>8. CASE ~check_necessary(stage)
  <2>1. Fail
    BY <1>8 DEF snsd_add_one_cfg
  <2>2. ~Readable
    BY <1>1, <1>6, <1>7, <1>8 DEF Readable, L, line
  <2>3. QED BY <2>1, <2>2, FailStep
<1>9. CASE check_necessary(stage)
  <2>1. /\ sw_info_list' = IF stage = "SW" THEN Append(sw_info_list, cfg) ELSE sw_info_list
        /\ dc_info_list' = IF stage = "DC" THEN Append(dc_info_list, cfg) ELSE dc_info_list
        /\ anyflag' = (anyflag \/ (stage = "SW" /\ cfg.host_traddr = "any"))
        /\ rest' = Tail(rest) /\ step' = "line"
        /\ file' = file /\ stage' = stage /\ base_cfg' = base_cfg
    BY <1>9 DEF snsd_add_one_cfg
  <2>2. L' = L /\ Items' = Items
    BY <2>1, SameFile DEF L
  <2>3. stage \in Mode => NetCfg(stage)' = Entries(SubSeq(L, 1, n + 1))
    <3> DEFINE p == SubSeq(L, 1, n)
    <3>1. p \in Seq(Seq(Items)) /\ line \in Seq(Items)
      BY <1>2 DEF line
    <3> HIDE DEF p
    <3>2. Entries(Append(p, line)) = Append(Entries(p), Reading(line))
      BY <3>1, EntriesAppended
    <3>3. stage \in Mode => NetCfg(stage) = Entries(p) /\ cfg = Reading(line)
      BY <1>2, <1>4, <1>5 DEF p, line
    <3>4. stage \in Mode => NetCfg(stage)' = Append(NetCfg(stage), cfg)
      BY <2>1 DEF NetCfg, Mode
    <3>5. QED BY <1>6, <3>2, <3>3, <3>4 DEF p
  <2>4. stage = "BASE" => base_cfg' = Together(SubSeq(L, 1, n + 1))
    BY <1>4, <1>5, <1>6, <2>1 DEF line
  <2>5. /\ rest' \in Seq(Seq(Items)) /\ Len(rest') = Len(L) - (n + 1)
        /\ \A i \in 1 .. Len(rest') : rest'[i] = rest[i + 1] /\ i + 1 \in 2 .. Len(rest)
    BY <1>2, <1>6, <2>1
  <2>6. \A i \in 1 .. Len(rest') : rest'[i] = L[n + 1 + i]
    <3>1. \A i \in 2 .. Len(rest) : rest[i] = L[n + i]
      BY <1>2 DEF AtItem
    <3>2. \A i \in 1 .. Len(rest') : rest'[i] = L[n + (i + 1)] /\ n + (i + 1) = n + 1 + i
      BY <1>2, <2>5, <3>1
    <3>3. QED BY <3>2
  <2>7. \A i \in 1 .. n + 1 : LineOK(stage, L[i])
    <3>1. \A i \in 1 .. n + 1 : i \in 1 .. n \/ i = n + 1
      BY <1>6
    <3>2. QED BY <1>2, <1>7, <1>9, <3>1 DEF line
  <2>8. AtLine(stage, L, n + 1)'
    BY <2>1, <2>2, <2>4, <2>6 DEF AtLine
  <2>9. n + 1 \in 0 .. Len(L)
    BY <1>6
  <2>10. InSection(stage, L)'
    BY <2>1, <2>2, <2>3, <2>5, <2>7, <2>8, <2>9 DEF InSection
  <2>11. \A s \in Section : s = stage => InSection(s, Lines(s))'
    BY <2>1, <2>10 DEF L
  <2>12. anyflag' \in BOOLEAN /\ (anyflag' <=> AnyHost')
    <3>1. anyflag \in BOOLEAN /\ (anyflag <=> AnyHost)
      BY <1>1 DEF ReadInv, Section, Mode
    <3>2. CASE stage = "SW"
      <4> DEFINE S == {Reading(x) : x \in Seq(Items)}
      <4>1. sw_info_list \in Seq(S) /\ cfg \in S
        <5>1. sw_info_list = Entries(SubSeq(L, 1, n))
          BY <1>2, <3>2 DEF NetCfg, Mode
        <5>2. cfg = Reading(line) /\ line \in Seq(Items)
          BY <1>2, <1>4, <1>5, <3>2 DEF Mode, line
        <5>3. QED BY <1>2, <5>1, <5>2, EntriesTyped
      <4> HIDE DEF S
      <4>2. /\ DOMAIN sw_info_list = 1 .. Len(sw_info_list) /\ Len(sw_info_list) \in Nat
            /\ DOMAIN sw_info_list' = 1 .. Len(sw_info_list) + 1
            /\ \A i \in 1 .. Len(sw_info_list) : sw_info_list'[i] = sw_info_list[i]
            /\ sw_info_list'[Len(sw_info_list) + 1] = cfg
        BY <2>1, <3>2, <4>1
      <4>3. \A i : i \in 1 .. Len(sw_info_list) + 1 <=>
                     (i \in 1 .. Len(sw_info_list) \/ i = Len(sw_info_list) + 1)
        BY <4>2
      <4>4. anyflag' = (anyflag \/ cfg.host_traddr = "any")
        BY <2>1, <3>2
      <4>5. AnyHost' <=> (AnyHost \/ cfg.host_traddr = "any")
        BY <4>2, <4>3 DEF AnyHost
      <4>6. QED BY <3>1, <4>4, <4>5
    <3>3. CASE stage # "SW"
      <4>1. AnyHost' <=> AnyHost
        BY <2>1, <3>3 DEF AnyHost
      <4>2. anyflag' = (anyflag \/ FALSE)
        BY <2>1, <3>3
      <4>3. QED BY <3>1, <4>1, <4>2
    <3>4. QED BY <3>2, <3>3
  <2>13. QED BY <1>1, <1>3, <2>1, <2>11, <2>12, ThisSection DEF NetCfg, Mode
<1>10. QED BY <1>8, <1>9

LEMMA SectionEndStep ==
  ASSUME ReadInv, section_end
  PROVE  ReadInv'
<1>1. /\ stage \in Section /\ step = "line" /\ rest = <<>> /\ step' = "load"
      /\ stage' = CASE stage = "BASE" -> "SW" [] stage = "SW" -> "DC" [] stage = "DC" -> "hostnqn"
      /\ file' = file /\ base_cfg' = base_cfg /\ anyflag' = anyflag
      /\ sw_info_list' = sw_info_list /\ dc_info_list' = dc_info_list
  BY DEF section_end, infos
<1>2. Behind' = Behind \cup {stage} /\ stage' \notin Behind' \cap Section
  BY <1>1 DEF Behind, Section, Mode
<1>3. \A s \in Section : Found(s)' = Found(s) /\ Lines(s)' = Lines(s)
  BY <1>1, SameFile
<1>4. \A s \in Mode : NetCfg(s)' = NetCfg(s)
  BY <1>1 DEF NetCfg
<1>5. ASSUME NEW s \in Section
      PROVE  /\ Entered(s, <<>>)' <=> Entered(s, <<>>)
             /\ Entered(s, Lines(s))' <=> Entered(s, Lines(s))
  BY <1>1, <1>3, <1>4 DEF Entered
<1>6. /\ Found(stage) # {}
      /\ \A i \in DOMAIN Lines(stage) : LineOK(stage, Lines(stage)[i])
      /\ Entered(stage, Lines(stage))
  <2> DEFINE L == Lines(stage)
  <2>1. Found(stage) # {} /\ L \in Seq(Seq(Items)) /\ InSection(stage, L)
    BY <1>1, Position
  <2> HIDE DEF L
  <2>2. PICK n \in 0 .. Len(L) :
          /\ Len(rest) = Len(L) - n
          /\ \A i \in 1 .. n : LineOK(stage, L[i])
          /\ stage \in Mode => NetCfg(stage) = Entries(SubSeq(L, 1, n))
          /\ stage = "BASE" => base_cfg = Together(SubSeq(L, 1, n))
    BY <1>1, <2>1 DEF InSection, AtLine
  <2>3. n = Len(L) /\ DOMAIN L = 1 .. n /\ SubSeq(L, 1, n) = L
    <3>1. Len(rest) = 0
      BY <1>1
    <3>2. QED BY <2>1, <2>2, <3>1
  <2>4. QED BY <2>1, <2>2, <2>3 DEF Entered, L
<1>7. ASSUME NEW s \in Section
      PROVE  SectionInv(s)'
  <2>1. SectionInv(s)
    BY <1>1 DEF ReadInv, Section, Mode
  <2>2. CASE s = stage
    <3>1. s \in Behind' /\ step' = "load"
      BY <1>1, <1>2, <2>2
    <3>2. QED BY <1>3, <1>5, <1>6, <2>2, <3>1 DEF SectionInv
  <2>3. CASE s # stage
    <3>1. (s \in Behind' <=> s \in Behind) /\ step' = "load"
      BY <1>1, <1>2, <2>3
    <3>2. QED BY <1>3, <1>5, <2>1, <2>3, <3>1 DEF SectionInv
  <2>4. QED BY <2>2, <2>3
<1>8. anyflag' \in BOOLEAN /\ (anyflag' <=> AnyHost')
  BY <1>1 DEF ReadInv, AnyHost, Section, Mode
<1>9. stage' \in Section \cup {"hostnqn"}
  BY <1>1 DEF Section, Mode
<1>10. QED BY <1>1, <1>7, <1>8, <1>9 DEF ReadInv, Section, Mode

(* What has been read when all sections are.                               *)
LEMMA AllRead ==
  ASSUME ReadInv, stage \in {"hostnqn", "conflict", "ready"}
  PROVE  /\ \A s \in Section :
              /\ Found(s) # {} /\ Lines(s) \in Seq(Seq(Items))
              /\ \A i \in DOMAIN Lines(s) : LineOK(s, Lines(s)[i])
         /\ \A m \in Mode : NetCfg(m) = Entries(Lines(m))
         /\ base_cfg = Together(Lines("BASE"))
         /\ anyflag \in BOOLEAN /\ (anyflag <=> AnyHost)
<1>1. Behind = Section /\ file \in File
  BY DEF Behind, ReadInv, Section, Mode
<1>2. \A s \in Section : SectionInv(s)
  BY DEF ReadInv
<1>3. \A s \in Section :
        /\ Found(s) # {} /\ Entered(s, Lines(s))
        /\ \A i \in DOMAIN Lines(s) : LineOK(s, Lines(s)[i])
  BY <1>1, <1>2 DEF SectionInv
<1>4. \A s \in Section : Lines(s) \in Seq(Seq(Items))
  BY <1>1, <1>3, LinesTyped
<1>5. \A m \in Mode : NetCfg(m) = Entries(Lines(m))
  BY <1>3 DEF Entered, Section
<1>6. base_cfg = Together(Lines("BASE"))
  BY <1>3 DEF Entered, Section
<1>7. anyflag \in BOOLEAN /\ (anyflag <=> AnyHost)
  BY DEF ReadInv
<1>8. QED BY <1>3, <1>4, <1>5, <1>6, <1>7

(* And what stays so when nothing read is changed.                         *)
LEMMA StillRead ==
  ASSUME ReadInv, stage \in {"hostnqn", "conflict", "ready"},
         stage' \in {"hostnqn", "conflict", "ready"},
         file' = file, step' = step, base_cfg' = base_cfg, anyflag' = anyflag,
         sw_info_list' = sw_info_list, dc_info_list' = dc_info_list,
         stage' = "ready" => Readable
  PROVE  ReadInv'
<1>1. Behind = Section /\ Behind' = Section
  BY DEF Behind, Section, Mode
<1>2. \A s \in Section : Found(s)' = Found(s) /\ Lines(s)' = Lines(s)
  BY SameFile
<1>3. \A s \in Mode : NetCfg(s)' = NetCfg(s)
  BY DEF NetCfg
<1>4. ASSUME NEW s \in Section
      PROVE  SectionInv(s)'
  <2>1. SectionInv(s) /\ stage' # s /\ s \in Behind
    BY <1>1 DEF ReadInv, Section, Mode
  <2>2. Entered(s, Lines(s))' <=> Entered(s, Lines(s))
    BY <1>2, <1>3 DEF Entered
  <2>3. QED BY <1>1, <1>2, <2>1, <2>2 DEF SectionInv
<1>5. anyflag' \in BOOLEAN /\ (anyflag' <=> AnyHost')
  BY DEF ReadInv, AnyHost
<1>6. stage' = "ready" => Readable'
  BY SameFile
<1>7. QED BY <1>4, <1>5, <1>6 DEF ReadInv

(* The entry of a line has its host.                                       *)
LEMMA HostOfEntry ==
  ASSUME ReadInv, stage \in {"hostnqn", "conflict", "ready"}, NEW m \in Mode
  PROVE  /\ DOMAIN NetCfg(m) = DOMAIN Lines(m)
         /\ \A i \in DOMAIN Lines(m) : NetCfg(m)[i].host_traddr = Host(m, i)
<1>1. NetCfg(m) = Entries(Lines(m)) /\ Lines(m) \in Seq(Seq(Items))
  BY AllRead DEF Section
<1>2. DOMAIN NetCfg(m) = DOMAIN Lines(m)
  BY <1>1, EntriesTyped
<1>3. ASSUME NEW i \in DOMAIN Lines(m)
      PROVE  NetCfg(m)[i].host_traddr = Host(m, i)
  <2>1. NetCfg(m)[i] = Reading(Lines(m)[i])
    BY <1>1 DEF Entries
  <2>2. "host_traddr" \in Given(Lines(m)[i])
    BY AllRead DEF LineOK, Necessary, Section, Mode
  <2>3. QED BY <2>1, <2>2 DEF Reading, Host
<1>4. QED BY <1>2, <1>3

(* snsd_check_conflict finds exactly the conflicts there are.              *)
LEMMA ConflictExact ==
  ASSUME ReadInv, stage \in {"hostnqn", "conflict", "ready"}
  PROVE  snsd_check_conflict <=> Readable
<1> DEFINE sw == DOMAIN Lines("SW")
           dc == DOMAIN Lines("DC")
<1>1. /\ NetCfg("SW") = sw_info_list /\ DOMAIN sw_info_list = sw
      /\ NetCfg("DC") = dc_info_list /\ DOMAIN dc_info_list = dc
      /\ \A i \in sw : sw_info_list[i].host_traddr = Host("SW", i)
      /\ \A i \in dc : dc_info_list[i].host_traddr = Host("DC", i)
  BY HostOfEntry DEF NetCfg, Mode
<1>2. anyflag <=> \E i \in sw : Host("SW", i) = "any"
  BY <1>1, AllRead DEF AnyHost
<1>3. \A s \in Section : Found(s) # {} /\ \A i \in DOMAIN Lines(s) : LineOK(s, Lines(s)[i])
  BY AllRead
<1> HIDE DEF sw, dc
<1>4. snsd_check_conflict <=>
        /\ \A i \in sw : anyflag => Host("SW", i) = "any"
        /\ \A i, j \in sw : i # j => Host("SW", i) # Host("SW", j)
        /\ \A i, j \in dc : i # j => Host("DC", i) # Host("DC", j)
        /\ \A i \in sw, j \in dc : Host("SW", i) # Host("DC", j)
  <2>1. ToSet(sw_info_list) = {sw_info_list[i] : i \in sw}
    BY <1>1 DEF ToSet
  <2>2. ToSet(dc_info_list) = {dc_info_list[i] : i \in dc}
    BY <1>1 DEF ToSet
  <2>3. check_single(sw_info_list, "SW") <=>
          /\ \A i \in sw : anyflag => Host("SW", i) = "any"
          /\ \A i, j \in sw : i # j => Host("SW", i) # Host("SW", j)
    BY <1>1 DEF check_single
  <2>4. check_single(dc_info_list, "DC") <=>
          \A i, j \in dc : i # j => Host("DC", i) # Host("DC", j)
    BY <1>1 DEF check_single
  <2>5. (\A s \in ToSet(sw_info_list), d \in ToSet(dc_info_list) : s.host_traddr # d.host_traddr)
          <=> \A i \in sw, j \in dc : Host("SW", i) # Host("DC", j)
    BY <1>1, <2>1, <2>2
  <2>6. QED BY <2>3, <2>4, <2>5 DEF snsd_check_conflict
<1>5. Readable <=>
        /\ \A i, j \in sw : i # j => Host("SW", i) # Host("SW", j)
        /\ \A i, j \in dc : i # j => Host("DC", i) # Host("DC", j)
        /\ \A i \in sw, j \in dc : Host("SW", i) # Host("DC", j)
        /\ \A i, j \in sw : Host("SW", i) = "any" => i = j
  BY <1>3, Zenon DEF Readable, Mode, sw, dc
<1>6. QED BY <1>2, <1>4, <1>5


(* Every step of the reader keeps the invariant.                           *)
LEMMA ReadInvStep ==
  ASSUME ReadInv, [Next]_vars
  PROVE  ReadInv'
<1>1. CASE snsd_section_load
  BY <1>1, LoadStep
<1>2. CASE snsd_init_cfg
  BY <1>2, LineStep
<1>3. CASE snsd_save_one_item
  BY <1>3, ItemStep
<1>4. CASE snsd_add_one_cfg
  BY <1>4, LineEndStep
<1>5. CASE section_end
  BY <1>5, SectionEndStep
<1>6. CASE snsd_hostnqn_init
  <2>1. /\ stage = "hostnqn" /\ stage' = "conflict" /\ file' = file /\ step' = step
        /\ base_cfg' = base_cfg /\ anyflag' = anyflag
        /\ sw_info_list' = sw_info_list /\ dc_info_list' = dc_info_list
    BY <1>6 DEF snsd_hostnqn_init, infos
  <2>2. QED BY <2>1, StillRead
<1>7. CASE cfg_init_end
  <2>1. stage = "conflict"
    BY <1>7 DEF cfg_init_end
  <2>2. CASE ~snsd_check_conflict
    <3>1. Fail
      BY <1>7, <2>2 DEF cfg_init_end
    <3>2. QED BY <2>1, <2>2, <3>1, ConflictExact, FailStep
  <2>3. CASE snsd_check_conflict
    <3>1. /\ stage' = "ready" /\ file' = file /\ step' = step
          /\ base_cfg' = base_cfg /\ anyflag' = anyflag
          /\ sw_info_list' = sw_info_list /\ dc_info_list' = dc_info_list
      BY <1>7, <2>3 DEF cfg_init_end, infos
    <3>2. Readable
      BY <2>1, <2>3, ConflictExact
    <3>3. QED BY <2>1, <3>1, <3>2, StillRead
  <2>4. QED BY <2>2, <2>3
<1>8. CASE system_fails
  <2>1. Fail /\ upset' = TRUE
    BY <1>8 DEF system_fails
  <2>2. QED BY <2>1, FailStep
<1>9. CASE snsd_cfg_exit
  <2>1. /\ stage' = "exit" /\ file' = file /\ step' = step
        /\ sw_info_list' = <<>> /\ dc_info_list' = <<>>
    BY <1>9 DEF snsd_cfg_exit
  <2>2. QED BY <2>1 DEF ReadInv
<1>10. CASE UNCHANGED vars
  <2>1. /\ file' = file /\ stage' = stage /\ step' = step /\ rest' = rest /\ cfg' = cfg
        /\ base_cfg' = base_cfg /\ anyflag' = anyflag /\ upset' = upset
        /\ sw_info_list' = sw_info_list /\ dc_info_list' = dc_info_list
    BY <1>10 DEF vars, loading, infos
  <2>2. (stage = "ready" => Readable)' /\ (stage = "failed" => ~Readable \/ upset)'
    BY <2>1, SameFile DEF ReadInv
  <2>3. ASSUME stage \notin {"failed", "exit"}
        PROVE  (\A s \in Section : SectionInv(s))' /\ (anyflag \in BOOLEAN /\ (anyflag <=> AnyHost))'
    <3>1. \A s \in Section : SectionInv(s)' <=> SectionInv(s)
      <4>1. \A s : Found(s)' = Found(s) /\ Lines(s)' = Lines(s)
        BY <2>1, SameFile
      <4>2. Behind' = Behind
        BY <2>1 DEF Behind
      <4>3. \A s, L : Entered(s, L)' <=> Entered(s, L)
        BY <2>1 DEF Entered, NetCfg
      <4>4. Items' = Items
        BY <2>1, SameFile
      <4>5. \A s, L, n : AtLine(s, L, n)' <=> AtLine(s, L, n)
        BY <2>1 DEF AtLine
      <4>6. \A s, L, n : AtItem(s, L, n)' <=> AtItem(s, L, n)
        BY <2>1 DEF AtItem
      <4>7. \A s, L : InSection(s, L)' <=> InSection(s, L)
        BY <2>1, <4>4, <4>5, <4>6 DEF InSection, NetCfg
      <4>8. QED BY <2>1, <4>1, <4>2, <4>3, <4>7 DEF SectionInv
    <3>2. QED BY <2>1, <2>3, <3>1 DEF ReadInv, AnyHost
  <2>4. QED BY <2>1, <2>2, <2>3 DEF ReadInv
<1>11. QED BY <1>1, <1>2, <1>3, <1>4, <1>5, <1>6, <1>7, <1>8, <1>9, <1>10 DEF Next

LEMMA ReadInvInit ==
  ASSUME Init
  PROVE  ReadInv
<1>1. /\ file \in File /\ stage = "BASE" /\ step = "load" /\ base_cfg = Default
      /\ sw_info_list = <<>> /\ dc_info_list = <<>> /\ anyflag = FALSE
  BY DEF Init
<1>2. ~AnyHost
  BY <1>1 DEF AnyHost
<1>3. ASSUME NEW s \in Section
      PROVE  SectionInv(s)
  <2>1. Behind = {} /\ step = "load"
    BY <1>1 DEF Behind
  <2>2. Entered(s, <<>>)
    BY <1>1, EntriesOfNothing, TogetherOfNothing DEF Entered, NetCfg
  <2>3. QED BY <2>1, <2>2 DEF SectionInv
<1>4. QED BY <1>1, <1>2, <1>3 DEF ReadInv, Section

(* The invariant of the loops that read the file: what stands in           *)
(* base_cfg, in the lists and in the line being read is what the part of   *)
(* the file that was read says.                                            *)
THEOREM ReadInvariant == Spec => []ReadInv
<1>1. Init => ReadInv
  BY ReadInvInit
<1>2. ReadInv /\ [Next]_vars => ReadInv'
  BY ReadInvStep
<1>3. QED BY <1>1, <1>2, PTL DEF Spec

-----------------------------------------------------------------------------
(* The value that counts is one of the values of the line.                 *)
LEMMA LastIsGiven ==
  ASSUME NEW T, NEW line \in Seq(T), NEW o \in Given(line)
  PROVE  \E j \in DOMAIN line : line[j].option = o /\ LastOf(line, o) = line[j].value
<1> DEFINE S == {i \in DOMAIN line : line[i].option = o}
<1>1. Len(line) \in Nat /\ S \in SUBSET (1 .. Len(line)) /\ S # {}
  BY DEF Given
<1>2. Max(S) \in S
  <2> HIDE DEF S
  <2> QED BY <1>1, MaxInSet
<1>3. LastOf(line, o) = line[Max(S)].value
  BY DEF LastOf
<1>4. QED BY <1>2, <1>3

(* A line that is accepted is an entry of the list's type.                 *)
LEMMA EntryTyped ==
  ASSUME NEW m \in Mode, NEW T, NEW line \in Seq(T), LineOK(m, line)
  PROVE  /\ Necessary(m) \subseteq DOMAIN Reading(line)
         /\ DOMAIN Reading(line) \subseteq Options(m)
         /\ Reading(line).protocol \in Protocol
<1>1. DOMAIN Reading(line) = Given(line) /\ Necessary(m) \subseteq Given(line)
  BY DEF Reading, LineOK
<1>2. Given(line) \subseteq Options(m)
  BY DEF Given, LineOK, ItemOK
<1>3. "protocol" \in Given(line)
  BY <1>1 DEF Necessary, Mode
<1>4. PICK j \in DOMAIN line :
        line[j].option = "protocol" /\ LastOf(line, "protocol") = line[j].value
  BY <1>3, LastIsGiven
<1>5. Valid(m, line[j])
  BY DEF LineOK, ItemOK
<1>6. line[j].value \in Protocol
  BY <1>4, <1>5 DEF Valid, AddressOption, Unsupported, DriverOption
<1>7. Reading(line).protocol = LastOf(line, "protocol")
  BY <1>3 DEF Reading
<1>8. QED BY <1>1, <1>2, <1>4, <1>6, <1>7

(* Whatever was read so far, the lists hold entries of accepted lines.     *)
LEMMA ListsAreLines ==
  ASSUME ReadInv, NEW m \in Mode
  PROVE  \E T, p : /\ p \in Seq(Seq(T)) /\ NetCfg(m) = Entries(p)
                   /\ \A i \in DOMAIN p : LineOK(m, p[i])
<1>1. CASE stage \in {"failed", "exit"}
  <2>1. NetCfg(m) = Entries(<<>>)
    BY <1>1, EntriesOfNothing DEF ReadInv, NetCfg
  <2>2. <<>> \in Seq(Seq({})) /\ DOMAIN <<>> = {}
    OBVIOUS
  <2>3. QED BY <2>1, <2>2
<1>2. CASE stage \notin {"failed", "exit"}
  <2>1. SectionInv(m) /\ file \in File /\ m \in Section
    BY <1>2 DEF ReadInv, Section
  <2>2. CASE m \in Behind
    <3>1. /\ Lines(m) \in Seq(Seq(Items)) /\ NetCfg(m) = Entries(Lines(m))
          /\ \A i \in DOMAIN Lines(m) : LineOK(m, Lines(m)[i])
      BY <2>1, <2>2, LinesTyped DEF SectionInv, Entered
    <3>2. QED BY <3>1
  <2>3. CASE m = stage /\ step # "load"
    <3> DEFINE L == Lines(m)
    <3>1. L \in Seq(Seq(Items)) /\ InSection(m, L)
      BY <2>1, <2>3, Position
    <3> HIDE DEF L
    <3>2. PICK n \in 0 .. Len(L) :
            /\ \A i \in 1 .. n : LineOK(m, L[i])
            /\ NetCfg(m) = Entries(SubSeq(L, 1, n))
      BY <3>1 DEF InSection
    <3> DEFINE p == SubSeq(L, 1, n)
    <3>3. p \in Seq(Seq(Items)) /\ DOMAIN p = 1 .. n /\ \A i \in 1 .. n : p[i] = L[i]
      BY <3>1, Prefix
    <3> HIDE DEF p
    <3>4. \A i \in DOMAIN p : LineOK(m, p[i])
      BY <3>2, <3>3
    <3>5. QED BY <3>2, <3>3, <3>4 DEF p
  <2>4. CASE m \notin Behind /\ (m = stage => step = "load")
    <3>1. NetCfg(m) = Entries(<<>>)
      BY <2>1, <2>4 DEF SectionInv, Entered
    <3>2. <<>> \in Seq(Seq({})) /\ DOMAIN <<>> = {}
      OBVIOUS
    <3>3. QED BY <3>1, <3>2
  <2>5. QED BY <2>2, <2>3, <2>4
<1>3. QED BY <1>1, <1>2

ItemLeft == step = "item" => rest # <<>>

LEMMA ItemLeftStep ==
  ASSUME ReadInv, ItemLeft, [Next]_vars
  PROVE  ItemLeft'
<1>1. CASE snsd_save_one_item
  <2>1. \/ rest \in Seq(Seq(Items)) /\ rest # <<>> /\ rest' = [rest EXCEPT ![1] = Tail(@)]
        \/ rest' = rest
    <3>1. stage \in Section /\ step = "item"
      BY <1>1 DEF snsd_save_one_item
    <3>2. rest \in Seq(Seq(Items)) /\ rest # <<>>
      BY <3>1, ItemPosition
    <3>3. QED BY <1>1, <3>2 DEF snsd_save_one_item, Fail
  <2>2. step = "item" /\ rest # <<>>
    BY <1>1 DEF snsd_save_one_item, ItemLeft
  <2>3. rest' # <<>>
    <3>1. CASE rest' = rest
      BY <2>2, <3>1
    <3>2. CASE rest \in Seq(Seq(Items)) /\ rest' = [rest EXCEPT ![1] = Tail(@)]
      <4>1. 1 \in DOMAIN rest /\ DOMAIN rest' = DOMAIN rest
        BY <2>2, <3>2
      <4>2. QED BY <4>1
    <3>3. QED BY <2>1, <3>1, <3>2
  <2>4. QED BY <2>3 DEF ItemLeft
<1>2. CASE snsd_init_cfg
  BY <1>2 DEF snsd_init_cfg, ItemLeft
<1>3. CASE snsd_section_load \/ section_end
  BY <1>3 DEF snsd_section_load, section_end, Fail, ItemLeft
<1>4. CASE snsd_add_one_cfg
  BY <1>4 DEF snsd_add_one_cfg, Fail, ItemLeft
<1>5. CASE snsd_hostnqn_init \/ cfg_init_end \/ system_fails \/ snsd_cfg_exit
  BY <1>5 DEF snsd_hostnqn_init, cfg_init_end, system_fails, snsd_cfg_exit, Fail, ItemLeft
<1>6. CASE UNCHANGED vars
  BY <1>6 DEF vars, loading, ItemLeft
<1>7. QED BY <1>1, <1>2, <1>3, <1>4, <1>5, <1>6 DEF Next

(* The entries of the lists have the options of their section, the         *)
(* necessary ones among them, and a protocol that is known: every user of  *)
(* the lists reads these fields without a test.                            *)
THEOREM TypeInvariant == Spec => []TypeOK
<1>1. Init => ReadInv /\ ItemLeft
  BY ReadInvInit DEF Init, ItemLeft
<1>2. ReadInv /\ ItemLeft /\ [Next]_vars => (ReadInv /\ ItemLeft)'
  BY ReadInvStep, ItemLeftStep
<1>3. ReadInv /\ ItemLeft => TypeOK
  <2> SUFFICES ASSUME ReadInv, ItemLeft PROVE TypeOK
    OBVIOUS
  <2>1. ASSUME NEW m \in Mode, NEW e \in ToSet(NetCfg(m))
        PROVE  /\ Necessary(m) \subseteq DOMAIN e /\ DOMAIN e \subseteq Options(m)
               /\ e.protocol \in Protocol
    <3>1. PICK T, p : /\ p \in Seq(Seq(T)) /\ NetCfg(m) = Entries(p)
                      /\ \A i \in DOMAIN p : LineOK(m, p[i])
      BY ListsAreLines
    <3>2. PICK i \in DOMAIN p : e = Reading(p[i])
      BY <3>1 DEF Entries, ToSet
    <3>3. p[i] \in Seq(T) /\ LineOK(m, p[i])
      BY <3>1
    <3>4. QED BY <3>2, <3>3, EntryTyped
  <2>2. QED BY <2>1 DEF ReadInv, ItemLeft, TypeOK
<1>4. QED BY <1>1, <1>2, <1>3, PTL DEF Spec

-----------------------------------------------------------------------------
(* No comment of the file holds a name in brackets.  The reader knows      *)
(* comments only between items (see snsd_find_section): a bracket in one   *)
(* is a heading, and opens or ends a section.                              *)
CommentsPlain == \A i \in DOMAIN file : file[i].comment => file[i].bracket = ""

(* Then what the reader finds is what the file says.                       *)
LEMMA FoundIsWritten ==
  ASSUME file \in File, CommentsPlain
  PROVE  \A s \in Section : Heading(s) = Found(s) /\ (Found(s) # {} => Written(s) = Lines(s))
<1>1. ASSUME NEW s \in Section
      PROVE  Heading(s) = Found(s)
  BY DEF Heading, Found, CommentsPlain, Section, Mode
<1>2. ASSUME NEW i \in DOMAIN file
      PROVE  HeadingEnd(i) = End(i)
  <2>1. \A j \in i + 1 .. Len(file) : j \in DOMAIN file
    BY CfgAssumption
  <2>2. {j \in i + 1 .. Len(file) : ~file[j].comment /\ file[j].bracket # ""}
          = {j \in i + 1 .. Len(file) : file[j].bracket # ""}
    BY <2>1 DEF CommentsPlain
  <2>3. QED BY <2>2 DEF HeadingEnd, End
<1>3. ASSUME NEW s \in Section, Found(s) # {}
      PROVE  Written(s) = Lines(s)
  <2> DEFINE i == Min(Found(s))
             W(n) == LET line == file[i + n - 1] IN IF line.comment THEN <<>> ELSE line.items
             B(n) == Text(i, i + n - 1)
  <2>1. i \in DOMAIN file /\ i \in Found(s) /\ DOMAIN file = 1 .. Len(file) /\ Len(file) \in Nat
    BY <1>3, FoundIsLine, CfgAssumption
  <2>2. ~file[i].comment
    BY <2>1 DEF Found, CommentsPlain, Section, Mode
  <2>3. Written(s) = NonEmpty([n \in 1 .. HeadingEnd(i) - i |-> W(n)])
    BY <1>1, Zenon DEF Written
  <2>4. Lines(s) = NonEmpty([n \in 1 .. End(i) - i |-> B(n)])
    BY Zenon DEF Lines, Body
  <2> HIDE DEF i
  <2>5. HeadingEnd(i) = End(i) /\ End(i) \in i + 1 .. Len(file) + 1
    BY <1>2, <2>1, EndInFile
  <2>6. ASSUME NEW n \in 1 .. End(i) - i
        PROVE  W(n) = B(n)
    <3>1. i + n - 1 > i \/ i + n - 1 = i
      BY <2>1, <2>5
    <3>2. QED BY <2>2, <3>1 DEF Text
  <2> HIDE DEF W, B
  <2>7. [n \in 1 .. HeadingEnd(i) - i |-> W(n)] = [n \in 1 .. End(i) - i |-> B(n)]
    BY <2>5, <2>6
  <2>8. QED BY <2>3, <2>4, <2>7
<1>4. QED BY <1>1, <1>3

(* The tables of the code say of an item what the documentation says,      *)
(* except of the disputed items, of which they say the contrary: there are *)
(* no other differences.                                                   *)
THEOREM ItemsAgree ==
  ASSUME NEW s \in Section, NEW item
  PROVE  Disputed(s, item) <=> (Documented(s, item) <=> ~ItemOK(s, item))
<1> DEFINE o == item.option
           v == item.value
<1>0. /\ s = "BASE" \/ s = "SW" \/ s = "DC"
      /\ AddressOption = {"host_traddr", "traddr"} /\ Tuning = DriverOption
  BY DEF Section, Mode, AddressOption, Tuning, DriverOption
<1>1. CASE o \in Tuning
  BY <1>1 DEF Disputed, Documented, ItemOK, Supported, Mandatory, Options, Valid, AddressOption,
     Tuning, DriverOption, Unsupported, para_validity_test, Section, Mode
<1>2. CASE o = "traddr" \/ o = "host_traddr"
  <2>1. CASE s = "BASE"
    BY <1>2, <2>1 DEF Disputed, Documented, ItemOK, Supported, Mandatory, Options, AddressOption,
       Tuning, DriverOption, Unsupported
  <2>2. CASE s = "SW"
    BY <1>2, <2>2, CfgAssumption DEF Disputed, Documented, ItemOK, Supported, Mandatory, Options,
       Valid, AddressOption, Tuning, DriverOption, Unsupported
  <2>3. CASE s = "DC"
    BY <1>2, <2>3, CfgAssumption DEF Disputed, Documented, ItemOK, Supported, Mandatory, Options,
       Valid, AddressOption, Tuning, DriverOption, Unsupported
  <2>4. QED BY <1>0, <2>1, <2>2, <2>3
<1>3. CASE o = "protocol"
  BY <1>0, <1>3 DEF Disputed, Documented, ItemOK, Supported, Mandatory, Options, Valid,
     AddressOption, Tuning, DriverOption, Unsupported, Protocol
<1>4. CASE o \notin Tuning \cup {"traddr", "host_traddr", "protocol"}
  BY <1>0, <1>4 DEF Disputed, Documented, ItemOK, Supported, Mandatory, Options, Valid,
     AddressOption, Tuning, DriverOption, Unsupported
<1>5. QED BY <1>1, <1>2, <1>3, <1>4

(* And the files without anything that stops the reader are well formed,   *)
(* if they hold nothing disputed.                                          *)
LEMMA ReadableIsWellFormed ==
  ASSUME file \in File, CommentsPlain, Undisputed
  PROVE  WellFormed <=> Readable
<1> DEFINE Accepted == \A s \in Section :
                         Found(s) # {} /\ \A i \in DOMAIN Lines(s) : LineOK(s, Lines(s)[i])
<1>1. (\A s \in Section :
         /\ Heading(s) # {}
         /\ \A i \in DOMAIN Written(s) :
              /\ Mandatory(s) \subseteq Given(Written(s)[i])
              /\ \A j \in DOMAIN Written(s)[i] : Documented(s, Written(s)[i][j])) <=> Accepted
  <2>1. \A s \in Section : Mandatory(s) = Necessary(s)
    BY DEF Mandatory, Necessary, Section, Mode
  <2>2. \A s \in Section : \A item :
          ~Disputed(s, item) => (Documented(s, item) <=> ItemOK(s, item))
    BY ItemsAgree
  <2>3. \A s \in Section : Heading(s) # {} =>
          \A i \in DOMAIN Written(s) : \A j \in DOMAIN Written(s)[i] :
            Documented(s, Written(s)[i][j]) <=> ItemOK(s, Written(s)[i][j])
    BY <2>2 DEF Undisputed
  <2>4. QED BY <2>1, <2>3, FoundIsWritten DEF LineOK
<1>2. ASSUME Accepted
      PROVE  /\ (\A h, k \in Hosts : h # k => HostAt(h) # HostAt(k)) <=>
                  \A m, q \in Mode : \A i \in DOMAIN Lines(m), j \in DOMAIN Lines(q) :
                    m # q \/ i # j => Host(m, i) # Host(q, j)
             /\ (\A h, k \in Hosts : h[1] = "SW" /\ k[1] = "SW" /\ HostAt(h) = "any" => h = k) <=>
                  \A i, j \in DOMAIN Lines("SW") : Host("SW", i) = "any" => i = j
  <2>1. \A m \in Mode : Written(m) = Lines(m)
    BY <1>2, FoundIsWritten DEF Section
  <2>2. \A m \in Mode : \A i \in DOMAIN Lines(m) :
          <<m, i>> \in Hosts /\ HostAt(<<m, i>>) = Host(m, i)
    <3> SUFFICES ASSUME NEW m \in Mode, NEW i \in DOMAIN Lines(m)
                 PROVE  <<m, i>> \in Hosts /\ HostAt(<<m, i>>) = Host(m, i)
      OBVIOUS
    <3>1. Written(m) = Lines(m)
      BY <2>1
    <3>2. <<m, i>> \in {m} \X DOMAIN Written(m)
      BY <3>1
    <3>3. <<m, i>> \in Hosts
      BY <3>2, Zenon DEF Hosts
    <3>4. <<m, i>>[1] = m /\ <<m, i>>[2] = i
      OBVIOUS
    <3>5. HostAt(<<m, i>>) = Host(m, i)
      BY <3>1, <3>4, Zenon DEF HostAt, Host
    <3>6. QED BY <3>3, <3>5
  <2>3. ASSUME NEW h \in Hosts
        PROVE  \E m \in Mode : \E i \in DOMAIN Lines(m) : h = <<m, i>>
    <3>1. PICK m \in Mode : h \in {m} \X DOMAIN Written(m)
      BY Zenon DEF Hosts
    <3>2. QED BY <2>1, <3>1
  <2>4. ASSUME NEW h \in Hosts
        PROVE  /\ h[1] \in Mode /\ h[2] \in DOMAIN Lines(h[1]) /\ h = <<h[1], h[2]>>
               /\ HostAt(h) = Host(h[1], h[2])
    <3>1. PICK m \in Mode : \E i \in DOMAIN Lines(m) : h = <<m, i>>
      BY <2>3
    <3>2. PICK i \in DOMAIN Lines(m) : h = <<m, i>>
      BY <3>1
    <3>3. h[1] = m /\ h[2] = i
      BY <3>2
    <3>4. QED BY <2>2, <3>1, <3>2, <3>3, Zenon
  <2>5. ASSUME \A h, k \in Hosts : h # k => HostAt(h) # HostAt(k),
               NEW m \in Mode, NEW q \in Mode,
               NEW i \in DOMAIN Lines(m), NEW j \in DOMAIN Lines(q), m # q \/ i # j
        PROVE  Host(m, i) # Host(q, j)
    <3>1. <<m, i>> # <<q, j>>
      BY <2>5
    <3>2. <<m, i>> \in Hosts /\ <<q, j>> \in Hosts
          /\ HostAt(<<m, i>>) = Host(m, i) /\ HostAt(<<q, j>>) = Host(q, j)
      BY <2>2, Zenon
    <3>3. QED BY <2>5, <3>1, <3>2, Zenon
  <2>6. ASSUME \A m, q \in Mode : \A i \in DOMAIN Lines(m), j \in DOMAIN Lines(q) :
                 m # q \/ i # j => Host(m, i) # Host(q, j),
               NEW h \in Hosts, NEW k \in Hosts, h # k
        PROVE  HostAt(h) # HostAt(k)
    <3>1. h[1] # k[1] \/ h[2] # k[2]
      BY <2>4, <2>6, Zenon
    <3>2. Host(h[1], h[2]) # Host(k[1], k[2])
      <4>1. /\ h[1] \in Mode /\ h[2] \in DOMAIN Lines(h[1])
            /\ k[1] \in Mode /\ k[2] \in DOMAIN Lines(k[1])
        BY <2>4, Zenon
      <4>2. QED BY <2>6, <3>1, <4>1
    <3>3. HostAt(h) = Host(h[1], h[2]) /\ HostAt(k) = Host(k[1], k[2])
      BY <2>4, Zenon
    <3>4. QED BY <3>2, <3>3, Zenon
  <2>7. ASSUME \A h, k \in Hosts : h[1] = "SW" /\ k[1] = "SW" /\ HostAt(h) = "any" => h = k,
               NEW i \in DOMAIN Lines("SW"), NEW j \in DOMAIN Lines("SW"), Host("SW", i) = "any"
        PROVE  i = j
    <3>1. <<"SW", i>> \in Hosts /\ <<"SW", j>> \in Hosts /\ HostAt(<<"SW", i>>) = Host("SW", i)
      BY <2>2, Zenon DEF Mode
    <3>2. <<"SW", i>>[1] = "SW" /\ <<"SW", j>>[1] = "SW"
      OBVIOUS
    <3>3. <<"SW", i>> = <<"SW", j>>
      BY <2>7, <3>1, <3>2, Zenon
    <3>4. QED BY <3>3
  <2>8. ASSUME \A i, j \in DOMAIN Lines("SW") : Host("SW", i) = "any" => i = j,
               NEW h \in Hosts, NEW k \in Hosts,
               h[1] = "SW", k[1] = "SW", HostAt(h) = "any"
        PROVE  h = k
    <3>1. h = <<"SW", h[2]>> /\ k = <<"SW", k[2]>> /\ h[2] = k[2]
      BY <2>4, <2>8, Zenon
    <3>2. QED BY <3>1, Zenon
  <2>9. QED BY <2>5, <2>6, <2>7, <2>8, Zenon
<1>3. QED BY <1>1, <1>2 DEF WellFormed, Readable

(* The file is read, never written.                                        *)
LEMMA FileKept ==
  ASSUME [Next]_vars
  PROVE  file' = file
BY DEF Next, vars, snsd_section_load, snsd_init_cfg, snsd_save_one_item, snsd_add_one_cfg,
       section_end, snsd_hostnqn_init, cfg_init_end, system_fails, snsd_cfg_exit, Fail

LEMMA PlainStep ==
  ASSUME ReadInv, CommentsPlain, [Next]_vars
  PROVE  ReadInv' /\ CommentsPlain'
BY ReadInvStep, FileKept DEF CommentsPlain

(* A file without disputed items is accepted exactly when it is what the   *)
(* documentation asks for: the sections in any order, with lines of any    *)
(* number and items of any order, and whatever the driver does not         *)
(* support.  No error in any place is overlooked, and nothing else refuses *)
(* a file, short of the system (upset).                                    *)
THEOREM Acceptance == Spec /\ CommentsPlain => []AcceptedIffWellFormed
<1>1. Init => ReadInv
  BY ReadInvInit
<1>2. ReadInv /\ CommentsPlain /\ [Next]_vars => (ReadInv /\ CommentsPlain)'
  BY PlainStep
<1>3. ReadInv /\ CommentsPlain => AcceptedIffWellFormed
  <2> SUFFICES ASSUME ReadInv, CommentsPlain, Undisputed
               PROVE  AcceptedIsWellFormed /\ WellFormedIsAccepted
    BY DEF AcceptedIffWellFormed
  <2>1. WellFormed <=> Readable
    BY ReadableIsWellFormed DEF ReadInv
  <2>2. QED BY <2>1 DEF ReadInv, AcceptedIsWellFormed, WellFormedIsAccepted
<1>4. QED BY <1>1, <1>2, <1>3, PTL DEF Spec

(* The lists of an accepted file are the lines that stand in it: as many,  *)
(* in their order, each with its own options and their last values; BASE   *)
(* is what its lines say together.                                         *)
THEOREM Exactness == Spec /\ CommentsPlain => []LinesExact
<1>1. Init => ReadInv
  BY ReadInvInit
<1>2. ReadInv /\ CommentsPlain /\ [Next]_vars => (ReadInv /\ CommentsPlain)'
  BY PlainStep
<1>3. ReadInv /\ CommentsPlain => LinesExact
  <2> SUFFICES ASSUME ReadInv, CommentsPlain, stage = "ready" PROVE
        /\ \A m \in Mode : NetCfg(m) = [i \in DOMAIN Written(m) |-> Reading(Written(m)[i])]
        /\ base_cfg = Together(Written("BASE"))
    BY DEF LinesExact
  <2>1. \A s \in Section : Written(s) = Lines(s)
    BY AllRead, FoundIsWritten DEF ReadInv
  <2>2. \A m \in Mode : NetCfg(m) = Entries(Lines(m))
    BY AllRead
  <2>3. base_cfg = Together(Lines("BASE"))
    BY AllRead
  <2>4. QED BY <2>1, <2>2, <2>3 DEF Entries, Section
<1>4. QED BY <1>1, <1>2, <1>3, PTL DEF Spec

-----------------------------------------------------------------------------
(* Each hostnqn that BASE gives is a name, and none is shorter than one    *)
(* that is given before it (see Overlay).                                  *)
Grown(lines) ==
  \A i, k \in DOMAIN lines : \A j \in DOMAIN lines[i], l \in DOMAIN lines[k] :
    lines[i][j].option = "hostnqn" /\ lines[k][l].option = "hostnqn" =>
      /\ lines[i][j].value \in Seq(ToSet(lines[i][j].value)) \ {<<>>}
      /\ i < k \/ (i = k /\ j < l) => Len(lines[i][j].value) <= Len(lines[k][l].value)

NqnGrown == Heading("BASE") # {} => Grown(Written("BASE"))
NqnRead  == Found("BASE") # {} => Grown(Lines("BASE"))

(* What several lines say together, one of their items says.               *)
LEMMA TogetherIsGiven ==
  ASSUME NEW T, NEW p \in Seq(Seq(T)), NEW o \in DOMAIN Together(p)
  PROVE  \E i \in DOMAIN p : \E j \in DOMAIN p[i] :
           p[i][j].option = o /\ Together(p)[o] = p[i][j].value
<1> DEFINE S == {i \in DOMAIN p : o \in Given(p[i])}
<1>1. o \in GivenIn(p) /\ Together(p)[o] = LastIn(p, o)
  BY DEF Together
<1>2. Len(p) \in Nat /\ S \in SUBSET (1 .. Len(p)) /\ S # {}
  BY <1>1 DEF GivenIn
<1>3. LastIn(p, o) = LastOf(p[Max(S)], o)
  BY DEF LastIn
<1>4. Max(S) \in S
  <2> HIDE DEF S
  <2> QED BY <1>2, MaxInSet
<1>5. PICK j \in DOMAIN p[Max(S)] :
        p[Max(S)][j].option = o /\ LastOf(p[Max(S)], o) = p[Max(S)][j].value
  <2>1. p[Max(S)] \in Seq(T) /\ o \in Given(p[Max(S)])
    BY <1>4
  <2> HIDE DEF S
  <2>2. QED BY <2>1, LastIsGiven
<1>6. QED BY <1>1, <1>3, <1>4, <1>5

(* A value that is not shorter covers the one before it.                   *)
LEMMA Covered ==
  ASSUME NEW S, NEW R, NEW old \in Seq(S), NEW new \in Seq(R), Len(old) <= Len(new)
  PROVE  Overlay(old, new) = new
<1>1. SubSeq(old, Len(new) + 1, Len(old)) = <<>>
  OBVIOUS
<1>2. new \o <<>> = new
  OBVIOUS
<1>3. QED BY <1>1, <1>2 DEF Overlay

(* snsd_hostnqn is the hostnqn of BASE, or the saved one when BASE gives   *)
(* none and all is read.                                                   *)
Nqn == IF "hostnqn" \in DOMAIN base_cfg THEN base_cfg["hostnqn"]
       ELSE IF stage \in Section \cup {"hostnqn"} THEN <<>> ELSE SavedNqn
NqnInv == stage \notin {"failed", "exit"} => snsd_hostnqn = Nqn

LEMMA NqnItemStep ==
  ASSUME ReadInv, NqnRead, NqnInv, snsd_save_one_item
  PROVE  NqnInv'
<1> DEFINE item == Head(Head(rest))
           L == Lines("BASE")
<1>1. stage \in Section /\ step = "item" /\ Head(rest) # <<>> /\ snsd_hostnqn = Nqn
  BY DEF snsd_save_one_item, NqnInv, Section, Mode
<1>2. CASE Fail
  BY <1>2 DEF Fail, NqnInv
<1>3. CASE ~Fail /\ stage # "BASE"
  <2>1. snsd_hostnqn' = snsd_hostnqn /\ base_cfg' = base_cfg /\ stage' = stage
    BY <1>3 DEF snsd_save_one_item
  <2>2. QED BY <1>1, <2>1 DEF NqnInv, Nqn
<1>4. CASE ~Fail /\ stage = "BASE"
  <2>1. /\ base_cfg' = With(base_cfg, item) /\ stage' = stage
        /\ snsd_hostnqn' = IF item.option = "hostnqn"
                           THEN Overlay(snsd_hostnqn, item.value) ELSE snsd_hostnqn
    BY <1>4 DEF snsd_save_one_item
  <2>2. /\ DOMAIN base_cfg' = DOMAIN base_cfg \cup {item.option}
        /\ \A o \in DOMAIN base_cfg \cup {item.option} :
             base_cfg'[o] = IF o = item.option THEN item.value ELSE base_cfg[o]
    BY <2>1 DEF With
  <2>3. CASE item.option # "hostnqn"
    <3>1. snsd_hostnqn' = snsd_hostnqn
      BY <2>1, <2>3
    <3>2. Nqn' = Nqn
      BY <2>1, <2>2, <2>3 DEF Nqn
    <3>3. QED BY <1>1, <3>1, <3>2 DEF NqnInv
  <2>4. CASE item.option = "hostnqn"
    <3>1. Nqn' = item.value /\ snsd_hostnqn' = Overlay(snsd_hostnqn, item.value)
      BY <2>1, <2>2, <2>4 DEF Nqn
    <3>2. PICK n \in 0 .. Len(L) - 1 :
            /\ rest \in Seq(Seq(Items)) /\ rest # <<>>
            /\ L[n + 1] \in Seq(Items) /\ SubSeq(L, 1, n) \in Seq(Seq(Items))
            /\ AtItem("BASE", L, n)
      BY <1>1, <1>4, ItemPosition
    <3>3. L \in Seq(Seq(Items)) /\ Grown(L) /\ DOMAIN L = 1 .. Len(L) /\ Len(L) \in Nat
      <4>1. L \in Seq(Seq(Items)) /\ Found("BASE") # {}
        BY <1>1, <1>4, Position
      <4>2. QED BY <4>1 DEF NqnRead
    <3> HIDE DEF L
    <3> DEFINE line == L[n + 1]
    <3>4. PICK k \in 0 .. Len(line) :
            /\ Len(Head(rest)) = Len(line) - k
            /\ \A j \in 1 .. Len(Head(rest)) : Head(rest)[j] = line[k + j]
            /\ base_cfg = Together(Append(SubSeq(L, 1, n), SubSeq(line, 1, k)))
      BY <3>2 DEF AtItem
    <3>5. /\ k + 1 \in 1 .. Len(line) /\ item = line[k + 1] /\ DOMAIN line = 1 .. Len(line)
          /\ n + 1 \in 1 .. Len(L)
      <4>1. Head(rest) \in Seq(Items) /\ Len(Head(rest)) \in Nat \ {0}
        BY <1>1, <3>2
      <4>2. item = Head(rest)[1] /\ 1 \in 1 .. Len(Head(rest))
        BY <1>1, <4>1
      <4>3. QED BY <3>2, <3>3, <3>4, <4>1, <4>2
    <3>6. item.value \in Seq(ToSet(item.value))
      <4> HIDE DEF item
      <4>1. QED BY <2>4, <3>3, <3>5 DEF Grown
    <3>7. CASE "hostnqn" \notin DOMAIN base_cfg
      <4>1. snsd_hostnqn = <<>>
        BY <1>1, <3>7 DEF Nqn
      <4> HIDE DEF item
      <4>2. <<>> \in Seq({}) /\ Len(<<>>) <= Len(item.value)
        BY <3>6
      <4>3. Overlay(snsd_hostnqn, item.value) = item.value
        BY <3>6, <4>1, <4>2, Covered
      <4>4. QED BY <3>1, <4>3 DEF NqnInv
    <3>8. CASE "hostnqn" \in DOMAIN base_cfg
      <4> DEFINE p == SubSeq(L, 1, n)
                 c == SubSeq(line, 1, k)
                 a == Append(p, c)
      <4>1. /\ p \in Seq(Seq(Items)) /\ c \in Seq(Items)
            /\ DOMAIN p = 1 .. n /\ \A i \in 1 .. n : p[i] = L[i]
            /\ DOMAIN c = 1 .. k /\ \A j \in 1 .. k : c[j] = line[j]
        BY <3>2, <3>3, <3>4, Prefix
      <4> HIDE DEF p, c
      <4>2. /\ a \in Seq(Seq(Items)) /\ DOMAIN a = 1 .. n + 1
            /\ \A i \in 1 .. n : a[i] = L[i]
            /\ a[n + 1] = c
        BY <3>2, <4>1
      <4> HIDE DEF a
      <4>3. PICK i \in 1 .. n + 1 : \E j \in DOMAIN a[i] :
              a[i][j].option = "hostnqn" /\ base_cfg["hostnqn"] = a[i][j].value
        <5>1. base_cfg = Together(a)
          BY <3>4 DEF a, p, c
        <5>2. "hostnqn" \in DOMAIN Together(a)
          BY <3>8, <5>1
        <5>3. \E i \in DOMAIN a : \E j \in DOMAIN a[i] :
                a[i][j].option = "hostnqn" /\ Together(a)["hostnqn"] = a[i][j].value
          BY <4>2, <5>2, TogetherIsGiven
        <5>4. QED BY <4>2, <5>1, <5>3
      <4>4. PICK j \in DOMAIN a[i] :
              a[i][j].option = "hostnqn" /\ base_cfg["hostnqn"] = a[i][j].value
        BY <4>3
      <4>5. /\ i \in 1 .. Len(L) /\ j \in DOMAIN L[i] /\ a[i][j] = L[i][j]
            /\ i < n + 1 \/ (i = n + 1 /\ j < k + 1)
        <5>1. CASE i = n + 1
          <6>1. j \in 1 .. k /\ a[i][j] = line[j]
            BY <4>1, <4>2, <4>4, <5>1
          <6>2. QED BY <3>4, <3>5, <5>1, <6>1
        <5>2. CASE i # n + 1
          <6>1. i \in 1 .. n
            BY <3>2, <5>2
          <6>2. QED BY <3>5, <4>2, <4>4, <6>1
        <5>3. QED BY <5>1, <5>2
      <4>6. /\ L[i][j].value \in Seq(ToSet(L[i][j].value))
            /\ Len(L[i][j].value) <= Len(item.value)
        <5>1. L[n + 1][k + 1].option = "hostnqn" /\ k + 1 \in DOMAIN L[n + 1]
          BY <2>4, <3>5
        <5>2. L[i][j].option = "hostnqn"
          BY <4>4, <4>5
        <5>3. QED BY <3>3, <3>5, <4>5, <5>1, <5>2 DEF Grown
      <4>7. snsd_hostnqn = L[i][j].value
        BY <1>1, <3>8, <4>4, <4>5 DEF Nqn
      <4>8. Overlay(snsd_hostnqn, item.value) = item.value
        BY <3>6, <4>6, <4>7, Covered
      <4>9. QED BY <3>1, <4>8 DEF NqnInv
    <3>9. QED BY <3>7, <3>8
  <2>5. QED BY <2>3, <2>4
<1>5. QED BY <1>2, <1>3, <1>4


LEMMA NqnStep ==
  ASSUME ReadInv, NqnRead, NqnInv, [Next]_vars
  PROVE  NqnInv'
<1>1. CASE snsd_save_one_item
  BY <1>1, NqnItemStep
<1>2. CASE Fail
  BY <1>2 DEF Fail, NqnInv
<1>3. CASE snsd_cfg_exit
  BY <1>3 DEF snsd_cfg_exit, NqnInv
<1>4. CASE snsd_hostnqn_init
  <2>1. /\ stage = "hostnqn" /\ stage' = "conflict" /\ base_cfg' = base_cfg
        /\ snsd_hostnqn' = IF snsd_hostnqn = <<>> THEN SavedNqn ELSE snsd_hostnqn
    BY <1>4 DEF snsd_hostnqn_init
  <2>2. snsd_hostnqn = Nqn
    BY <2>1 DEF NqnInv
  <2>3. CASE "hostnqn" \notin DOMAIN base_cfg
    <3>1. snsd_hostnqn = <<>> /\ Nqn' = SavedNqn
      BY <2>1, <2>2, <2>3 DEF Nqn, Section, Mode
    <3>2. QED BY <2>1, <3>1 DEF NqnInv
  <2>4. CASE "hostnqn" \in DOMAIN base_cfg
    <3> DEFINE L == Lines("BASE")
    <3>1. L \in Seq(Seq(Items)) /\ Found("BASE") # {} /\ base_cfg = Together(L)
      BY <2>1, AllRead DEF Section
    <3>2. Grown(L)
      BY <3>1 DEF NqnRead
    <3> HIDE DEF L
    <3>3. \E i \in DOMAIN L : \E j \in DOMAIN L[i] :
            L[i][j].option = "hostnqn" /\ base_cfg["hostnqn"] = L[i][j].value
      BY <2>4, <3>1, TogetherIsGiven
    <3>4. base_cfg["hostnqn"] # <<>>
      BY <3>2, <3>3 DEF Grown
    <3>5. snsd_hostnqn = base_cfg["hostnqn"] /\ Nqn' = base_cfg["hostnqn"]
      BY <2>1, <2>2, <2>4 DEF Nqn
    <3>6. QED BY <2>1, <3>4, <3>5 DEF NqnInv
  <2>5. QED BY <2>3, <2>4
<1>5. ASSUME snsd_hostnqn' = snsd_hostnqn, base_cfg' = base_cfg, stage \notin {"failed", "exit"},
             stage' \in Section \cup {"hostnqn"} <=> stage \in Section \cup {"hostnqn"}
      PROVE  NqnInv'
  BY <1>5 DEF NqnInv, Nqn
<1>6. CASE ~Fail /\ (snsd_section_load \/ snsd_init_cfg)
  <2>1. /\ snsd_hostnqn' = snsd_hostnqn /\ base_cfg' = base_cfg /\ stage' = stage
        /\ stage \in Section
    BY <1>6 DEF snsd_section_load, snsd_init_cfg
  <2>2. QED BY <1>5, <2>1 DEF Section, Mode
<1>7. CASE ~Fail /\ snsd_add_one_cfg
  <2>1. /\ snsd_hostnqn' = snsd_hostnqn /\ base_cfg' = base_cfg /\ stage' = stage
        /\ stage \in Section
    BY <1>7 DEF snsd_add_one_cfg
  <2>2. QED BY <1>5, <2>1 DEF Section, Mode
<1>8. CASE section_end
  <2>1. /\ snsd_hostnqn' = snsd_hostnqn /\ base_cfg' = base_cfg /\ stage \in Section
        /\ stage' \in Section \cup {"hostnqn"}
    BY <1>8 DEF section_end, Section, Mode
  <2>2. QED BY <1>5, <2>1 DEF Section, Mode
<1>9. CASE ~Fail /\ cfg_init_end
  <2>1. /\ snsd_hostnqn' = snsd_hostnqn /\ base_cfg' = base_cfg /\ stage = "conflict"
        /\ stage' = "ready"
    BY <1>9 DEF cfg_init_end
  <2>2. QED BY <1>5, <2>1 DEF Section, Mode
<1>10. CASE system_fails
  BY <1>2, <1>10 DEF system_fails
<1>11. CASE UNCHANGED vars
  BY <1>11 DEF vars, loading, NqnInv, Nqn
<1>12. QED BY <1>1, <1>2, <1>3, <1>4, <1>6, <1>7, <1>8, <1>9, <1>10, <1>11 DEF Next

(* The entries of a network that serve a port are its line, or that for    *)
(* any host.                                                               *)
LEMMA ServingLine ==
  ASSUME ReadInv, stage = "ready", NEW m \in Mode, NEW ip \in Ipv4, Served(m, ip)
  PROVE  /\ Min(Lookup(m, ip)) \in Lookup(m, ip)
         /\ Lookup(m, ip) \subseteq {i \in DOMAIN Lines(m) : Host(m, i) \in {ip, "any"}}
<1> DEFINE n == Min(Serving(m, ip))
           N == NetCfg(m)
<1>1. /\ Lines(m) \in Seq(Seq(Items)) /\ DOMAIN N = DOMAIN Lines(m)
      /\ \A i \in DOMAIN Lines(m) : N[i].host_traddr = Host(m, i)
  BY AllRead, HostOfEntry DEF Section
<1>2. DOMAIN N = 1 .. Len(Lines(m)) /\ Len(Lines(m)) \in Nat
  BY <1>1
<1>3. n \in Serving(m, ip)
  <2>1. Serving(m, ip) # {}
    BY DEF Served
  <2>2. Serving(m, ip) \in SUBSET Nat
    BY <1>2 DEF Serving
  <2>3. QED BY <2>1, <2>2, MinInSet
<1>4. n \in DOMAIN N /\ Serves(N[n], ip, m)
  BY <1>3 DEF Serving
<1>5. PortInfo(m, ip).protocol = N[n].protocol /\ (m = "DC" => PortInfo(m, ip).tgtip = N[n].traddr)
  BY DEF PortInfo
<1> HIDE DEF n
<1>6. n \in Lookup(m, ip)
  BY <1>4, <1>5 DEF Serves, Lookup
<1>7. Lookup(m, ip) \in SUBSET Nat /\ Lookup(m, ip) \subseteq DOMAIN N
  BY <1>2 DEF Lookup
<1>8. ASSUME NEW i \in Lookup(m, ip)
      PROVE  i \in DOMAIN Lines(m) /\ Host(m, i) \in {ip, "any"}
  <2>1. i \in DOMAIN Lines(m) /\ N[i].host_traddr = Host(m, i)
    BY <1>1, <1>7
  <2>2. CASE m = "SW" /\ anyflag
    <3>1. AnyHost
      BY <2>2, AllRead
    <3>2. PICK j \in DOMAIN sw_info_list : sw_info_list[j].host_traddr = "any"
      BY <3>1 DEF AnyHost
    <3>3. j \in DOMAIN Lines("SW") /\ Host("SW", j) = "any"
      BY <1>1, <2>2, <3>2 DEF NetCfg
    <3>4. j = i
      BY <2>1, <2>2, <3>3 DEF ReadInv, Readable
    <3>5. QED BY <2>1, <2>2, <3>3, <3>4
  <2>3. CASE ~(m = "SW" /\ anyflag)
    <3>1. N[i].host_traddr = ip
      BY <2>3 DEF Lookup
    <3>2. QED BY <2>1, <3>1
  <2>4. QED BY <2>2, <2>3
<1>9. Min(Lookup(m, ip)) \in Lookup(m, ip)
  BY <1>6, <1>7, MinInSet
<1>10. QED BY <1>8, <1>9

(* A controller of a port that is served has the options of the line that  *)
(* serves the port, else those of BASE, else the defaults; the line is     *)
(* found again when the controller is created, where it is not looked for  *)
(* a second time.                                                          *)
THEOREM Precedence == Spec /\ CommentsPlain /\ NqnGrown => []OwnOptions
<1> DEFINE Inv == ReadInv /\ CommentsPlain /\ NqnRead /\ NqnInv
<1>1. Init /\ CommentsPlain /\ NqnGrown => Inv
  <2> SUFFICES ASSUME Init, CommentsPlain, NqnGrown PROVE Inv
    OBVIOUS
  <2>1. ReadInv
    BY ReadInvInit
  <2>2. NqnRead
    BY <2>1, FoundIsWritten DEF ReadInv, NqnGrown, NqnRead, Section
  <2>3. NqnInv
    <3>1. stage = "BASE" /\ base_cfg = Default /\ snsd_hostnqn = <<>>
      BY DEF Init
    <3>2. DOMAIN base_cfg = {}
      BY <3>1 DEF Default
    <3>3. QED BY <3>1, <3>2 DEF NqnInv, Nqn, Section
  <2>4. QED BY <2>1, <2>2, <2>3
<1>2. Inv /\ [Next]_vars => Inv'
  <2> SUFFICES ASSUME Inv, [Next]_vars PROVE Inv'
    OBVIOUS
  <2>1. ReadInv' /\ CommentsPlain'
    BY PlainStep
  <2>2. NqnInv'
    BY NqnStep
  <2>3. Found("BASE")' = Found("BASE") /\ Lines("BASE")' = Lines("BASE")
    BY FileKept, SameFile
  <2>4. NqnRead'
    BY <2>3 DEF NqnRead, Grown
  <2>5. QED BY <2>1, <2>2, <2>4
<1>3. Inv => OwnOptions
  <2> SUFFICES ASSUME Inv, stage = "ready",
                      NEW m \in Mode, NEW ip \in Ipv4, Served(m, ip),
                      NEW o \in {"hostnqn", "queue_size", "ctrl_loss_tmo"}
               PROVE  /\ Lookup(m, ip) # {}
                      /\ \E i \in LineFor(m, ip) :
                           LET line == Reading(Written(m)[i])
                               base == Together(Written("BASE"))
                           IN  Option(m, ip, o) =
                                 CASE o \in DOMAIN line -> line[o]
                                   [] o \notin DOMAIN line /\ o \in DOMAIN base -> base[o]
                                   [] OTHER -> IF o = "hostnqn" THEN SavedNqn ELSE Fallback(o)
    BY DEF OwnOptions
  <2> DEFINE i == Min(Lookup(m, ip))
             line == Reading(Written(m)[i])
             base == Together(Written("BASE"))
  <2>1. i \in Lookup(m, ip) /\ i \in DOMAIN Lines(m) /\ Host(m, i) \in {ip, "any"}
    BY ServingLine
  <2>2. \A s \in Section : Written(s) = Lines(s)
    BY AllRead, FoundIsWritten DEF ReadInv
  <2>3. i \in LineFor(m, ip)
    BY <2>1, <2>2 DEF LineFor, Host, Section
  <2>4. NetCfg(m)[i] = line
    BY <2>1, <2>2, AllRead DEF Entries, Section
  <2>5. base_cfg = base
    BY <2>2, AllRead DEF Section
  <2>6. snsd_hostnqn = IF "hostnqn" \in DOMAIN base THEN base["hostnqn"] ELSE SavedNqn
    BY <2>5 DEF NqnInv, Nqn, Section, Mode
  <2>7. Option(m, ip, o) = CASE o \in DOMAIN line -> line[o]
          [] o \notin DOMAIN line /\ o = "hostnqn" -> snsd_hostnqn
          [] o \notin DOMAIN line /\ o # "hostnqn" /\ o \in DOMAIN base -> base[o]
          [] OTHER -> Fallback(o)
    BY <2>4, <2>5 DEF Option
  <2> HIDE DEF i, line, base
  <2>8. Option(m, ip, o) = CASE o \in DOMAIN line -> line[o]
          [] o \notin DOMAIN line /\ o \in DOMAIN base -> base[o]
          [] OTHER -> IF o = "hostnqn" THEN SavedNqn ELSE Fallback(o)
    BY <2>6, <2>7
  <2>9. QED BY <2>1, <2>3, <2>8 DEF line, base
<1>4. QED BY <1>1, <1>2, <1>3, PTL DEF Spec

(* "One host ip only vest in one network", short of a line for any host    *)
(* (which serves all of them: see the counterexample of MCCfg_any).        *)
THEOREM NetworksApart == Spec => [](anyflag \/ OneNetwork)
<1>1. Init => ReadInv
  BY ReadInvInit
<1>2. ReadInv /\ [Next]_vars => ReadInv'
  BY ReadInvStep
<1>3. ReadInv => anyflag \/ OneNetwork
  <2> SUFFICES ASSUME ReadInv, ~anyflag, stage = "ready", NEW ip \in Ipv4,
                      Served("SW", ip), Served("DC", ip)
               PROVE  FALSE
    BY DEF OneNetwork
  <2>1. \A m \in Mode : \E i \in DOMAIN Lines(m) : Host(m, i) = ip
    <3> SUFFICES ASSUME NEW m \in Mode PROVE \E i \in DOMAIN Lines(m) : Host(m, i) = ip
      OBVIOUS
    <3>1. PICK i \in DOMAIN NetCfg(m) : NetCfg(m)[i].host_traddr = ip
      BY DEF Served, Serving, Serves, Mode
    <3>2. QED BY <3>1, HostOfEntry
  <2>2. QED BY <2>1 DEF ReadInv, Readable, Mode
<1>4. QED BY <1>1, <1>2, <1>3, PTL DEF Spec
=============================================================================
