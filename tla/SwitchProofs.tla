---------------------------- MODULE SwitchProofs ----------------------------
(***************************************************************************)
(* Proofs about the switched ports, for every set of interfaces and        *)
(* addresses, every size of the tables and any number of failures.         *)
(***************************************************************************)
EXTENDS Switch, ListFacts, FiniteSetTheorems

(* The place of a descriptor in the listener table, or 0.                  *)
LEMMA SlotOfProperties ==
  ASSUME NEW l, NEW f
  PROVE  /\ SlotOf(l, f) \in ListenerSlot \cup {0}
         /\ SlotOf(l, f) # 0 => l[SlotOf(l, f)].fd = f
         /\ SlotOf(l, f) = 0 => \A i \in ListenerSlot : l[i].fd # f
<1> DEFINE found == {i \in ListenerSlot : l[i].fd = f}
<1>1. found \in SUBSET (Nat \ {0})
  BY ListenerAssumption DEF ListenerSlot
<1>2. SlotOf(l, f) = IF found = {} THEN 0 ELSE Min(found)
  BY DEF SlotOf
<1>3. SlotOf(l, f) \in found \cup {0} /\ (SlotOf(l, f) = 0 <=> found = {})
  BY <1>1, <1>2, FirstOrZero, Zenon
<1>4. 0 \notin ListenerSlot
  BY ListenerAssumption DEF ListenerSlot
<1>5. QED BY <1>3, <1>4

(* Interfaces that are found are put at the end of the list, in some order *)
(* and each of them once.                                                  *)
LEMMA SetToSeqProperties ==
  ASSUME NEW S, IsFiniteSet(S)
  PROVE  /\ SetToSeq(S) \in Seq(S)
         /\ IsInjective(SetToSeq(S))
<1> DEFINE n == Cardinality(S)
<1>1. n \in Nat /\ ExistsBijection(1 .. n, S)
  BY FS_CardinalityType
<1> HIDE DEF n
<1>2. \E f \in [1 .. n -> S] : IsInjective(f)
  BY <1>1, Zenon DEF ExistsBijection, Bijection, Injection
<1>3. SetToSeq(S) \in [1 .. n -> S] /\ IsInjective(SetToSeq(S))
  BY <1>2, Zenon DEF SetToSeq, n
<1>4. SetToSeq(S) \in Seq(S)
  BY <1>1, <1>3
<1>5. QED BY <1>3, <1>4

LEMMA ConcatInjective ==
  ASSUME NEW T, NEW s \in Seq(T), NEW t \in Seq(T),
         IsInjective(s), IsInjective(t), ToSet(s) \cap ToSet(t) = {}
  PROVE  /\ s \o t \in Seq(T)
         /\ Len(s \o t) = Len(s) + Len(t)
         /\ IsInjective(s \o t)
         /\ ToSet(s) \subseteq ToSet(s \o t)
         /\ ToSet(s \o t) \subseteq ToSet(s) \cup ToSet(t)
<1> DEFINE c == s \o t
<1>1. /\ c \in Seq(T) /\ Len(c) = Len(s) + Len(t)
      /\ \A i \in 1 .. Len(s) : c[i] = s[i]
      /\ \A i \in 1 .. Len(t) : c[Len(s) + i] = t[i]
      /\ Len(s) \in Nat /\ Len(t) \in Nat
  OBVIOUS
<1>2. /\ DOMAIN c = 1 .. Len(s) + Len(t)
      /\ DOMAIN s = 1 .. Len(s) /\ DOMAIN t = 1 .. Len(t)
  BY <1>1
<1> HIDE DEF c
<1>3. ASSUME NEW i \in 1 .. Len(s) + Len(t)
      PROVE  \/ i \in 1 .. Len(s) /\ c[i] = s[i] /\ c[i] \in ToSet(s)
             \/ i - Len(s) \in 1 .. Len(t) /\ c[i] = t[i - Len(s)] /\ c[i] \in ToSet(t)
  <2>1. CASE i <= Len(s)
    <3>1. i \in 1 .. Len(s) /\ c[i] = s[i]
      BY <2>1, <1>1
    <3>2. QED BY <3>1, InToSet
  <2>2. CASE i > Len(s)
    <3>1. i - Len(s) \in 1 .. Len(t) /\ Len(s) + (i - Len(s)) = i
      BY <2>2, <1>1
    <3>2. c[i] = t[i - Len(s)]
      BY <3>1, <1>1
    <3>3. QED BY <3>1, <3>2, InToSet
  <2>3. QED BY <2>1, <2>2, <1>1
<1>4. ASSUME NEW i \in 1 .. Len(s) + Len(t), NEW j \in 1 .. Len(s) + Len(t), c[i] = c[j]
      PROVE  i = j
  <2>1. CASE i \in 1 .. Len(s) /\ j \in 1 .. Len(s)
    <3>1. c[i] = s[i] /\ c[j] = s[j]
      BY <2>1, <1>1
    <3>2. QED BY <3>1, <2>1, <1>2, <1>4 DEF IsInjective
  <2>2. CASE /\ i - Len(s) \in 1 .. Len(t) /\ c[i] = t[i - Len(s)]
             /\ j - Len(s) \in 1 .. Len(t) /\ c[j] = t[j - Len(s)]
    <3>1. i - Len(s) = j - Len(s)
      BY <2>2, <1>2, <1>4 DEF IsInjective
    <3>2. QED BY <3>1, <1>1
  <2>3. CASE c[i] \in ToSet(s) /\ c[j] \in ToSet(t)
    BY <2>3, <1>4
  <2>4. CASE c[j] \in ToSet(s) /\ c[i] \in ToSet(t)
    BY <2>4, <1>4
  <2>5. QED BY <2>1, <2>2, <2>3, <2>4, <1>3
<1>5. IsInjective(c)
  BY <1>2, <1>4 DEF IsInjective
<1>6. ToSet(s) \subseteq ToSet(c)
  <2> SUFFICES ASSUME NEW x \in ToSet(s) PROVE x \in ToSet(c)
    OBVIOUS
  <2>1. PICK i \in 1 .. Len(s) : x = s[i]
    BY <1>2 DEF ToSet
  <2>2. i \in 1 .. Len(s) + Len(t) /\ c[i] = x
    BY <2>1, <1>1
  <2>3. QED BY <2>2, <1>2 DEF ToSet
<1>7. ToSet(c) \subseteq ToSet(s) \cup ToSet(t)
  <2> SUFFICES ASSUME NEW x \in ToSet(c) PROVE x \in ToSet(s) \cup ToSet(t)
    OBVIOUS
  <2>1. PICK i \in 1 .. Len(s) + Len(t) : x = c[i]
    BY <1>2 DEF ToSet
  <2>2. QED BY <2>1, <1>3
<1>8. QED BY <1>1, <1>5, <1>6, <1>7 DEF c

LEMMA AppendedInjective ==
  ASSUME NEW T, NEW s \in Seq(T), IsInjective(s), NEW x \in T, x \notin ToSet(s)
  PROVE  /\ Append(s, x) \in Seq(T) /\ IsInjective(Append(s, x))
         /\ ToSet(Append(s, x)) = ToSet(s) \cup {x}
<1> DEFINE a == Append(s, x)
<1>1. a \in Seq(T) /\ Len(a) = Len(s) + 1 /\ ToSet(a) = ToSet(s) \cup {x}
  BY AppendedProperties
<1>2. /\ DOMAIN s = 1 .. Len(s) /\ DOMAIN a = 1 .. Len(s) + 1 /\ Len(s) \in Nat
      /\ \A i \in 1 .. Len(s) : a[i] = s[i]
      /\ a[Len(s) + 1] = x
  BY <1>1
<1> HIDE DEF a
<1>3. \A i \in 1 .. Len(s) : s[i] # x
  BY <1>2 DEF ToSet
<1>4. \A i, j \in 1 .. Len(s) : s[i] = s[j] => i = j
  BY <1>2 DEF IsInjective
<1>5. ASSUME NEW i \in DOMAIN a, NEW j \in DOMAIN a, a[i] = a[j]
      PROVE  i = j
  <2>1. i \in 1 .. Len(s) \/ i = Len(s) + 1
    BY <1>2
  <2>2. j \in 1 .. Len(s) \/ j = Len(s) + 1
    BY <1>2
  <2>3. QED BY <1>2, <1>3, <1>4, <1>5, <2>1, <2>2
<1>6. IsInjective(a)
  BY <1>5 DEF IsInjective
<1>7. QED BY <1>1, <1>6 DEF a

(* A deleted port is on the list no more.                                  *)
LEMMA RemoveAtInjective ==
  ASSUME NEW T, NEW s \in Seq(T), NEW i \in 1 .. Len(s), IsInjective(s)
  PROVE  /\ RemoveAt(s, i) \in Seq(T)
         /\ Len(RemoveAt(s, i)) = Len(s) - 1
         /\ IsInjective(RemoveAt(s, i))
         /\ ToSet(RemoveAt(s, i)) = ToSet(s) \ {s[i]}
<1> DEFINE r == RemoveAt(s, i)
<1>1. r \in Seq(T) /\ Len(r) = Len(s) - 1
      /\ (\A j \in 1 .. Len(s) - 1 : j < i => r[j] = s[j])
      /\ (\A j \in 1 .. Len(s) - 1 : ~(j < i) => r[j] = s[j + 1])
  BY RemoveAtIndices
<1>2. /\ ToSet(r) \subseteq ToSet(s)
      /\ \A t \in ToSet(s) : t # s[i] => t \in ToSet(r)
  BY RemoveAtProperties
<1> HIDE DEF r
<1>3. DOMAIN r = 1 .. Len(s) - 1 /\ DOMAIN s = 1 .. Len(s) /\ Len(s) \in Nat
  BY <1>1
<1>4. \A j, k \in 1 .. Len(s) : s[j] = s[k] => j = k
  BY <1>3 DEF IsInjective
<1>5. ASSUME NEW j \in 1 .. Len(s) - 1, NEW k \in 1 .. Len(s) - 1, r[j] = r[k]
      PROVE  j = k
  <2>1. j \in 1 .. Len(s) /\ j + 1 \in 1 .. Len(s) /\ k \in 1 .. Len(s) /\ k + 1 \in 1 .. Len(s)
    BY <1>3
  <2>2. CASE j < i /\ k < i
    BY <2>1, <2>2, <1>1, <1>4, <1>5
  <2>3. CASE j < i /\ ~(k < i)
    <3>1. s[j] = s[k + 1]
      BY <2>3, <1>1, <1>5
    <3>2. QED BY <3>1, <2>1, <2>3, <1>4
  <2>4. CASE ~(j < i) /\ k < i
    <3>1. s[j + 1] = s[k]
      BY <2>4, <1>1, <1>5
    <3>2. QED BY <3>1, <2>1, <2>4, <1>4
  <2>5. CASE ~(j < i) /\ ~(k < i)
    <3>1. s[j + 1] = s[k + 1]
      BY <2>5, <1>1, <1>5
    <3>2. j + 1 = k + 1
      BY <3>1, <2>1, <1>4
    <3>3. QED BY <3>2
  <2>6. QED BY <2>2, <2>3, <2>4, <2>5
<1>6. IsInjective(r)
  BY <1>3, <1>5 DEF IsInjective
<1>7. s[i] \notin ToSet(r)
  <2> SUFFICES ASSUME NEW j \in 1 .. Len(s) - 1, r[j] = s[i] PROVE FALSE
    BY <1>3 DEF ToSet
  <2>1. j \in 1 .. Len(s) /\ j + 1 \in 1 .. Len(s)
    BY <1>3
  <2>2. CASE j < i
    <3>1. s[j] = s[i]
      BY <2>2, <1>1
    <3>2. QED BY <3>1, <2>1, <2>2, <1>4
  <2>3. CASE ~(j < i)
    <3>1. s[j + 1] = s[i]
      BY <2>3, <1>1
    <3>2. j + 1 = i
      BY <3>1, <2>1, <1>4
    <3>3. QED BY <3>2, <2>3
  <2>4. QED BY <2>2, <2>3
<1>8. QED BY <1>1, <1>2, <1>6, <1>7 DEF r
-----------------------------------------------------------------------------
(* The entries of the tables, and the tables and sockets together.         *)
Entry ==
  [fresh : BOOLEAN, new : BOOLEAN, up : BOOLEAN, vlan : Vlan \cup {0}, vlan_change : BOOLEAN,
   valid : BOOLEAN, index : FdSlot, name_index : 0 .. MAX_NAME_INDEX, disconnect : BOOLEAN,
   expires : 0 .. Age, slave : Seq(Slave), names : BOOLEAN, bonding_change : BOOLEAN]

PortFd ==
  [ifindex : IfSet \cup {NoIf}, refs : Int, fd : Fd \cup {NoFd},
   index_map : SUBSET (1 .. MAX_NAME_INDEX), old_time : -1 .. Age]

Listen == [fd : Fd \cup {NoFd}, ifindex : IfSet \cup {NoIf}, host_ip : SUBSET Ip]
Table  == [ListenerSlot -> Listen]
Worlds == [g : [FdSlot -> PortFd], l : Table, k : [Fd -> IfSet \cup {NoIf}]]

(* What the constants have to do with each other.                          *)
LEMMA Ranges ==
  /\ Age \in Nat /\ 0 \in 0 .. Age /\ LLDP_INTERVAL_CLOCK \in 0 .. Age
  /\ Age \in 0 .. Age /\ Age \in -1 .. Age /\ -1 \in -1 .. Age
  /\ 1 \in FdSlot /\ FdSlot \subseteq Nat /\ 0 \notin FdSlot
  /\ 0 \in 0 .. MAX_NAME_INDEX /\ 1 .. MAX_NAME_INDEX \subseteq 0 .. MAX_NAME_INDEX
  /\ 1 \in 1 .. MAX_NAME_INDEX
  /\ 0 \notin ListenerSlot
  /\ NoFd \notin Fd /\ NoIf \notin IfSet
<1>1. /\ LLDP_OLD_TIME \in Nat \ {0} /\ LLDP_WAIT_OLD_TIME \in Nat \ {0}
      /\ LLDP_INTERVAL_CLOCK \in 1 .. Age
      /\ MAX_PHY_PORT \in Nat \ {0} /\ MAX_NAME_INDEX \in Nat \ {0}
      /\ SNSD_MAX_LISTENER \in Nat \ {0}
      /\ NoFd \notin Fd /\ NoIf \notin IfSet
  BY SwitchAssumption, ListenerAssumption
<1>2. Age \in Nat
  BY <1>1 DEF Age
<1> HIDE DEF Age
<1>3. QED BY <1>1, <1>2 DEF FdSlot, ListenerSlot

(* Where an interface goes: its own slot, or one without interface or      *)
(* whose users are gone long enough.                                       *)
LEMMA SlotForProperties ==
  ASSUME NEW ifindex
  PROVE  LET s == SlotFor(ifindex)
         IN  /\ s \in FdSlot \cup {0}
             /\ s \in FdSlot =>
                  \/ g_port_fd[s].ifindex = ifindex
                  \/ /\ \A u \in FdSlot : g_port_fd[u].ifindex # ifindex
                     /\ \/ g_port_fd[s].ifindex = NoIf
                        \/ g_port_fd[s].refs <= 0 /\ g_port_fd[s].old_time < 0
<1> DEFINE same == {u \in FdSlot : g_port_fd[u].ifindex = ifindex}
           free == {u \in FdSlot : \/ g_port_fd[u].ifindex = NoIf
                                   \/ g_port_fd[u].refs <= 0 /\ g_port_fd[u].old_time < 0}
<1>1. same \in SUBSET Nat /\ free \in SUBSET Nat
  BY Ranges
<1>2. SlotFor(ifindex) = IF same # {} THEN Min(same) ELSE IF free # {} THEN Min(free) ELSE 0
  BY DEF SlotFor
<1>3. CASE same # {}
  <2>1. Min(same) \in same
    BY <1>1, <1>3, MinInSet
  <2>2. QED BY <1>2, <1>3, <2>1
<1>4. CASE same = {} /\ free # {}
  <2>1. Min(free) \in free
    BY <1>1, <1>4, MinInSet
  <2>2. SlotFor(ifindex) = Min(free)
    BY <1>2, <1>4
  <2>3. \A u \in FdSlot : g_port_fd[u].ifindex # ifindex
    BY <1>4
  <2>4. QED BY <2>1, <2>2, <2>3
<1>5. CASE same = {} /\ free = {}
  BY <1>2, <1>5, Ranges
<1>6. QED BY <1>3, <1>4, <1>5

(* The index is one that no other port of the slot has.                    *)
LEMMA IndexForProperties ==
  ASSUME NEW s, NEW ifindex, NEW wanted \in BOOLEAN
  PROVE  LET n == IndexFor(s, ifindex, wanted)
         IN  /\ n \in 0 .. MAX_NAME_INDEX
             /\ n # 0 /\ g_port_fd[s].ifindex = ifindex => n \notin g_port_fd[s].index_map
<1> DEFINE free == (1 .. MAX_NAME_INDEX) \ g_port_fd[s].index_map
           n == IndexFor(s, ifindex, wanted)
<1>1. free \in SUBSET Nat
  OBVIOUS
<1>2. n = IF ~wanted THEN 0
          ELSE IF g_port_fd[s].ifindex # ifindex THEN 1
          ELSE IF free = {} THEN 0 ELSE Min(free)
  BY DEF IndexFor
<1>3. free # {} => Min(free) \in free
  BY <1>1, MinInSet
<1> HIDE DEF n
<1>4. CASE ~wanted
  <2>1. n = 0
    BY <1>2, <1>4
  <2>2. QED BY <2>1, Ranges DEF n
<1>5. CASE wanted /\ g_port_fd[s].ifindex # ifindex
  <2>1. n = 1
    BY <1>2, <1>5
  <2>2. QED BY <2>1, <1>5, Ranges DEF n
<1>6. CASE wanted /\ g_port_fd[s].ifindex = ifindex /\ free = {}
  <2>1. n = 0
    BY <1>2, <1>6
  <2>2. QED BY <2>1, Ranges DEF n
<1>7. CASE wanted /\ g_port_fd[s].ifindex = ifindex /\ free # {}
  <2>1. n = Min(free)
    BY <1>2, <1>7
  <2>2. n \in free
    BY <2>1, <1>3, <1>7
  <2>3. QED BY <2>2, Ranges DEF n
<1>8. QED BY <1>4, <1>5, <1>6, <1>7
-----------------------------------------------------------------------------
(* The operations of the tables: what they leave in them.                  *)
LEMMA AddServerType ==
  ASSUME NEW l \in Table, NEW f \in Fd, NEW i \in IfSet, HasRoom(l)
  PROVE  AddServer(l, f, i) \in Table
<1> DEFINE s == SlotOf(l, NoFd)
           e == [l[s] EXCEPT !.fd = f, !.ifindex = i]
<1>1. s \in ListenerSlot
  BY SlotOfProperties DEF HasRoom
<1>2. l[s] \in Listen
  BY <1>1 DEF Table
<1>3. e \in Listen
  BY <1>2 DEF Listen
<1>4. AddServer(l, f, i) = [l EXCEPT ![s] = e]
  BY DEF AddServer
<1>5. QED BY <1>1, <1>3, <1>4 DEF Table

LEMMA AddServerIpType ==
  ASSUME NEW l \in Table, NEW f, NEW ip \in Ip, SlotOf(l, f) # 0
  PROVE  AddServerIp(l, f, ip) \in Table
<1> DEFINE s == SlotOf(l, f)
           e == [l[s] EXCEPT !.host_ip = @ \cup {ip}]
<1>1. s \in ListenerSlot
  BY SlotOfProperties
<1>2. l[s] \in Listen
  BY <1>1 DEF Table
<1>3. e \in Listen
  BY <1>2 DEF Listen
<1>4. AddServerIp(l, f, ip) = [l EXCEPT ![s] = e]
  BY DEF AddServerIp
<1>5. QED BY <1>1, <1>3, <1>4 DEF Table

LEMMA RemoveServerType ==
  ASSUME NEW l \in Table, NEW f
  PROVE  RemoveServer(l, f) \in Table
<1> DEFINE s == SlotOf(l, f)
           e == [l[s] EXCEPT !.fd = NoFd]
<1>1. CASE s = 0
  BY <1>1 DEF RemoveServer
<1>2. CASE s # 0
  <2>1. s \in ListenerSlot /\ l[s] \in Listen
    BY <1>2, SlotOfProperties DEF Table
  <2>2. e \in Listen
    BY <2>1 DEF Listen
  <2>3. RemoveServer(l, f) = [l EXCEPT ![s] = e]
    BY <1>2 DEF RemoveServer
  <2>4. QED BY <2>1, <2>2, <2>3 DEF Table
<1>3. QED BY <1>1, <1>2

LEMMA RemoveServerIpType ==
  ASSUME NEW l \in Table, NEW f, NEW ip
  PROVE  RemoveServerIp(l, f, ip) \in Table
<1> DEFINE s == SlotOf(l, f)
           e == [l[s] EXCEPT !.host_ip = @ \ {ip}]
<1>1. CASE s = 0
  BY <1>1 DEF RemoveServerIp
<1>2. CASE s # 0
  <2>1. s \in ListenerSlot /\ l[s] \in Listen
    BY <1>2, SlotOfProperties DEF Table
  <2>2. e \in Listen
    BY <2>1 DEF Listen
  <2>3. RemoveServerIp(l, f, ip) = [l EXCEPT ![s] = e]
    BY <1>2 DEF RemoveServerIp
  <2>4. QED BY <2>1, <2>2, <2>3 DEF Table
<1>3. QED BY <1>1, <1>2
-----------------------------------------------------------------------------
(* Only the slot is changed when it is claimed.                            *)
Claimed(w, s, ifindex, n, c) ==
  /\ c.l = w.l /\ c.k = w.k
  /\ \A u \in FdSlot \ {s} : c.g[u] = w.g[u]
  /\ c.g[s].ifindex = ifindex /\ c.g[s].fd = w.g[s].fd
  /\ c.g[s].old_time = w.g[s].old_time
  /\ w.g[s].ifindex = ifindex => c.g[s].refs = w.g[s].refs + 1
  /\ w.g[s].ifindex # ifindex => c.g[s].refs = 1
  /\ n # 0 => c.g[s].index_map = IF w.g[s].ifindex = ifindex THEN w.g[s].index_map \cup {n}
                                 ELSE {n}

LEMMA ClaimEffect ==
  ASSUME NEW w \in Worlds, NEW s \in FdSlot, NEW ifindex \in IfSet,
         NEW n \in 0 .. MAX_NAME_INDEX
  PROVE  /\ Claim(w, s, ifindex, n) \in Worlds
         /\ Claimed(w, s, ifindex, n, Claim(w, s, ifindex, n))
<1> DEFINE c == Claim(w, s, ifindex, n)
           named == IF n = 0 THEN {} ELSE {n}
           slot == w.g[s]
           more == slot.refs + 1
           wider == slot.index_map \cup named
           alone == IF n = 0 THEN slot.index_map ELSE named
           joined == [slot EXCEPT !.refs = more, !.index_map = wider]
           taken == [slot EXCEPT !.refs = 1, !.ifindex = ifindex, !.index_map = alone]
           x == IF slot.ifindex = ifindex THEN joined ELSE taken
<1>1. slot \in PortFd /\ w.g \in [FdSlot -> PortFd]
  BY DEF Worlds
<1>2. c = [w EXCEPT !.g[s] = x]
  BY DEF Claim
<1>3. named \in SUBSET (1 .. MAX_NAME_INDEX)
  OBVIOUS
<1> HIDE DEF named, slot
<1>4. /\ more \in Int /\ more = slot.refs + 1
      /\ wider \in SUBSET (1 .. MAX_NAME_INDEX) /\ wider = slot.index_map \cup named
      /\ alone \in SUBSET (1 .. MAX_NAME_INDEX)
      /\ alone = IF n = 0 THEN slot.index_map ELSE named
  <2>1. slot.index_map \in SUBSET (1 .. MAX_NAME_INDEX) /\ slot.refs \in Int
    BY <1>1 DEF PortFd
  <2>2. more \in Int /\ more = slot.refs + 1
    BY <2>1
  <2>3. wider \in SUBSET (1 .. MAX_NAME_INDEX) /\ wider = slot.index_map \cup named
    BY <2>1, <1>3
  <2>4. /\ alone \in SUBSET (1 .. MAX_NAME_INDEX)
        /\ alone = IF n = 0 THEN slot.index_map ELSE named
    BY <2>1, <1>3
  <2>5. QED BY <2>2, <2>3, <2>4
<1> HIDE DEF more, wider, alone
<1>5. /\ joined \in PortFd
      /\ joined.ifindex = slot.ifindex /\ joined.fd = slot.fd
      /\ joined.old_time = slot.old_time
      /\ joined.refs = more /\ joined.index_map = wider
  BY <1>1, <1>4 DEF PortFd
<1>11. /\ taken \in PortFd
       /\ taken.ifindex = ifindex /\ taken.fd = slot.fd /\ taken.old_time = slot.old_time
       /\ taken.refs = 1 /\ taken.index_map = alone
  <2>1. alone \in SUBSET (1 .. MAX_NAME_INDEX) /\ ifindex \in IfSet \cup {NoIf} /\ 1 \in Int
    BY <1>4
  <2>2. taken \in PortFd
    BY <1>1, <2>1 DEF PortFd
  <2>3. QED BY <1>1, <2>2 DEF PortFd
<1> HIDE DEF joined, taken
<1>6. x \in PortFd
  BY <1>5, <1>11
<1>7. /\ c \in Worlds /\ c.l = w.l /\ c.k = w.k
      /\ \A u \in FdSlot \ {s} : c.g[u] = w.g[u]
      /\ c.g[s] = x
  <2> HIDE DEF x, c
  <2>1. QED BY <1>1, <1>2, <1>6 DEF Worlds
<1>8. CASE slot.ifindex = ifindex
  BY <1>4, <1>5, <1>7, <1>8 DEF slot, named, Claimed
<1>9. CASE slot.ifindex # ifindex
  BY <1>4, <1>11, <1>7, <1>9 DEF slot, named, Claimed
<1>10. QED BY <1>8, <1>9

(* A slot that is given back keeps its socket for its other users; the     *)
(* last one closes it and its listener entry.                              *)
GivenBack(w, s, n, c) ==
  LET f == w.g[s].fd
      last == ~(w.g[s].refs - 1 > 0)
  IN  /\ \A u \in FdSlot \ {s} : c.g[u] = w.g[u]
      /\ c.g[s].ifindex = w.g[s].ifindex
      /\ c.g[s].refs = w.g[s].refs - 1
      /\ c.g[s].index_map = w.g[s].index_map \ {n}
      /\ c.g[s].old_time = Age
      /\ c.g[s].fd = IF last THEN NoFd ELSE f
      /\ last /\ f # NoFd => c.l = RemoveServer(w.l, f) /\ c.k = [w.k EXCEPT ![f] = NoIf]
      /\ ~last \/ f = NoFd => c.l = w.l /\ c.k = w.k

LEMMA PutEffect ==
  ASSUME NEW w \in Worlds, NEW s \in FdSlot, NEW n
  PROVE  /\ Put(w, s, n) \in Worlds
         /\ GivenBack(w, s, n, Put(w, s, n))
<1> DEFINE c == Put(w, s, n)
           old == w.g[s]
           less == old.refs - 1
           rest == old.index_map \ {n}
           slot == [old EXCEPT !.refs = less, !.index_map = rest, !.old_time = Age]
           f == slot.fd
           empty == [slot EXCEPT !.fd = NoFd]
           l2 == IF f = NoFd THEN w.l ELSE RemoveServer(w.l, f)
           k2 == IF f = NoFd THEN w.k ELSE [w.k EXCEPT ![f] = NoIf]
<1>1. /\ old \in PortFd /\ w.g \in [FdSlot -> PortFd] /\ w.l \in Table
      /\ w.k \in [Fd -> IfSet \cup {NoIf}]
  BY DEF Worlds
<1>2. c = IF slot.refs > 0 THEN [w EXCEPT !.g[s] = slot]
          ELSE [g |-> [w.g EXCEPT ![s] = empty], l |-> l2, k |-> k2]
  BY DEF Put
<1> HIDE DEF c, old
<1>3. /\ Age \in -1 .. Age
      /\ less \in Int /\ less = old.refs - 1
      /\ rest \in SUBSET (1 .. MAX_NAME_INDEX) /\ rest = old.index_map \ {n}
  <2>1. old.index_map \in SUBSET (1 .. MAX_NAME_INDEX) /\ old.refs \in Int
    BY <1>1 DEF PortFd
  <2>2. QED BY <2>1, Ranges
<1> HIDE DEF Age, less, rest
<1>4. /\ slot \in PortFd
      /\ slot.ifindex = old.ifindex /\ slot.fd = old.fd /\ slot.refs = less
      /\ slot.index_map = rest /\ slot.old_time = Age
      /\ old.fd \in Fd \cup {NoFd}
  BY <1>1, <1>3 DEF PortFd
<1> HIDE DEF slot
<1>5. /\ empty \in PortFd
      /\ empty.ifindex = old.ifindex /\ empty.fd = NoFd /\ empty.refs = less
      /\ empty.index_map = rest /\ empty.old_time = Age
  BY <1>4 DEF PortFd
<1> HIDE DEF empty
<1>6. l2 \in Table
  BY <1>1, RemoveServerType
<1>7. k2 \in [Fd -> IfSet \cup {NoIf}]
  BY <1>1
<1> HIDE DEF l2, k2
<1>8. CASE slot.refs > 0
  <2>1. c = [w EXCEPT !.g[s] = slot]
    BY <1>2, <1>8
  <2>2. /\ c \in Worlds /\ c.l = w.l /\ c.k = w.k
        /\ \A u \in FdSlot \ {s} : c.g[u] = w.g[u]
        /\ c.g[s] = slot
    BY <2>1, <1>1, <1>4 DEF Worlds
  <2>3. QED BY <2>2, <1>3, <1>4, <1>8 DEF old, c, GivenBack
<1>9. CASE ~(slot.refs > 0)
  <2>1. c = [g |-> [w.g EXCEPT ![s] = empty], l |-> l2, k |-> k2]
    BY <1>2, <1>9
  <2>2. /\ c \in Worlds /\ c.l = l2 /\ c.k = k2
        /\ \A u \in FdSlot \ {s} : c.g[u] = w.g[u]
        /\ c.g[s] = empty
    BY <2>1, <1>1, <1>5, <1>6, <1>7 DEF Worlds
  <2>3. QED BY <2>2, <1>3, <1>4, <1>5, <1>9 DEF old, c, l2, k2, GivenBack
<1>10. QED BY <1>8, <1>9

(* A new socket and its listener entry.                                    *)
OpenedOn(w, s, f, c) ==
  /\ \A u \in FdSlot \ {s} : c.g[u] = w.g[u]
  /\ c.g[s].fd = f /\ c.g[s].ifindex = w.g[s].ifindex
  /\ c.g[s].refs = w.g[s].refs /\ c.g[s].index_map = w.g[s].index_map
  /\ c.g[s].old_time = w.g[s].old_time
  /\ c.l = AddServer(w.l, f, w.g[s].ifindex)
  /\ c.k = [w.k EXCEPT ![f] = w.g[s].ifindex]

LEMMA OpenedEffect ==
  ASSUME NEW w \in Worlds, NEW s \in FdSlot, NEW f \in Fd, w.g[s].ifindex \in IfSet,
         HasRoom(w.l)
  PROVE  /\ Opened(w, s, f) \in Worlds
         /\ OpenedOn(w, s, f, Opened(w, s, f))
<1> DEFINE c == Opened(w, s, f)
           x == [w.g[s] EXCEPT !.fd = f]
           l2 == AddServer(w.l, f, w.g[s].ifindex)
           k2 == [w.k EXCEPT ![f] = w.g[s].ifindex]
<1>1. /\ w.g[s] \in PortFd /\ w.g \in [FdSlot -> PortFd] /\ w.l \in Table
      /\ w.k \in [Fd -> IfSet \cup {NoIf}]
  BY DEF Worlds
<1>2. c = [g |-> [w.g EXCEPT ![s] = x], l |-> l2, k |-> k2]
  BY DEF Opened
<1>3. /\ x \in PortFd /\ x.fd = f /\ x.ifindex = w.g[s].ifindex
      /\ x.refs = w.g[s].refs /\ x.index_map = w.g[s].index_map
      /\ x.old_time = w.g[s].old_time
  BY <1>1 DEF PortFd
<1>4. l2 \in Table
  BY <1>1, AddServerType
<1>5. k2 \in [Fd -> IfSet \cup {NoIf}]
  BY <1>1
<1>6. k2 = [w.k EXCEPT ![f] = w.g[s].ifindex] /\ l2 = AddServer(w.l, f, w.g[s].ifindex)
  OBVIOUS
<1> HIDE DEF c, x, l2, k2
<1>7. /\ c \in Worlds /\ c.l = l2 /\ c.k = k2
      /\ \A u \in FdSlot \ {s} : c.g[u] = w.g[u]
      /\ c.g[s] = x
  BY <1>1, <1>2, <1>3, <1>4, <1>5 DEF Worlds
<1>8. QED BY <1>3, <1>6, <1>7 DEF c, OpenedOn
-----------------------------------------------------------------------------
(* The ways switch_get_fd_data ends: without a slot; refused after the     *)
(* slot was claimed; with the address added or refused, on the socket that *)
(* was there or on a new one; after a failed epoll_ctl.                    *)
Refused(w, s, n, u) == [ok |-> FALSE, slot |-> s, index |-> n, w |-> Put(w, s, n), upset |-> u]
Answered(w, s, n, ip) ==
  [ok |-> TRUE, slot |-> s, index |-> n, upset |-> FALSE,
   w |-> [w EXCEPT !.l = AddServerIp(w.l, w.g[s].fd, ip)]]
Closed == {f \in Fd : sock[f] = NoIf}

Ended(ifindex, ip, wanted, r) ==
  LET s == SlotFor(ifindex)
      n == IndexFor(s, ifindex, wanted)
      c == Claim(World, s, ifindex, n)
      Address(w) == IF CanAddIp(w.l, w.g[s].fd, ip) THEN Answered(w, s, n, ip)
                    ELSE Refused(w, s, n, FALSE)
  IN  \/ r = [ok |-> FALSE, slot |-> 0, index |-> 0, w |-> World, upset |-> FALSE]
      \/ /\ ~Exhausted(ifindex, wanted)
         /\ \/ c.g[s].fd # NoFd /\ r = Address(c)
            \/ c.g[s].fd = NoFd /\ \E u \in BOOLEAN : r = Refused(c, s, n, u)
            \/ /\ c.g[s].fd = NoFd /\ HasRoom(listener)
               /\ \E f \in Closed : r = Address(Opened(c, s, f))
            \/ /\ EpollMayFail /\ c.g[s].fd = NoFd /\ HasRoom(listener)
               /\ \E f \in Closed :
                    r = Refused([c EXCEPT !.l = AddServer(@, f, ifindex)], s, n, TRUE)

LEMMA FdDataCases ==
  ASSUME NEW ifindex, NEW ip, NEW wanted, NEW r \in FdData(ifindex, ip, wanted)
  PROVE  Ended(ifindex, ip, wanted, r)
<1> DEFINE s == SlotFor(ifindex)
           n == IndexFor(s, ifindex, wanted)
           c == Claim(World, s, ifindex, n)
           Address(w) == IF CanAddIp(w.l, w.g[s].fd, ip) THEN Answered(w, s, n, ip)
                         ELSE Refused(w, s, n, FALSE)
           Unfed == IF HasRoom(listener)
                    THEN {Address(Opened(c, s, f)) : f \in Closed}
                         \cup {Refused([c EXCEPT !.l = AddServer(@, f, ifindex)], s, n, TRUE) :
                                 f \in IF EpollMayFail THEN Closed ELSE {}}
                    ELSE {Refused(c, s, n, FALSE)}
<1>1. FdData(ifindex, ip, wanted) =
        IF Exhausted(ifindex, wanted)
        THEN {[ok |-> FALSE, slot |-> 0, index |-> 0, w |-> World, upset |-> FALSE]}
        ELSE IF c.g[s].fd # NoFd THEN {Address(c)}
        ELSE {Refused(c, s, n, TRUE)} \cup Unfed
  BY Zenon DEF FdData, Refused, Answered, Closed
<1>2. CASE Exhausted(ifindex, wanted)
  BY <1>1, <1>2, Zenon DEF Ended
<1>3. CASE ~Exhausted(ifindex, wanted) /\ c.g[s].fd # NoFd
  BY <1>1, <1>3, Zenon DEF Ended
<1>4. CASE ~Exhausted(ifindex, wanted) /\ c.g[s].fd = NoFd
  <2>1. r = Refused(c, s, n, TRUE) \/ r \in Unfed
    BY <1>1, <1>4, Zenon
  <2>2. CASE r = Refused(c, s, n, TRUE)
    BY <1>4, <2>2, Zenon DEF Ended
  <2>3. CASE r \in Unfed /\ ~HasRoom(listener)
    <3>1. r = Refused(c, s, n, FALSE)
      BY <2>3, Zenon
    <3>2. QED BY <1>4, <3>1, Zenon DEF Ended
  <2>4. CASE r \in Unfed /\ HasRoom(listener)
    <3>1. \/ \E f \in Closed : r = Address(Opened(c, s, f))
          \/ \E f \in IF EpollMayFail THEN Closed ELSE {} :
               r = Refused([c EXCEPT !.l = AddServer(@, f, ifindex)], s, n, TRUE)
      BY <2>4, Zenon
    <3>2. CASE \E f \in Closed : r = Address(Opened(c, s, f))
      BY <1>4, <2>4, <3>2, Zenon DEF Ended
    <3>3. CASE \E f \in IF EpollMayFail THEN Closed ELSE {} :
                 r = Refused([c EXCEPT !.l = AddServer(@, f, ifindex)], s, n, TRUE)
      <4>1. CASE EpollMayFail
        BY <1>4, <2>4, <3>3, <4>1, Zenon DEF Ended
      <4>2. CASE ~EpollMayFail
        BY <3>3, <4>2, Zenon
      <4>3. QED BY <4>1, <4>2, Zenon
    <3>4. QED BY <3>1, <3>2, <3>3, Zenon
  <2>5. QED BY <2>1, <2>2, <2>3, <2>4, Zenon
<1>5. QED BY <1>2, <1>3, <1>4, Zenon

(* A slot that is claimed exists.                                          *)
LEMMA NotExhausted ==
  ASSUME NEW ifindex, NEW wanted \in BOOLEAN, ~Exhausted(ifindex, wanted)
  PROVE  LET s == SlotFor(ifindex)
             n == IndexFor(s, ifindex, wanted)
         IN  /\ s \in FdSlot /\ n \in 0 .. MAX_NAME_INDEX
             /\ wanted => n # 0
<1>1. SlotFor(ifindex) \in FdSlot
  BY SlotForProperties DEF Exhausted
<1>2. QED BY <1>1, IndexForProperties DEF Exhausted

LEMMA AnsweredType ==
  ASSUME NEW w \in Worlds, NEW s \in FdSlot, NEW n, NEW ip \in Ip,
         CanAddIp(w.l, w.g[s].fd, ip)
  PROVE  /\ Answered(w, s, n, ip).w \in Worlds
         /\ Answered(w, s, n, ip).w.g = w.g /\ Answered(w, s, n, ip).w.k = w.k
         /\ Answered(w, s, n, ip).w.l = AddServerIp(w.l, w.g[s].fd, ip)
<1> DEFINE l2 == AddServerIp(w.l, w.g[s].fd, ip)
<1>1. w.l \in Table /\ SlotOf(w.l, w.g[s].fd) # 0
  BY DEF Worlds, CanAddIp
<1>2. l2 \in Table
  BY <1>1, AddServerIpType
<1>3. Answered(w, s, n, ip).w = [w EXCEPT !.l = l2]
  BY DEF Answered
<1> HIDE DEF l2
<1>4. QED BY <1>2, <1>3 DEF Worlds, l2

(* Whatever the way, tables and sockets keep their types.                  *)
LEMMA FdDataType ==
  ASSUME World \in Worlds, NEW ifindex \in IfSet, NEW ip \in Ip, NEW wanted \in BOOLEAN,
         NEW r \in FdData(ifindex, ip, wanted)
  PROVE  /\ r.w \in Worlds /\ r.ok \in BOOLEAN
         /\ r.ok => r.slot \in FdSlot /\ r.index \in 0 .. MAX_NAME_INDEX
<1> DEFINE s == SlotFor(ifindex)
           n == IndexFor(s, ifindex, wanted)
           c == Claim(World, s, ifindex, n)
           Address(w) == IF CanAddIp(w.l, w.g[s].fd, ip) THEN Answered(w, s, n, ip)
                         ELSE Refused(w, s, n, FALSE)
<1>1. CASE r = [ok |-> FALSE, slot |-> 0, index |-> 0, w |-> World, upset |-> FALSE]
  BY <1>1
<1>2. CASE /\ ~Exhausted(ifindex, wanted)
           /\ \/ c.g[s].fd # NoFd /\ r = Address(c)
              \/ c.g[s].fd = NoFd /\ \E u \in BOOLEAN : r = Refused(c, s, n, u)
              \/ /\ c.g[s].fd = NoFd /\ HasRoom(listener)
                 /\ \E f \in Closed : r = Address(Opened(c, s, f))
              \/ /\ EpollMayFail /\ c.g[s].fd = NoFd /\ HasRoom(listener)
                 /\ \E f \in Closed :
                      r = Refused([c EXCEPT !.l = AddServer(@, f, ifindex)], s, n, TRUE)
  <2>1. s \in FdSlot /\ n \in 0 .. MAX_NAME_INDEX
    BY <1>2, NotExhausted
  <2>2. c \in Worlds /\ c.l = listener /\ c.g[s].ifindex = ifindex
    <3>1. World.l = listener
      BY DEF World
    <3> HIDE DEF s, n
    <3>2. c \in Worlds /\ Claimed(World, s, ifindex, n, c)
      BY <2>1, ClaimEffect, Zenon
    <3>3. QED BY <3>1, <3>2 DEF Claimed
  <2> HIDE DEF s, n, c
  <2>3. ASSUME NEW w \in Worlds, NEW u \in BOOLEAN, r = Refused(w, s, n, u)
        PROVE  r.w \in Worlds /\ r.ok = FALSE
    BY <2>1, <2>3, PutEffect DEF Refused
  <2>4. ASSUME NEW w \in Worlds, r = Address(w)
        PROVE  r.w \in Worlds /\ r.ok \in BOOLEAN /\ r.slot = s /\ r.index = n
    <3>1. CASE CanAddIp(w.l, w.g[s].fd, ip)
      <4>1. r = Answered(w, s, n, ip)
        BY <2>4, <3>1
      <4>2. r.w \in Worlds
        BY <4>1, <3>1, <2>1, AnsweredType
      <4>3. QED BY <4>1, <4>2 DEF Answered
    <3>2. CASE ~CanAddIp(w.l, w.g[s].fd, ip)
      <4>1. r = Refused(w, s, n, FALSE)
        BY <2>4, <3>2
      <4>2. QED BY <4>1, <2>3 DEF Refused
    <3>3. QED BY <3>1, <3>2
  <2> HIDE DEF Address
  <2>5. CASE r = Address(c)
    BY <2>5, <2>4, <2>2, <2>1
  <2>6. CASE \E u \in BOOLEAN : r = Refused(c, s, n, u)
    BY <2>6, <2>3, <2>2
  <2>7. ASSUME NEW f \in Closed, HasRoom(listener), r = Address(Opened(c, s, f))
        PROVE  /\ r.w \in Worlds /\ r.ok \in BOOLEAN
               /\ r.ok => r.slot \in FdSlot /\ r.index \in 0 .. MAX_NAME_INDEX
    <3>1. Opened(c, s, f) \in Worlds
      BY <2>1, <2>2, <2>7, OpenedEffect DEF Closed
    <3>2. QED BY <3>1, <2>1, <2>4, <2>7
  <2>8. ASSUME NEW f \in Closed, HasRoom(listener),
               r = Refused([c EXCEPT !.l = AddServer(@, f, ifindex)], s, n, TRUE)
        PROVE  r.w \in Worlds /\ r.ok = FALSE
    <3>1. AddServer(c.l, f, ifindex) \in Table
      BY <2>2, <2>8, AddServerType DEF Closed, Worlds
    <3>2. [c EXCEPT !.l = AddServer(c.l, f, ifindex)] \in Worlds
      BY <3>1, <2>2 DEF Worlds
    <3>3. QED BY <3>2, <2>3, <2>8
  <2>9. QED BY <1>2, <2>5, <2>6, <2>7, <2>8
<1>3. Ended(ifindex, ip, wanted, r)
  BY FdDataCases
<1>4. QED BY <1>1, <1>2, <1>3, Zenon DEF Ended
-----------------------------------------------------------------------------
(* The type invariant with the shapes its steps rest on: the list has no   *)
(* port twice, and the thread is at one of its ports while it works.       *)
Net == [here : BOOLEAN, up : BOOLEAN, vlan : Vlan, slaves : SUBSET SlaveIf]

AtOK(a, l) ==
  /\ a \in [step : {"idle", "crashed", "port", "disconnect", "slave", "free"},
            i : Nat, j : Nat, check : BOOLEAN]
  /\ a.step \in {"idle", "crashed"} => a.i = 0
  /\ a.step \notin {"idle", "crashed"} => a.i \in 1 .. Len(l)
  /\ a.step \in {"slave", "free"} => a.j # 0

SwitchType ==
  /\ net \in [Port -> Net]
  /\ list \in Seq(Port) /\ IsInjective(list)
  /\ port \in [Port -> Entry]
  /\ World \in Worlds
  /\ since \in 1 .. SWITCH_POLL_INTEVAL
  /\ AtOK(at, list)
  /\ upsets \in 0 .. MaxUpset

LEMMA TypeImplied ==
  ASSUME SwitchType
  PROVE  STypeOK
<1>1. net \in [Port -> Net] /\ since \in 1 .. SWITCH_POLL_INTEVAL /\ upsets \in 0 .. MaxUpset
  BY DEF SwitchType
<1>2. Listed \subseteq Port /\ IsInjective(list)
  BY ToSetInT DEF SwitchType, Listed
<1>3. ASSUME NEW p \in Port
      PROVE  /\ port[p].index \in FdSlot /\ port[p].name_index \in 0 .. MAX_NAME_INDEX
             /\ port[p].expires \in 0 .. Age /\ port[p].vlan \in Vlan \cup {0}
             /\ \A i \in DOMAIN port[p].slave : port[p].slave[i] \in Slave
  <2>1. port[p] \in Entry
    BY DEF SwitchType
  <2>2. port[p].slave \in Seq(Slave)
    BY <2>1 DEF Entry
  <2>3. \A i \in DOMAIN port[p].slave : port[p].slave[i] \in Slave
    BY <2>2
  <2>4. QED BY <2>1, <2>3 DEF Entry
<1>4. /\ g_port_fd \in [FdSlot -> PortFd] /\ listener \in Table
      /\ sock \in [Fd -> IfSet \cup {NoIf}]
  BY DEF SwitchType, World, Worlds
<1>5. at.i \in 0 .. Len(list)
  <2>1. AtOK(at, list) /\ Len(list) \in Nat
    BY DEF SwitchType
  <2>2. QED BY <2>1 DEF AtOK
<1>6. QED BY <1>1, <1>2, <1>3, <1>4, <1>5 DEF STypeOK, Net, PortFd, Table, Listen

LEMMA NewEntryType == NewEntry \in Entry
<1>1. <<>> \in Seq(Slave) /\ 0 \in 0 .. Age /\ 1 \in FdSlot /\ 0 \in 0 .. MAX_NAME_INDEX
  BY Ranges
<1> HIDE DEF Age
<1>2. QED BY <1>1 DEF NewEntry, Entry

LEMMA SInitType == SInit => SwitchType
<1> SUFFICES ASSUME SInit PROVE SwitchType
  OBVIOUS
<1>1. net \in [Port -> Net]
  <2>1. Min(Vlan) \in Vlan
    <3>1. Vlan \in SUBSET Nat /\ Vlan # {}
      BY SwitchAssumption
    <3>2. QED BY <3>1, MinInSet
  <2>2. [here |-> FALSE, up |-> FALSE, vlan |-> Min(Vlan), slaves |-> {}] \in Net
    BY <2>1 DEF Net
  <2>3. QED BY <2>2 DEF SInit
<1>2. list \in Seq(Port) /\ IsInjective(list)
  BY DEF SInit, IsInjective
<1>3. port \in [Port -> Entry]
  BY NewEntryType DEF SInit
<1>4. World \in Worlds
  <2>1. FreeSlot \in PortFd
    BY Ranges DEF FreeSlot, PortFd
  <2>2. Unused \in Listen
    BY DEF Unused, Listen
  <2>3. /\ g_port_fd \in [FdSlot -> PortFd] /\ listener \in Table
        /\ sock \in [Fd -> IfSet \cup {NoIf}]
    BY <2>1, <2>2 DEF SInit, Table
  <2>4. QED BY <2>3 DEF World, Worlds
<1>5. since \in 1 .. SWITCH_POLL_INTEVAL /\ upsets \in 0 .. MaxUpset
  <2>1. SWITCH_POLL_INTEVAL \in Nat \ {0} /\ MaxUpset \in Nat
    BY SwitchAssumption
  <2>2. QED BY <2>1 DEF SInit
<1>6. AtOK(at, list)
  BY DEF SInit, AtOK, Idle
<1>7. QED BY <1>1, <1>2, <1>3, <1>4, <1>5, <1>6 DEF SwitchType

(* The port the thread is at.                                              *)
LEMMA CurType ==
  ASSUME SwitchType, at.step \notin {"idle", "crashed"}
  PROVE  /\ at.i \in 1 .. Len(list) /\ Len(list) \in Nat
         /\ Cur \in Port /\ Cur \in Listed /\ Mine \in Entry
         /\ Cur.phy \in IfSet /\ Cur.ip \in Ip
<1>1. at.i \in 1 .. Len(list) /\ list \in Seq(Port)
  BY DEF SwitchType, AtOK
<1>2. Cur \in Port /\ Cur \in Listed /\ Len(list) \in Nat
  BY <1>1, InToSet DEF Cur, Listed
<1>3. Mine \in Entry
  BY <1>2 DEF Mine, SwitchType
<1>4. QED BY <1>1, <1>2, <1>3 DEF IfSet, Phy, Ip

LEMMA SetType ==
  ASSUME SwitchType, NEW e \in Entry, Set(e)
  PROVE  port' \in [Port -> Entry]
BY DEF Set, SwitchType

LEMMA UpsetType ==
  ASSUME SwitchType, Upset \/ Calm
  PROVE  upsets' \in 0 .. MaxUpset
<1>1. MaxUpset \in Nat /\ upsets \in 0 .. MaxUpset
  BY SwitchAssumption DEF SwitchType
<1>2. QED BY <1>1 DEF Upset, Calm

LEMMA GoToType ==
  ASSUME SwitchType, at.step \notin {"idle", "crashed"},
         NEW step \in {"port", "disconnect", "slave", "free"}, NEW j \in Nat,
         step \in {"slave", "free"} => j # 0, GoTo(step, j)
  PROVE  AtOK(at', list)
BY DEF SwitchType, AtOK, GoTo

LEMMA NextPortType ==
  ASSUME SwitchType, NEW l \in Seq(Port), NEW i \in Nat \ {0}, NextPort(i, Len(l))
  PROVE  AtOK(at', l)
<1>1. AtOK(at, list) /\ Len(l) \in Nat
  BY DEF SwitchType
<1>2. CASE i > Len(l)
  BY <1>1, <1>2 DEF NextPort, AtOK, Idle
<1>3. CASE ~(i > Len(l))
  <2>1. at' = [at EXCEPT !.step = "port", !.i = i, !.j = 0]
    BY <1>3 DEF NextPort
  <2>2. i \in 1 .. Len(l)
    BY <1>1, <1>3
  <2>3. QED BY <1>1, <2>1, <2>2 DEF AtOK
<1>4. QED BY <1>2, <1>3

LEMMA BecomeWorld ==
  ASSUME NEW w \in Worlds, Become(w)
  PROVE  World' = w
BY DEF Become, World, Worlds

LEMMA FdsKept ==
  ASSUME UNCHANGED fds
  PROVE  World' = World
BY DEF fds, World
-----------------------------------------------------------------------------
(* Entries after their changes.                                            *)
LEMMA StartedType ==
  ASSUME NEW e \in Entry, NEW s \in FdSlot, NEW n \in 0 .. MAX_NAME_INDEX, NEW w \in Worlds
  PROVE  Started(e, s, n, w) \in Entry
<1> DEFINE t == w.g[s].old_time
           x == IF t < 0 THEN 0 ELSE t
<1>1. t \in -1 .. Age /\ Age \in Nat
  BY Ranges DEF Worlds, PortFd
<1>2. x \in 0 .. Age
  BY <1>1
<1>3. Started(e, s, n, w) = [e EXCEPT !.valid = TRUE, !.index = s, !.name_index = n, !.expires = x]
  BY DEF Started
<1> HIDE DEF x, Age
<1>4. QED BY <1>2, <1>3 DEF Entry

LEMMA LldpSendType ==
  ASSUME SwitchType, NEW e \in Entry, LldpSend(e)
  PROVE  port' \in [Port -> Entry] /\ upsets' \in 0 .. MaxUpset
<1> DEFINE x == [e EXCEPT !.expires = LLDP_INTERVAL_CLOCK]
<1>1. (Set(x) \/ Set(e)) /\ (Upset \/ Calm)
  BY DEF LldpSend
<1>2. x \in Entry
  <2>1. LLDP_INTERVAL_CLOCK \in 0 .. Age
    BY Ranges
  <2> HIDE DEF Age
  <2>2. QED BY <2>1 DEF Entry
<1>3. QED BY <1>1, <1>2, SetType, UpsetType

LEMMA AnnounceType ==
  ASSUME SwitchType, NEW e \in Entry, Announce(e)
  PROVE  port' \in [Port -> Entry] /\ upsets' \in 0 .. MaxUpset
<1> DEFINE x == [e EXCEPT !.expires = Age]
<1>1. x \in Entry
  <2>1. Age \in 0 .. Age
    BY Ranges
  <2> HIDE DEF Age
  <2>2. QED BY <2>1 DEF Entry
<1>2. CASE e.vlan_change
  <2>1. Set(x) /\ Calm
    BY <1>2 DEF Announce
  <2>2. QED BY <2>1, <1>1, SetType, UpsetType
<1>3. CASE ~e.vlan_change
  <2>1. LldpSend(e)
    BY <1>3 DEF Announce
  <2>2. QED BY <2>1, LldpSendType
<1>4. QED BY <1>2, <1>3

LEMMA SlavesType ==
  ASSUME NEW e \in Entry, NEW S \in SUBSET SlaveIf
  PROVE  Slaves(e, S) \in Seq(Slave)
<1> DEFINE known == {e.slave[i].ifindex : i \in DOMAIN e.slave}
           added == SetToSeq(S \ known)
           kept  == [i \in DOMAIN e.slave |->
                       [e.slave[i] EXCEPT !.deleted = e.slave[i].ifindex \notin S]]
           fresh == [i \in DOMAIN added |->
                       [ifindex |-> added[i], index |-> 1, fd_valid |-> FALSE, deleted |-> FALSE]]
<1>1. Slaves(e, S) = fresh \o kept
  BY DEF Slaves
<1>2. kept \in Seq(Slave)
  <2>1. e.slave \in Seq(Slave)
    BY DEF Entry
  <2>2. DOMAIN e.slave = 1 .. Len(e.slave) /\ Len(e.slave) \in Nat
    BY <2>1
  <2>3. ASSUME NEW i \in DOMAIN e.slave
        PROVE  [e.slave[i] EXCEPT !.deleted = e.slave[i].ifindex \notin S] \in Slave
    <3>1. e.slave[i] \in Slave
      BY <2>1, <2>2
    <3>2. (e.slave[i].ifindex \notin S) \in BOOLEAN
      OBVIOUS
    <3>3. QED BY <3>1, <3>2, Zenon DEF Slave
  <2>4. kept \in [1 .. Len(e.slave) -> Slave]
    BY <2>2, <2>3
  <2>5. QED BY <2>2, <2>4, MapProperties
<1>3. fresh \in Seq(Slave)
  <2>1. IsFiniteSet(S \ known)
    <3>1. IsFiniteSet(SlaveIf) /\ S \ known \in SUBSET SlaveIf
      BY SwitchAssumption
    <3>2. QED BY <3>1, FS_Subset
  <2>2. added \in Seq(S \ known)
    BY <2>1, SetToSeqProperties
  <2> HIDE DEF added
  <2>3. DOMAIN added = 1 .. Len(added) /\ Len(added) \in Nat
    BY <2>2
  <2>4. ASSUME NEW i \in DOMAIN added
        PROVE  [ifindex |-> added[i], index |-> 1, fd_valid |-> FALSE, deleted |-> FALSE] \in Slave
    <3>1. added[i] \in S \ known
      BY <2>2, <2>3
    <3>2. added[i] \in IfSet /\ 1 \in FdSlot
      BY <3>1, Ranges DEF IfSet
    <3>3. QED BY <3>2 DEF Slave
  <2>5. fresh \in [1 .. Len(added) -> Slave]
    BY <2>3, <2>4
  <2>6. QED BY <2>3, <2>5, MapProperties
<1> HIDE DEF kept, fresh
<1>4. fresh \o kept \in Seq(Slave)
  BY <1>2, <1>3
<1>5. QED BY <1>1, <1>4

LEMMA SeenType ==
  ASSUME SwitchType, NEW p \in Port
  PROVE  Seen(p) \in Entry
<1>1. port[p] \in Entry
  BY DEF SwitchType
<1>2. [port[p] EXCEPT !.new = FALSE, !.fresh = FALSE] \in Entry
  BY <1>1 DEF Entry
<1>3. QED BY <1>2, NewEntryType DEF Seen

(* A port that is read keeps what belongs to its sockets.                  *)
LEMMA ReadType ==
  ASSUME SwitchType, NEW p \in Port, NEW e \in Entry
  PROVE  /\ Read(p, e) \in Entry
         /\ Read(p, e).valid = e.valid /\ Read(p, e).index = e.index
         /\ Read(p, e).name_index = e.name_index /\ Read(p, e).expires = e.expires
         /\ Read(p, e).vlan = net[p].vlan
         /\ p \notin Bond => Read(p, e).bonding_change = e.bonding_change
<1> DEFINE n == net[p]
           change == e.vlan # 0 /\ e.vlan # n.vlan
           f == [e EXCEPT !.fresh = TRUE, !.up = n.up, !.vlan = n.vlan, !.vlan_change = change]
           sl == Slaves(e, n.slaves)
           named == n.slaves # {}
           g == [f EXCEPT !.slave = sl, !.names = named, !.bonding_change = TRUE]
<1>1. n \in Net
  BY DEF SwitchType
<1>2. /\ n.up \in BOOLEAN /\ n.vlan \in Vlan \cup {0} /\ n.slaves \in SUBSET SlaveIf
      /\ change \in BOOLEAN /\ named \in BOOLEAN
  BY <1>1 DEF Net
<1>3. sl \in Seq(Slave)
  BY <1>2, SlavesType
<1>4. Read(p, e) = IF p \in Bond /\ ~SameSlaves(e, n.slaves) THEN g ELSE f
  BY DEF Read
<1>5. n.vlan = net[p].vlan
  OBVIOUS
<1> HIDE DEF n, change, sl, named
<1>6. /\ f \in Entry /\ f.valid = e.valid /\ f.index = e.index /\ f.name_index = e.name_index
      /\ f.expires = e.expires /\ f.vlan = n.vlan /\ f.bonding_change = e.bonding_change
  BY <1>2 DEF Entry
<1> HIDE DEF f
<1>7. /\ g \in Entry /\ g.valid = f.valid /\ g.index = f.index /\ g.name_index = f.name_index
      /\ g.expires = f.expires /\ g.vlan = f.vlan
  BY <1>2, <1>3, <1>6 DEF Entry
<1> HIDE DEF g
<1>8. QED BY <1>4, <1>5, <1>6, <1>7

(* A port that is read in part keeps it too, and does not count as read.   *)
LEMMA PartlyReadType ==
  ASSUME SwitchType, NEW p \in Port, NEW x \in PartlyRead(p)
  PROVE  /\ x \in Entry /\ x.fresh = FALSE
         /\ x.valid = Seen(p).valid /\ x.index = Seen(p).index
         /\ x.name_index = Seen(p).name_index /\ x.expires = Seen(p).expires
         /\ x.vlan \in {Seen(p).vlan, net[p].vlan}
         /\ p \notin Bond => x.bonding_change = Seen(p).bonding_change
<1> DEFINE e == Seen(p)
           n == net[p]
           d == Read(p, e)
           up == [e EXCEPT !.up = n.up]
           part(S) == [e EXCEPT !.up = n.up, !.slave = Slaves(e, S), !.names = FALSE,
                                !.bonding_change = TRUE]
<1>1. \/ x = e \/ x = up \/ x = [d EXCEPT !.fresh = FALSE]
      \/ p \in Bond /\ \E S \in SUBSET n.slaves : x = part(S)
  BY DEF PartlyRead
<1>2. /\ d \in Entry /\ d.valid = e.valid /\ d.index = e.index
      /\ d.name_index = e.name_index /\ d.expires = e.expires /\ d.vlan = n.vlan
      /\ p \notin Bond => d.bonding_change = e.bonding_change
  BY SeenType, ReadType
<1>3. e \in Entry /\ e.fresh = FALSE
  BY SeenType DEF Seen, NewEntry, SwitchType, Entry
<1>4. n.up \in BOOLEAN /\ n.slaves \in SUBSET SlaveIf
  BY DEF SwitchType, Net
<1>5. \A S \in SUBSET n.slaves : Slaves(e, S) \in Seq(Slave)
  BY <1>3, <1>4, SlavesType
<1> HIDE DEF e, n, d
<1>6. CASE x = e
  BY <1>3, <1>6 DEF e
<1>7. CASE x = up
  BY <1>3, <1>4, <1>7 DEF Entry, e
<1>8. CASE x = [d EXCEPT !.fresh = FALSE]
  <2>1. /\ x \in Entry /\ x.fresh = FALSE /\ x.valid = d.valid /\ x.index = d.index
        /\ x.name_index = d.name_index /\ x.expires = d.expires /\ x.vlan = d.vlan
        /\ x.bonding_change = d.bonding_change
    BY <1>2, <1>8 DEF Entry
  <2>2. QED BY <1>2, <2>1 DEF e, n
<1>9. CASE p \in Bond /\ \E S \in SUBSET n.slaves : x = part(S)
  <2>1. PICK S \in SUBSET n.slaves : x = part(S)
    BY <1>9
  <2> DEFINE sl == Slaves(e, S)
  <2>2. x = [e EXCEPT !.up = n.up, !.slave = sl, !.names = FALSE, !.bonding_change = TRUE]
    BY <2>1
  <2>3. sl \in Seq(Slave)
    BY <1>5
  <2> HIDE DEF sl
  <2>4. QED BY <1>3, <1>4, <1>9, <2>2, <2>3 DEF Entry, e
<1>10. QED BY <1>1, <1>6, <1>7, <1>8, <1>9

(* The ports that are found come after those that are known.               *)
LEMMA ListGrows ==
  ASSUME SwitchType, NEW S \in SUBSET Port, S \cap Listed = {}
  PROVE  LET l == list \o SetToSeq(S)
         IN  /\ l \in Seq(Port) /\ IsInjective(l)
             /\ Listed \subseteq ToSet(l) /\ ToSet(l) \subseteq Listed \cup S
             /\ Len(l) = Len(list) + Len(SetToSeq(S))
<1> DEFINE t == SetToSeq(S)
<1>1. IsFiniteSet(S)
  BY SwitchAssumption, FS_Subset
<1>2. t \in Seq(S) /\ IsInjective(t)
  BY <1>1, SetToSeqProperties
<1> HIDE DEF t
<1>3. t \in Seq(Port) /\ ToSet(t) \subseteq S
  BY <1>2, SeqWider, ToSetInT
<1>4. list \in Seq(Port) /\ IsInjective(list) /\ ToSet(list) \cap ToSet(t) = {}
  BY <1>3 DEF SwitchType, Listed
<1>5. /\ list \o t \in Seq(Port) /\ IsInjective(list \o t)
      /\ ToSet(list) \subseteq ToSet(list \o t)
      /\ ToSet(list \o t) \subseteq ToSet(list) \cup ToSet(t)
      /\ Len(list \o t) = Len(list) + Len(t)
  BY <1>2, <1>3, <1>4, ConcatInjective
<1>6. QED BY <1>3, <1>5 DEF Listed, t
-----------------------------------------------------------------------------
(* Every step keeps the types.                                             *)
LEMMA TypeKept ==
  ASSUME net' \in [Port -> Net], list' \in Seq(Port), IsInjective(list'),
         port' \in [Port -> Entry], World' \in Worlds,
         since' \in 1 .. SWITCH_POLL_INTEVAL, AtOK(at', list'), upsets' \in 0 .. MaxUpset
  PROVE  SwitchType'
BY DEF SwitchType

LEMMA SinceType ==
  ASSUME SwitchType
  PROVE  /\ (IF since >= SWITCH_POLL_INTEVAL THEN 1 ELSE since + 1) \in 1 .. SWITCH_POLL_INTEVAL
         /\ (IF since < SWITCH_POLL_INTEVAL THEN since + 1 ELSE since)
              \in 1 .. SWITCH_POLL_INTEVAL
<1>1. SWITCH_POLL_INTEVAL \in Nat \ {0} /\ since \in 1 .. SWITCH_POLL_INTEVAL
  BY SwitchAssumption DEF SwitchType
<1>2. QED BY <1>1

LEMMA CfgNetInfoType ==
  ASSUME SwitchType, snsd_cfg_net_info
  PROVE  SwitchType'
<1> DEFINE here  == {p \in Port : net[p].here}
           entry == [p \in Port |-> IF p \in here THEN Read(p, Seen(p)) ELSE Seen(p)]
           drop  == {p \in here : entry[p].new /\ Fails(p, entry[p])}
           now   == list \o SetToSeq((here \ Listed) \ drop)
           first == [step |-> "port", i |-> 1, j |-> 0, check |-> since >= SWITCH_POLL_INTEVAL]
<1>1. /\ port' = [p \in Port |->
                    CASE p \in drop \/ p \notin here \cup Listed -> NewEntry
                      [] p \in here \ drop /\ Fails(p, entry[p]) -> [entry[p] EXCEPT !.fresh = FALSE]
                      [] OTHER -> entry[p]]
      /\ list' = now
      /\ since' = IF since >= SWITCH_POLL_INTEVAL THEN 1 ELSE since + 1
      /\ at' = IF now = <<>> THEN Idle ELSE first
      /\ UNCHANGED <<net, fds, neighbor, told, upsets>>
  BY DEF snsd_cfg_net_info
<1>2. /\ now \in Seq(Port) /\ IsInjective(now)
  BY ListGrows
<1>3. \A p \in Port : entry[p] \in Entry
  BY SeenType, ReadType
<1> HIDE DEF entry, drop, here
<1>4. port' \in [Port -> Entry]
  <2>1. \A p \in Port : [entry[p] EXCEPT !.fresh = FALSE] \in Entry
    BY <1>3 DEF Entry
  <2>2. QED BY <1>1, <1>3, <2>1, NewEntryType
<1> HIDE DEF now
<1>5. AtOK(at', list')
  <2>1. CASE now = <<>>
    BY <1>1, <2>1 DEF AtOK, Idle
  <2>2. CASE now # <<>>
    <3>1. 1 \in 1 .. Len(now) /\ (since >= SWITCH_POLL_INTEVAL) \in BOOLEAN
      BY <1>2, <2>2
    <3>2. at' = first /\ list' = now
      BY <1>1, <2>2
    <3>3. first \in [step : {"port"}, i : Nat, j : Nat, check : BOOLEAN]
          /\ first.step = "port" /\ first.i = 1
      BY <3>1, Zenon, 1 \in Nat, 0 \in Nat
    <3> HIDE DEF first
    <3>4. QED BY <3>1, <3>2, <3>3 DEF AtOK
  <2>3. QED BY <2>1, <2>2
<1>6. World' \in Worlds
  BY <1>1, FdsKept DEF SwitchType
<1>7. /\ net' \in [Port -> Net] /\ upsets' \in 0 .. MaxUpset
      /\ since' \in 1 .. SWITCH_POLL_INTEVAL
  BY <1>1, SinceType DEF SwitchType
<1>8. QED BY <1>1, <1>2, <1>4, <1>5, <1>6, <1>7, TypeKept

(* After a failure every port is read, read in part, or as it was.         *)
LEMMA CfgNetInfoFailsCases ==
  ASSUME SwitchType, cfg_net_info_fails
  PROVE  /\ at = Idle /\ Upset
         /\ since' = IF since < SWITCH_POLL_INTEVAL THEN since + 1 ELSE since
         /\ UNCHANGED <<net, fds, at, neighbor, told>>
         /\ list' \in Seq(Port) /\ IsInjective(list')
         /\ Listed \subseteq Listed' /\ Listed' \subseteq Port
         /\ port' = [p \in Port |-> port'[p]]
         /\ \A p \in Port : \/ port'[p] = Read(p, Seen(p))
                            \/ port'[p] \in PartlyRead(p)
                            \/ port'[p] = port[p] /\ (p \in Listed' => p \in Listed)
<1> DEFINE entry(read) == [p \in Port |-> IF p \in read THEN Read(p, Seen(p)) ELSE port[p]]
           found(read) == list \o SetToSeq(read \ Listed)
<1>1. PICK read \in SUBSET {p \in Port : net[p].here} :
        /\ \/ port' = entry(read) /\ list' = found(read)
           \/ \E p \in Port \ read : \E e \in PartlyRead(p) :
                /\ port' = [entry(read) EXCEPT ![p] = e]
                /\ list' = IF p \in Listed THEN found(read) ELSE Append(found(read), p)
        /\ at = Idle /\ Upset
        /\ since' = IF since < SWITCH_POLL_INTEVAL THEN since + 1 ELSE since
        /\ UNCHANGED <<net, fds, at, neighbor, told>>
  BY DEF cfg_net_info_fails
<1> DEFINE l == found(read)
           x == entry(read)
<1>2. /\ l \in Seq(Port) /\ IsInjective(l)
      /\ Listed \subseteq ToSet(l) /\ ToSet(l) \subseteq Listed \cup read
  <2>1. read \ Listed \in SUBSET Port /\ (read \ Listed) \cap Listed = {}
    OBVIOUS
  <2>2. QED BY <2>1, ListGrows
<1>3. ToSet(l) \subseteq Port
  BY <1>2, ToSetInT
<1>4. /\ x = [p \in Port |-> x[p]]
      /\ \A p \in Port : x[p] = IF p \in read THEN Read(p, Seen(p)) ELSE port[p]
  OBVIOUS
<1>5. \/ port' = x /\ list' = l
      \/ \E p \in Port \ read : \E e \in PartlyRead(p) :
           /\ port' = [x EXCEPT ![p] = e]
           /\ list' = IF p \in Listed THEN l ELSE Append(l, p)
  BY <1>1
<1> HIDE DEF l, x
<1>6. CASE port' = x /\ list' = l
  BY <1>1, <1>2, <1>3, <1>4, <1>6 DEF Listed
<1>7. ASSUME NEW q \in Port \ read, NEW e \in PartlyRead(q), port' = [x EXCEPT ![q] = e],
             list' = IF q \in Listed THEN l ELSE Append(l, q)
      PROVE  /\ list' \in Seq(Port) /\ IsInjective(list')
             /\ Listed \subseteq Listed' /\ Listed' \subseteq Port
             /\ port' = [p \in Port |-> port'[p]]
             /\ \A p \in Port : \/ port'[p] = Read(p, Seen(p))
                                \/ port'[p] \in PartlyRead(p)
                                \/ port'[p] = port[p] /\ (p \in Listed' => p \in Listed)
  <2>1. \A p \in Port : port'[p] = IF p = q THEN e ELSE x[p]
    BY <1>4, <1>7
  <2>2. port' = [p \in Port |-> port'[p]]
    BY <1>4, <1>7
  <2>3. CASE q \in Listed
    <3>1. list' = l
      BY <1>7, <2>3
    <3>2. QED BY <1>2, <1>3, <1>4, <2>1, <2>2, <3>1 DEF Listed
  <2>4. CASE q \notin Listed
    <3>1. list' = Append(l, q)
      BY <1>7, <2>4
    <3>2. q \notin ToSet(l)
      BY <1>2, <1>7, <2>4
    <3>3. list' \in Seq(Port) /\ IsInjective(list') /\ ToSet(list') = ToSet(l) \cup {q}
      BY <1>2, <3>1, <3>2, AppendedInjective
    <3>4. QED BY <1>2, <1>3, <1>4, <2>1, <2>2, <3>3 DEF Listed
  <2>5. QED BY <2>3, <2>4
<1>8. QED BY <1>1, <1>5, <1>6, <1>7

LEMMA CfgNetInfoFailsType ==
  ASSUME SwitchType, cfg_net_info_fails
  PROVE  SwitchType'
<1>1. /\ Upset /\ list' \in Seq(Port) /\ IsInjective(list')
      /\ since' = IF since < SWITCH_POLL_INTEVAL THEN since + 1 ELSE since
      /\ UNCHANGED <<net, fds, at, neighbor, told>>
      /\ at = Idle
  BY CfgNetInfoFailsCases
<1>2. port' \in [Port -> Entry]
  <2>1. \A p \in Port : /\ port[p] \in Entry /\ Read(p, Seen(p)) \in Entry
                        /\ PartlyRead(p) \subseteq Entry
    BY SeenType, ReadType, PartlyReadType DEF SwitchType
  <2>2. /\ port' = [p \in Port |-> port'[p]]
        /\ \A p \in Port : port'[p] \in Entry
    BY <2>1, CfgNetInfoFailsCases
  <2>3. QED BY <2>2
<1>3. AtOK(at', list')
  BY <1>1 DEF AtOK, Idle
<1>4. World' \in Worlds
  BY <1>1, FdsKept DEF SwitchType
<1>5. /\ net' \in [Port -> Net] /\ since' \in 1 .. SWITCH_POLL_INTEVAL
  BY <1>1, SinceType DEF SwitchType
<1>6. upsets' \in 0 .. MaxUpset
  BY <1>1, UpsetType
<1>7. QED BY <1>1, <1>2, <1>3, <1>4, <1>5, <1>6, TypeKept

LEMMA QuietStepsType ==
  ASSUME SwitchType, verify_slave_null \/ port_skip \/ port_bonding_change \/ slave_kept
  PROVE  SwitchType'
<1>1. UNCHANGED <<net, list, port, fds, since, upsets>>
  BY DEF verify_slave_null, port_skip, port_bonding_change, slave_kept
<1>2. AtOK(at', list)
  <2>1. CASE verify_slave_null
    BY <2>1 DEF verify_slave_null, AtOK, Crashed, Idle
  <2>2. CASE port_skip
    BY <2>2, GoToType DEF port_skip
  <2>3. CASE port_bonding_change
    BY <2>3, GoToType DEF port_bonding_change
  <2>4. CASE slave_kept
    <3>1. at.step = "slave" /\ GoTo("slave", at.j + 1)
      BY <2>4 DEF slave_kept
    <3>2. at.j + 1 \in Nat /\ at.j + 1 # 0
      BY DEF SwitchType, AtOK
    <3>3. QED BY <3>1, <3>2, GoToType
  <2>5. QED BY <2>1, <2>2, <2>3, <2>4
<1>3. World' \in Worlds
  BY <1>1, FdsKept DEF SwitchType
<1>4. QED BY <1>1, <1>2, <1>3 DEF SwitchType

LEMMA PortValidType ==
  ASSUME SwitchType, port_valid
  PROVE  SwitchType'
<1>1. /\ at.step = "port" /\ Announce(Mine) /\ GoTo("disconnect", 0)
      /\ UNCHANGED <<net, list, fds, since, told>>
  BY DEF port_valid
<1>2. port' \in [Port -> Entry] /\ upsets' \in 0 .. MaxUpset
  BY <1>1, CurType, AnnounceType
<1>3. AtOK(at', list)
  BY <1>1, GoToType
<1>4. World' \in Worlds
  BY <1>1, FdsKept DEF SwitchType
<1>5. QED BY <1>1, <1>2, <1>3, <1>4 DEF SwitchType

LEMMA GetPhyFdType ==
  ASSUME SwitchType, switch_get_phy_fd
  PROVE  SwitchType'
<1>1. /\ at.step = "port" /\ GoTo("disconnect", 0)
      /\ UNCHANGED <<net, list, since, told>>
  BY DEF switch_get_phy_fd
<1>2. PICK r \in FdData(Cur.phy, Cur.ip, TRUE) :
        /\ Become(r.w)
        /\ IF r.ok THEN LldpSend(Started(Mine, r.slot, r.index, r.w))
           ELSE /\ UNCHANGED <<port, neighbor>>
                /\ IF r.upset THEN Upset ELSE Calm
  BY DEF switch_get_phy_fd
<1>3. Mine \in Entry /\ Cur.phy \in IfSet /\ Cur.ip \in Ip
  BY <1>1, CurType
<1>4. /\ r.w \in Worlds
      /\ r.ok => r.slot \in FdSlot /\ r.index \in 0 .. MAX_NAME_INDEX
  BY <1>3, FdDataType DEF SwitchType
<1>5. port' \in [Port -> Entry] /\ upsets' \in 0 .. MaxUpset
  <2>1. CASE r.ok
    <3>1. Started(Mine, r.slot, r.index, r.w) \in Entry
      BY <1>3, <1>4, <2>1, StartedType
    <3>2. QED BY <1>2, <2>1, <3>1, LldpSendType
  <2>2. CASE ~r.ok
    BY <1>2, <2>2, UpsetType DEF SwitchType
  <2>3. QED BY <2>1, <2>2
<1>6. AtOK(at', list)
  BY <1>1, GoToType
<1>7. World' \in Worlds
  BY <1>2, <1>4, BecomeWorld
<1>8. QED BY <1>1, <1>5, <1>6, <1>7 DEF SwitchType

LEMMA GetBondingPhyFdType ==
  ASSUME SwitchType, switch_get_bonding_phy_fd
  PROVE  SwitchType'
<1> DEFINE s == SlotFor(Cur.phy)
           n == IndexFor(s, Cur.phy, TRUE)
           e == [Mine EXCEPT !.index = s, !.name_index = n]
<1>1. /\ at.step = "port"
      /\ UNCHANGED <<net, list, since, neighbor, told, upsets>>
      /\ \/ GoTo("disconnect", 0) /\ UNCHANGED <<fds, port>>
         \/ /\ ~Exhausted(Cur.phy, TRUE)
            /\ Become(Claim(World, s, Cur.phy, n)) /\ Set(e) /\ GoTo("slave", 1)
  BY DEF switch_get_bonding_phy_fd
<1>2. Mine \in Entry /\ Cur.phy \in IfSet
  BY <1>1, CurType
<1>3. CASE GoTo("disconnect", 0) /\ UNCHANGED <<fds, port>>
  <2>1. AtOK(at', list)
    BY <1>1, <1>3, GoToType
  <2>2. World' \in Worlds
    BY <1>3, FdsKept DEF SwitchType
  <2>3. QED BY <1>1, <1>3, <2>1, <2>2 DEF SwitchType
<1>4. CASE /\ ~Exhausted(Cur.phy, TRUE)
           /\ Become(Claim(World, s, Cur.phy, n)) /\ Set(e) /\ GoTo("slave", 1)
  <2>1. s \in FdSlot /\ n \in 0 .. MAX_NAME_INDEX
    BY <1>4, NotExhausted
  <2> HIDE DEF s, n
  <2>2. e \in Entry
    BY <1>2, <2>1 DEF Entry
  <2>3. port' \in [Port -> Entry]
    BY <1>4, <2>2, SetType
  <2>4. AtOK(at', list)
    BY <1>1, <1>4, GoToType
  <2>5. Claim(World, s, Cur.phy, n) \in Worlds
    BY <1>2, <2>1, ClaimEffect, Zenon DEF SwitchType
  <2>6. World' \in Worlds
    BY <1>4, <2>5, BecomeWorld
  <2>7. QED BY <1>1, <2>3, <2>4, <2>6 DEF SwitchType
<1>5. QED BY <1>1, <1>3, <1>4

(* The socket of a slave.                                                  *)
LEMMA FreeSlaveType ==
  ASSUME NEW w \in Worlds, NEW p, NEW s \in FdSlot
  PROVE  FreeSlave(w, p, s) \in Worlds
<1> DEFINE l2 == RemoveServerIp(w.l, w.g[s].fd, p.ip)
<1>1. l2 \in Table
  BY RemoveServerIpType DEF Worlds
<1> HIDE DEF l2
<1>2. [w EXCEPT !.l = l2] \in Worlds
  BY <1>1 DEF Worlds
<1>3. FreeSlave(w, p, s) = Put([w EXCEPT !.l = l2], s, 0)
  BY DEF FreeSlave, l2
<1>4. QED BY <1>2, <1>3, PutEffect

LEMMA SlaveAt ==
  ASSUME SwitchType, at.step \in {"slave", "free"}, at.j <= Len(Mine.slave)
  PROVE  /\ at.j \in 1 .. Len(Mine.slave) /\ Mine.slave \in Seq(Slave)
         /\ Mine.slave[at.j] \in Slave
<1>1. Mine \in Entry
  BY CurType
<1>2. Mine.slave \in Seq(Slave)
  BY <1>1 DEF Entry
<1>3. at.j \in Nat /\ at.j # 0
  BY DEF SwitchType, AtOK
<1>4. at.j \in 1 .. Len(Mine.slave)
  BY <1>2, <1>3
<1>5. QED BY <1>2, <1>4

LEMMA SlaveGoneType ==
  ASSUME SwitchType, slave_gone
  PROVE  SwitchType'
<1> DEFINE sl == Mine.slave[at.j]
           rest == RemoveAt(Mine.slave, at.j)
           e == [Mine EXCEPT !.slave = rest]
           w == IF sl.fd_valid THEN FreeSlave(World, Cur, sl.index) ELSE World
<1>1. /\ at.step = "slave" /\ at.j <= Len(Mine.slave)
      /\ Become(w) /\ Set(e)
      /\ UNCHANGED <<net, list, since, at, neighbor, told, upsets>>
  BY DEF slave_gone
<1>2. /\ at.j \in 1 .. Len(Mine.slave) /\ Mine.slave \in Seq(Slave) /\ sl \in Slave
      /\ Mine \in Entry
  BY <1>1, SlaveAt, CurType
<1>3. rest \in Seq(Slave)
  BY <1>2, RemoveAtProperties
<1> HIDE DEF rest
<1>4. e \in Entry
  BY <1>2, <1>3 DEF Entry
<1>5. port' \in [Port -> Entry]
  BY <1>1, <1>4, SetType
<1>6. sl.index \in FdSlot
  BY <1>2 DEF Slave
<1> HIDE DEF sl
<1>7. w \in Worlds
  BY <1>6, FreeSlaveType DEF SwitchType
<1> HIDE DEF w
<1>8. World' \in Worlds
  BY <1>1, <1>7, BecomeWorld
<1>9. QED BY <1>1, <1>5, <1>8 DEF SwitchType

LEMMA SlaveNewType ==
  ASSUME SwitchType, slave_new
  PROVE  SwitchType'
<1> DEFINE sl == Mine.slave[at.j]
<1>1. /\ at.step = "slave" /\ at.j <= Len(Mine.slave)
      /\ UNCHANGED <<net, list, since, neighbor, told>>
  BY DEF slave_new
<1>2. PICK r \in FdData(sl.ifindex, Cur.ip, FALSE) :
        IF r.ok
        THEN /\ Become(r.w)
             /\ Set([Mine EXCEPT !.slave[at.j].index = r.slot,
                                 !.slave[at.j].fd_valid = TRUE])
             /\ GoTo("slave", at.j + 1)
             /\ Calm
        ELSE /\ Become(IF Mine.valid THEN r.w ELSE Put(r.w, Mine.index, Mine.name_index))
             /\ GoTo("disconnect", 0)
             /\ IF r.upset THEN Upset ELSE Calm
             /\ UNCHANGED port
  BY DEF slave_new
<1>3. /\ at.j \in 1 .. Len(Mine.slave) /\ Mine.slave \in Seq(Slave) /\ sl \in Slave
      /\ Mine \in Entry /\ Cur.ip \in Ip
  BY <1>1, SlaveAt, CurType
<1>4. /\ r.w \in Worlds
      /\ r.ok => r.slot \in FdSlot
  <2>1. sl.ifindex \in IfSet
    BY <1>3 DEF Slave
  <2>2. QED BY <1>3, <2>1, FdDataType DEF SwitchType
<1>5. CASE r.ok
  <2> DEFINE x == [sl EXCEPT !.index = r.slot, !.fd_valid = TRUE]
             more == [Mine.slave EXCEPT ![at.j] = x]
             e == [Mine EXCEPT !.slave = more]
  <2>1. x \in Slave
    BY <1>3, <1>4, <1>5 DEF Slave
  <2>2. more \in Seq(Slave)
    BY <1>3, <2>1
  <2>3. [Mine EXCEPT !.slave[at.j].index = r.slot, !.slave[at.j].fd_valid = TRUE] = e
    BY <1>3 DEF Entry
  <2>4. e \in Entry
    <3> HIDE DEF more
    <3>1. QED BY <1>3, <2>2 DEF Entry
  <2>5. port' \in [Port -> Entry]
    BY <1>2, <1>5, <2>3, <2>4, SetType
  <2>6. AtOK(at', list)
    <3>1. at.j + 1 \in Nat /\ at.j + 1 # 0
      BY DEF SwitchType, AtOK
    <3>2. QED BY <1>1, <1>2, <1>5, <3>1, GoToType
  <2>7. World' \in Worlds
    BY <1>2, <1>4, <1>5, BecomeWorld
  <2>8. upsets' \in 0 .. MaxUpset
    BY <1>2, <1>5, UpsetType
  <2>9. QED BY <1>1, <2>5, <2>6, <2>7, <2>8 DEF SwitchType
<1>6. CASE ~r.ok
  <2> DEFINE w == IF Mine.valid THEN r.w ELSE Put(r.w, Mine.index, Mine.name_index)
  <2>1. w \in Worlds
    <3>1. Mine.index \in FdSlot
      BY <1>3 DEF Entry
    <3>2. QED BY <1>4, <3>1, PutEffect
  <2>2. Become(w) /\ GoTo("disconnect", 0) /\ (Upset \/ Calm) /\ UNCHANGED port
    BY <1>2, <1>6
  <2> HIDE DEF w
  <2>3. World' \in Worlds
    BY <2>1, <2>2, BecomeWorld
  <2>4. AtOK(at', list)
    BY <1>1, <2>2, GoToType
  <2>5. upsets' \in 0 .. MaxUpset
    BY <2>2, UpsetType
  <2>6. QED BY <1>1, <2>2, <2>3, <2>4, <2>5 DEF SwitchType
<1>7. QED BY <1>5, <1>6

LEMMA SlavesDoneType ==
  ASSUME SwitchType, slaves_done
  PROVE  SwitchType'
<1> DEFINE e == [Mine EXCEPT !.bonding_change = FALSE]
<1>1. /\ at.step = "slave" /\ GoTo("disconnect", 0)
      /\ Announce(e) \/ LldpSend(Started(e, e.index, e.name_index, World))
      /\ UNCHANGED <<net, list, fds, since, told>>
  BY DEF slaves_done
<1>2. Mine \in Entry
  BY <1>1, CurType
<1>3. e \in Entry
  BY <1>2 DEF Entry
<1> HIDE DEF e
<1>4. Started(e, e.index, e.name_index, World) \in Entry
  <2>1. e.index \in FdSlot /\ e.name_index \in 0 .. MAX_NAME_INDEX
    BY <1>3 DEF Entry
  <2>2. QED BY <1>3, <2>1, StartedType DEF SwitchType
<1>5. port' \in [Port -> Entry] /\ upsets' \in 0 .. MaxUpset
  BY <1>1, <1>3, <1>4, AnnounceType, LldpSendType
<1>6. AtOK(at', list)
  BY <1>1, GoToType
<1>7. World' \in Worlds
  BY <1>1, FdsKept DEF SwitchType
<1>8. QED BY <1>1, <1>5, <1>6, <1>7 DEF SwitchType

LEMMA HandleDisconnectType ==
  ASSUME SwitchType, switch_port_handle_disconnect
  PROVE  SwitchType'
<1> DEFINE off == [Mine EXCEPT !.disconnect = FALSE]
           on == [Mine EXCEPT !.disconnect = TRUE]
<1>1. /\ at.step = "disconnect" /\ NextPort(at.i + 1, Len(list))
      /\ UNCHANGED <<net, list, fds, since, neighbor>>
      /\ Set(off) \/ Set(on) \/ UNCHANGED port
      /\ Upset \/ Calm
  BY DEF switch_port_handle_disconnect
<1>2. Mine \in Entry /\ at.i \in 1 .. Len(list)
  BY <1>1, CurType
<1>3. off \in Entry /\ on \in Entry
  BY <1>2 DEF Entry
<1> HIDE DEF off, on
<1>4. port' \in [Port -> Entry]
  BY <1>1, <1>3, SetType DEF SwitchType
<1>5. AtOK(at', list)
  <2>1. at.i + 1 \in Nat \ {0} /\ list \in Seq(Port)
    BY <1>2 DEF SwitchType
  <2>2. QED BY <1>1, <2>1, NextPortType
<1>6. World' \in Worlds /\ upsets' \in 0 .. MaxUpset
  BY <1>1, FdsKept, UpsetType DEF SwitchType
<1>7. QED BY <1>1, <1>4, <1>5, <1>6 DEF SwitchType

(* switch_port_delete.                                                     *)
LEMMA DeleteType ==
  ASSUME SwitchType, at.step \notin {"idle", "crashed"}, NEW w \in Worlds, Delete(w)
  PROVE  /\ World' = w /\ list' \in Seq(Port) /\ IsInjective(list')
         /\ ToSet(list') = Listed \ {Cur}
         /\ port' \in [Port -> Entry] /\ AtOK(at', list')
<1>1. /\ Become(w) /\ list' = RemoveAt(list, at.i) /\ Set(NewEntry)
      /\ NextPort(at.i, Len(list) - 1)
  BY DEF Delete
<1>2. /\ at.i \in 1 .. Len(list) /\ list \in Seq(Port) /\ IsInjective(list)
  BY CurType DEF SwitchType
<1>3. /\ list' \in Seq(Port) /\ IsInjective(list') /\ Len(list') = Len(list) - 1
      /\ ToSet(list') = Listed \ {Cur}
  BY <1>1, <1>2, RemoveAtInjective DEF Listed, Cur
<1>4. AtOK(at', list')
  <2>1. PICK l \in Seq(Port) : l = list'
    BY <1>3
  <2>2. NextPort(at.i, Len(l)) /\ at.i \in Nat \ {0}
    BY <1>1, <1>2, <1>3, <2>1
  <2>3. AtOK(at', l)
    BY <2>2, NextPortType
  <2>4. QED BY <2>1, <2>3
<1>5. QED BY <1>1, <1>3, <1>4, BecomeWorld, NewEntryType, SetType

(* The tables after a port without bonding gave back its socket.           *)
Left ==
  Put([World EXCEPT !.l = RemoveServerIp(@, g_port_fd[Mine.index].fd, Cur.ip)],
      Mine.index, Mine.name_index)

LEMMA LeftType ==
  ASSUME SwitchType, at.step \notin {"idle", "crashed"}
  PROVE  Left \in Worlds
<1> DEFINE l2 == RemoveServerIp(World.l, g_port_fd[Mine.index].fd, Cur.ip)
<1>1. World \in Worlds /\ Mine.index \in FdSlot
  BY CurType DEF SwitchType, Entry
<1>2. l2 \in Table
  BY <1>1, RemoveServerIpType DEF Worlds
<1>3. Left = Put([World EXCEPT !.l = l2], Mine.index, Mine.name_index)
  BY DEF Left
<1> HIDE DEF l2
<1>4. [World EXCEPT !.l = l2] \in Worlds
  BY <1>1, <1>2 DEF Worlds
<1>5. QED BY <1>1, <1>3, <1>4, PutEffect

LEMMA VanishedCases ==
  ASSUME port_vanished
  PROVE  /\ at.step = "port" /\ ~Mine.fresh
         /\ UNCHANGED <<net, since, neighbor>>
         /\ \/ ~Mine.valid /\ Delete(World) /\ Calm
            \/ Mine.valid /\ Cur \notin Bond /\ Delete(Left) /\ Calm
            \/ /\ Mine.valid /\ Cur \in Bond
               /\ Become(Put(World, Mine.index, Mine.name_index))
               /\ GoTo("free", 1) /\ UNCHANGED <<list, port>> /\ Calm
            \/ /\ Upset /\ NextPort(at.i + 1, Len(list))
               /\ UNCHANGED <<fds, list, port, told>>
<1>1. /\ at.step = "port" /\ ~Mine.fresh
      /\ UNCHANGED <<net, since, neighbor>>
  BY DEF port_vanished
<1>2. \/ /\ CASE ~Mine.valid -> Delete(World)
              [] Mine.valid /\ Cur \notin Bond -> Delete(Left)
              [] OTHER -> /\ Become(Put(World, Mine.index, Mine.name_index))
                          /\ GoTo("free", 1)
                          /\ UNCHANGED <<list, port>>
         /\ Calm
      \/ /\ Upset /\ NextPort(at.i + 1, Len(list))
         /\ UNCHANGED <<fds, list, port, told>>
  BY Zenon DEF port_vanished, Left
<1>3. QED BY <1>1, <1>2

LEMMA VanishedType ==
  ASSUME SwitchType, port_vanished
  PROVE  SwitchType'
<1>1. at.step = "port" /\ UNCHANGED <<net, since>>
  BY VanishedCases
<1>2. World \in Worlds /\ Left \in Worlds
  BY <1>1, LeftType DEF SwitchType
<1>3. Mine.index \in FdSlot /\ at.i \in 1 .. Len(list)
  BY <1>1, CurType DEF Entry
<1>4. ASSUME NEW w \in Worlds, Delete(w), Calm
      PROVE  SwitchType'
  <2>1. /\ World' \in Worlds /\ list' \in Seq(Port) /\ IsInjective(list')
        /\ port' \in [Port -> Entry] /\ AtOK(at', list')
    BY <1>1, <1>4, DeleteType
  <2>2. upsets' \in 0 .. MaxUpset
    BY <1>4, UpsetType
  <2>3. net' \in [Port -> Net] /\ since' \in 1 .. SWITCH_POLL_INTEVAL
    BY <1>1 DEF SwitchType
  <2>4. QED BY <2>1, <2>2, <2>3, TypeKept
<1>5. CASE /\ Become(Put(World, Mine.index, Mine.name_index))
           /\ GoTo("free", 1) /\ UNCHANGED <<list, port>> /\ Calm
  <2>1. Put(World, Mine.index, Mine.name_index) \in Worlds
    BY <1>2, <1>3, PutEffect
  <2>2. World' \in Worlds
    BY <1>5, <2>1, BecomeWorld
  <2>3. AtOK(at', list)
    BY <1>1, <1>5, GoToType
  <2>4. upsets' \in 0 .. MaxUpset
    BY <1>5, UpsetType
  <2>5. QED BY <1>1, <1>5, <2>2, <2>3, <2>4 DEF SwitchType
<1>6. CASE /\ Upset /\ NextPort(at.i + 1, Len(list))
           /\ UNCHANGED <<fds, list, port, told>>
  <2>1. AtOK(at', list)
    <3>1. at.i + 1 \in Nat \ {0} /\ list \in Seq(Port)
      BY <1>3 DEF SwitchType
    <3>2. QED BY <1>6, <3>1, NextPortType
  <2>2. World' \in Worlds /\ upsets' \in 0 .. MaxUpset
    BY <1>6, FdsKept, UpsetType DEF SwitchType
  <2>3. QED BY <1>1, <1>6, <2>1, <2>2 DEF SwitchType
<1>7. QED BY <1>2, <1>4, <1>5, <1>6, VanishedCases

LEMMA FreeSlaveStepType ==
  ASSUME SwitchType, free_slave
  PROVE  SwitchType'
<1>1. at.step = "free" /\ UNCHANGED <<net, since, neighbor, told, upsets>>
  BY DEF free_slave
<1>2. World \in Worlds
  BY DEF SwitchType
<1>3. CASE at.j <= Len(Mine.slave)
  <2> DEFINE w == FreeSlave(World, Cur, Mine.slave[at.j].index)
  <2>1. Become(w) /\ GoTo("free", at.j + 1) /\ UNCHANGED <<list, port>>
    BY <1>3 DEF free_slave
  <2>2. Mine.slave[at.j].index \in FdSlot
    BY <1>1, <1>3, SlaveAt DEF Slave
  <2>3. w \in Worlds
    BY <1>2, <2>2, FreeSlaveType
  <2>4. World' \in Worlds
    BY <2>1, <2>3, BecomeWorld
  <2>5. AtOK(at', list)
    <3>1. at.j + 1 \in Nat /\ at.j + 1 # 0
      BY DEF SwitchType, AtOK
    <3>2. QED BY <1>1, <2>1, <3>1, GoToType
  <2>6. QED BY <1>1, <2>1, <2>4, <2>5 DEF SwitchType
<1>4. CASE ~(at.j <= Len(Mine.slave))
  <2>1. Delete(World)
    BY <1>4 DEF free_slave
  <2>2. /\ World' \in Worlds /\ list' \in Seq(Port) /\ IsInjective(list')
        /\ port' \in [Port -> Entry] /\ AtOK(at', list')
    BY <1>1, <1>2, <2>1, DeleteType
  <2>3. QED BY <1>1, <2>2 DEF SwitchType
<1>5. QED BY <1>3, <1>4

LEMMA TickType ==
  ASSUME SwitchType, Tick
  PROVE  SwitchType'
<1>1. /\ g_port_fd' = [s \in FdSlot |-> [g_port_fd[s] EXCEPT !.old_time = Down(@, -1)]]
      /\ port' = [p \in Port |-> [port[p] EXCEPT !.expires = Down(@, 0)]]
      /\ UNCHANGED <<net, list, listener, sock, since, at, told, upsets>>
  BY DEF Tick
<1>2. Age \in Nat
  BY Ranges
<1> HIDE DEF Age
<1>3. port' \in [Port -> Entry]
  <2>1. ASSUME NEW p \in Port
        PROVE  [port[p] EXCEPT !.expires = Down(@, 0)] \in Entry
    <3>1. port[p] \in Entry
      BY DEF SwitchType
    <3>2. port[p].expires \in 0 .. Age
      BY <3>1 DEF Entry
    <3>3. Down(port[p].expires, 0) \in 0 .. Age
      BY <1>2, <3>2 DEF Down
    <3>4. QED BY <3>1, <3>3 DEF Entry
  <2>2. QED BY <1>1, <2>1
<1>4. World' \in Worlds
  <2>1. g_port_fd \in [FdSlot -> PortFd] /\ listener \in Table /\ sock \in [Fd -> IfSet \cup {NoIf}]
    BY DEF SwitchType, World, Worlds
  <2>2. ASSUME NEW s \in FdSlot
        PROVE  [g_port_fd[s] EXCEPT !.old_time = Down(@, -1)] \in PortFd
    <3>1. g_port_fd[s] \in PortFd
      BY <2>1
    <3>2. g_port_fd[s].old_time \in -1 .. Age
      BY <3>1 DEF PortFd
    <3>3. Down(g_port_fd[s].old_time, -1) \in -1 .. Age
      BY <1>2, <3>2 DEF Down
    <3>4. QED BY <3>1, <3>3 DEF PortFd
  <2>3. g_port_fd' \in [FdSlot -> PortFd]
    BY <1>1, <2>2
  <2>4. QED BY <1>1, <2>1, <2>3 DEF World, Worlds
<1>5. QED BY <1>1, <1>3, <1>4 DEF SwitchType

LEMMA ChangeType ==
  ASSUME SwitchType, NEW p \in Port, appear(p) \/ vanish(p) \/ link(p) \/ enslave(p)
  PROVE  SwitchType'
<1>1. net[p] \in Net
  BY DEF SwitchType
<1>2. PICK n \in Net : Change(p, n)
  <2>1. CASE appear(p)
    <3>1. PICK v \in Vlan : Change(p, [net[p] EXCEPT !.here = TRUE, !.up = TRUE, !.vlan = v])
      BY <2>1 DEF appear
    <3>2. [net[p] EXCEPT !.here = TRUE, !.up = TRUE, !.vlan = v] \in Net
      BY <1>1 DEF Net
    <3>3. QED BY <3>1, <3>2
  <2>2. CASE vanish(p)
    <3>1. [net[p] EXCEPT !.here = FALSE, !.up = FALSE] \in Net
      BY <1>1 DEF Net
    <3>2. QED BY <2>2, <3>1 DEF vanish
  <2>3. CASE link(p)
    <3> DEFINE u == ~net[p].up
    <3>1. u \in BOOLEAN /\ [net[p] EXCEPT !.up = ~@] = [net[p] EXCEPT !.up = u]
      OBVIOUS
    <3> HIDE DEF u
    <3>2. [net[p] EXCEPT !.up = u] \in Net
      BY <1>1, <3>1 DEF Net
    <3>3. QED BY <2>3, <3>1, <3>2 DEF link
  <2>4. CASE enslave(p)
    <3>1. PICK S \in SUBSET SlaveIf : Change(p, [net[p] EXCEPT !.slaves = S])
      BY <2>4 DEF enslave
    <3>2. [net[p] EXCEPT !.slaves = S] \in Net
      BY <1>1 DEF Net
    <3>3. QED BY <3>1, <3>2
  <2>5. QED BY <2>1, <2>2, <2>3, <2>4
<1>3. net' \in [Port -> Net] /\ UNCHANGED <<list, port, fds, since, at, upsets>>
  BY <1>2 DEF Change, SwitchType
<1>4. World' = World
  BY <1>3, FdsKept
<1>5. QED BY <1>3, <1>4 DEF SwitchType

LEMMA SNextType ==
  ASSUME SwitchType, [SNext]_svars
  PROVE  SwitchType'
<1>1. CASE UNCHANGED svars
  <2>1. /\ UNCHANGED <<net, list, port, since, at, upsets>>
        /\ UNCHANGED fds
    BY <1>1 DEF svars
  <2>2. World' = World
    BY <2>1, FdsKept
  <2>3. QED BY <2>1, <2>2 DEF SwitchType
<1>2. CASE Main
  BY <1>2, CfgNetInfoType, QuietStepsType, PortValidType, GetPhyFdType, GetBondingPhyFdType,
     SlaveGoneType, SlaveNewType, SlavesDoneType, HandleDisconnectType, VanishedType,
     FreeSlaveStepType DEF Main
<1>3. CASE cfg_net_info_fails
  BY <1>3, CfgNetInfoFailsType
<1>4. CASE Environment
  BY <1>4, TickType, ChangeType DEF Environment
<1>5. QED BY <1>1, <1>2, <1>3, <1>4 DEF SNext

(* The types of all state of the switched ports, bonding and every failure *)
(* included: no list index, slot or cursor leaves its table, the list has  *)
(* no port twice, and no relative time leaves its range.                   *)
THEOREM SwitchTypeCorrect == SSpec => []STypeOK
<1>1. SSpec => []SwitchType
  BY SInitType, SNextType, PTL DEF SSpec
<1>2. QED BY <1>1, TypeImplied, PTL
-----------------------------------------------------------------------------
(* Who uses which slot under which index: a function on the ports that     *)
(* hold a socket.                                                          *)
Valid == {p \in Listed : port[p].valid}
Uses  == [p \in Valid |-> [slot |-> port[p].index, name |-> port[p].name_index]]

Users(U, s) == {p \in DOMAIN U : U[p].slot = s}

(* refs and the indexes are exactly those of the users, all of which are   *)
(* on the slot's interface, and the slot has a socket while it has users.  *)
SlotOK(x, U, P) ==
  /\ x.refs = Cardinality(P)
  /\ x.index_map = {U[p].name : p \in P}
  /\ x.fd # NoFd <=> P # {}
  /\ \A p \in P : p.phy = x.ifindex
  /\ \A p, q \in P : U[p].name = U[q].name => p = q

SlotsOK(w, U) == \A s \in FdSlot : SlotOK(w.g[s], U, Users(U, s))

(* No two slots are of one interface.                                      *)
InterfacesApart(w) ==
  \A s, u \in FdSlot : w.g[s].ifindex = w.g[u].ifindex /\ w.g[s].ifindex # NoIf => s = u

(* The sockets of the slots are bound to their interfaces, and no other    *)
(* socket is open.                                                         *)
SocketsOK(w) ==
  /\ \A s \in FdSlot : w.g[s].fd # NoFd => w.k[w.g[s].fd] = w.g[s].ifindex
  /\ \A f \in Fd : w.k[f] # NoIf => \E s \in FdSlot : w.g[s].fd = f

(* A socket has one entry in the listener table, with the addresses of the *)
(* users of its slot; entries that are not in use have no address left.    *)
ListensFor(w, U, s, i) ==
  /\ w.l[i].fd = w.g[s].fd /\ w.l[i].ifindex = w.g[s].ifindex
  /\ w.l[i].host_ip = {p.ip : p \in Users(U, s)}

ListenOK(w, U) ==
  /\ \A s \in FdSlot : w.g[s].fd # NoFd => \E i \in ListenerSlot : ListensFor(w, U, s, i)
  /\ \A i, j \in ListenerSlot : w.l[i].fd = w.l[j].fd /\ w.l[i].fd # NoFd => i = j
  /\ \A i \in ListenerSlot : w.l[i].fd = NoFd => w.l[i].host_ip = {}
  /\ \A i \in ListenerSlot : w.l[i].fd # NoFd => w.k[w.l[i].fd] # NoIf

WorldOK(w, U) == SlotsOK(w, U) /\ InterfacesApart(w) /\ SocketsOK(w) /\ ListenOK(w, U)

(* Two ports of one interface have different addresses.                    *)
AddressesApart ==
  \A p, q \in Port : p.phy = q.phy /\ p.ip = q.ip => p = q

(* U2 is U with port p using slot s under index n, or without port p.      *)
Joins(U, p, s, n, U2) ==
  /\ DOMAIN U2 = DOMAIN U \cup {p}
  /\ U2[p].slot = s /\ U2[p].name = n
  /\ \A q \in DOMAIN U : U2[q] = U[q]

Leaves(U, p, U2) ==
  /\ DOMAIN U2 = DOMAIN U \ {p}
  /\ \A q \in DOMAIN U2 : U2[q] = U[q]

LEMMA UsersFinite ==
  ASSUME NEW U, DOMAIN U \subseteq Port, NEW s
  PROVE  /\ Users(U, s) \subseteq Port /\ IsFiniteSet(Users(U, s))
         /\ Cardinality(Users(U, s)) \in Nat
         /\ Cardinality(Users(U, s)) = 0 <=> Users(U, s) = {}
<1>1. Users(U, s) \subseteq Port
  BY DEF Users
<1>2. IsFiniteSet(Port)
  BY SwitchAssumption
<1>3. IsFiniteSet(Users(U, s))
  BY <1>1, <1>2, FS_Subset
<1>4. QED BY <1>1, <1>3, FS_CardinalityType, FS_EmptySet

LEMMA UsersJoined ==
  ASSUME NEW U, NEW p, p \notin DOMAIN U, NEW s, NEW n, NEW U2, Joins(U, p, s, n, U2)
  PROVE  /\ Users(U2, s) = Users(U, s) \cup {p}
         /\ \A u : u # s => Users(U2, u) = Users(U, u)
         /\ p \notin Users(U, s)
         /\ \A u : \A q \in Users(U, u) : U2[q] = U[q]
         /\ U2[p].name = n
BY DEF Joins, Users

LEMMA UsersLeft ==
  ASSUME NEW U, NEW p \in DOMAIN U, NEW U2, Leaves(U, p, U2)
  PROVE  LET s == U[p].slot
         IN  /\ Users(U2, s) = Users(U, s) \ {p}
             /\ \A u : u # s => Users(U2, u) = Users(U, u)
             /\ p \in Users(U, s)
             /\ \A u : \A q \in Users(U2, u) : U2[q] = U[q]
BY DEF Leaves, Users

(* A slot without interface, or whose count is down, has no users.         *)
LEMMA EmptySlot ==
  ASSUME NEW x, NEW U, DOMAIN U \subseteq Port, NEW s, SlotOK(x, U, Users(U, s)),
         x.ifindex = NoIf \/ x.refs <= 0 \/ x.fd = NoFd
  PROVE  /\ Users(U, s) = {} /\ x.fd = NoFd /\ x.refs = 0 /\ x.index_map = {}
<1>1. Users(U, s) = {}
  <2>1. CASE x.ifindex = NoIf
    <3>1. ASSUME NEW p \in Users(U, s) PROVE FALSE
      <4>1. p \in Port /\ p.phy = NoIf
        BY <2>1, <3>1, UsersFinite DEF SlotOK
      <4>2. p.phy \in IfSet
        BY <4>1 DEF IfSet, Phy
      <4>3. QED BY <4>1, <4>2, Ranges
    <3>2. QED BY <3>1
  <2>2. CASE x.refs <= 0
    <3>1. Cardinality(Users(U, s)) \in Nat /\ x.refs = Cardinality(Users(U, s))
      BY UsersFinite DEF SlotOK
    <3>2. Cardinality(Users(U, s)) = 0
      BY <2>2, <3>1
    <3>3. QED BY <3>2, UsersFinite
  <2>3. CASE x.fd = NoFd
    BY <2>3 DEF SlotOK
  <2>4. QED BY <2>1, <2>2, <2>3
<1>2. Cardinality(Users(U, s)) = 0
  BY <1>1, UsersFinite
<1>3. QED BY <1>1, <1>2 DEF SlotOK

(* Open slots have different sockets.                                      *)
LEMMA SocketsApart ==
  ASSUME NEW w, NEW U, DOMAIN U \subseteq Port, SlotsOK(w, U), InterfacesApart(w), SocketsOK(w),
         NEW s \in FdSlot, NEW u \in FdSlot, w.g[s].fd = w.g[u].fd, w.g[s].fd # NoFd
  PROVE  s = u
<1>1. w.g[s].ifindex = w.g[u].ifindex
  BY DEF SocketsOK
<1>2. w.g[s].ifindex # NoIf
  BY EmptySlot DEF SlotsOK
<1>3. QED BY <1>1, <1>2 DEF InterfacesApart

(* The entry of an open socket is the one its operations find.             *)
LEMMA EntryFound ==
  ASSUME NEW w, NEW U, ListenOK(w, U), NEW i \in ListenerSlot, w.l[i].fd # NoFd
  PROVE  SlotOf(w.l, w.l[i].fd) = i
<1> DEFINE f == w.l[i].fd
           s == SlotOf(w.l, f)
<1>1. s # 0 /\ s \in ListenerSlot /\ w.l[s].fd = f
  BY SlotOfProperties
<1>2. QED BY <1>1 DEF ListenOK

(* Only slot s and its users change.                                       *)
OthersKept(w, U, w2, U2, s) ==
  /\ \A u \in FdSlot \ {s} : w2.g[u] = w.g[u]
  /\ \A u : u # s => Users(U2, u) = Users(U, u)
  /\ \A u : u # s => \A q \in Users(U2, u) : U2[q] = U[q]

LEMMA SlotsChanged ==
  ASSUME NEW w, NEW U, SlotsOK(w, U), NEW w2, NEW U2, NEW s \in FdSlot,
         OthersKept(w, U, w2, U2, s), SlotOK(w2.g[s], U2, Users(U2, s))
  PROVE  SlotsOK(w2, U2)
<1> SUFFICES ASSUME NEW u \in FdSlot, u # s
             PROVE  SlotOK(w2.g[u], U2, Users(U2, u))
  BY DEF SlotsOK
<1>1. w2.g[u] = w.g[u] /\ Users(U2, u) = Users(U, u) /\ SlotOK(w.g[u], U, Users(U, u))
  BY DEF SlotsOK, OthersKept
<1>2. \A q \in Users(U, u) : U2[q] = U[q]
  BY <1>1 DEF OthersKept
<1>3. {U2[q].name : q \in Users(U, u)} = {U[q].name : q \in Users(U, u)}
  BY <1>2
<1>4. QED BY <1>1, <1>2, <1>3 DEF SlotOK

(* What switch_get_fd_info and switch_get_index find: a slot of the        *)
(* interface with a free index, or one without users.                      *)
Claimable(w, s, ifindex, n) ==
  /\ n \in 1 .. MAX_NAME_INDEX
  /\ \/ w.g[s].ifindex = ifindex /\ n \notin w.g[s].index_map
     \/ /\ \A u \in FdSlot : w.g[u].ifindex # ifindex
        /\ w.g[s].ifindex = NoIf \/ w.g[s].refs <= 0

(* The slot after it was claimed for one more port.                        *)
Shared(w, U, s, p, n, c) ==
  /\ c.g[s].refs = Cardinality(Users(U, s)) + 1
  /\ c.g[s].index_map = {U[q].name : q \in Users(U, s)} \cup {n}
  /\ n \notin {U[q].name : q \in Users(U, s)}
  /\ \A q \in Users(U, s) : q.phy = p.phy
  /\ c.g[s].fd = NoFd <=> Users(U, s) = {}
  /\ c.g[s].fd # NoFd => w.g[s].ifindex = p.phy

LEMMA ClaimedSlot ==
  ASSUME NEW w, NEW U, DOMAIN U \subseteq Port, SlotsOK(w, U), InterfacesApart(w),
         NEW p \in Port, NEW s \in FdSlot, NEW n, Claimable(w, s, p.phy, n),
         NEW c, Claimed(w, s, p.phy, n, c)
  PROVE  /\ InterfacesApart(c)
         /\ Shared(w, U, s, p, n, c)
<1> DEFINE P == Users(U, s)
<1>1. /\ SlotOK(w.g[s], U, P) /\ n # 0
      /\ \A u \in FdSlot \ {s} : c.g[u] = w.g[u]
      /\ c.g[s].ifindex = p.phy /\ c.g[s].fd = w.g[s].fd
  BY DEF SlotsOK, Claimable, Claimed
<1>2. CASE w.g[s].ifindex = p.phy
  <2>1. n \notin w.g[s].index_map
    BY <1>2 DEF Claimable
  <2>2. /\ c.g[s].refs = w.g[s].refs + 1
        /\ c.g[s].index_map = w.g[s].index_map \cup {n}
    BY <1>1, <1>2 DEF Claimed
  <2>3. InterfacesApart(c)
    <3>1. \A u \in FdSlot : c.g[u].ifindex = w.g[u].ifindex
      BY <1>1, <1>2
    <3>2. QED BY <3>1 DEF InterfacesApart
  <2>4. QED BY <1>1, <1>2, <2>1, <2>2, <2>3 DEF SlotOK, Shared
<1>3. CASE w.g[s].ifindex # p.phy
  <2>1. /\ \A u \in FdSlot : w.g[u].ifindex # p.phy
        /\ w.g[s].ifindex = NoIf \/ w.g[s].refs <= 0
    BY <1>3 DEF Claimable
  <2>2. P = {} /\ w.g[s].fd = NoFd
    BY <1>1, <2>1, EmptySlot
  <2>3. c.g[s].refs = 1 /\ c.g[s].index_map = {n}
    BY <1>1, <1>3 DEF Claimed
  <2>4. Cardinality(P) = 0
    BY <2>2, FS_EmptySet
  <2>5. InterfacesApart(c)
    BY <1>1, <2>1 DEF InterfacesApart
  <2>6. QED BY <1>1, <2>2, <2>3, <2>4, <2>5 DEF Shared
<1>4. QED BY <1>2, <1>3

(* It serves the users there were and the new one ...                      *)
HoldsClaim(c, s, w2) ==
  /\ \A u \in FdSlot \ {s} : w2.g[u] = c.g[u]
  /\ w2.g[s].refs = c.g[s].refs /\ w2.g[s].index_map = c.g[s].index_map
  /\ w2.g[s].ifindex = c.g[s].ifindex /\ w2.g[s].fd # NoFd

LEMMA JoinedSlot ==
  ASSUME NEW w, NEW U, DOMAIN U \subseteq Port, SlotsOK(w, U), InterfacesApart(w),
         NEW p \in Port, p \notin DOMAIN U, NEW s \in FdSlot, NEW n, Claimable(w, s, p.phy, n),
         NEW c, Claimed(w, s, p.phy, n, c),
         NEW U2, Joins(U, p, s, n, U2), NEW w2, HoldsClaim(c, s, w2)
  PROVE  SlotsOK(w2, U2) /\ InterfacesApart(w2)
<1> DEFINE P == Users(U, s)
           Q == Users(U2, s)
<1>1. /\ InterfacesApart(c)
      /\ c.g[s].refs = Cardinality(P) + 1
      /\ c.g[s].index_map = {U[q].name : q \in P} \cup {n}
      /\ n \notin {U[q].name : q \in P}
      /\ \A q \in P : q.phy = p.phy
  <2>1. InterfacesApart(c) /\ Shared(w, U, s, p, n, c)
    BY ClaimedSlot
  <2>2. QED BY <2>1 DEF Shared
<1>2. /\ Q = P \cup {p} /\ p \notin P /\ U2[p].name = n
      /\ \A q \in P : U2[q] = U[q]
      /\ \A u : u # s => Users(U2, u) = Users(U, u)
      /\ \A u : \A q \in Users(U, u) : U2[q] = U[q]
  BY UsersJoined
<1>3. Cardinality(Q) = Cardinality(P) + 1
  BY <1>2, UsersFinite, FS_AddElement
<1>4. {U2[q].name : q \in Q} = {U[q].name : q \in P} \cup {n}
  BY <1>2
<1>5. \A q \in Q : q.phy = w2.g[s].ifindex
  BY <1>1, <1>2 DEF Claimed, HoldsClaim
<1>6. \A q, r \in P : U[q].name = U[r].name => q = r
  BY DEF SlotsOK, SlotOK
<1> HIDE DEF P, Q
<1>7. \A q, r \in Q : U2[q].name = U2[r].name => q = r
  BY <1>1, <1>2, <1>6
<1>8. SlotOK(w2.g[s], U2, Q)
  BY <1>1, <1>2, <1>3, <1>4, <1>5, <1>7 DEF SlotOK, HoldsClaim
<1>9. \A u \in FdSlot \ {s} : w2.g[u] = w.g[u]
  BY DEF Claimed, HoldsClaim
<1>10. SlotsOK(w2, U2)
  <2>1. SlotOK(w2.g[s], U2, Users(U2, s))
    BY <1>8 DEF Q
  <2>2. OthersKept(w, U, w2, U2, s)
    BY <1>2, <1>9 DEF OthersKept
  <2>3. QED BY <2>1, <2>2, SlotsChanged
<1>11. InterfacesApart(w2)
  <2>1. \A u \in FdSlot : w2.g[u].ifindex = c.g[u].ifindex
    BY DEF HoldsClaim
  <2>2. QED BY <1>1, <2>1 DEF InterfacesApart
<1>12. QED BY <1>10, <1>11

(* ... or, given back, the users there were.                               *)
ReturnsClaim(c, s, n, w2) ==
  /\ \A u \in FdSlot \ {s} : w2.g[u] = c.g[u]
  /\ w2.g[s].refs = c.g[s].refs - 1 /\ w2.g[s].index_map = c.g[s].index_map \ {n}
  /\ w2.g[s].ifindex = c.g[s].ifindex /\ w2.g[s].fd = c.g[s].fd

LEMMA ReturnedSlot ==
  ASSUME NEW w, NEW U, DOMAIN U \subseteq Port, SlotsOK(w, U), InterfacesApart(w),
         NEW p \in Port, NEW s \in FdSlot, NEW n, Claimable(w, s, p.phy, n),
         NEW c, Claimed(w, s, p.phy, n, c),
         NEW w2, ReturnsClaim(c, s, n, w2)
  PROVE  SlotsOK(w2, U) /\ InterfacesApart(w2)
<1> DEFINE P == Users(U, s)
<1>1. /\ InterfacesApart(c)
      /\ c.g[s].refs = Cardinality(P) + 1
      /\ c.g[s].index_map = {U[q].name : q \in P} \cup {n}
      /\ n \notin {U[q].name : q \in P}
      /\ \A q \in P : q.phy = p.phy
      /\ c.g[s].fd = NoFd <=> P = {}
  <2>1. InterfacesApart(c) /\ Shared(w, U, s, p, n, c)
    BY ClaimedSlot
  <2>2. QED BY <2>1 DEF Shared
<1>2. w2.g[s].refs = Cardinality(P)
  <2>1. Cardinality(P) \in Nat
    BY UsersFinite
  <2>2. QED BY <1>1, <2>1 DEF ReturnsClaim
<1>3. w2.g[s].index_map = {U[q].name : q \in P}
  BY <1>1 DEF ReturnsClaim
<1>4. SlotOK(w2.g[s], U, P)
  BY <1>1, <1>2, <1>3 DEF SlotOK, SlotsOK, Claimed, ReturnsClaim
<1>5. \A u \in FdSlot \ {s} : w2.g[u] = w.g[u]
  BY DEF Claimed, ReturnsClaim
<1>6. SlotsOK(w2, U)
  <2>1. OthersKept(w, U, w2, U, s)
    BY <1>5 DEF OthersKept
  <2>2. QED BY <1>4, <2>1, SlotsChanged
<1>7. InterfacesApart(w2)
  <2>1. \A u \in FdSlot : w2.g[u].ifindex = c.g[u].ifindex
    BY DEF ReturnsClaim
  <2>2. QED BY <1>1, <2>1 DEF InterfacesApart
<1>8. QED BY <1>6, <1>7
-----------------------------------------------------------------------------
(* The operations of the listener table change the entry they find.        *)
EntryChanged(l, m, i, fd, ifindex, ips) ==
  /\ \A j \in ListenerSlot \ {i} : m[j] = l[j]
  /\ m[i].fd = fd /\ m[i].ifindex = ifindex /\ m[i].host_ip = ips

LEMMA TableEffects ==
  ASSUME NEW l \in Table, NEW f, NEW i \in ListenerSlot, SlotOf(l, f) = i, NEW ip \in Ip
  PROVE  /\ EntryChanged(l, AddServerIp(l, f, ip), i, l[i].fd, l[i].ifindex,
                         l[i].host_ip \cup {ip})
         /\ EntryChanged(l, RemoveServerIp(l, f, ip), i, l[i].fd, l[i].ifindex,
                         l[i].host_ip \ {ip})
         /\ EntryChanged(l, RemoveServer(l, f), i, NoFd, l[i].ifindex, l[i].host_ip)
<1>1. l[i] \in Listen /\ i # 0
  BY Ranges DEF Table
<1>2. ASSUME NEW e \in Listen
      PROVE  EntryChanged(l, [l EXCEPT ![i] = e], i, e.fd, e.ifindex, e.host_ip)
  BY DEF EntryChanged, Table
<1>3. ASSUME NEW ips \in SUBSET Ip
      PROVE  /\ [l[i] EXCEPT !.host_ip = ips] \in Listen
             /\ [l[i] EXCEPT !.host_ip = ips].fd = l[i].fd
             /\ [l[i] EXCEPT !.host_ip = ips].ifindex = l[i].ifindex
             /\ [l[i] EXCEPT !.host_ip = ips].host_ip = ips
  BY <1>1 DEF Listen
<1>4. ASSUME NEW ips \in SUBSET Ip
      PROVE  EntryChanged(l, [l EXCEPT ![i].host_ip = ips], i, l[i].fd, l[i].ifindex, ips)
  <2> DEFINE e == [l[i] EXCEPT !.host_ip = ips]
  <2>1. [l EXCEPT ![i].host_ip = ips] = [l EXCEPT ![i] = e]
    OBVIOUS
  <2>2. e \in Listen /\ e.fd = l[i].fd /\ e.ifindex = l[i].ifindex /\ e.host_ip = ips
    BY <1>3
  <2> HIDE DEF e
  <2>3. EntryChanged(l, [l EXCEPT ![i] = e], i, e.fd, e.ifindex, e.host_ip)
    BY <2>2, <1>2
  <2>4. QED BY <2>1, <2>2, <2>3
<1>5. l[i].host_ip \cup {ip} \in SUBSET Ip /\ l[i].host_ip \ {ip} \in SUBSET Ip
  BY <1>1 DEF Listen
<1>6. EntryChanged(l, AddServerIp(l, f, ip), i, l[i].fd, l[i].ifindex, l[i].host_ip \cup {ip})
  BY <1>4, <1>5 DEF AddServerIp
<1>7. EntryChanged(l, RemoveServerIp(l, f, ip), i, l[i].fd, l[i].ifindex, l[i].host_ip \ {ip})
  BY <1>1, <1>4, <1>5 DEF RemoveServerIp
<1>8. EntryChanged(l, RemoveServer(l, f), i, NoFd, l[i].ifindex, l[i].host_ip)
  <2> DEFINE e == [l[i] EXCEPT !.fd = NoFd]
  <2>1. RemoveServer(l, f) = [l EXCEPT ![i] = e]
    BY <1>1 DEF RemoveServer
  <2>2. e \in Listen /\ e.fd = NoFd /\ e.ifindex = l[i].ifindex /\ e.host_ip = l[i].host_ip
    BY <1>1 DEF Listen
  <2> HIDE DEF e
  <2>3. EntryChanged(l, [l EXCEPT ![i] = e], i, e.fd, e.ifindex, e.host_ip)
    BY <2>2, <1>2
  <2>4. QED BY <2>1, <2>2, <2>3
<1>9. QED BY <1>6, <1>7, <1>8

LEMMA AddIpEffect ==
  ASSUME NEW l \in Table, NEW f, NEW i \in ListenerSlot, SlotOf(l, f) = i, NEW ip \in Ip,
         NEW m, m = AddServerIp(l, f, ip)
  PROVE  EntryChanged(l, m, i, l[i].fd, l[i].ifindex, l[i].host_ip \cup {ip})
BY TableEffects

LEMMA RemoveIpEffect ==
  ASSUME NEW l \in Table, NEW f, NEW i \in ListenerSlot, SlotOf(l, f) = i, NEW ip \in Ip,
         NEW m, m = RemoveServerIp(l, f, ip)
  PROVE  EntryChanged(l, m, i, l[i].fd, l[i].ifindex, l[i].host_ip \ {ip})
BY TableEffects

LEMMA RemoveServerEffect ==
  ASSUME NEW l \in Table, NEW f, NEW i \in ListenerSlot, SlotOf(l, f) = i,
         NEW m, m = RemoveServer(l, f), Ip # {}
  PROVE  EntryChanged(l, m, i, NoFd, l[i].ifindex, l[i].host_ip)
<1>1. PICK ip : ip \in Ip
  OBVIOUS
<1>2. QED BY <1>1, TableEffects

LEMMA AddServerEffect ==
  ASSUME NEW l \in Table, NEW f, NEW ifindex, HasRoom(l)
  PROVE  LET i == SlotOf(l, NoFd)
         IN  /\ i \in ListenerSlot /\ l[i].fd = NoFd
             /\ EntryChanged(l, AddServer(l, f, ifindex), i, f, ifindex, l[i].host_ip)
<1> DEFINE i == SlotOf(l, NoFd)
<1>1. i \in ListenerSlot /\ l[i].fd = NoFd
  BY SlotOfProperties DEF HasRoom
<1>2. l[i] \in Listen
  BY <1>1 DEF Table
<1>3. AddServer(l, f, ifindex) = [l EXCEPT ![i] = [@ EXCEPT !.fd = f, !.ifindex = ifindex]]
  BY DEF AddServer
<1> HIDE DEF i
<1>4. EntryChanged(l, AddServer(l, f, ifindex), i, f, ifindex, l[i].host_ip)
  BY <1>1, <1>2, <1>3 DEF EntryChanged, Table, Listen
<1>5. QED BY <1>1, <1>4 DEF i

(* A descriptor in one entry only is found there.                          *)
LEMMA OnlyEntryFound ==
  ASSUME NEW l, NEW f, NEW i \in ListenerSlot, l[i].fd = f,
         \A j \in ListenerSlot : l[j].fd = f => j = i
  PROVE  SlotOf(l, f) = i
<1>1. SlotOf(l, f) # 0
  BY SlotOfProperties
<1>2. QED BY <1>1, SlotOfProperties

(* Sockets and listener entries stay good when they do not change.         *)
LEMMA TablesKept ==
  ASSUME NEW w, NEW U, SocketsOK(w), ListenOK(w, U), NEW w2, w2.l = w.l, w2.k = w.k,
         \A u \in FdSlot : w2.g[u].fd = w.g[u].fd,
         \A u \in FdSlot : w.g[u].fd # NoFd => w2.g[u].ifindex = w.g[u].ifindex
  PROVE  SocketsOK(w2) /\ ListenOK(w2, U)
<1>1. SocketsOK(w2)
  BY DEF SocketsOK
<1>2. ListenOK(w2, U)
  BY DEF ListenOK, ListensFor
<1>3. QED BY <1>1, <1>2

(* A claim that is given back leaves everything as it was.                 *)
LEMMA ReturnedWorld ==
  ASSUME NEW w, NEW U, DOMAIN U \subseteq Port, WorldOK(w, U),
         NEW p \in Port, NEW s \in FdSlot, NEW n, Claimable(w, s, p.phy, n),
         NEW c, Claimed(w, s, p.phy, n, c), NEW w2, GivenBack(c, s, n, w2)
  PROVE  WorldOK(w2, U)
<1>1. SlotsOK(w, U) /\ InterfacesApart(w) /\ SocketsOK(w) /\ ListenOK(w, U)
  BY DEF WorldOK
<1>2. Shared(w, U, s, p, n, c)
  BY <1>1, ClaimedSlot
<1>3. Cardinality(Users(U, s)) \in Nat /\ (Users(U, s) = {} <=> Cardinality(Users(U, s)) = 0)
  BY UsersFinite
<1>4. /\ w2.g[s].fd = c.g[s].fd /\ w2.l = c.l /\ w2.k = c.k
  <2>1. CASE c.g[s].fd = NoFd
    BY <2>1 DEF GivenBack
  <2>2. CASE c.g[s].fd # NoFd
    <3>1. c.g[s].refs - 1 > 0
      BY <1>2, <1>3, <2>2 DEF Shared
    <3>2. QED BY <3>1 DEF GivenBack
  <2>3. QED BY <2>1, <2>2
<1>5. /\ \A u \in FdSlot \ {s} : w2.g[u] = c.g[u]
      /\ w2.g[s].refs = c.g[s].refs - 1 /\ w2.g[s].index_map = c.g[s].index_map \ {n}
      /\ w2.g[s].ifindex = c.g[s].ifindex
  BY DEF GivenBack
<1>6. SlotsOK(w2, U) /\ InterfacesApart(w2)
  <2>1. ReturnsClaim(c, s, n, w2)
    BY <1>4, <1>5 DEF ReturnsClaim
  <2>2. QED BY <1>1, <2>1, ReturnedSlot
<1>7. /\ c.l = w.l /\ c.k = w.k /\ c.g[s].fd = w.g[s].fd /\ c.g[s].ifindex = p.phy
      /\ \A u \in FdSlot \ {s} : c.g[u] = w.g[u]
  BY DEF Claimed
<1>8. \A u \in FdSlot : w2.g[u].fd = w.g[u].fd
  BY <1>4, <1>5, <1>7
<1>9. \A u \in FdSlot : w.g[u].fd # NoFd => w2.g[u].ifindex = w.g[u].ifindex
  BY <1>2, <1>5, <1>7 DEF Shared
<1>10. SocketsOK(w2) /\ ListenOK(w2, U)
  BY <1>1, <1>4, <1>7, <1>8, <1>9, TablesKept
<1>11. QED BY <1>6, <1>10 DEF WorldOK

(* A port joins the socket of its interface.                               *)
LEMMA JoinedWorld ==
  ASSUME NEW w \in Worlds, NEW U, DOMAIN U \subseteq Port, WorldOK(w, U),
         NEW p \in Port, p \notin DOMAIN U, NEW s \in FdSlot, NEW n, Claimable(w, s, p.phy, n),
         NEW c, Claimed(w, s, p.phy, n, c), c.g[s].fd # NoFd,
         NEW w2, w2.g = c.g, w2.k = c.k, w2.l = AddServerIp(c.l, c.g[s].fd, p.ip),
         NEW U2, Joins(U, p, s, n, U2)
  PROVE  WorldOK(w2, U2)
<1> DEFINE f == w.g[s].fd
<1>1. SlotsOK(w, U) /\ InterfacesApart(w) /\ SocketsOK(w) /\ ListenOK(w, U)
  BY DEF WorldOK
<1>2. /\ c.l = w.l /\ c.k = w.k /\ c.g[s].fd = f /\ c.g[s].ifindex = p.phy
      /\ \A u \in FdSlot \ {s} : c.g[u] = w.g[u]
  BY DEF Claimed
<1>3. Shared(w, U, s, p, n, c)
  BY <1>1, ClaimedSlot
<1>4. f # NoFd /\ w.g[s].ifindex = p.phy
  BY <1>2, <1>3 DEF Shared
<1>5. SlotsOK(w2, U2) /\ InterfacesApart(w2)
  <2>1. HoldsClaim(c, s, w2)
    BY DEF HoldsClaim
  <2>2. QED BY <1>1, <2>1, JoinedSlot
<1>6. \A u \in FdSlot : w2.g[u].fd = w.g[u].fd /\ w2.g[u].ifindex = w.g[u].ifindex
  BY <1>2, <1>4
<1>7. SocketsOK(w2)
  BY <1>1, <1>2, <1>6 DEF SocketsOK
<1>8. /\ Users(U2, s) = Users(U, s) \cup {p}
      /\ \A u : u # s => Users(U2, u) = Users(U, u)
  BY UsersJoined
<1>9. PICK i \in ListenerSlot : ListensFor(w, U, s, i)
  BY <1>1, <1>4 DEF ListenOK
<1>10. SlotOf(w.l, f) = i
  <2>1. w.l[i].fd = f /\ \A j \in ListenerSlot : w.l[j].fd = f => j = i
    BY <1>1, <1>4, <1>9 DEF ListenOK, ListensFor
  <2>2. QED BY <2>1, OnlyEntryFound
<1>11. EntryChanged(w.l, w2.l, i, w.l[i].fd, w.l[i].ifindex, w.l[i].host_ip \cup {p.ip})
  <2>1. w.l \in Table /\ p.ip \in Ip
    BY DEF Worlds, Ip
  <2>2. w2.l = AddServerIp(w.l, f, p.ip)
    BY <1>2
  <2> HIDE DEF f
  <2>3. QED BY <1>10, <2>1, <2>2, AddIpEffect
<1>12. ASSUME NEW u \in FdSlot, w2.g[u].fd # NoFd
       PROVE  \E j \in ListenerSlot : ListensFor(w2, U2, u, j)
  <2>1. CASE u = s
    <3>1. w2.l[i].host_ip = {q.ip : q \in Users(U2, s)}
      BY <1>8, <1>9, <1>11 DEF EntryChanged, ListensFor
    <3>2. ListensFor(w2, U2, s, i)
      BY <1>6, <1>9, <1>11, <3>1 DEF EntryChanged, ListensFor
    <3>3. QED BY <2>1, <3>2
  <2>2. CASE u # s
    <3>1. w.g[u].fd # NoFd
      BY <1>6, <1>12
    <3>2. PICK j \in ListenerSlot : ListensFor(w, U, u, j)
      BY <1>1, <3>1 DEF ListenOK
    <3>3. j # i
      <4>1. w.g[u].fd # w.g[s].fd
        BY <1>1, <2>2, <3>1, SocketsApart
      <4>2. QED BY <1>9, <3>2, <4>1 DEF ListensFor
    <3>4. ListensFor(w2, U2, u, j)
      BY <1>6, <1>8, <1>11, <2>2, <3>2, <3>3 DEF ListensFor, EntryChanged
    <3>5. QED BY <3>4
  <2>3. QED BY <2>1, <2>2
<1>13. \A j \in ListenerSlot : w2.l[j].fd = w.l[j].fd
  BY <1>11 DEF EntryChanged
<1>14. \A j \in ListenerSlot : w2.l[j].fd = NoFd => w2.l[j].host_ip = {}
  BY <1>1, <1>4, <1>9, <1>11 DEF EntryChanged, ListenOK, ListensFor
<1>15. ListenOK(w2, U2)
  BY <1>1, <1>2, <1>12, <1>13, <1>14, SMTT(30) DEF ListenOK
<1>16. QED BY <1>5, <1>7, <1>15 DEF WorldOK

(* A port gets a new socket: there is room for its address in the new      *)
(* entry.                                                                  *)
LEMMA OpenedWorld ==
  ASSUME NEW w \in Worlds, NEW U, DOMAIN U \subseteq Port, WorldOK(w, U),
         NEW p \in Port, p \notin DOMAIN U, NEW s \in FdSlot, NEW n, Claimable(w, s, p.phy, n),
         NEW c, Claimed(w, s, p.phy, n, c), c.g[s].fd = NoFd,
         NEW f \in Fd, w.k[f] = NoIf, HasRoom(w.l),
         NEW o \in Worlds, OpenedOn(c, s, f, o)
  PROVE  /\ CanAddIp(o.l, f, p.ip)
         /\ \A w2, U2 : /\ w2.g = o.g /\ w2.k = o.k /\ w2.l = AddServerIp(o.l, f, p.ip)
                        /\ Joins(U, p, s, n, U2)
                        => WorldOK(w2, U2)
<1> DEFINE i == SlotOf(w.l, NoFd)
<1>1. SlotsOK(w, U) /\ InterfacesApart(w) /\ SocketsOK(w) /\ ListenOK(w, U)
  BY DEF WorldOK
<1>2. /\ c.l = w.l /\ c.k = w.k /\ c.g[s].fd = w.g[s].fd /\ c.g[s].ifindex = p.phy
      /\ \A u \in FdSlot \ {s} : c.g[u] = w.g[u]
  BY DEF Claimed
<1>3. Shared(w, U, s, p, n, c)
  BY <1>1, ClaimedSlot
<1>4. Users(U, s) = {} /\ w.g[s].fd = NoFd /\ f # NoFd /\ p.phy \in IfSet /\ p.phy # NoIf
  BY <1>2, <1>3, Ranges DEF Shared, IfSet, Phy
<1>5. /\ \A u \in FdSlot \ {s} : o.g[u] = w.g[u]
      /\ o.g[s].fd = f /\ o.g[s].ifindex = p.phy
      /\ o.l = AddServer(w.l, f, p.phy) /\ o.k = [w.k EXCEPT ![f] = p.phy]
  BY <1>2 DEF OpenedOn
<1>6. w.l \in Table /\ w.k \in [Fd -> IfSet \cup {NoIf}] /\ p.ip \in Ip
  BY DEF Worlds, Ip
<1>7. /\ i \in ListenerSlot /\ w.l[i].fd = NoFd
      /\ EntryChanged(w.l, o.l, i, f, p.phy, w.l[i].host_ip)
  BY <1>5, <1>6, AddServerEffect
<1> HIDE DEF i
<1>8. w.l[i].host_ip = {}
  BY <1>1, <1>7 DEF ListenOK
<1>9. \A j \in ListenerSlot : w.l[j].fd # f
  BY <1>1, <1>4 DEF ListenOK
<1>10. SlotOf(o.l, f) = i
  <2>1. o.l[i].fd = f /\ \A j \in ListenerSlot : o.l[j].fd = f => j = i
    BY <1>7, <1>9 DEF EntryChanged
  <2>2. QED BY <1>7, <2>1, OnlyEntryFound
<1>11. CanAddIp(o.l, f, p.ip)
  <2>1. o.l[i].host_ip = {} /\ i # 0
    BY <1>7, <1>8, Ranges DEF EntryChanged
  <2>2. Cardinality(o.l[i].host_ip) < SNSD_MAX_IP_PHYPORT
    BY <2>1, FS_EmptySet, ListenerAssumption
  <2>3. QED BY <1>10, <2>1, <2>2 DEF CanAddIp
<1>12. ASSUME NEW w2, NEW U2, w2.g = o.g, w2.k = o.k, w2.l = AddServerIp(o.l, f, p.ip),
              Joins(U, p, s, n, U2)
       PROVE  WorldOK(w2, U2)
  <2>1. SlotsOK(w2, U2) /\ InterfacesApart(w2)
    <3>1. HoldsClaim(c, s, w2)
      BY <1>2, <1>4, <1>5, <1>12 DEF HoldsClaim, OpenedOn
    <3>2. QED BY <1>1, <1>12, <3>1, JoinedSlot
  <2>2. /\ Users(U2, s) = {p}
        /\ \A u : u # s => Users(U2, u) = Users(U, u)
    BY <1>4, <1>12, UsersJoined
  <2>3. EntryChanged(o.l, w2.l, i, f, p.phy, {p.ip})
    <3>1. o.l \in Table /\ o.l[i].host_ip = {} /\ o.l[i].fd = f /\ o.l[i].ifindex = p.phy
      BY <1>7, <1>8 DEF Worlds, EntryChanged
    <3>2. EntryChanged(o.l, w2.l, i, o.l[i].fd, o.l[i].ifindex, o.l[i].host_ip \cup {p.ip})
      BY <1>6, <1>7, <1>10, <1>12, <3>1, AddIpEffect
    <3>3. QED BY <3>1, <3>2 DEF EntryChanged
  <2>4. /\ \A j \in ListenerSlot \ {i} : w2.l[j] = w.l[j]
        /\ w2.l[i].fd = f /\ w2.l[i].ifindex = p.phy /\ w2.l[i].host_ip = {p.ip}
    BY <1>7, <2>3 DEF EntryChanged
  <2>5. /\ \A u \in FdSlot \ {s} : w2.g[u] = w.g[u]
        /\ w2.g[s].fd = f /\ w2.g[s].ifindex = p.phy
        /\ w2.k[f] = p.phy /\ \A h \in Fd \ {f} : w2.k[h] = w.k[h]
    BY <1>5, <1>6, <1>12
  <2>6. \A u \in FdSlot : w.g[u].fd # NoFd => w.g[u].fd # f /\ w.g[u].fd \in Fd
    <3>1. ASSUME NEW u \in FdSlot, w.g[u].fd # NoFd PROVE w.g[u].fd # f /\ w.g[u].fd \in Fd
      <4>1. w.k[w.g[u].fd] = w.g[u].ifindex
        BY <1>1, <3>1 DEF SocketsOK
      <4>2. w.g[u].ifindex # NoIf
        BY <1>1, <3>1, EmptySlot DEF SlotsOK
      <4>3. w.g[u].fd \in Fd \cup {NoFd}
        BY DEF Worlds, PortFd
      <4>4. QED BY <3>1, <4>1, <4>2, <4>3
    <3>2. QED BY <3>1
  <2>7. SocketsOK(w2)
    <3>1. \A u \in FdSlot : w2.g[u].fd # NoFd => w2.k[w2.g[u].fd] = w2.g[u].ifindex
      BY <1>1, <2>5, <2>6 DEF SocketsOK
    <3>2. ASSUME NEW h \in Fd, w2.k[h] # NoIf PROVE \E u \in FdSlot : w2.g[u].fd = h
      <4>1. CASE h = f
        BY <2>5, <4>1
      <4>2. CASE h # f
        <5>1. PICK u \in FdSlot : w.g[u].fd = h
          BY <1>1, <2>5, <3>2, <4>2 DEF SocketsOK
        <5>2. u # s
          BY <1>4, <5>1, Ranges
        <5>3. QED BY <2>5, <5>1, <5>2
      <4>3. QED BY <4>1, <4>2
    <3>3. QED BY <3>1, <3>2 DEF SocketsOK
  <2>8. ASSUME NEW u \in FdSlot, w2.g[u].fd # NoFd
        PROVE  \E j \in ListenerSlot : ListensFor(w2, U2, u, j)
    <3>1. CASE u = s
      <4>1. {q.ip : q \in Users(U2, s)} = {p.ip}
        BY <2>2
      <4>2. ListensFor(w2, U2, s, i)
        BY <2>4, <2>5, <4>1 DEF ListensFor
      <4>3. QED BY <1>7, <3>1, <4>2
    <3>2. CASE u # s
      <4>1. w.g[u].fd # NoFd
        BY <2>5, <2>8, <3>2
      <4>2. PICK j \in ListenerSlot : ListensFor(w, U, u, j)
        BY <1>1, <4>1 DEF ListenOK
      <4>3. j # i
        BY <1>7, <4>1, <4>2 DEF ListensFor
      <4>4. ListensFor(w2, U2, u, j)
        BY <2>2, <2>4, <2>5, <3>2, <4>2, <4>3 DEF ListensFor
      <4>5. QED BY <4>4
    <3>3. QED BY <3>1, <3>2
  <2>9. \A j, k \in ListenerSlot : w2.l[j].fd = w2.l[k].fd /\ w2.l[j].fd # NoFd => j = k
    BY <1>1, <1>9, <2>4 DEF ListenOK
  <2>10. \A j \in ListenerSlot : w2.l[j].fd = NoFd => w2.l[j].host_ip = {}
    BY <1>1, <1>4, <2>4 DEF ListenOK
  <2>11. ASSUME NEW j \in ListenerSlot, w2.l[j].fd # NoFd PROVE w2.k[w2.l[j].fd] # NoIf
    <3>1. CASE j = i
      BY <1>4, <2>4, <2>5, <3>1
    <3>2. CASE j # i
      <4>1. w2.l[j] = w.l[j] /\ w.l[j].fd \in Fd \ {f}
        BY <1>6, <1>9, <2>4, <2>11, <3>2 DEF Table, Listen
      <4>2. QED BY <1>1, <2>5, <2>11, <4>1 DEF ListenOK
    <3>3. QED BY <3>1, <3>2
  <2>12. ListenOK(w2, U2)
    BY <2>8, <2>9, <2>10, <2>11 DEF ListenOK
  <2>13. QED BY <2>1, <2>7, <2>12 DEF WorldOK
<1>13. QED BY <1>11, <1>12

(* The slot of a port that leaves serves the users that stay, and has its  *)
(* socket while there are any.                                             *)
GivesUp(w, s, n, w2) ==
  /\ \A u \in FdSlot \ {s} : w2.g[u] = w.g[u]
  /\ w2.g[s].refs = w.g[s].refs - 1 /\ w2.g[s].index_map = w.g[s].index_map \ {n}
  /\ w2.g[s].ifindex = w.g[s].ifindex
  /\ w2.g[s].fd = IF ~(w.g[s].refs - 1 > 0) THEN NoFd ELSE w.g[s].fd

LEMMA LeftSlot ==
  ASSUME NEW w, NEW U, DOMAIN U \subseteq Port, SlotsOK(w, U), InterfacesApart(w),
         NEW p \in DOMAIN U, NEW s \in FdSlot, s = U[p].slot,
         NEW U2, Leaves(U, p, U2), NEW w2, GivesUp(w, s, U[p].name, w2)
  PROVE  /\ SlotsOK(w2, U2) /\ InterfacesApart(w2)
         /\ w.g[s].fd # NoFd
         /\ (w.g[s].refs - 1 > 0) <=> Users(U2, s) # {}
<1> DEFINE P == Users(U, s)
           Q == Users(U2, s)
           n == U[p].name
<1>1. /\ Q = P \ {p} /\ p \in P
      /\ \A u : u # s => Users(U2, u) = Users(U, u)
      /\ \A u : \A q \in Users(U2, u) : U2[q] = U[q]
  BY UsersLeft
<1>2. SlotOK(w.g[s], U, P)
  BY DEF SlotsOK
<1>3. /\ IsFiniteSet(P) /\ Cardinality(P) \in Nat
      /\ Cardinality(Q) = Cardinality(P) - 1
  <2>1. IsFiniteSet(P) /\ Cardinality(P) \in Nat
    BY UsersFinite
  <2> HIDE DEF P, Q
  <2>2. Cardinality(P \ {p}) = Cardinality(P) - 1
    BY <1>1, <2>1, FS_RemoveElement
  <2>3. QED BY <1>1, <2>1, <2>2
<1>4. Cardinality(Q) \in Nat /\ (Q = {} <=> Cardinality(Q) = 0)
  <2>1. DOMAIN U2 \subseteq Port
    BY DEF Leaves
  <2>2. QED BY <2>1, UsersFinite
<1>5. w.g[s].refs = Cardinality(P) /\ w.g[s].fd # NoFd
  BY <1>1, <1>2 DEF SlotOK
<1>6. w.g[s].refs - 1 > 0 <=> Q # {}
  BY <1>3, <1>4, <1>5
<1>7. w2.g[s].refs = Cardinality(Q)
  BY <1>3, <1>5 DEF GivesUp
<1>8. w2.g[s].index_map = {U2[q].name : q \in Q}
  <2>1. w2.g[s].index_map = {U[q].name : q \in P} \ {n}
    BY <1>2 DEF SlotOK, GivesUp
  <2>2. \A q \in P : U[q].name = n => q = p
    BY <1>1, <1>2 DEF SlotOK
  <2>3. \A q \in Q : U2[q] = U[q]
    BY <1>1
  <2> HIDE DEF P, Q, n
  <2>4. {U2[q].name : q \in Q} = {U[q].name : q \in Q}
    BY <2>3
  <2>5. {U[q].name : q \in P} \ {n} = {U[q].name : q \in Q}
    BY <1>1, <2>2 DEF n
  <2>6. QED BY <2>1, <2>4, <2>5
<1>9. w2.g[s].fd # NoFd <=> Q # {}
  BY <1>5, <1>6 DEF GivesUp
<1>10. \A q \in Q : q.phy = w2.g[s].ifindex
  BY <1>1, <1>2 DEF SlotOK, GivesUp
<1>11. \A q, r \in Q : U2[q].name = U2[r].name => q = r
  <2>1. \A q \in Q : U2[q] = U[q] /\ q \in P
    BY <1>1
  <2>2. \A q, r \in P : U[q].name = U[r].name => q = r
    BY <1>2 DEF SlotOK
  <2> HIDE DEF P, Q
  <2>3. QED BY <2>1, <2>2
<1>12. SlotOK(w2.g[s], U2, Q)
  BY <1>7, <1>8, <1>9, <1>10, <1>11 DEF SlotOK
<1>13. SlotsOK(w2, U2)
  <2>1. OthersKept(w, U, w2, U2, s)
    BY <1>1 DEF OthersKept, GivesUp
  <2>2. QED BY <1>12, <2>1, SlotsChanged
<1>14. InterfacesApart(w2)
  <2>1. \A u \in FdSlot : w2.g[u].ifindex = w.g[u].ifindex
    BY DEF GivesUp
  <2>2. QED BY <2>1 DEF InterfacesApart
<1>15. QED BY <1>5, <1>6, <1>13, <1>14

(* The entry of a socket other than the one of slot s.                     *)
LEMMA OtherEntry ==
  ASSUME NEW w, NEW U, DOMAIN U \subseteq Port, WorldOK(w, U),
         NEW s \in FdSlot, NEW i \in ListenerSlot, ListensFor(w, U, s, i),
         NEW u \in FdSlot, u # s, w.g[u].fd # NoFd
  PROVE  w.g[u].fd # w.g[s].fd /\ \E j \in ListenerSlot \ {i} : ListensFor(w, U, u, j)
<1>1. SlotsOK(w, U) /\ InterfacesApart(w) /\ SocketsOK(w) /\ ListenOK(w, U)
  BY DEF WorldOK
<1>2. PICK j \in ListenerSlot : ListensFor(w, U, u, j)
  BY <1>1 DEF ListenOK
<1>3. w.g[u].fd # w.g[s].fd
  BY <1>1, SocketsApart
<1>4. j # i
  BY <1>2, <1>3 DEF ListensFor
<1>5. QED BY <1>2, <1>3, <1>4

(* A port leaves: its address leaves the entry of its socket, and the last *)
(* one closes it.                                                          *)
LEMMA LeftWorld ==
  ASSUME AddressesApart,
         NEW w \in Worlds, NEW U, DOMAIN U \subseteq Port, WorldOK(w, U),
         NEW p \in DOMAIN U, NEW s \in FdSlot, s = U[p].slot,
         NEW w1 \in Worlds, w1.g = w.g, w1.k = w.k,
         w1.l = RemoveServerIp(w.l, w.g[s].fd, p.ip),
         NEW w2, GivenBack(w1, s, U[p].name, w2),
         NEW U2, Leaves(U, p, U2)
  PROVE  WorldOK(w2, U2)
<1> DEFINE f == w.g[s].fd
           last == ~(w.g[s].refs - 1 > 0)
<1>1. SlotsOK(w, U) /\ InterfacesApart(w) /\ SocketsOK(w) /\ ListenOK(w, U)
  BY DEF WorldOK
<1>2. GivesUp(w, s, U[p].name, w2)
  BY DEF GivenBack, GivesUp
<1>3. /\ SlotsOK(w2, U2) /\ InterfacesApart(w2) /\ f # NoFd
      /\ ~last <=> Users(U2, s) # {}
  <2>1. /\ SlotsOK(w2, U2) /\ InterfacesApart(w2) /\ w.g[s].fd # NoFd
        /\ (w.g[s].refs - 1 > 0) <=> Users(U2, s) # {}
    BY <1>1, <1>2, LeftSlot
  <2>2. QED BY <2>1
<1>4. /\ last => w2.l = RemoveServer(w1.l, f) /\ w2.k = [w.k EXCEPT ![f] = NoIf]
      /\ ~last => w2.l = w1.l /\ w2.k = w.k
      /\ w2.g[s].fd = IF last THEN NoFd ELSE f
      /\ w2.g[s].ifindex = w.g[s].ifindex
      /\ \A u \in FdSlot \ {s} : w2.g[u] = w.g[u]
  <2>1. w1.g[s] = w.g[s]
    OBVIOUS
  <2>2. /\ w2.g[s].fd = IF last THEN NoFd ELSE f
        /\ w2.g[s].ifindex = w.g[s].ifindex
        /\ \A u \in FdSlot \ {s} : w2.g[u] = w.g[u]
    BY <2>1 DEF GivenBack
  <2>3. last => w2.l = RemoveServer(w1.l, f) /\ w2.k = [w.k EXCEPT ![f] = NoIf]
    BY <1>3, <2>1 DEF GivenBack
  <2>4. ~last => w2.l = w1.l /\ w2.k = w.k
    BY <2>1 DEF GivenBack
  <2>5. QED BY <2>2, <2>3, <2>4
<1> HIDE DEF f, last
<1>5. /\ Users(U2, s) = Users(U, s) \ {p} /\ p \in Users(U, s)
      /\ \A u : u # s => Users(U2, u) = Users(U, u)
  BY DEF Leaves, Users
<1>6. w.l \in Table /\ w1.l \in Table /\ p.ip \in Ip /\ w.k \in [Fd -> IfSet \cup {NoIf}]
  BY DEF Worlds, Ip
<1>7. PICK i \in ListenerSlot : ListensFor(w, U, s, i)
  BY <1>1, <1>3 DEF ListenOK, f
<1>8. SlotOf(w.l, f) = i /\ w.l[i].fd = f
  <2>1. w.l[i].fd = f /\ \A j \in ListenerSlot : w.l[j].fd = f => j = i
    BY <1>1, <1>3, <1>7 DEF ListenOK, ListensFor, f
  <2>2. QED BY <2>1, OnlyEntryFound
<1>9. EntryChanged(w.l, w1.l, i, w.l[i].fd, w.l[i].ifindex, w.l[i].host_ip \ {p.ip})
  BY <1>6, <1>8, RemoveIpEffect DEF f
<1>10. /\ \A j \in ListenerSlot \ {i} : w1.l[j] = w.l[j]
       /\ w1.l[i].fd = f /\ w1.l[i].ifindex = w.g[s].ifindex
       /\ w1.l[i].host_ip = {q.ip : q \in Users(U2, s)}
  <2>1. w.l[i].host_ip = {q.ip : q \in Users(U, s)} /\ w.l[i].ifindex = w.g[s].ifindex
    BY <1>7 DEF ListensFor
  <2>2. \A q \in Users(U, s) : q.ip = p.ip => q = p
    <3>1. \A q \in Users(U, s) : q \in Port /\ q.phy = w.g[s].ifindex
      BY <1>1, UsersFinite DEF SlotsOK, SlotOK
    <3>2. QED BY <1>5, <3>1 DEF AddressesApart
  <2>3. {q.ip : q \in Users(U, s)} \ {p.ip} = {q.ip : q \in Users(U2, s)}
    BY <1>5, <2>2
  <2>4. QED BY <1>8, <1>9, <2>1, <2>3 DEF EntryChanged
<1>11. \A u \in FdSlot \ {s} : w.g[u].fd # NoFd =>
          w.g[u].fd # f /\ \E j \in ListenerSlot \ {i} : ListensFor(w, U, u, j)
  BY <1>7, OtherEntry DEF f
<1>12. \A j \in ListenerSlot \ {i} : w.l[j].fd # f
  BY <1>1, <1>3, <1>8 DEF ListenOK
<1>13. CASE ~last
  <2>1. w2.l = w1.l /\ w2.k = w.k /\ w2.g[s].fd = f
    BY <1>4, <1>13
  <2>2. \A u \in FdSlot : w2.g[u].fd = w.g[u].fd /\ w2.g[u].ifindex = w.g[u].ifindex
    BY <1>4, <2>1 DEF f
  <2>3. SocketsOK(w2)
    BY <1>1, <2>1, <2>2 DEF SocketsOK
  <2>4. ASSUME NEW u \in FdSlot, w2.g[u].fd # NoFd
        PROVE  \E j \in ListenerSlot : ListensFor(w2, U2, u, j)
    <3>1. CASE u = s
      <4>1. ListensFor(w2, U2, s, i)
        BY <1>4, <1>10, <2>1 DEF ListensFor
      <4>2. QED BY <3>1, <4>1
    <3>2. CASE u # s
      <4>1. PICK j \in ListenerSlot \ {i} : ListensFor(w, U, u, j)
        BY <1>11, <2>2, <2>4, <3>2
      <4>2. ListensFor(w2, U2, u, j)
        BY <1>5, <1>10, <2>1, <2>2, <3>2, <4>1 DEF ListensFor
      <4>3. QED BY <4>2
    <3>3. QED BY <3>1, <3>2
  <2>5. \A j \in ListenerSlot : w2.l[j].fd = w.l[j].fd
    BY <1>8, <1>10, <2>1
  <2>6. \A j \in ListenerSlot : w2.l[j].fd = NoFd => w2.l[j].host_ip = {}
    <3>1. ASSUME NEW j \in ListenerSlot, w2.l[j].fd = NoFd
          PROVE  w2.l[j].host_ip = {}
      <4>1. j # i
        BY <1>3, <1>10, <2>1, <3>1
      <4>2. w2.l[j] = w.l[j]
        BY <1>10, <2>1, <4>1
      <4>3. \A u \in ListenerSlot : w.l[u].fd = NoFd => w.l[u].host_ip = {}
        BY <1>1 DEF ListenOK
      <4>4. QED BY <3>1, <4>2, <4>3
    <3>2. QED BY <3>1
  <2>7. ListenOK(w2, U2)
    BY <1>1, <2>1, <2>4, <2>5, <2>6, ZenonT(30) DEF ListenOK
  <2>8. QED BY <1>3, <2>3, <2>7 DEF WorldOK
<1>14. CASE last
  <2>1. /\ w2.l = RemoveServer(w1.l, f) /\ w2.k = [w.k EXCEPT ![f] = NoIf]
        /\ w2.g[s].fd = NoFd /\ Users(U2, s) = {}
    BY <1>3, <1>4, <1>14
  <2>2. SlotOf(w1.l, f) = i
    BY <1>10, <1>12, OnlyEntryFound, SMTT(30)
  <2>3. EntryChanged(w1.l, w2.l, i, NoFd, w1.l[i].ifindex, w1.l[i].host_ip)
    BY <1>6, <2>1, <2>2, RemoveServerEffect
  <2>4. /\ \A j \in ListenerSlot \ {i} : w2.l[j] = w.l[j]
        /\ w2.l[i].fd = NoFd /\ w2.l[i].host_ip = {}
    BY <1>10, <2>1, <2>3 DEF EntryChanged
  <2>5. \A h \in Fd : w2.k[h] = IF h = f THEN NoIf ELSE w.k[h]
    BY <1>6, <2>1
  <2>6. \A u \in FdSlot : w.g[u].fd \in Fd \cup {NoFd}
    BY DEF Worlds, PortFd
  <2>7. SocketsOK(w2)
    <3>1. ASSUME NEW u \in FdSlot, w2.g[u].fd # NoFd
          PROVE  w2.k[w2.g[u].fd] = w2.g[u].ifindex
      <4>1. u # s /\ w2.g[u] = w.g[u]
        BY <1>4, <2>1, <3>1
      <4>2. w.g[u].fd \in Fd /\ w.g[u].fd # f
        BY <1>11, <2>6, <3>1, <4>1
      <4>3. QED BY <1>1, <2>5, <3>1, <4>1, <4>2 DEF SocketsOK
    <3>2. ASSUME NEW h \in Fd, w2.k[h] # NoIf
          PROVE  \E u \in FdSlot : w2.g[u].fd = h
      <4>1. h # f /\ w.k[h] # NoIf
        BY <2>5, <3>2
      <4>2. PICK u \in FdSlot : w.g[u].fd = h
        BY <1>1, <4>1 DEF SocketsOK
      <4>3. u # s
        BY <4>1, <4>2 DEF f
      <4>4. QED BY <1>4, <4>2, <4>3
    <3>3. QED BY <3>1, <3>2 DEF SocketsOK
  <2>8. ASSUME NEW u \in FdSlot, w2.g[u].fd # NoFd
        PROVE  \E j \in ListenerSlot : ListensFor(w2, U2, u, j)
    <3>1. u # s /\ w2.g[u] = w.g[u]
      BY <1>4, <2>1, <2>8
    <3>2. PICK j \in ListenerSlot \ {i} : ListensFor(w, U, u, j)
      BY <1>11, <2>8, <3>1
    <3>3. ListensFor(w2, U2, u, j)
      BY <1>5, <2>4, <3>1, <3>2 DEF ListensFor
    <3>4. QED BY <3>3
  <2>9. \A j, k \in ListenerSlot : w2.l[j].fd = w2.l[k].fd /\ w2.l[j].fd # NoFd => j = k
    BY <1>1, <2>4 DEF ListenOK
  <2>10. \A j \in ListenerSlot : w2.l[j].fd = NoFd => w2.l[j].host_ip = {}
    BY <1>1, <2>4 DEF ListenOK
  <2>11. \A j \in ListenerSlot : w2.l[j].fd # NoFd => w2.k[w2.l[j].fd] # NoIf
    <3>1. ASSUME NEW j \in ListenerSlot, w2.l[j].fd # NoFd
          PROVE  w2.k[w2.l[j].fd] # NoIf
      <4>1. j # i /\ w2.l[j] = w.l[j]
        BY <2>4, <3>1
      <4>2. w.l[j].fd \in Fd /\ w.l[j].fd # f
        BY <1>6, <1>12, <3>1, <4>1 DEF Table, Listen
      <4>3. QED BY <1>1, <2>5, <3>1, <4>1, <4>2 DEF ListenOK
    <3>2. QED BY <3>1
  <2>12. ListenOK(w2, U2)
    BY <2>8, <2>9, <2>10, <2>11 DEF ListenOK
  <2>13. QED BY <1>3, <2>7, <2>12 DEF WorldOK
<1>15. QED BY <1>13, <1>14

(* Each result of switch_get_fd_data: the port joins, or nothing changes.  *)
Served(U, p, r) ==
  /\ r.ok \in BOOLEAN
  /\ ~r.ok => WorldOK(r.w, U)
  /\ r.ok => \A U2 : Joins(U, p, r.slot, r.index, U2) => WorldOK(r.w, U2)

LEMMA RefusedServes ==
  ASSUME NEW U, DOMAIN U \subseteq Port, NEW w \in Worlds, WorldOK(w, U),
         NEW p \in Port, NEW s \in FdSlot, NEW n, Claimable(w, s, p.phy, n),
         NEW c \in Worlds, Claimed(w, s, p.phy, n, c), NEW u, NEW r, r = Refused(c, s, n, u)
  PROVE  Served(U, p, r)
<1>1. r.w = Put(c, s, n) /\ r.ok = FALSE
  BY DEF Refused
<1>2. GivenBack(c, s, n, r.w)
  BY <1>1, PutEffect
<1>3. WorldOK(r.w, U)
  BY <1>2, ReturnedWorld
<1>4. QED BY <1>1, <1>3 DEF Served

LEMMA JoinedServes ==
  ASSUME NEW U, DOMAIN U \subseteq Port, NEW w \in Worlds, WorldOK(w, U),
         NEW p \in Port, p \notin DOMAIN U, NEW s \in FdSlot, NEW n, Claimable(w, s, p.phy, n),
         NEW c \in Worlds, Claimed(w, s, p.phy, n, c), c.g[s].fd # NoFd,
         CanAddIp(c.l, c.g[s].fd, p.ip), NEW r, r = Answered(c, s, n, p.ip)
  PROVE  Served(U, p, r)
<1>1. r.ok = TRUE /\ r.slot = s /\ r.index = n
  BY DEF Answered
<1>2. p.ip \in Ip
  BY DEF Ip
<1>3. r.w.g = c.g /\ r.w.k = c.k /\ r.w.l = AddServerIp(c.l, c.g[s].fd, p.ip)
  BY <1>2, AnsweredType
<1>4. ASSUME NEW U2, Joins(U, p, s, n, U2)
      PROVE  WorldOK(r.w, U2)
  BY <1>3, <1>4, JoinedWorld
<1>5. QED BY <1>1, <1>4 DEF Served

LEMMA OpenedServes ==
  ASSUME NEW U, DOMAIN U \subseteq Port, NEW w \in Worlds, WorldOK(w, U),
         NEW p \in Port, p \notin DOMAIN U, NEW s \in FdSlot, NEW n, Claimable(w, s, p.phy, n),
         NEW c \in Worlds, Claimed(w, s, p.phy, n, c), c.g[s].fd = NoFd,
         NEW f \in Fd, w.k[f] = NoIf, HasRoom(w.l),
         NEW o \in Worlds, OpenedOn(c, s, f, o),
         NEW r, CanAddIp(o.l, o.g[s].fd, p.ip) => r = Answered(o, s, n, p.ip)
  PROVE  Served(U, p, r)
<1>1. o.g[s].fd = f
  BY DEF OpenedOn
<1>2. /\ CanAddIp(o.l, f, p.ip)
      /\ \A w2, U2 : /\ w2.g = o.g /\ w2.k = o.k /\ w2.l = AddServerIp(o.l, f, p.ip)
                     /\ Joins(U, p, s, n, U2)
                     => WorldOK(w2, U2)
  BY OpenedWorld
<1>3. r = Answered(o, s, n, p.ip)
  BY <1>1, <1>2
<1>4. r.ok = TRUE /\ r.slot = s /\ r.index = n
  BY <1>3 DEF Answered
<1>5. p.ip \in Ip
  BY DEF Ip
<1>6. r.w.g = o.g /\ r.w.k = o.k /\ r.w.l = AddServerIp(o.l, f, p.ip)
  BY <1>1, <1>2, <1>3, <1>5, AnsweredType
<1>7. QED BY <1>2, <1>4, <1>6 DEF Served

LEMMA FdDataServes ==
  ASSUME EpollMayFail = FALSE, World \in Worlds,
         NEW U, DOMAIN U \subseteq Port, WorldOK(World, U),
         NEW p \in Port, p \notin DOMAIN U, NEW r \in FdData(p.phy, p.ip, TRUE)
  PROVE  Served(U, p, r)
<1> DEFINE s == SlotFor(p.phy)
           n == IndexFor(s, p.phy, TRUE)
           c == Claim(World, s, p.phy, n)
           Address(w) == IF CanAddIp(w.l, w.g[s].fd, p.ip) THEN Answered(w, s, n, p.ip)
                         ELSE Refused(w, s, n, FALSE)
<1>1. CASE r = [ok |-> FALSE, slot |-> 0, index |-> 0, w |-> World, upset |-> FALSE]
  <2>1. r.ok = FALSE /\ r.w = World
    BY <1>1
  <2>2. QED BY <2>1 DEF Served
<1>2. CASE /\ ~Exhausted(p.phy, TRUE)
           /\ \/ c.g[s].fd # NoFd /\ r = Address(c)
              \/ c.g[s].fd = NoFd /\ \E u \in BOOLEAN : r = Refused(c, s, n, u)
              \/ /\ c.g[s].fd = NoFd /\ HasRoom(listener)
                 /\ \E f \in Closed : r = Address(Opened(c, s, f))
              \/ /\ EpollMayFail /\ c.g[s].fd = NoFd /\ HasRoom(listener)
                 /\ \E f \in Closed :
                      r = Refused([c EXCEPT !.l = AddServer(@, f, p.phy)], s, n, TRUE)
  <2>1. s \in FdSlot /\ n \in 0 .. MAX_NAME_INDEX /\ n # 0
    BY <1>2, NotExhausted
  <2>2. Claimable(World, s, p.phy, n)
    <3>1. World.g = g_port_fd
      BY DEF World
    <3>2. \/ g_port_fd[s].ifindex = p.phy
          \/ /\ \A u \in FdSlot : g_port_fd[u].ifindex # p.phy
             /\ \/ g_port_fd[s].ifindex = NoIf
                \/ g_port_fd[s].refs <= 0 /\ g_port_fd[s].old_time < 0
      BY <2>1, SlotForProperties
    <3>3. g_port_fd[s].ifindex = p.phy => n \notin g_port_fd[s].index_map
      BY <2>1, IndexForProperties
    <3> HIDE DEF s, n
    <3>4. n \in 1 .. MAX_NAME_INDEX
      BY <2>1, Ranges
    <3>5. QED BY <3>1, <3>2, <3>3, <3>4 DEF Claimable
  <2> HIDE DEF s, n
  <2>3. p.phy \in IfSet
    BY DEF IfSet, Phy
  <2>4. c \in Worlds /\ Claimed(World, s, p.phy, n, c)
    BY <2>1, <2>3, ClaimEffect, Zenon
  <2> HIDE DEF c
  <2>5. ASSUME NEW u, r = Refused(c, s, n, u)
        PROVE  Served(U, p, r)
    BY <2>1, <2>2, <2>4, <2>5, RefusedServes
  <2>6. CASE c.g[s].fd # NoFd /\ r = Address(c)
    <3>1. CASE CanAddIp(c.l, c.g[s].fd, p.ip)
      BY <2>1, <2>2, <2>4, <2>6, <3>1, JoinedServes
    <3>2. CASE ~CanAddIp(c.l, c.g[s].fd, p.ip)
      BY <2>5, <2>6, <3>2
    <3>3. QED BY <3>1, <3>2
  <2>7. ASSUME c.g[s].fd = NoFd, HasRoom(listener), NEW f \in Closed,
               r = Address(Opened(c, s, f))
        PROVE  Served(U, p, r)
    <3> DEFINE o == Opened(c, s, f)
    <3>1. c.g[s].ifindex = p.phy /\ c.l = listener /\ World.l = listener /\ World.k = sock
      BY <2>4 DEF Claimed, World
    <3>2. f \in Fd /\ World.k[f] = NoIf
      BY <3>1 DEF Closed
    <3>3. o \in Worlds /\ OpenedOn(c, s, f, o)
      BY <2>1, <2>3, <2>4, <2>7, <3>1, <3>2, OpenedEffect
    <3> HIDE DEF o
    <3>4. r = Address(o)
      BY <2>7 DEF o
    <3>5. CanAddIp(o.l, o.g[s].fd, p.ip) => r = Answered(o, s, n, p.ip)
      BY <3>4
    <3> HIDE DEF Address
    <3>6. QED BY <2>1, <2>2, <2>4, <2>7, <3>1, <3>2, <3>3, <3>5, OpenedServes
  <2>8. QED BY <1>2, <2>5, <2>6, <2>7
<1>3. Ended(p.phy, p.ip, TRUE, r)
  BY FdDataCases
<1>4. QED BY <1>1, <1>2, <1>3, Zenon DEF Ended
-----------------------------------------------------------------------------
(* Without bonding: tables and ports agree in every state, and the thread  *)
(* never works on slaves.                                                  *)
NoSlaves ==
  /\ at.step \in {"idle", "port", "disconnect"}
  /\ \A p \in Port : port[p].bonding_change = FALSE

ServeInv == SwitchType /\ NoSlaves /\ WorldOK(World, Uses)

(* An entry that still holds the same socket.                              *)
Keeps(e2, e) ==
  /\ e2.valid = e.valid /\ e2.index = e.index /\ e2.name_index = e.name_index
  /\ e2.bonding_change = e.bonding_change

LEMMA UsesType ==
  ASSUME SwitchType
  PROVE  DOMAIN Uses = Valid /\ Valid \subseteq Port /\ Listed \subseteq Port
BY ToSetInT DEF Uses, Valid, Listed, SwitchType

LEMMA UsesKept ==
  ASSUME Listed \subseteq Listed', \A p \in Listed : Keeps(port'[p], port[p]),
         \A p \in Listed' \ Listed : port'[p].valid = FALSE
  PROVE  Uses' = Uses
<1>1. Valid' = Valid
  BY DEF Valid, Keeps
<1>2. \A p \in Valid : port'[p].index = port[p].index /\ port'[p].name_index = port[p].name_index
  BY DEF Valid, Keeps
<1>3. QED BY <1>1, <1>2 DEF Uses

(* A step that keeps the tables and what the ports hold.                   *)
LEMMA QuietStep ==
  ASSUME ServeInv, SwitchType', UNCHANGED <<fds, list>>,
         \A p \in Port : Keeps(port'[p], port[p]),
         at'.step \in {"idle", "port", "disconnect"}
  PROVE  ServeInv' /\ Uses' = Uses
<1>1. World' = World /\ Listed' = Listed
  BY FdsKept DEF Listed
<1>2. Uses' = Uses
  BY <1>1, UsesKept, UsesType DEF ServeInv
<1>3. NoSlaves'
  BY DEF NoSlaves, ServeInv, Keeps
<1>4. QED BY <1>1, <1>2, <1>3 DEF ServeInv

LEMMA SetKeeps ==
  ASSUME SwitchType, at.step \notin {"idle", "crashed"}, NEW e, Set(e), Keeps(e, Mine)
  PROVE  \A p \in Port : Keeps(port'[p], port[p])
<1>1. Cur \in Port /\ port \in [Port -> Entry]
  BY CurType DEF SwitchType
<1>2. \A p \in Port : port'[p] = IF p = Cur THEN e ELSE port[p]
  BY <1>1 DEF Set
<1>3. QED BY <1>2 DEF Keeps, Mine

LEMMA LldpSendKeeps ==
  ASSUME NEW e \in Entry, LldpSend(e)
  PROVE  \E x : Set(x) /\ Keeps(x, e)
<1> DEFINE x == [e EXCEPT !.expires = LLDP_INTERVAL_CLOCK]
<1>1. Set(x) \/ Set(e)
  BY DEF LldpSend
<1>2. Keeps(x, e) /\ Keeps(e, e)
  BY DEF Keeps, Entry
<1>3. QED BY <1>1, <1>2

LEMMA AnnounceKeeps ==
  ASSUME NEW e \in Entry, Announce(e)
  PROVE  \E x : Set(x) /\ Keeps(x, e)
<1> DEFINE x == [e EXCEPT !.expires = Age]
<1>1. Set(x) \/ LldpSend(e)
  BY DEF Announce
<1>2. Keeps(x, e)
  BY DEF Keeps, Entry
<1>3. QED BY <1>1, <1>2, LldpSendKeeps

LEMMA NextPortStep ==
  ASSUME SwitchType, NEW i, NEW n, NextPort(i, n)
  PROVE  at'.step \in {"idle", "port"}
BY DEF NextPort, Idle, SwitchType, AtOK

LEMMA GoToStep ==
  ASSUME SwitchType, NEW step, NEW j, GoTo(step, j)
  PROVE  at'.step = step
BY DEF GoTo, SwitchType, AtOK

LEMMA PortSkipServes ==
  ASSUME ServeInv, SwitchType', port_skip
  PROVE  ServeInv' /\ Uses' = Uses
<1>1. UNCHANGED <<fds, list>> /\ UNCHANGED port /\ GoTo("disconnect", 0)
  BY DEF port_skip
<1>2. at'.step = "disconnect"
  BY <1>1, GoToStep DEF ServeInv
<1>3. \A p \in Port : Keeps(port'[p], port[p])
  BY <1>1 DEF Keeps
<1>4. QED BY <1>1, <1>2, <1>3, QuietStep

LEMMA PortValidServes ==
  ASSUME ServeInv, SwitchType', port_valid
  PROVE  ServeInv' /\ Uses' = Uses
<1>1. /\ UNCHANGED <<fds, list>> /\ GoTo("disconnect", 0) /\ at.step = "port"
      /\ Announce(Mine)
  BY DEF port_valid
<1>2. SwitchType /\ at'.step = "disconnect"
  BY <1>1, GoToStep DEF ServeInv
<1>3. Mine \in Entry
  BY <1>1, <1>2, CurType
<1>4. PICK x : Set(x) /\ Keeps(x, Mine)
  BY <1>1, <1>3, AnnounceKeeps
<1>5. \A p \in Port : Keeps(port'[p], port[p])
  BY <1>1, <1>2, <1>4, SetKeeps
<1>6. QED BY <1>1, <1>2, <1>5, QuietStep

LEMMA HandleDisconnectServes ==
  ASSUME ServeInv, SwitchType', switch_port_handle_disconnect
  PROVE  ServeInv' /\ Uses' = Uses
<1> DEFINE off == [Mine EXCEPT !.disconnect = FALSE]
           on == [Mine EXCEPT !.disconnect = TRUE]
<1>1. /\ at.step = "disconnect" /\ NextPort(at.i + 1, Len(list))
      /\ UNCHANGED <<fds, list>>
      /\ Set(off) \/ Set(on) \/ UNCHANGED port
  BY DEF switch_port_handle_disconnect
<1>2. SwitchType /\ at'.step \in {"idle", "port"}
  BY <1>1, NextPortStep DEF ServeInv
<1>3. Mine \in Entry
  BY <1>1, <1>2, CurType
<1>4. Keeps(off, Mine) /\ Keeps(on, Mine)
  BY <1>3 DEF Keeps, Entry
<1>5. \A p \in Port : Keeps(port'[p], port[p])
  <2> HIDE DEF off, on
  <2>1. CASE UNCHANGED port
    BY <2>1 DEF Keeps
  <2>2. CASE Set(off) \/ Set(on)
    BY <1>1, <1>2, <1>4, <2>2, SetKeeps
  <2>3. QED BY <1>1, <2>1, <2>2
<1>6. QED BY <1>1, <1>2, <1>5, QuietStep

LEMMA ChangeServes ==
  ASSUME ServeInv, SwitchType', NEW p, NEW n, Change(p, n)
  PROVE  ServeInv' /\ Uses' = Uses
<1>1. UNCHANGED <<fds, list>> /\ UNCHANGED port /\ UNCHANGED at
  BY DEF Change
<1>2. at'.step \in {"idle", "port", "disconnect"}
  BY <1>1 DEF ServeInv, NoSlaves
<1>3. \A q \in Port : Keeps(port'[q], port[q])
  BY <1>1 DEF Keeps
<1>4. QED BY <1>1, <1>2, <1>3, QuietStep

(* Time: only the ages of the slots change.                                *)
LEMMA TickServes ==
  ASSUME ServeInv, SwitchType', Tick
  PROVE  ServeInv' /\ Uses' = Uses
<1>1. /\ g_port_fd' = [s \in FdSlot |-> [g_port_fd[s] EXCEPT !.old_time = Down(@, -1)]]
      /\ port' = [p \in Port |-> [port[p] EXCEPT !.expires = Down(@, 0)]]
      /\ UNCHANGED <<list, listener, sock, at>>
  BY DEF Tick
<1>2. SwitchType /\ World \in Worlds /\ port \in [Port -> Entry]
  BY DEF ServeInv, SwitchType
<1>3. \A p \in Port : Keeps(port'[p], port[p])
  BY <1>1, <1>2 DEF Keeps, Entry
<1>4. Uses' = Uses
  <2>1. Listed' = Listed
    BY <1>1 DEF Listed
  <2>2. QED BY <1>2, <1>3, <2>1, UsesKept, UsesType
<1>5. NoSlaves'
  BY <1>1, <1>3 DEF NoSlaves, ServeInv, Keeps
<1> DEFINE w == World
           v == World'
<1>6. /\ v.l = w.l /\ v.k = w.k
      /\ \A s \in FdSlot : /\ v.g[s].fd = w.g[s].fd /\ v.g[s].ifindex = w.g[s].ifindex
                           /\ v.g[s].refs = w.g[s].refs /\ v.g[s].index_map = w.g[s].index_map
  <2>1. g_port_fd \in [FdSlot -> PortFd]
    BY <1>2 DEF World, Worlds
  <2>2. ASSUME NEW s \in FdSlot
        PROVE  /\ g_port_fd'[s].fd = g_port_fd[s].fd
               /\ g_port_fd'[s].ifindex = g_port_fd[s].ifindex
               /\ g_port_fd'[s].refs = g_port_fd[s].refs
               /\ g_port_fd'[s].index_map = g_port_fd[s].index_map
    <3>1. g_port_fd[s] \in PortFd
      BY <2>1
    <3>2. g_port_fd'[s] = [g_port_fd[s] EXCEPT !.old_time = Down(@, -1)]
      BY <1>1
    <3>3. QED BY <3>1, <3>2 DEF PortFd
  <2>3. /\ v.g = g_port_fd' /\ v.l = listener' /\ v.k = sock'
        /\ w.g = g_port_fd /\ w.l = listener /\ w.k = sock
    BY DEF World
  <2> HIDE DEF v, w
  <2>4. QED BY <1>1, <2>2, <2>3
<1>7. SlotsOK(w, Uses) /\ InterfacesApart(w) /\ SocketsOK(w) /\ ListenOK(w, Uses)
  BY DEF ServeInv, WorldOK
<1> HIDE DEF v, w
<1>8. SlotsOK(v, Uses)
  BY <1>6, <1>7 DEF SlotsOK, SlotOK
<1>9. InterfacesApart(v)
  BY <1>6, <1>7 DEF InterfacesApart
<1>10. SocketsOK(v) /\ ListenOK(v, Uses)
  BY <1>6, <1>7, TablesKept
<1>11. WorldOK(v, Uses)
  BY <1>8, <1>9, <1>10 DEF WorldOK
<1>12. WorldOK(World', Uses')
  BY <1>4, <1>11 DEF v
<1>13. QED BY <1>4, <1>5, <1>12 DEF ServeInv

(* Reading the interfaces: a port that is read again keeps its socket, one *)
(* that is found has none.                                                 *)
LEMMA SeenKeeps ==
  ASSUME ServeInv, Bond = {}, NEW p \in Port
  PROVE  /\ p \in Listed => Keeps(Seen(p), port[p]) /\ Keeps(Read(p, Seen(p)), port[p])
         /\ p \notin Listed => Seen(p).valid = FALSE /\ Read(p, Seen(p)).valid = FALSE
         /\ Seen(p).bonding_change = FALSE /\ Read(p, Seen(p)).bonding_change = FALSE
         /\ Seen(p) \in Entry /\ Read(p, Seen(p)) \in Entry
         /\ \A x \in PartlyRead(p) : /\ p \in Listed => Keeps(x, port[p])
                                     /\ p \notin Listed => x.valid = FALSE
                                     /\ x.bonding_change = FALSE
<1> DEFINE e == Seen(p)
           r == Read(p, e)
<1>1. SwitchType /\ port[p] \in Entry /\ port[p].bonding_change = FALSE
  BY DEF ServeInv, NoSlaves, SwitchType
<1>2. e \in Entry
  BY <1>1, SeenType
<1>3. /\ p \in Listed => Keeps(e, port[p])
      /\ p \notin Listed => e.valid = FALSE /\ e.bonding_change = FALSE
  BY <1>1 DEF Seen, Keeps, Entry, NewEntry
<1>4. e.bonding_change = FALSE
  BY <1>1, <1>3 DEF Keeps
<1> HIDE DEF e
<1>5. r \in Entry /\ r.valid = e.valid /\ r.index = e.index /\ r.name_index = e.name_index
  BY <1>1, <1>2, ReadType
<1>6. r.bonding_change = e.bonding_change
  <2> DEFINE n == net[p]
             change == e.vlan # 0 /\ e.vlan # n.vlan
             f == [e EXCEPT !.fresh = TRUE, !.up = n.up, !.vlan = n.vlan, !.vlan_change = change]
  <2>1. r = f
    BY DEF Read
  <2> HIDE DEF change
  <2>2. QED BY <1>2, <2>1 DEF Entry
<1> HIDE DEF r
<1>7. p \in Listed => Keeps(r, port[p])
  BY <1>3, <1>5, <1>6 DEF Keeps
<1>8. p \notin Listed => r.valid = FALSE
  BY <1>3, <1>5
<1>9. \A x \in PartlyRead(p) :
        /\ x.valid = e.valid /\ x.index = e.index /\ x.name_index = e.name_index
        /\ x.bonding_change = e.bonding_change
  BY <1>1, PartlyReadType DEF e
<1>10. \A x \in PartlyRead(p) : /\ p \in Listed => Keeps(x, port[p])
                                /\ p \notin Listed => x.valid = FALSE
                                /\ x.bonding_change = FALSE
  BY <1>3, <1>4, <1>9 DEF Keeps
<1>11. QED BY <1>2, <1>3, <1>4, <1>5, <1>6, <1>7, <1>8, <1>10 DEF e, r

(* The entries of the listed ports after the interfaces were read.         *)
Reread ==
  /\ Listed \subseteq Listed'
  /\ \A p \in Listed' : /\ p \in Port
                         /\ \/ port'[p] = Read(p, Seen(p))
                            \/ port'[p] \in PartlyRead(p)
                            \/ p \in Listed /\ port'[p] = port[p]

LEMMA CfgNetInfoServes ==
  ASSUME ServeInv, SwitchType', Bond = {}, snsd_cfg_net_info
  PROVE  ServeInv' /\ Uses' = Uses /\ Reread
<1> DEFINE here  == {p \in Port : net[p].here}
           entry == [p \in Port |-> IF p \in here THEN Read(p, Seen(p)) ELSE Seen(p)]
           drop  == {p \in here : entry[p].new /\ Fails(p, entry[p])}
           now   == list \o SetToSeq((here \ Listed) \ drop)
           first == [step |-> "port", i |-> 1, j |-> 0, check |-> since >= SWITCH_POLL_INTEVAL]
<1>1. /\ port' = [p \in Port |->
                    CASE p \in drop \/ p \notin here \cup Listed -> NewEntry
                      [] p \in here \ drop /\ Fails(p, entry[p]) -> [entry[p] EXCEPT !.fresh = FALSE]
                      [] OTHER -> entry[p]]
      /\ list' = now
      /\ at' = IF now = <<>> THEN Idle ELSE first
      /\ UNCHANGED <<net, fds, neighbor, told, upsets>>
  BY DEF snsd_cfg_net_info
<1>2. at'.step \in {"idle", "port"}
  <2>1. first.step = "port" /\ Idle.step = "idle"
    BY DEF Idle
  <2> HIDE DEF first, now
  <2>2. QED BY <1>1, <2>1
<1>3. \A p \in Port : ~Fails(p, entry[p])
  BY DEF Fails
<1>4. drop = {}
  BY <1>3
<1>5. \A p \in Port : entry[p] = Seen(p) \/ entry[p] = Read(p, Seen(p))
  OBVIOUS
<1>6. Listed' = ToSet(list \o SetToSeq(here \ Listed))
  <2>1. now = list \o SetToSeq(here \ Listed)
    BY <1>4
  <2> HIDE DEF now
  <2>2. QED BY <1>1, <2>1 DEF Listed
<1>7. Listed \subseteq Listed' /\ Listed' \subseteq Listed \cup here /\ SwitchType
  <2>1. SwitchType
    BY DEF ServeInv
  <2>2. QED BY <1>6, <2>1, ListGrows
<1> HIDE DEF entry, drop, here, now
<1>8. ASSUME NEW p \in Port
      PROVE  port'[p] = IF p \notin here \cup Listed THEN NewEntry ELSE entry[p]
  BY <1>1, <1>3, <1>4
<1>9. ASSUME NEW p \in Listed
      PROVE  Keeps(port'[p], port[p])
  <2>1. p \in Port
    BY <1>7, UsesType
  <2>2. port'[p] = entry[p]
    BY <1>8, <2>1
  <2>3. Keeps(Seen(p), port[p]) /\ Keeps(Read(p, Seen(p)), port[p])
    BY <2>1, SeenKeeps
  <2>4. QED BY <1>5, <2>1, <2>2, <2>3
<1>10. Listed' \subseteq Port
  <2>1. list' \in Seq(Port)
    BY DEF SwitchType
  <2>2. QED BY <2>1, ToSetInT DEF Listed
<1>11. ASSUME NEW p \in Listed' \ Listed
       PROVE  port'[p].valid = FALSE
  <2>1. p \in Port /\ p \in here /\ p \notin Listed
    BY <1>7, <1>10
  <2>2. port'[p] = entry[p]
    BY <1>8, <2>1
  <2>3. Seen(p).valid = FALSE /\ Read(p, Seen(p)).valid = FALSE
    BY <2>1, SeenKeeps
  <2>4. QED BY <1>5, <2>1, <2>2, <2>3
<1>12. Reread
  <2>1. \A p \in here : p \in Port => entry[p] = Read(p, Seen(p))
    BY DEF entry
  <2>2. \A p \in Port : Seen(p) \in PartlyRead(p)
    BY DEF PartlyRead
  <2>3. QED BY <1>5, <1>7, <1>8, <1>10, <2>1, <2>2 DEF Reread
<1>13. Uses' = Uses
  BY <1>7, <1>9, <1>11, UsesKept
<1>14. NoSlaves'
  <2>1. NewEntry.bonding_change = FALSE
    BY DEF NewEntry
  <2>2. \A p \in Port : port'[p].bonding_change = FALSE
    BY <1>5, <1>8, <2>1, SeenKeeps
  <2>3. QED BY <1>2, <2>2 DEF NoSlaves
<1>15. World' = World
  BY <1>1, FdsKept
<1>16. QED BY <1>12, <1>13, <1>14, <1>15 DEF ServeInv

LEMMA CfgNetInfoFailsServes ==
  ASSUME ServeInv, SwitchType', Bond = {}, cfg_net_info_fails
  PROVE  ServeInv' /\ Uses' = Uses /\ Reread
<1>1. SwitchType
  BY DEF ServeInv
<1>2. /\ UNCHANGED <<net, fds, at, neighbor, told>>
      /\ Listed \subseteq Listed' /\ Listed' \subseteq Port
      /\ \A p \in Port : \/ port'[p] = Read(p, Seen(p))
                         \/ port'[p] \in PartlyRead(p)
                         \/ port'[p] = port[p] /\ (p \in Listed' => p \in Listed)
  BY <1>1, CfgNetInfoFailsCases
<1>3. Reread
  BY <1>2 DEF Reread
<1>4. \A p \in Listed : Keeps(port'[p], port[p])
  <2>1. \A p \in Listed : p \in Port
    BY <1>1, UsesType
  <2>2. \A p : Keeps(port[p], port[p])
    BY DEF Keeps
  <2>3. QED BY <1>2, <2>1, <2>2, SeenKeeps
<1>5. \A p \in Listed' \ Listed : port'[p].valid = FALSE
  BY <1>2, SeenKeeps
<1>6. Uses' = Uses
  BY <1>2, <1>4, <1>5, UsesKept
<1>7. NoSlaves'
  <2>1. \A p \in Port : port'[p].bonding_change = FALSE
    BY <1>2, SeenKeeps DEF ServeInv, NoSlaves
  <2>2. QED BY <1>2, <2>1 DEF NoSlaves, ServeInv
<1>8. World' = World
  BY <1>2, FdsKept
<1>9. QED BY <1>3, <1>6, <1>7, <1>8 DEF ServeInv

(* A port that is given a socket joins the users, one that is deleted      *)
(* leaves them.                                                            *)
LEMMA JoinedUses ==
  ASSUME SwitchType, at.step \notin {"idle", "crashed"}, Cur \notin Valid, UNCHANGED list,
         NEW x, Set(x), x.valid = TRUE
  PROVE  Joins(Uses, Cur, x.index, x.name_index, Uses')
<1>1. Cur \in Port /\ Cur \in Listed /\ Listed \subseteq Port /\ DOMAIN Uses = Valid
  BY CurType, UsesType
<1>2. \A p \in Port : port'[p] = IF p = Cur THEN x ELSE port[p]
  BY <1>1 DEF Set, SwitchType
<1>3. Valid' = Valid \cup {Cur}
  <2>1. Valid' = {p \in Listed : port'[p].valid}
    BY DEF Valid, Listed
  <2>2. QED BY <1>1, <1>2, <2>1 DEF Valid
<1>4. Uses' = [p \in Valid \cup {Cur} |->
                 [slot |-> port'[p].index, name |-> port'[p].name_index]]
  BY <1>3 DEF Uses
<1>5. Uses'[Cur].slot = x.index /\ Uses'[Cur].name = x.name_index
  BY <1>1, <1>2, <1>4
<1>6. ASSUME NEW q \in Valid PROVE Uses'[q] = Uses[q]
  <2>1. q # Cur /\ q \in Port
    BY <1>1 DEF Valid
  <2>2. port'[q] = port[q]
    BY <1>2, <2>1
  <2>3. QED BY <1>4, <2>2 DEF Uses
<1>7. QED BY <1>1, <1>4, <1>5, <1>6 DEF Joins

LEMMA DeletedUses ==
  ASSUME SwitchType, at.step \notin {"idle", "crashed"}, NEW w \in Worlds, Delete(w)
  PROVE  /\ World' = w /\ Leaves(Uses, Cur, Uses')
         /\ Listed' = Listed \ {Cur}
         /\ \A p \in Port : port'[p] = IF p = Cur THEN NewEntry ELSE port[p]
         /\ at'.step \in {"idle", "port"}
<1>1. Cur \in Port /\ Listed \subseteq Port /\ DOMAIN Uses = Valid
  BY CurType, UsesType
<1>2. World' = w /\ Listed' = Listed \ {Cur}
  <2>1. World' = w /\ ToSet(list') = Listed \ {Cur}
    BY DeleteType
  <2>2. QED BY <2>1 DEF Listed
<1>3. \A p \in Port : port'[p] = IF p = Cur THEN NewEntry ELSE port[p]
  BY <1>1 DEF Delete, Set, SwitchType
<1>4. at'.step \in {"idle", "port"}
  BY NextPortStep DEF Delete
<1>5. Valid' = Valid \ {Cur}
  <2>1. Valid' = {p \in Listed \ {Cur} : port'[p].valid}
    BY <1>2 DEF Valid
  <2>2. QED BY <1>1, <1>3, <2>1 DEF Valid
<1>6. Uses' = [p \in Valid \ {Cur} |-> [slot |-> port'[p].index, name |-> port'[p].name_index]]
  BY <1>5 DEF Uses
<1>7. ASSUME NEW q \in Valid \ {Cur} PROVE Uses'[q] = Uses[q]
  <2>1. port'[q] = port[q]
    BY <1>1, <1>3 DEF Valid
  <2>2. QED BY <1>6, <2>1 DEF Uses
<1>8. Leaves(Uses, Cur, Uses')
  BY <1>1, <1>6, <1>7 DEF Leaves
<1>9. QED BY <1>2, <1>3, <1>4, <1>8

(* Nothing leaves with a port that holds nothing.                          *)
LEMMA NothingLeaves ==
  ASSUME Cur \notin DOMAIN Uses, Leaves(Uses, Cur, Uses')
  PROVE  Uses' = Uses
<1>1. DOMAIN Uses' = DOMAIN Uses /\ \A q \in DOMAIN Uses : Uses'[q] = Uses[q]
  BY DEF Leaves
<1>2. Uses' = [q \in DOMAIN Uses' |-> Uses'[q]] /\ Uses = [q \in DOMAIN Uses |-> Uses[q]]
  BY DEF Uses
<1>3. QED BY <1>1, <1>2

LEMMA GetPhyFdServes ==
  ASSUME ServeInv, SwitchType', EpollMayFail = FALSE, switch_get_phy_fd
  PROVE  ServeInv'
<1>1. /\ at.step = "port" /\ GoTo("disconnect", 0) /\ ~Mine.valid
      /\ UNCHANGED <<net, list, since, told>>
  BY DEF switch_get_phy_fd
<1>2. PICK r \in FdData(Cur.phy, Cur.ip, TRUE) :
        /\ Become(r.w)
        /\ IF r.ok THEN LldpSend(Started(Mine, r.slot, r.index, r.w))
           ELSE UNCHANGED port
  BY DEF switch_get_phy_fd
<1>3. /\ SwitchType /\ World \in Worlds /\ WorldOK(World, Uses)
      /\ \A p \in Port : port[p].bonding_change = FALSE
  BY DEF ServeInv, NoSlaves, SwitchType
<1>4. /\ Mine \in Entry /\ Cur.phy \in IfSet /\ Cur.ip \in Ip
      /\ Cur \in Port /\ Cur \in Listed
  BY <1>1, <1>3, CurType
<1>5. DOMAIN Uses = Valid /\ DOMAIN Uses \subseteq Port /\ Cur \notin DOMAIN Uses
  <2>1. DOMAIN Uses = Valid /\ Valid \subseteq Port
    BY <1>3, UsesType
  <2>2. Cur \notin Valid
    BY <1>1 DEF Valid, Mine
  <2>3. QED BY <2>1, <2>2
<1>6. Served(Uses, Cur, r)
  BY <1>3, <1>4, <1>5, FdDataServes
<1>7. /\ r.w \in Worlds
      /\ r.ok => r.slot \in FdSlot /\ r.index \in 0 .. MAX_NAME_INDEX
  BY <1>3, <1>4, FdDataType
<1>8. World' = r.w /\ at'.step = "disconnect" /\ Listed' = Listed
  BY <1>1, <1>2, <1>3, <1>7, BecomeWorld, GoToStep DEF Listed
<1>9. CASE ~r.ok
  <2>1. UNCHANGED port
    BY <1>2, <1>9
  <2>2. Uses' = Uses
    BY <1>8, <2>1 DEF Uses, Valid
  <2>3. NoSlaves'
    BY <1>3, <1>8, <2>1 DEF NoSlaves
  <2>4. WorldOK(r.w, Uses)
    BY <1>6, <1>9 DEF Served
  <2>5. QED BY <1>8, <2>2, <2>3, <2>4 DEF ServeInv
<1>10. CASE r.ok
  <2> DEFINE e == Started(Mine, r.slot, r.index, r.w)
  <2>1. e \in Entry
    BY <1>4, <1>7, <1>10, StartedType
  <2>2. /\ e.valid = TRUE /\ e.index = r.slot /\ e.name_index = r.index
        /\ e.bonding_change = Mine.bonding_change
    BY <1>4 DEF Started, Entry
  <2> HIDE DEF e
  <2>3. PICK x : Set(x) /\ Keeps(x, e)
    BY <1>2, <1>10, <2>1, LldpSendKeeps DEF e
  <2>4. \A p \in Port : port'[p] = IF p = Cur THEN x ELSE port[p]
    BY <1>3, <1>4, <2>3 DEF Set, SwitchType
  <2>5. /\ x.valid = TRUE /\ x.index = r.slot /\ x.name_index = r.index
        /\ x.bonding_change = FALSE
    BY <1>3, <1>4, <2>2, <2>3 DEF Keeps, Mine
  <2>6. Joins(Uses, Cur, r.slot, r.index, Uses')
    <3>1. Joins(Uses, Cur, x.index, x.name_index, Uses')
      BY <1>1, <1>3, <1>5, <2>3, <2>5, JoinedUses
    <3>2. QED BY <2>5, <3>1
  <2>7. WorldOK(r.w, Uses')
    BY <1>6, <1>10, <2>6 DEF Served
  <2>8. NoSlaves'
    BY <1>3, <1>8, <2>4, <2>5 DEF NoSlaves
  <2>9. QED BY <1>8, <2>7, <2>8 DEF ServeInv
<1>11. QED BY <1>9, <1>10

LEMMA VanishedServes ==
  ASSUME ServeInv, SwitchType', AddressesApart, Bond = {}, port_vanished
  PROVE  ServeInv'
<1>1. at.step = "port"
  BY VanishedCases
<1>2. /\ SwitchType /\ World \in Worlds /\ WorldOK(World, Uses)
      /\ \A p \in Port : port[p].bonding_change = FALSE
  BY DEF ServeInv, NoSlaves, SwitchType
<1>3. Mine \in Entry /\ Cur \in Port /\ Cur \in Listed /\ Listed \subseteq Port
  BY <1>1, <1>2, CurType, UsesType
<1>4. DOMAIN Uses = Valid /\ DOMAIN Uses \subseteq Port
  BY <1>2, UsesType
<1>5. ASSUME NEW w \in Worlds, Delete(w)
      PROVE  /\ World' = w /\ Leaves(Uses, Cur, Uses')
             /\ NoSlaves'
  <2>1. /\ World' = w /\ Leaves(Uses, Cur, Uses')
        /\ \A p \in Port : port'[p] = IF p = Cur THEN NewEntry ELSE port[p]
        /\ at'.step \in {"idle", "port"}
    BY <1>1, <1>2, <1>5, DeletedUses
  <2>2. NoSlaves'
    BY <1>2, <2>1 DEF NoSlaves, NewEntry
  <2>3. QED BY <2>1, <2>2
<1>6. CASE ~Mine.valid /\ Delete(World)
  <2>1. World' = World /\ Leaves(Uses, Cur, Uses') /\ NoSlaves'
    BY <1>2, <1>5, <1>6
  <2>2. Cur \notin DOMAIN Uses
    BY <1>4, <1>6 DEF Valid, Mine
  <2>3. Uses' = Uses
    BY <2>1, <2>2, NothingLeaves
  <2>4. QED BY <1>2, <2>1, <2>3 DEF ServeInv
<1>7. CASE Mine.valid /\ Delete(Left)
  <2> DEFINE s == Mine.index
             l2 == RemoveServerIp(World.l, World.g[s].fd, Cur.ip)
             w1 == [World EXCEPT !.l = l2]
             u == Uses
  <2>1. Left \in Worlds
    BY <1>1, <1>2, LeftType
  <2>2. World' = Left /\ Leaves(Uses, Cur, Uses') /\ NoSlaves'
    BY <1>5, <1>7, <2>1
  <2>3. Cur \in DOMAIN Uses /\ Uses[Cur].slot = s /\ Uses[Cur].name = Mine.name_index
    BY <1>3, <1>4, <1>7 DEF Uses, Valid, Mine
  <2>4. s \in FdSlot
    BY <1>3 DEF Entry
  <2>5. Left = Put(w1, s, Mine.name_index)
    BY DEF Left, World
  <2>6. l2 \in Table
    BY <1>2, RemoveServerIpType DEF Worlds
  <2> HIDE DEF s, l2
  <2>7. w1 \in Worlds /\ w1.g = World.g /\ w1.k = World.k /\ w1.l = l2
    BY <1>2, <2>6 DEF Worlds
  <2> HIDE DEF w1
  <2>8. GivenBack(w1, s, Uses[Cur].name, World')
    BY <2>2, <2>3, <2>4, <2>5, <2>7, PutEffect
  <2>9. w1.l = RemoveServerIp(World.l, World.g[s].fd, Cur.ip)
    BY <2>7 DEF l2
  <2>10. WorldOK(World', Uses')
    BY <1>2, <1>4, <2>2, <2>3, <2>4, <2>7, <2>8, <2>9, LeftWorld
  <2>11. QED BY <2>2, <2>10 DEF ServeInv
<1>8. CASE /\ NextPort(at.i + 1, Len(list))
           /\ UNCHANGED <<fds, list, port, told>>
  <2>1. at'.step \in {"idle", "port"}
    BY <1>2, <1>8, NextPortStep
  <2>2. \A p \in Port : Keeps(port'[p], port[p])
    BY <1>8 DEF Keeps
  <2>3. QED BY <1>8, <2>1, <2>2, QuietStep
<1>9. QED BY <1>6, <1>7, <1>8, VanishedCases

LEMMA ServeInit == SInit => ServeInv
<1> SUFFICES ASSUME SInit PROVE ServeInv
  OBVIOUS
<1>1. SwitchType
  BY SInitType
<1>2. NoSlaves
  BY DEF SInit, NoSlaves, Idle, NewEntry
<1>3. DOMAIN Uses = {}
  <2>1. Listed = {}
    BY DEF SInit, Listed, ToSet
  <2>2. QED BY <2>1 DEF Uses, Valid
<1>4. \A s : Users(Uses, s) = {}
  BY <1>3 DEF Users
<1>5. /\ \A s \in FdSlot : World.g[s] = FreeSlot
      /\ \A i \in ListenerSlot : World.l[i] = Unused
      /\ \A f \in Fd : World.k[f] = NoIf
  BY DEF SInit, World
<1>6. SlotsOK(World, Uses)
  <2>1. Cardinality({}) = 0
    BY FS_EmptySet
  <2>2. SlotOK(FreeSlot, Uses, {})
    BY <2>1 DEF SlotOK, FreeSlot
  <2>3. QED BY <1>4, <1>5, <2>2 DEF SlotsOK
<1>7. InterfacesApart(World) /\ SocketsOK(World)
  BY <1>5 DEF InterfacesApart, SocketsOK, FreeSlot
<1>8. ListenOK(World, Uses)
  BY <1>5 DEF ListenOK, FreeSlot, Unused
<1>9. QED BY <1>1, <1>2, <1>6, <1>7, <1>8 DEF ServeInv, WorldOK

(* The steps that never happen without bonding devices.                    *)
LEMMA NeverSlaves ==
  ASSUME ServeInv, Bond = {}
  PROVE  /\ ~verify_slave_null /\ ~switch_get_bonding_phy_fd /\ ~port_bonding_change
         /\ ~slave_gone /\ ~slave_kept /\ ~slave_new /\ ~slaves_done /\ ~free_slave
<1>1. at.step \in {"idle", "port", "disconnect"} /\ SwitchType
  BY DEF ServeInv, NoSlaves
<1>2. ~slave_gone /\ ~slave_kept /\ ~slave_new /\ ~slaves_done /\ ~free_slave
  BY <1>1 DEF slave_gone, slave_kept, slave_new, slaves_done, free_slave
<1>3. ~verify_slave_null
  BY DEF verify_slave_null, SlavesUnreadable
<1>4. ~switch_get_bonding_phy_fd
  BY DEF switch_get_bonding_phy_fd
<1>5. ~port_bonding_change
  <2>1. SUFFICES ASSUME at.step = "port" PROVE ~Mine.bonding_change
    BY DEF port_bonding_change
  <2>2. Cur \in Port
    BY <1>1, <2>1, CurType
  <2>3. QED BY <2>2 DEF ServeInv, NoSlaves, Mine
<1>6. QED BY <1>2, <1>3, <1>4, <1>5

LEMMA ServeNext ==
  ASSUME Bond = {}, EpollMayFail = FALSE, AddressesApart, ServeInv, [SNext]_svars
  PROVE  ServeInv'
<1>1. SwitchType'
  BY SNextType DEF ServeInv
<1>2. CASE UNCHANGED svars
  <2>1. UNCHANGED <<fds, list>> /\ UNCHANGED port /\ UNCHANGED at
    BY <1>2 DEF svars
  <2>2. at'.step \in {"idle", "port", "disconnect"}
    BY <2>1 DEF ServeInv, NoSlaves
  <2>3. \A p \in Port : Keeps(port'[p], port[p])
    BY <2>1 DEF Keeps
  <2>4. QED BY <1>1, <2>1, <2>2, <2>3, QuietStep
<1>3. CASE Main
  BY <1>1, <1>3, NeverSlaves, CfgNetInfoServes, PortSkipServes, PortValidServes, GetPhyFdServes,
     HandleDisconnectServes, VanishedServes DEF Main
<1>4. CASE cfg_net_info_fails
  BY <1>1, <1>4, CfgNetInfoFailsServes
<1>5. CASE Environment
  <2>1. CASE Tick
    BY <1>1, <2>1, TickServes
  <2>2. ASSUME NEW p \in Port, appear(p) \/ vanish(p) \/ link(p) \/ enslave(p)
        PROVE  ServeInv'
    <3>1. \E n : Change(p, n)
      BY <2>2 DEF appear, vanish, link, enslave
    <3>2. QED BY <1>1, <3>1, ChangeServes
  <2>3. QED BY <1>5, <2>1, <2>2 DEF Environment
<1>6. QED BY <1>2, <1>3, <1>4, <1>5 DEF SNext

(* What the invariant says of a port in service.                           *)
LEMMA ServingUses ==
  ASSUME ServeInv
  PROVE  /\ Serving = Valid /\ Serving \subseteq Port
         /\ \A s : {p \in Serving : port[p].index = s} = Users(Uses, s)
         /\ \A p \in Serving : port[p].index \in FdSlot /\ p \in Users(Uses, port[p].index)
         /\ \A p \in Serving : Uses[p].name = port[p].name_index
         /\ \A p \in Serving : p.phy = g_port_fd[port[p].index].ifindex
<1>1. Serving = Valid
  BY DEF Serving, Valid, ServeInv, NoSlaves
<1>2. DOMAIN Uses = Valid /\ Valid \subseteq Port
  BY UsesType DEF ServeInv
<1>3. \A p \in Valid : Uses[p].slot = port[p].index /\ Uses[p].name = port[p].name_index
  BY DEF Uses
<1>4. \A s : {p \in Serving : port[p].index = s} = Users(Uses, s)
  BY <1>1, <1>2, <1>3 DEF Users
<1>5. \A p \in Serving : port[p].index \in FdSlot
  BY <1>1, <1>2 DEF ServeInv, SwitchType, Entry
<1>6. \A p \in Serving : p \in Users(Uses, port[p].index)
  BY <1>4
<1>7. \A p \in Serving : p.phy = g_port_fd[port[p].index].ifindex
  <2>1. World.g = g_port_fd
    BY DEF World
  <2>2. QED BY <1>5, <1>6, <2>1 DEF ServeInv, WorldOK, SlotsOK, SlotOK
<1>8. QED BY <1>1, <1>2, <1>3, <1>4, <1>5, <1>6, <1>7

LEMMA ServeRefs ==
  ASSUME ServeInv
  PROVE  RefsExact
<1>1. World.g = g_port_fd /\ World.k = sock
  BY DEF World
<1>2. SlotsOK(World, Uses) /\ SocketsOK(World) /\ DOMAIN Uses \subseteq Port
  BY UsesType DEF ServeInv, WorldOK
<1>3. ASSUME NEW s \in FdSlot
      PROVE  /\ g_port_fd[s].refs = Cardinality({p \in Serving : port[p].index = s})
             /\ g_port_fd[s].fd # NoFd <=> g_port_fd[s].refs > 0
  <2>1. /\ g_port_fd[s].refs = Cardinality(Users(Uses, s))
        /\ g_port_fd[s].fd # NoFd <=> Users(Uses, s) # {}
    BY <1>1, <1>2 DEF SlotsOK, SlotOK
  <2>2. Cardinality(Users(Uses, s)) \in Nat
        /\ (Cardinality(Users(Uses, s)) = 0 <=> Users(Uses, s) = {})
    BY <1>2, UsersFinite
  <2>3. {p \in Serving : port[p].index = s} = Users(Uses, s)
    BY ServingUses
  <2>4. g_port_fd[s].fd # NoFd <=> g_port_fd[s].refs > 0
    BY <2>1, <2>2
  <2>5. QED BY <2>1, <2>3, <2>4
<1>4. \A f \in Fd : sock[f] # NoIf => \E s \in FdSlot : g_port_fd[s].fd = f
  BY <1>1, <1>2 DEF SocketsOK
<1>5. QED BY <1>3, <1>4 DEF RefsExact

(* The one entry of an open socket.                                        *)
LEMMA ServeEntry ==
  ASSUME ServeInv, NEW s \in FdSlot, g_port_fd[s].fd # NoFd
  PROVE  LET i == SlotOf(listener, g_port_fd[s].fd)
         IN  /\ i \in ListenerSlot /\ i # 0
             /\ listener[i].ifindex = g_port_fd[s].ifindex
             /\ listener[i].host_ip = {p.ip : p \in Users(Uses, s)}
             /\ sock[g_port_fd[s].fd] = g_port_fd[s].ifindex
<1>1. World.g = g_port_fd /\ World.l = listener /\ World.k = sock
  BY DEF World
<1>2. ListenOK(World, Uses) /\ SocketsOK(World)
  BY DEF ServeInv, WorldOK
<1>3. PICK i \in ListenerSlot : ListensFor(World, Uses, s, i)
  BY <1>1, <1>2 DEF ListenOK
<1>4. listener[i].fd = g_port_fd[s].fd
  BY <1>1, <1>3 DEF ListensFor
<1>5. SlotOf(World.l, World.l[i].fd) = i
  BY <1>1, <1>2, <1>4, EntryFound
<1>6. SlotOf(listener, g_port_fd[s].fd) = i
  BY <1>1, <1>4, <1>5
<1>7. sock[g_port_fd[s].fd] = g_port_fd[s].ifindex
  BY <1>1, <1>2 DEF SocketsOK
<1>8. i # 0
  BY Ranges
<1>9. QED BY <1>1, <1>3, <1>6, <1>7, <1>8 DEF ListensFor

LEMMA ServeHostIp ==
  ASSUME ServeInv
  PROVE  HostIpExact
<1> SUFFICES ASSUME NEW s \in FdSlot, NEW i \in ListenerSlot, g_port_fd[s].fd # NoFd,
                    SlotOf(listener, g_port_fd[s].fd) = i
             PROVE  listener[i].host_ip = {p.ip : p \in {q \in Serving : port[q].index = s}}
  BY DEF HostIpExact
<1>1. listener[i].host_ip = {p.ip : p \in Users(Uses, s)}
  BY ServeEntry
<1>2. {q \in Serving : port[q].index = s} = Users(Uses, s)
  BY ServingUses
<1>3. QED BY <1>1, <1>2

LEMMA ServeNames ==
  ASSUME ServeInv
  PROVE  NameIndexUnique
<1> SUFFICES ASSUME NEW p \in Serving, NEW q \in Serving, p # q, p.phy = q.phy,
                    port[p].name_index = port[q].name_index
             PROVE  FALSE
  BY DEF NameIndexUnique
<1> DEFINE s == port[p].index
           u == port[q].index
<1>1. /\ s \in FdSlot /\ p \in Users(Uses, s) /\ p.phy = g_port_fd[s].ifindex
      /\ u \in FdSlot /\ q \in Users(Uses, u) /\ q.phy = g_port_fd[u].ifindex
      /\ Uses[p].name = port[p].name_index /\ Uses[q].name = port[q].name_index
      /\ p \in Port
  BY ServingUses
<1> HIDE DEF s, u
<1>2. p.phy # NoIf
  <2>1. p.phy \in IfSet
    BY <1>1 DEF IfSet, Phy
  <2>2. QED BY <2>1, Ranges
<1>3. s = u
  <2>1. World.g = g_port_fd
    BY DEF World
  <2>2. QED BY <1>1, <1>2, <2>1 DEF ServeInv, WorldOK, InterfacesApart
<1>4. QED BY <1>1, <1>3 DEF ServeInv, WorldOK, SlotsOK, SlotOK

LEMMA ServeHeard ==
  ASSUME ServeInv, Bond = {}
  PROVE  HeardOrRetried
<1> SUFFICES ASSUME NEW p \in Serving
             PROVE  Heard(port[p].index, p.phy, p.ip)
  BY DEF HeardOrRetried
<1> DEFINE s == port[p].index
<1>1. s \in FdSlot /\ p \in Users(Uses, s) /\ p.phy = g_port_fd[s].ifindex
  BY ServingUses
<1> HIDE DEF s
<1>2. g_port_fd[s].fd # NoFd
  <2>1. World.g = g_port_fd
    BY DEF World
  <2>2. QED BY <1>1, <2>1 DEF ServeInv, WorldOK, SlotsOK, SlotOK
<1> DEFINE i == SlotOf(listener, g_port_fd[s].fd)
<1>3. /\ i # 0 /\ listener[i].ifindex = g_port_fd[s].ifindex
      /\ listener[i].host_ip = {q.ip : q \in Users(Uses, s)}
      /\ sock[g_port_fd[s].fd] = g_port_fd[s].ifindex
  BY <1>1, <1>2, ServeEntry
<1>4. p.ip \in listener[i].host_ip
  BY <1>1, <1>3
<1>5. QED BY <1>1, <1>2, <1>3, <1>4 DEF Heard, s

LEMMA ServeInvariant ==
  ASSUME Bond = {}, EpollMayFail = FALSE, AddressesApart
  PROVE  SSpec => []ServeInv
<1>1. ServeInv /\ [SNext]_svars => ServeInv'
  BY ServeNext
<1>2. QED BY <1>1, ServeInit, PTL DEF SSpec

(* Without bonding devices, and with an epoll_ctl that takes every socket, *)
(* the reference count of a slot is the number of ports in service on it,  *)
(* however they come, go, fail to open and share: switch_put_fd_info       *)
(* closes a socket with its last user and never before.                    *)
THEOREM ReferencesExact ==
  ASSUME Bond = {}, EpollMayFail = FALSE, AddressesApart
  PROVE  SSpec => []RefsExact
BY ServeInvariant, ServeRefs, PTL

(* The listener of an open socket accepts the addresses of the ports in    *)
(* service on it and no other: snsd_remove_server_ip takes out what        *)
(* snsd_add_server_ip put in, and a reused entry starts empty.             *)
THEOREM AddressesExact ==
  ASSUME Bond = {}, EpollMayFail = FALSE, AddressesApart
  PROVE  SSpec => []HostIpExact
BY ServeInvariant, ServeHostIp, PTL

(* switch_get_index never gives an index out that another port of the      *)
(* interface announces under.                                              *)
THEOREM NamesUnique ==
  ASSUME Bond = {}, EpollMayFail = FALSE, AddressesApart
  PROVE  SSpec => []NameIndexUnique
BY ServeInvariant, ServeNames, PTL

(* A port that is marked valid, so that switch_port_exist_handle will not  *)
(* try again, has an open socket on its interface whose listener accepts   *)
(* its address.                                                            *)
THEOREM ValidIsHeard ==
  ASSUME Bond = {}, EpollMayFail = FALSE, AddressesApart
  PROVE  SSpec => []HeardOrRetried
BY ServeInvariant, ServeHeard, PTL
-----------------------------------------------------------------------------
(* How long the fabric switch remembers what was announced under a port    *)
(* id.  Slots are taken over only when the announcements of their last     *)
(* users have aged, and start to age anew when a port is refused or leaves.*)
TakesSlot(p, s, n) ==
  /\ n \in 1 .. MAX_NAME_INDEX
  /\ \/ g_port_fd[s].ifindex = p.phy /\ n \notin g_port_fd[s].index_map
     \/ /\ \A u \in FdSlot : g_port_fd[u].ifindex # p.phy
        /\ \/ g_port_fd[s].ifindex = NoIf
           \/ g_port_fd[s].refs <= 0 /\ g_port_fd[s].old_time < 0

ClaimsSlot(p, s, w) ==
  /\ \A u \in FdSlot \ {s} : w.g[u] = g_port_fd[u]
  /\ w.g[s].ifindex = p.phy /\ w.g[s].old_time = g_port_fd[s].old_time

Slotted(p, s, n, r) ==
  /\ \A u \in FdSlot \ {s} : r.w.g[u] = g_port_fd[u]
  /\ r.w.g[s].ifindex = p.phy
  /\ r.ok \in BOOLEAN
  /\ r.ok => r.slot = s /\ r.index = n /\ r.w.g[s].old_time = g_port_fd[s].old_time
  /\ ~r.ok => r.w.g[s].old_time = Age

LEMMA RefusedAges ==
  ASSUME NEW w \in Worlds, NEW p, NEW s \in FdSlot, NEW n, ClaimsSlot(p, s, w),
         NEW u, NEW r, r = Refused(w, s, n, u)
  PROVE  Slotted(p, s, n, r)
<1>1. r.w = Put(w, s, n) /\ r.ok = FALSE
  BY DEF Refused
<1>2. GivenBack(w, s, n, r.w)
  BY <1>1, PutEffect
<1>3. /\ \A v \in FdSlot \ {s} : r.w.g[v] = w.g[v]
      /\ r.w.g[s].ifindex = w.g[s].ifindex /\ r.w.g[s].old_time = Age
  BY <1>2 DEF GivenBack
<1> HIDE DEF Age
<1>4. QED BY <1>1, <1>3 DEF Slotted, ClaimsSlot

LEMMA AnsweredAges ==
  ASSUME NEW w \in Worlds, NEW p \in Port, NEW s \in FdSlot, NEW n, ClaimsSlot(p, s, w),
         CanAddIp(w.l, w.g[s].fd, p.ip), NEW r, r = Answered(w, s, n, p.ip)
  PROVE  Slotted(p, s, n, r)
<1>1. p.ip \in Ip
  BY DEF Ip
<1>2. r.w.g = w.g /\ r.ok = TRUE /\ r.slot = s /\ r.index = n
  <2>1. r.w.g = w.g
    BY <1>1, AnsweredType
  <2>2. QED BY <2>1 DEF Answered
<1>3. QED BY <1>2 DEF Slotted, ClaimsSlot

LEMMA FdDataAges ==
  ASSUME EpollMayFail = FALSE, World \in Worlds, NEW p \in Port,
         NEW r \in FdData(p.phy, p.ip, TRUE)
  PROVE  \/ r.ok = FALSE /\ r.w = World
         \/ \E s \in FdSlot : \E n : TakesSlot(p, s, n) /\ Slotted(p, s, n, r)
<1> DEFINE s == SlotFor(p.phy)
           n == IndexFor(s, p.phy, TRUE)
           c == Claim(World, s, p.phy, n)
           Address(w) == IF CanAddIp(w.l, w.g[s].fd, p.ip) THEN Answered(w, s, n, p.ip)
                         ELSE Refused(w, s, n, FALSE)
<1>1. CASE r = [ok |-> FALSE, slot |-> 0, index |-> 0, w |-> World, upset |-> FALSE]
  BY <1>1
<1>2. CASE /\ ~Exhausted(p.phy, TRUE)
           /\ \/ c.g[s].fd # NoFd /\ r = Address(c)
              \/ c.g[s].fd = NoFd /\ \E u \in BOOLEAN : r = Refused(c, s, n, u)
              \/ /\ c.g[s].fd = NoFd /\ HasRoom(listener)
                 /\ \E f \in Closed : r = Address(Opened(c, s, f))
              \/ /\ EpollMayFail /\ c.g[s].fd = NoFd /\ HasRoom(listener)
                 /\ \E f \in Closed :
                      r = Refused([c EXCEPT !.l = AddServer(@, f, p.phy)], s, n, TRUE)
  <2>1. s \in FdSlot /\ n \in 0 .. MAX_NAME_INDEX /\ n # 0
    BY <1>2, NotExhausted
  <2>2. TakesSlot(p, s, n)
    <3>1. \/ g_port_fd[s].ifindex = p.phy
          \/ /\ \A u \in FdSlot : g_port_fd[u].ifindex # p.phy
             /\ \/ g_port_fd[s].ifindex = NoIf
                \/ g_port_fd[s].refs <= 0 /\ g_port_fd[s].old_time < 0
      BY <2>1, SlotForProperties
    <3>2. g_port_fd[s].ifindex = p.phy => n \notin g_port_fd[s].index_map
      BY <2>1, IndexForProperties
    <3> HIDE DEF s, n
    <3>3. n \in 1 .. MAX_NAME_INDEX
      BY <2>1, Ranges
    <3>4. QED BY <3>1, <3>2, <3>3 DEF TakesSlot
  <2> HIDE DEF s, n
  <2>3. p.phy \in IfSet
    BY DEF IfSet, Phy
  <2>4. c \in Worlds /\ Claimed(World, s, p.phy, n, c)
    BY <2>1, <2>3, ClaimEffect, Zenon
  <2> HIDE DEF c
  <2>5. ClaimsSlot(p, s, c) /\ c.l = listener
    <3>1. World.g = g_port_fd /\ World.l = listener
      BY DEF World
    <3>2. QED BY <2>4, <3>1 DEF Claimed, ClaimsSlot
  <2>6. ASSUME NEW w \in Worlds, ClaimsSlot(p, s, w), NEW u, r = Refused(w, s, n, u)
        PROVE  Slotted(p, s, n, r)
    BY <2>1, <2>6, RefusedAges
  <2>7. ASSUME NEW w \in Worlds, ClaimsSlot(p, s, w), r = Address(w)
        PROVE  Slotted(p, s, n, r)
    <3>1. CASE CanAddIp(w.l, w.g[s].fd, p.ip)
      BY <2>1, <2>7, <3>1, AnsweredAges
    <3>2. CASE ~CanAddIp(w.l, w.g[s].fd, p.ip)
      BY <2>6, <2>7, <3>2
    <3>3. QED BY <3>1, <3>2
  <2> HIDE DEF Address
  <2>8. ASSUME HasRoom(listener), NEW f \in Closed, r = Address(Opened(c, s, f))
        PROVE  Slotted(p, s, n, r)
    <3> DEFINE o == Opened(c, s, f)
    <3>1. c.g[s].ifindex = p.phy /\ f \in Fd
      BY <2>5 DEF ClaimsSlot, Closed
    <3>2. o \in Worlds /\ OpenedOn(c, s, f, o)
      BY <2>1, <2>3, <2>4, <2>5, <2>8, <3>1, OpenedEffect
    <3> HIDE DEF o
    <3>3. ClaimsSlot(p, s, o)
      BY <2>5, <3>2 DEF OpenedOn, ClaimsSlot
    <3>4. QED BY <2>7, <2>8, <3>2, <3>3 DEF o
  <2>9. Slotted(p, s, n, r)
    BY <1>2, <2>4, <2>5, <2>6, <2>7, <2>8
  <2>10. QED BY <2>1, <2>2, <2>9
<1>3. Ended(p.phy, p.ip, TRUE, r)
  BY FdDataCases
<1>4. QED BY <1>1, <1>2, <1>3, Zenon DEF Ended

(* The ports in service under a port id, at most one.                      *)
Holders(k, U) == {p \in DOMAIN U : p.name = k[1] /\ U[p].name = k[2]}

(* What entry x under port id k, announced by port q, rests on while it is *)
(* remembered: the slot stays with q's interface, nobody uses it before    *)
(* its old_time has passed, and another port of that id keeps silent.      *)
Remembered(x, k, q, g, U, e) ==
  /\ \E v \in Vlan : x.owner = <<q, v>>
  /\ q.name = k[1]
  /\ \E s \in FdSlot : g[s].ifindex = q.phy /\ (Holders(k, U) = {} => g[s].old_time >= x.ttl)
  /\ \A p \in Holders(k, U) : p = q \/ e[p].expires >= x.ttl

Known(x, k, g, U, e) ==
  x.owner # <<>> => /\ x.ttl \in 1 .. LLDP_OLD_TIME
                    /\ \E q \in Port : Remembered(x, k, q, g, U, e)

(* The VLAN id of a port that was only read in part may be missing.        *)
VlansRead == \A p \in Listed : port[p].valid \/ port[p].fresh => port[p].vlan \in Vlan

AgeInv ==
  /\ VlansRead
  /\ \A k \in DOMAIN neighbor : Known(neighbor[k], k, g_port_fd, Uses, port)

(* There is one VLAN id, and a name belongs to one physical interface.     *)
OneVlan == \A u, v \in Vlan : u = v
OneInterface == \A p, q \in Port : p.name = q.name => p.phy = q.phy

LEMMA OldEnough ==
  ASSUME NEW t \in 1 .. LLDP_OLD_TIME
  PROVE  t \in Nat \ {0} /\ Age >= t /\ Age \in Nat /\ LLDP_OLD_TIME \in 1 .. LLDP_OLD_TIME
BY SwitchAssumption DEF Age

(* A holder is a user of the slot of its interface.                        *)
LEMMA HolderSlot ==
  ASSUME ServeInv, OneInterface, NEW k, NEW q \in Port, q.name = k[1],
         NEW p \in Holders(k, Uses), NEW s \in FdSlot, g_port_fd[s].ifindex = q.phy
  PROVE  /\ p \in Users(Uses, s) /\ p \in Port /\ p \in Serving /\ port[p].index = s
         /\ k[2] \in g_port_fd[s].index_map
         /\ ~(g_port_fd[s].refs <= 0)
<1>1. p \in Serving /\ p \in Port /\ p.name = k[1] /\ Uses[p].name = k[2]
  BY ServingUses, UsesType DEF Holders, ServeInv
<1>2. /\ port[p].index \in FdSlot /\ p \in Users(Uses, port[p].index)
      /\ p.phy = g_port_fd[port[p].index].ifindex
  BY <1>1, ServingUses
<1>3. p.phy = q.phy /\ p.phy # NoIf
  <2>1. p.phy = q.phy
    BY <1>1 DEF OneInterface
  <2>2. p.phy \in IfSet
    BY <1>1 DEF IfSet, Phy
  <2>3. QED BY <2>1, <2>2, Ranges
<1>4. World.g = g_port_fd /\ SlotsOK(World, Uses) /\ InterfacesApart(World)
      /\ DOMAIN Uses \subseteq Port
  BY UsesType DEF World, ServeInv, WorldOK
<1>5. port[p].index = s
  BY <1>2, <1>3, <1>4 DEF InterfacesApart
<1>6. k[2] \in g_port_fd[s].index_map
  BY <1>1, <1>2, <1>4, <1>5 DEF SlotsOK, SlotOK
<1>7. ~(g_port_fd[s].refs <= 0)
  <2>1. CASE g_port_fd[s].refs <= 0
    <3>1. SlotOK(g_port_fd[s], Uses, Users(Uses, s))
      BY <1>4 DEF SlotsOK
    <3>2. Users(Uses, s) = {}
      BY <1>4, <2>1, <3>1, EmptySlot
    <3>3. QED BY <1>2, <1>5, <3>2
  <2>2. QED BY <2>1
<1>8. QED BY <1>1, <1>2, <1>5, <1>6, <1>7

LEMMA HolderUnique ==
  ASSUME ServeInv, OneInterface, NEW k, NEW p \in Holders(k, Uses), NEW q \in Holders(k, Uses)
  PROVE  p = q
<1>1. /\ p \in Serving /\ q \in Serving /\ p \in Port /\ q \in Port
      /\ p.name = q.name /\ Uses[p].name = Uses[q].name
  BY ServingUses, UsesType DEF Holders, ServeInv
<1>2. p.phy = q.phy /\ port[p].name_index = port[q].name_index
  BY <1>1, ServingUses DEF OneInterface
<1>3. NameIndexUnique
  BY ServeNames
<1>4. QED BY <1>1, <1>2, <1>3 DEF NameIndexUnique

(* The announcement is not replaced by another one in this step.           *)
Lasts ==
  \A k \in DOMAIN neighbor :
    neighbor[k].owner # <<>> => neighbor'[k].owner \in {neighbor[k].owner, <<>>}

(* A step that announces nothing: ports may only wait longer.              *)
LEMMA QuietAges ==
  ASSUME AgeInv, VlansRead', World' = World, Uses' = Uses, UNCHANGED neighbor,
         \A p \in DOMAIN Uses : port'[p].expires = port[p].expires \/ port'[p].expires = Age
  PROVE  AgeInv' /\ Lasts
<1>1. g_port_fd' = g_port_fd
  BY DEF World
<1>2. ASSUME NEW k \in DOMAIN neighbor
      PROVE  Known(neighbor[k], k, g_port_fd, Uses, port')
  <2> DEFINE x == neighbor[k]
  <2> SUFFICES ASSUME x.owner # <<>>
               PROVE  /\ x.ttl \in 1 .. LLDP_OLD_TIME
                      /\ \E q \in Port : Remembered(x, k, q, g_port_fd, Uses, port')
    BY DEF Known
  <2>1. Known(x, k, g_port_fd, Uses, port)
    BY DEF AgeInv
  <2> HIDE DEF x
  <2>2. x.ttl \in 1 .. LLDP_OLD_TIME
    BY <2>1 DEF Known
  <2>3. PICK q \in Port : Remembered(x, k, q, g_port_fd, Uses, port)
    BY <2>1 DEF Known
  <2>4. ASSUME NEW p \in Holders(k, Uses)
        PROVE  p = q \/ port'[p].expires >= x.ttl
    <3>1. p \in DOMAIN Uses
      BY DEF Holders
    <3>2. p = q \/ port[p].expires >= x.ttl
      BY <2>3 DEF Remembered
    <3>3. Age >= x.ttl
      BY <2>2, OldEnough
    <3> HIDE DEF Age
    <3>4. QED BY <3>1, <3>2, <3>3
  <2>5. Remembered(x, k, q, g_port_fd, Uses, port')
    BY <2>3, <2>4 DEF Remembered
  <2>6. QED BY <2>2, <2>5
<1>3. \A k \in DOMAIN neighbor' : Known(neighbor'[k], k, g_port_fd', Uses', port')
  BY <1>1, <1>2
<1>4. AgeInv'
  BY <1>3 DEF AgeInv
<1>5. Lasts
  BY DEF Lasts
<1>6. QED BY <1>4, <1>5

LEMMA SendCases ==
  ASSUME Bond = {}, NEW e \in Entry, LldpSend(e)
  PROVE  \/ /\ e.expires = 0 /\ lldp_send(e)
            /\ \E x \in Entry : Set(x) /\ Keeps(x, e) /\ x.vlan = e.vlan
         \/ Set(e) /\ UNCHANGED neighbor
<1> DEFINE x == [e EXCEPT !.expires = LLDP_INTERVAL_CLOCK]
<1>1. \/ e.expires = 0 /\ Set(x) /\ lldp_send(e)
      \/ Set(e) /\ UNCHANGED neighbor
  BY DEF LldpSend, lldp_send_bonding
<1>2. x \in Entry /\ Keeps(x, e) /\ x.vlan = e.vlan
  <2>1. LLDP_INTERVAL_CLOCK \in 0 .. Age
    BY Ranges
  <2> HIDE DEF Age
  <2>2. QED BY <2>1 DEF Entry, Keeps
<1> HIDE DEF x
<1>3. QED BY <1>1, <1>2

LEMMA VlanKept ==
  ASSUME SwitchType, at.step \notin {"idle", "crashed"}, VlansRead, UNCHANGED list,
         NEW x, Set(x), x.vlan = Mine.vlan, x.valid \/ x.fresh => Mine.valid \/ Mine.fresh
  PROVE  VlansRead'
<1>1. Cur \in Listed /\ Listed \subseteq Port /\ Listed' = Listed
  BY CurType, UsesType DEF Listed
<1>2. \A p \in Port : port'[p] = IF p = Cur THEN x ELSE port[p]
  BY <1>1 DEF Set, SwitchType
<1>3. \A p \in Listed : port'[p].valid \/ port'[p].fresh => port'[p].vlan \in Vlan
  BY <1>1, <1>2 DEF VlansRead, Mine
<1>4. QED BY <1>1, <1>3 DEF VlansRead

(* What is remembered after an announcement.                               *)
LEMMA SentKnown ==
  ASSUME NEW p \in Port, NEW v \in Vlan, NEW k, k[1] = p.name, NEW g, NEW s \in FdSlot,
         g[s].ifindex = p.phy, NEW U, Holders(k, U) = {p}, NEW e
  PROVE  Known([owner |-> <<p, v>>, ttl |-> LLDP_OLD_TIME], k, g, U, e)
<1> DEFINE x == [owner |-> <<p, v>>, ttl |-> LLDP_OLD_TIME]
<1>1. x.owner = <<p, v>> /\ x.ttl = LLDP_OLD_TIME
  OBVIOUS
<1>2. x.ttl \in 1 .. LLDP_OLD_TIME
  BY <1>1, SwitchAssumption
<1> HIDE DEF x
<1>3. Remembered(x, k, p, g, U, e)
  BY <1>1 DEF Remembered
<1>4. Known(x, k, g, U, e)
  BY <1>2, <1>3 DEF Known
<1>5. QED BY <1>4 DEF x

LEMMA Announced ==
  ASSUME NEW e, lldp_send(e)
  PROVE  /\ DOMAIN neighbor' = DOMAIN neighbor
         /\ \A k \in DOMAIN neighbor :
              neighbor'[k] = IF k = PortId(e) THEN [owner |-> <<Cur, e.vlan>>, ttl |-> LLDP_OLD_TIME]
                             ELSE neighbor[k]
BY DEF lldp_send, SmartTlv

LEMMA PortValidAges ==
  ASSUME ServeInv, Bond = {}, OneVlan, OneInterface, AgeInv, Uses' = Uses, port_valid
  PROVE  AgeInv' /\ Lasts
<1>1. /\ at.step = "port" /\ Mine.valid /\ Announce(Mine)
      /\ UNCHANGED <<net, list, fds, since, told>>
  BY DEF port_valid
<1>2. SwitchType /\ World' = World /\ VlansRead /\ port \in [Port -> Entry]
  BY <1>1, FdsKept DEF ServeInv, AgeInv, SwitchType
<1>3. Mine \in Entry /\ Cur \in Port /\ Cur \in Listed
  BY <1>1, <1>2, CurType
<1>4. DOMAIN Uses = Valid /\ Valid \subseteq Port /\ Serving = Valid
  BY <1>2, UsesType, ServingUses
<1>5. Cur \in Valid /\ Mine.vlan \in Vlan
  BY <1>1, <1>2, <1>3 DEF Valid, Mine, VlansRead
<1>6. ASSUME NEW x, Set(x), x.vlan = Mine.vlan, x.expires = Mine.expires \/ x.expires = Age,
             UNCHANGED neighbor
      PROVE  AgeInv' /\ Lasts
  <2>1. VlansRead'
    BY <1>1, <1>2, <1>6, VlanKept
  <2>2. \A p \in Port : port'[p] = IF p = Cur THEN x ELSE port[p]
    BY <1>2, <1>6 DEF Set
  <2> HIDE DEF Age
  <2>3. \A p \in DOMAIN Uses : port'[p].expires = port[p].expires \/ port'[p].expires = Age
    BY <1>4, <1>6, <2>2 DEF Mine
  <2>4. QED BY <1>2, <1>6, <2>1, <2>3, QuietAges
<1>7. CASE Mine.vlan_change
  <2> DEFINE x == [Mine EXCEPT !.expires = Age]
  <2>1. Set(x) /\ UNCHANGED neighbor
    BY <1>1, <1>7 DEF Announce
  <2>2. x.vlan = Mine.vlan /\ x.expires = Age
    <3> HIDE DEF Age
    <3>1. QED BY <1>3 DEF Entry
  <2> HIDE DEF x
  <2>3. QED BY <1>6, <2>1, <2>2
<1>8. CASE ~Mine.vlan_change
  <2>1. LldpSend(Mine)
    BY <1>1, <1>8 DEF Announce
  <2>2. CASE Set(Mine) /\ UNCHANGED neighbor
    BY <1>6, <2>2
  <2>3. ASSUME Mine.expires = 0, lldp_send(Mine),
               NEW x \in Entry, Set(x), Keeps(x, Mine), x.vlan = Mine.vlan
        PROVE  AgeInv' /\ Lasts
    <3> DEFINE K == PortId(Mine)
               s == Mine.index
               new == [owner |-> <<Cur, Mine.vlan>>, ttl |-> LLDP_OLD_TIME]
    <3>1. /\ DOMAIN neighbor' = DOMAIN neighbor
          /\ \A k \in DOMAIN neighbor : neighbor'[k] = IF k = K THEN new ELSE neighbor[k]
      BY <2>3, Announced
    <3>2. \A p \in Port : port'[p] = IF p = Cur THEN x ELSE port[p]
      BY <1>2, <2>3 DEF Set
    <3>3. K[1] = Cur.name /\ K[2] = Mine.name_index
      BY DEF PortId
    <3>4. Cur \in Holders(K, Uses)
      BY <1>4, <1>5, <3>3 DEF Holders, Uses, Mine
    <3>5. s \in FdSlot /\ g_port_fd[s].ifindex = Cur.phy
      BY <1>4, <1>5, ServingUses DEF Mine
    <3>6. Holders(K, Uses) = {Cur}
      BY <3>4, HolderUnique
    <3>7. Known(new, K, g_port_fd, Uses, port')
      BY <1>3, <1>5, <3>3, <3>5, <3>6, SentKnown
    <3> HIDE DEF K, s, new
    <3>8. ASSUME NEW k \in DOMAIN neighbor, neighbor[k].owner # <<>>
          PROVE  /\ Known(neighbor[k], k, g_port_fd, Uses, port')
                 /\ k = K => neighbor[k].owner = <<Cur, Mine.vlan>>
      <4> DEFINE y == neighbor[k]
      <4>1. Known(y, k, g_port_fd, Uses, port)
        BY DEF AgeInv
      <4> HIDE DEF y
      <4>2. y.ttl \in 1 .. LLDP_OLD_TIME /\ y.owner # <<>>
        BY <3>8, <4>1 DEF Known, y
      <4>3. PICK q \in Port : Remembered(y, k, q, g_port_fd, Uses, port)
        BY <4>1, <4>2 DEF Known
      <4>4. \A p \in Holders(k, Uses) : p = q \/ port[p].expires >= y.ttl
        BY <4>3 DEF Remembered
      <4>5. ~(0 >= y.ttl)
        BY <4>2, OldEnough
      <4>6. Cur \in Holders(k, Uses) => Cur = q
        BY <2>3, <4>4, <4>5 DEF Mine
      <4>7. \A p \in Holders(k, Uses) : p = q \/ port'[p].expires >= y.ttl
        BY <1>4, <3>2, <4>4, <4>6 DEF Holders
      <4>8. Remembered(y, k, q, g_port_fd, Uses, port')
        BY <4>3, <4>7 DEF Remembered
      <4>9. Known(y, k, g_port_fd, Uses, port')
        BY <4>2, <4>8 DEF Known
      <4>10. k = K => y.owner = <<Cur, Mine.vlan>>
        <5>1. PICK v \in Vlan : y.owner = <<q, v>>
          BY <4>3 DEF Remembered
        <5>2. v = Mine.vlan
          BY <1>5 DEF OneVlan
        <5>3. QED BY <3>4, <4>6, <5>1, <5>2
      <4>11. QED BY <4>9, <4>10 DEF y
    <3>9. \A k \in DOMAIN neighbor' : Known(neighbor'[k], k, g_port_fd, Uses, port')
      <4>1. \A k \in DOMAIN neighbor : Known(neighbor[k], k, g_port_fd, Uses, port')
        BY <3>8 DEF Known
      <4>2. QED BY <3>1, <3>7, <4>1
    <3>10. VlansRead'
      BY <1>1, <1>2, <2>3, VlanKept
    <3>11. g_port_fd' = g_port_fd
      BY <1>2 DEF World
    <3>12. AgeInv'
      BY <3>9, <3>10, <3>11 DEF AgeInv
    <3>13. Lasts
      <4>1. new.owner = <<Cur, Mine.vlan>>
        BY DEF new
      <4>2. QED BY <3>1, <3>8, <4>1 DEF Lasts
    <3>14. QED BY <3>12, <3>13
  <2>4. QED BY <1>3, <2>1, <2>2, <2>3, SendCases
<1>9. QED BY <1>7, <1>8

(* Time passes for what is remembered and for those who wait alike.        *)
LEMMA TickAges ==
  ASSUME ServeInv, AgeInv, Uses' = Uses, Tick
  PROVE  AgeInv' /\ Lasts
<1>1. /\ g_port_fd' = [s \in FdSlot |-> [g_port_fd[s] EXCEPT !.old_time = Down(@, -1)]]
      /\ port' = [p \in Port |-> [port[p] EXCEPT !.expires = Down(@, 0)]]
      /\ neighbor' = [k \in DOMAIN neighbor |->
                        [owner |-> IF neighbor[k].ttl > 1 THEN neighbor[k].owner ELSE <<>>,
                         ttl |-> Down(neighbor[k].ttl, 0)]]
      /\ UNCHANGED list
  BY DEF Tick
<1>2. SwitchType /\ World \in Worlds /\ port \in [Port -> Entry]
  BY DEF ServeInv, SwitchType
<1>3. g_port_fd \in [FdSlot -> PortFd]
  BY <1>2 DEF World, Worlds
<1>4. \A p \in Port : /\ port'[p].vlan = port[p].vlan
                      /\ port'[p].valid = port[p].valid /\ port'[p].fresh = port[p].fresh
                      /\ port'[p].expires = Down(port[p].expires, 0)
  BY <1>1, <1>2 DEF Entry
<1>5. \A s \in FdSlot : /\ g_port_fd'[s].ifindex = g_port_fd[s].ifindex
                        /\ g_port_fd'[s].old_time = Down(g_port_fd[s].old_time, -1)
  BY <1>1, <1>3 DEF PortFd
<1>6. DOMAIN Uses \subseteq Port /\ Listed \subseteq Port
  BY <1>2, UsesType
<1>7. VlansRead'
  <2>1. Listed' = Listed
    BY <1>1 DEF Listed
  <2>2. QED BY <1>4, <1>6, <2>1 DEF AgeInv, VlansRead
<1>8. Age \in Nat
  BY Ranges
<1>9. ASSUME NEW k \in DOMAIN neighbor, neighbor'[k].owner # <<>>
      PROVE  /\ neighbor[k].owner = neighbor'[k].owner
             /\ Known(neighbor'[k], k, g_port_fd', Uses, port')
  <2> DEFINE x == neighbor[k]
             y == neighbor'[k]
  <2> DEFINE o == IF x.ttl > 1 THEN x.owner ELSE <<>>
             t == Down(x.ttl, 0)
  <2>1. y = [owner |-> o, ttl |-> t]
    BY <1>1
  <2> HIDE DEF o, t
  <2>2. y.owner = o
    BY <2>1
  <2>3. y.ttl = t
    BY <2>1
  <2> USE DEF o, t
  <2>4. Known(x, k, g_port_fd, Uses, port)
    BY DEF AgeInv
  <2>5. y.owner # <<>>
    BY <1>9
  <2> HIDE DEF x, y
  <2>6. x.ttl > 1 /\ y.owner = x.owner /\ x.owner # <<>>
    BY <2>2, <2>5
  <2>7. x.ttl \in 1 .. LLDP_OLD_TIME /\ x.ttl \in Nat
    BY <2>4, <2>6, OldEnough DEF Known
  <2>8. y.ttl = x.ttl - 1
    BY <2>3, <2>6, <2>7 DEF Down
  <2>9. y.ttl \in 1 .. LLDP_OLD_TIME
    <3>1. LLDP_OLD_TIME \in Nat
      BY SwitchAssumption
    <3>2. QED BY <2>6, <2>7, <2>8, <3>1
  <2>10. \A n \in Int, least \in {0, -1} : n >= x.ttl => Down(n, least) >= y.ttl
    BY <2>6, <2>7, <2>8 DEF Down
  <2>11. PICK q \in Port : Remembered(x, k, q, g_port_fd, Uses, port)
    BY <2>4, <2>6 DEF Known
  <2>12. PICK s \in FdSlot : /\ g_port_fd[s].ifindex = q.phy
                             /\ Holders(k, Uses) = {} => g_port_fd[s].old_time >= x.ttl
    BY <2>11 DEF Remembered
  <2>13. /\ g_port_fd'[s].ifindex = q.phy
         /\ Holders(k, Uses) = {} => g_port_fd'[s].old_time >= y.ttl
    <3>1. g_port_fd[s].old_time \in -1 .. Age
      BY <1>3 DEF PortFd
    <3> HIDE DEF Age
    <3>2. g_port_fd[s].old_time \in Int
      BY <1>8, <3>1
    <3>3. QED BY <1>5, <2>10, <2>12, <3>2
  <2>14. ASSUME NEW p \in Holders(k, Uses)
         PROVE  p = q \/ port'[p].expires >= y.ttl
    <3>1. p \in Port /\ (p = q \/ port[p].expires >= x.ttl)
      BY <1>6, <2>11 DEF Remembered, Holders
    <3>2. port[p].expires \in 0 .. Age
      BY <1>2, <3>1 DEF Entry
    <3> HIDE DEF Age
    <3>3. port[p].expires \in Int
      BY <1>8, <3>2
    <3>4. QED BY <1>4, <2>10, <3>1, <3>3
  <2>15. Remembered(y, k, q, g_port_fd', Uses, port')
    BY <2>6, <2>11, <2>13, <2>14 DEF Remembered
  <2>16. Known(y, k, g_port_fd', Uses, port')
    BY <2>9, <2>15 DEF Known
  <2>17. QED BY <2>6, <2>16 DEF x, y
<1>10. DOMAIN neighbor' = DOMAIN neighbor
  BY <1>1
<1>11. \A k \in DOMAIN neighbor' : Known(neighbor'[k], k, g_port_fd', Uses', port')
  BY <1>9, <1>10 DEF Known
<1>12. AgeInv'
  BY <1>7, <1>11 DEF AgeInv
<1>13. Lasts
  BY <1>9 DEF Lasts
<1>14. QED BY <1>12, <1>13

(* An index that is given out is nobody else's.                            *)
LEMMA NoHolder ==
  ASSUME ServeInv, OneInterface, NEW p \in Port, NEW s \in FdSlot, NEW n, TakesSlot(p, s, n),
         NEW k, k[1] = p.name, k[2] = n
  PROVE  Holders(k, Uses) = {}
<1> SUFFICES ASSUME NEW h \in Holders(k, Uses) PROVE FALSE
  OBVIOUS
<1>1. h \in Serving /\ h \in Port /\ h.name = p.name
  BY ServingUses, UsesType DEF Holders, ServeInv
<1>2. port[h].index \in FdSlot /\ g_port_fd[port[h].index].ifindex = p.phy
  BY <1>1, ServingUses DEF OneInterface
<1>3. g_port_fd[s].ifindex = p.phy /\ n \notin g_port_fd[s].index_map
  BY <1>2 DEF TakesSlot
<1>4. k[2] \in g_port_fd[s].index_map
  BY <1>3, HolderSlot
<1>5. QED BY <1>3, <1>4

(* While an announcement is remembered, its slot stays with its interface; *)
(* a port that starts under its id waits.                                  *)
LEMMA SlotKeptAge ==
  ASSUME ServeInv, OneInterface, NEW p \in Port, NEW s \in FdSlot, NEW n, TakesSlot(p, s, n),
         NEW r, Slotted(p, s, n, r), NEW k, NEW t \in 1 .. LLDP_OLD_TIME,
         NEW q \in Port, q.name = k[1], NEW u \in FdSlot, g_port_fd[u].ifindex = q.phy,
         Holders(k, Uses) = {} => g_port_fd[u].old_time >= t
  PROVE  /\ r.w.g[u].ifindex = q.phy
         /\ Holders(k, Uses) = {} => r.w.g[u].old_time >= t
         /\ k[1] = p.name /\ k[2] = n => g_port_fd[s].old_time >= t
<1>1. t \in Nat \ {0} /\ Age >= t
  BY OldEnough
<1> HIDE DEF Age
<1>2. q.phy # NoIf
  <2>1. q.phy \in IfSet
    BY DEF IfSet, Phy
  <2>2. QED BY <2>1, Ranges
<1>3. CASE u # s
  <2>1. r.w.g[u] = g_port_fd[u]
    BY <1>3 DEF Slotted
  <2>2. ASSUME k[1] = p.name, k[2] = n
        PROVE  FALSE
    <3>1. g_port_fd[u].ifindex = p.phy
      BY <2>2 DEF OneInterface
    <3>2. g_port_fd[s].ifindex = p.phy
      BY <3>1 DEF TakesSlot
    <3>3. World.g = g_port_fd
      BY DEF World
    <3>4. QED BY <1>2, <1>3, <3>1, <3>2, <3>3 DEF ServeInv, WorldOK, InterfacesApart
  <2>3. QED BY <2>1, <2>2
<1>4. CASE u = s
  <2>1. g_port_fd[s].ifindex = p.phy
    <3>1. SUFFICES ASSUME g_port_fd[s].ifindex # p.phy PROVE FALSE
      OBVIOUS
    <3>2. g_port_fd[s].refs <= 0 /\ g_port_fd[s].old_time < 0
      BY <1>2, <1>4, <3>1 DEF TakesSlot
    <3>3. Holders(k, Uses) = {}
      BY <1>4, <3>2, HolderSlot
    <3>4. g_port_fd[s].old_time >= t /\ g_port_fd[s].old_time \in Int
      <4>1. World.g = g_port_fd /\ World \in Worlds
        BY DEF World, ServeInv, SwitchType
      <4>2. g_port_fd[s].old_time \in -1 .. Age /\ Age \in Nat
        BY <4>1, Ranges DEF Worlds, PortFd
      <4>3. QED BY <1>4, <3>3, <4>2
    <3>5. QED BY <1>1, <3>2, <3>4
  <2>2. r.w.g[s].ifindex = p.phy /\ (r.w.g[s].old_time = g_port_fd[s].old_time \/ r.w.g[s].old_time = Age)
    BY DEF Slotted
  <2>3. k[1] = p.name /\ k[2] = n => Holders(k, Uses) = {}
    BY NoHolder
  <2>4. QED BY <1>1, <1>4, <2>1, <2>2, <2>3
<1>5. QED BY <1>3, <1>4

LEMMA GetPhyFdAges ==
  ASSUME ServeInv, Bond = {}, EpollMayFail = FALSE, OneInterface, AgeInv, switch_get_phy_fd
  PROVE  AgeInv' /\ Lasts
<1>1. /\ at.step = "port" /\ GoTo("disconnect", 0) /\ ~Mine.valid /\ Mine.fresh
      /\ UNCHANGED <<net, list, since, told>>
  BY DEF switch_get_phy_fd
<1>2. PICK r \in FdData(Cur.phy, Cur.ip, TRUE) :
        /\ Become(r.w)
        /\ IF r.ok THEN LldpSend(Started(Mine, r.slot, r.index, r.w))
           ELSE UNCHANGED port /\ UNCHANGED neighbor
  BY DEF switch_get_phy_fd
<1>3. SwitchType /\ World \in Worlds /\ VlansRead /\ port \in [Port -> Entry]
  BY DEF ServeInv, AgeInv, SwitchType
<1>4. /\ Mine \in Entry /\ Cur.phy \in IfSet /\ Cur.ip \in Ip
      /\ Cur \in Port /\ Cur \in Listed /\ Listed' = Listed /\ Listed \subseteq Port
  BY <1>1, <1>3, CurType, UsesType DEF Listed
<1>5. DOMAIN Uses = Valid /\ DOMAIN Uses \subseteq Port /\ Cur \notin Valid
  <2>1. DOMAIN Uses = Valid /\ Valid \subseteq Port
    BY <1>3, UsesType
  <2>2. Cur \notin Valid
    BY <1>1 DEF Valid, Mine
  <2>3. QED BY <2>1, <2>2
<1>6. /\ r.w \in Worlds /\ r.ok \in BOOLEAN
      /\ r.ok => r.slot \in FdSlot /\ r.index \in 0 .. MAX_NAME_INDEX
  BY <1>3, <1>4, FdDataType
<1>7. World' = r.w /\ g_port_fd' = r.w.g
  <2>1. World' = r.w
    BY <1>2, <1>6, BecomeWorld
  <2>2. QED BY <2>1 DEF World
<1>8. CASE r.ok = FALSE /\ r.w = World
  <2>1. UNCHANGED port /\ UNCHANGED neighbor /\ World' = World
    BY <1>2, <1>7, <1>8
  <2>2. VlansRead' /\ Uses' = Uses
    BY <1>3, <1>4, <2>1 DEF VlansRead, Uses, Valid
  <2>3. QED BY <2>1, <2>2, QuietAges
<1>9. ASSUME NEW s \in FdSlot, NEW n, TakesSlot(Cur, s, n), Slotted(Cur, s, n, r)
      PROVE  AgeInv' /\ Lasts
  <2>1. ASSUME NEW k \in DOMAIN neighbor, neighbor[k].owner # <<>>
        PROVE  /\ neighbor[k].ttl \in 1 .. LLDP_OLD_TIME
               /\ \E q \in Port : Remembered(neighbor[k], k, q, r.w.g, Uses, port)
               /\ k[1] = Cur.name /\ k[2] = n => g_port_fd[s].old_time >= neighbor[k].ttl
    <3> DEFINE x == neighbor[k]
    <3>1. Known(x, k, g_port_fd, Uses, port) /\ x.owner # <<>>
      BY <2>1 DEF AgeInv
    <3> HIDE DEF x
    <3>2. x.ttl \in 1 .. LLDP_OLD_TIME
      BY <3>1 DEF Known
    <3>3. PICK q \in Port : Remembered(x, k, q, g_port_fd, Uses, port)
      BY <3>1 DEF Known
    <3>4. PICK u \in FdSlot : /\ g_port_fd[u].ifindex = q.phy
                              /\ Holders(k, Uses) = {} => g_port_fd[u].old_time >= x.ttl
      BY <3>3 DEF Remembered
    <3>5. q.name = k[1]
      BY <3>3 DEF Remembered
    <3>6. /\ r.w.g[u].ifindex = q.phy
          /\ Holders(k, Uses) = {} => r.w.g[u].old_time >= x.ttl
          /\ k[1] = Cur.name /\ k[2] = n => g_port_fd[s].old_time >= x.ttl
      BY <1>4, <1>9, <3>2, <3>4, <3>5, SlotKeptAge
    <3>7. Remembered(x, k, q, r.w.g, Uses, port)
      BY <3>3, <3>6 DEF Remembered
    <3>8. QED BY <3>2, <3>6, <3>7 DEF x
  <2>2. CASE ~r.ok
    <3>1. UNCHANGED port /\ UNCHANGED neighbor
      BY <1>2, <2>2
    <3>2. VlansRead' /\ Uses' = Uses
      BY <1>3, <1>4, <3>1 DEF VlansRead, Uses, Valid
    <3>3. \A k \in DOMAIN neighbor : Known(neighbor[k], k, r.w.g, Uses, port)
      BY <2>1 DEF Known
    <3>4. \A k \in DOMAIN neighbor' : Known(neighbor'[k], k, g_port_fd', Uses', port')
      BY <1>7, <3>1, <3>2, <3>3
    <3>5. QED BY <3>1, <3>2, <3>4 DEF AgeInv, Lasts
  <2>3. CASE r.ok
    <3> DEFINE e == Started(Mine, r.slot, r.index, r.w)
               old == g_port_fd[s].old_time
    <3>1. r.slot = s /\ r.index = n /\ r.w.g[s].old_time = old /\ r.w.g[s].ifindex = Cur.phy
      BY <1>9, <2>3 DEF Slotted
    <3>2. e \in Entry
      BY <1>4, <1>6, <2>3, StartedType
    <3>3. /\ e.valid = TRUE /\ e.index = s /\ e.name_index = n /\ e.vlan = Mine.vlan
          /\ e.expires = IF old < 0 THEN 0 ELSE old
      <4> DEFINE start == IF r.w.g[s].old_time < 0 THEN 0 ELSE r.w.g[s].old_time
      <4>1. e = [Mine EXCEPT !.valid = TRUE, !.index = s, !.name_index = n, !.expires = start]
        BY <3>1 DEF Started
      <4> HIDE DEF start, e
      <4>2. /\ e.valid = TRUE /\ e.index = s /\ e.name_index = n /\ e.vlan = Mine.vlan
            /\ e.expires = start
        BY <1>4, <4>1 DEF Entry
      <4>3. QED BY <3>1, <4>2 DEF start
    <3>4. old \in Int
      <4>1. World.g = g_port_fd
        BY DEF World
      <4>2. old \in -1 .. Age /\ Age \in Nat
        BY <1>3, <4>1, Ranges DEF Worlds, PortFd
      <4> HIDE DEF old, Age
      <4>3. QED BY <4>2
    <3>5. LldpSend(e)
      BY <1>2, <2>3
    <3> HIDE DEF e, old
    <3>6. ASSUME NEW k \in DOMAIN neighbor, neighbor[k].owner # <<>>, k[1] = Cur.name, k[2] = n
          PROVE  e.expires >= neighbor[k].ttl /\ e.expires # 0
      <4>1. neighbor[k].ttl \in 1 .. LLDP_OLD_TIME /\ old >= neighbor[k].ttl
        BY <2>1, <3>6 DEF old
      <4>2. neighbor[k].ttl \in Nat \ {0}
        BY <4>1, OldEnough
      <4>3. QED BY <3>3, <3>4, <4>1, <4>2
    <3>7. ASSUME NEW x, Set(x), Keeps(x, e), x.vlan = e.vlan
          PROVE  /\ VlansRead' /\ Joins(Uses, Cur, s, n, Uses')
                 /\ \A p \in Port : port'[p] = IF p = Cur THEN x ELSE port[p]
      <4>1. x.valid = TRUE /\ x.index = s /\ x.name_index = n /\ x.vlan = Mine.vlan
        BY <3>3, <3>7 DEF Keeps
      <4>2. VlansRead'
        BY <1>1, <1>3, <3>7, <4>1, VlanKept
      <4>3. Joins(Uses, Cur, x.index, x.name_index, Uses')
        BY <1>1, <1>3, <1>5, <3>7, <4>1, JoinedUses
      <4>4. \A p \in Port : port'[p] = IF p = Cur THEN x ELSE port[p]
        BY <1>3, <3>7 DEF Set
      <4>5. QED BY <4>1, <4>2, <4>3, <4>4
    <3>8. ASSUME NEW x, Set(x), Keeps(x, e), x.vlan = e.vlan,
                 NEW k \in DOMAIN neighbor, neighbor[k].owner # <<>>,
                 k[1] = Cur.name /\ k[2] = n => x.expires >= neighbor[k].ttl
          PROVE  Known(neighbor[k], k, r.w.g, Uses', port')
      <4> DEFINE y == neighbor[k]
      <4>1. /\ Joins(Uses, Cur, s, n, Uses')
            /\ \A p \in Port : port'[p] = IF p = Cur THEN x ELSE port[p]
        BY <3>7, <3>8
      <4>2. y.ttl \in 1 .. LLDP_OLD_TIME
        BY <2>1, <3>8
      <4>3. PICK q \in Port : Remembered(y, k, q, r.w.g, Uses, port)
        BY <2>1, <3>8
      <4>4. ASSUME NEW p \in Holders(k, Uses')
            PROVE  p = q \/ port'[p].expires >= y.ttl
        <5>1. CASE p = Cur
          <6>1. k[1] = Cur.name /\ k[2] = n
            BY <4>1, <5>1 DEF Holders, Joins
          <6>2. QED BY <1>4, <3>8, <4>1, <5>1, <6>1
        <5>2. CASE p # Cur
          <6>1. p \in Holders(k, Uses) /\ p \in Port
            BY <1>5, <4>1, <5>2 DEF Holders, Joins
          <6>2. p = q \/ port[p].expires >= y.ttl
            BY <4>3, <6>1 DEF Remembered
          <6>3. QED BY <4>1, <5>2, <6>1, <6>2
        <5>3. QED BY <5>1, <5>2
      <4>5. Holders(k, Uses') = {} => Holders(k, Uses) = {}
        BY <1>5, <4>1 DEF Holders, Joins
      <4> HIDE DEF y
      <4>6. Remembered(y, k, q, r.w.g, Uses', port')
        BY <4>3, <4>4, <4>5 DEF Remembered
      <4>7. Known(y, k, r.w.g, Uses', port')
        BY <4>2, <4>6 DEF Known
      <4>8. QED BY <4>7 DEF y
    <3>9. CASE Set(e) /\ UNCHANGED neighbor
      <4>1. Keeps(e, e)
        BY DEF Keeps
      <4>2. VlansRead'
        BY <3>7, <3>9, <4>1
      <4>3. \A k \in DOMAIN neighbor : Known(neighbor[k], k, r.w.g, Uses', port')
        BY <3>6, <3>8, <3>9, <4>1 DEF Known
      <4>4. \A k \in DOMAIN neighbor' : Known(neighbor'[k], k, g_port_fd', Uses', port')
        BY <1>7, <3>9, <4>3
      <4>5. QED BY <3>9, <4>2, <4>4 DEF AgeInv, Lasts
    <3>10. ASSUME e.expires = 0, lldp_send(e), NEW x \in Entry, Set(x), Keeps(x, e), x.vlan = e.vlan
           PROVE  AgeInv' /\ Lasts
      <4> DEFINE K == PortId(e)
                 new == [owner |-> <<Cur, e.vlan>>, ttl |-> LLDP_OLD_TIME]
      <4>1. /\ DOMAIN neighbor' = DOMAIN neighbor
            /\ \A k \in DOMAIN neighbor : neighbor'[k] = IF k = K THEN new ELSE neighbor[k]
        BY <3>10, Announced
      <4>2. /\ VlansRead' /\ Joins(Uses, Cur, s, n, Uses')
        BY <3>7, <3>10
      <4>3. K[1] = Cur.name /\ K[2] = n
        BY <3>3 DEF PortId
      <4>4. Holders(K, Uses') = {Cur}
        <5>1. Holders(K, Uses) = {}
          BY <1>4, <1>9, <4>3, NoHolder
        <5> HIDE DEF K
        <5>2. QED BY <1>5, <4>2, <4>3, <5>1 DEF Holders, Joins
      <4>5. e.vlan \in Vlan
        BY <1>1, <1>3, <1>4, <3>3 DEF VlansRead, Mine
      <4>6. Known(new, K, r.w.g, Uses', port')
        BY <1>4, <3>1, <4>3, <4>4, <4>5, SentKnown
      <4> HIDE DEF K, new
      <4>7. ASSUME NEW k \in DOMAIN neighbor, neighbor[k].owner # <<>>
            PROVE  k # K /\ Known(neighbor[k], k, r.w.g, Uses', port')
        <5>1. ~(k[1] = Cur.name /\ k[2] = n)
          BY <3>6, <3>10, <4>7
        <5>2. QED BY <3>8, <3>10, <4>3, <4>7, <5>1
      <4>8. \A k \in DOMAIN neighbor' : Known(neighbor'[k], k, g_port_fd', Uses', port')
        <5>1. \A k \in DOMAIN neighbor : Known(neighbor[k], k, r.w.g, Uses', port')
          BY <4>7 DEF Known
        <5>2. QED BY <1>7, <4>1, <4>6, <5>1
      <4>9. Lasts
        BY <4>1, <4>7 DEF Lasts
      <4>10. QED BY <4>2, <4>8, <4>9 DEF AgeInv
    <3>11. QED BY <3>2, <3>5, <3>9, <3>10, SendCases
  <2>4. QED BY <1>6, <2>2, <2>3
<1>10. QED BY <1>3, <1>4, <1>8, <1>9, FdDataAges

(* Reading the interfaces announces nothing and shortens no wait.          *)
LEMMA RereadAges ==
  ASSUME ServeInv, AgeInv, Reread, UNCHANGED <<fds, neighbor>>,
         Uses' = Uses
  PROVE  AgeInv' /\ Lasts
<1>1. SwitchType /\ World' = World /\ UNCHANGED neighbor
  BY FdsKept DEF ServeInv
<1>2. ASSUME NEW p \in Port
      PROVE  /\ p \in Listed => /\ Seen(p).vlan = port[p].vlan
                                /\ Seen(p).valid = port[p].valid
                                /\ Seen(p).expires = port[p].expires
             /\ p \notin Listed => Seen(p).valid = FALSE
             /\ net[p].vlan \in Vlan
             /\ Read(p, Seen(p)).expires = Seen(p).expires
             /\ Read(p, Seen(p)).vlan \in Vlan
  <2>1. port[p] \in Entry /\ Seen(p) \in Entry /\ net[p].vlan \in Vlan
    BY <1>1, SeenType DEF SwitchType, Net
  <2>2. p \in Listed => /\ Seen(p).vlan = port[p].vlan /\ Seen(p).valid = port[p].valid
                        /\ Seen(p).expires = port[p].expires
    BY <2>1 DEF Seen, Entry
  <2>3. p \notin Listed => Seen(p).valid = FALSE
    BY DEF Seen, NewEntry
  <2>4. QED BY <1>1, <2>1, <2>2, <2>3, ReadType
<1>3. ASSUME NEW p \in Port, NEW x \in PartlyRead(p)
      PROVE  /\ x.expires = Seen(p).expires
             /\ x.fresh = FALSE /\ x.valid = Seen(p).valid
             /\ x.vlan \in {Seen(p).vlan, net[p].vlan}
  BY <1>1, PartlyReadType
<1>4. VlansRead'
  <2>1. ASSUME NEW p \in Listed', port'[p].valid \/ port'[p].fresh
        PROVE  port'[p].vlan \in Vlan
    <3>1. p \in Port
      BY DEF Reread
    <3>2. CASE port'[p] = Read(p, Seen(p))
      BY <1>2, <3>1, <3>2
    <3>3. CASE port'[p] \in PartlyRead(p)
      <4>1. /\ port'[p].fresh = FALSE /\ port'[p].valid = Seen(p).valid
            /\ port'[p].vlan \in {Seen(p).vlan, net[p].vlan}
        BY <1>3, <3>1, <3>3
      <4>2. p \in Listed /\ port[p].valid
        BY <1>2, <2>1, <3>1, <4>1
      <4>3. port[p].vlan \in Vlan
        BY <4>2 DEF AgeInv, VlansRead
      <4>4. QED BY <1>2, <3>1, <4>1, <4>2, <4>3
    <3>4. CASE p \in Listed /\ port'[p] = port[p]
      BY <2>1, <3>4 DEF AgeInv, VlansRead
    <3>5. QED BY <3>2, <3>3, <3>4 DEF Reread
  <2>2. QED BY <2>1 DEF VlansRead
<1>5. \A p \in DOMAIN Uses : port'[p].expires = port[p].expires
  <2>1. \A p \in DOMAIN Uses : p \in Listed /\ p \in Listed' /\ p \in Port
    BY <1>1, UsesType DEF Valid, Reread
  <2>2. QED BY <1>2, <1>3, <2>1 DEF Reread
<1>6. QED BY <1>1, <1>4, <1>5, QuietAges

LEMMA CfgNetInfoAges ==
  ASSUME ServeInv, SwitchType', Bond = {}, AgeInv, snsd_cfg_net_info \/ cfg_net_info_fails
  PROVE  AgeInv' /\ Lasts
<1>1. Uses' = Uses /\ Reread
  BY CfgNetInfoServes, CfgNetInfoFailsServes
<1>2. UNCHANGED <<fds, neighbor>>
  BY DEF snsd_cfg_net_info, cfg_net_info_fails
<1>3. QED BY <1>1, <1>2, RereadAges

(* Steps that leave the ports as they are, or only report a lost link.     *)
LEMMA StillAges ==
  ASSUME ServeInv, AgeInv, UNCHANGED <<fds, list>>, UNCHANGED port, UNCHANGED neighbor
  PROVE  AgeInv' /\ Lasts
<1>1. World' = World /\ Listed' = Listed
  BY FdsKept DEF Listed
<1>2. Uses' = Uses /\ VlansRead'
  BY <1>1 DEF Uses, Valid, AgeInv, VlansRead
<1>3. QED BY <1>1, <1>2, QuietAges

LEMMA HandleDisconnectAges ==
  ASSUME ServeInv, SwitchType', AgeInv, switch_port_handle_disconnect
  PROVE  AgeInv' /\ Lasts
<1> DEFINE off == [Mine EXCEPT !.disconnect = FALSE]
           on == [Mine EXCEPT !.disconnect = TRUE]
<1>1. /\ at.step = "disconnect" /\ UNCHANGED <<fds, list>> /\ UNCHANGED list
      /\ UNCHANGED neighbor
      /\ Set(off) \/ Set(on) \/ UNCHANGED port
  BY DEF switch_port_handle_disconnect
<1>2. SwitchType /\ World' = World /\ Uses' = Uses /\ VlansRead /\ DOMAIN Uses \subseteq Port
  BY <1>1, FdsKept, HandleDisconnectServes, UsesType DEF ServeInv, AgeInv
<1>3. Mine \in Entry /\ Cur \in Port
  BY <1>1, <1>2, CurType
<1>4. /\ off.vlan = Mine.vlan /\ off.expires = Mine.expires
      /\ on.vlan = Mine.vlan /\ on.expires = Mine.expires
      /\ off.valid = Mine.valid /\ off.fresh = Mine.fresh
      /\ on.valid = Mine.valid /\ on.fresh = Mine.fresh
  BY <1>3 DEF Entry
<1> HIDE DEF off, on
<1>5. ASSUME NEW x, Set(x), x.vlan = Mine.vlan, x.expires = Mine.expires,
             x.valid = Mine.valid, x.fresh = Mine.fresh
      PROVE  AgeInv' /\ Lasts
  <2>1. VlansRead'
    BY <1>1, <1>2, <1>5, VlanKept
  <2>2. \A p \in Port : port'[p] = IF p = Cur THEN x ELSE port[p]
    BY <1>2, <1>3, <1>5 DEF Set, SwitchType
  <2>3. \A p \in DOMAIN Uses : port'[p].expires = port[p].expires
    BY <1>2, <1>5, <2>2 DEF Mine
  <2>4. QED BY <1>1, <1>2, <2>1, <2>3, QuietAges
<1>6. QED BY <1>1, <1>4, <1>5, StillAges

(* A port that leaves starts the age of its slot anew: what it announced   *)
(* is forgotten before anyone may start under its id.                      *)
LEMMA LeftAges ==
  ASSUME ServeInv, OneInterface, AgeInv, Cur \in DOMAIN Uses, Leaves(Uses, Cur, Uses'),
         NEW s \in FdSlot, Uses[Cur].slot = s,
         \A u \in FdSlot \ {s} : g_port_fd'[u] = g_port_fd[u],
         g_port_fd'[s].ifindex = g_port_fd[s].ifindex, g_port_fd'[s].old_time = Age,
         \A p \in DOMAIN Uses \ {Cur} : port'[p] = port[p],
         NEW k \in DOMAIN neighbor
  PROVE  Known(neighbor[k], k, g_port_fd', Uses', port')
<1> DEFINE x == neighbor[k]
<1>1. Known(x, k, g_port_fd, Uses, port)
  BY DEF AgeInv
<1> SUFFICES ASSUME x.owner # <<>> PROVE Known(x, k, g_port_fd', Uses', port')
  BY DEF Known
<1> HIDE DEF x
<1>2. x.ttl \in 1 .. LLDP_OLD_TIME
  BY <1>1 DEF Known
<1>3. PICK q \in Port : Remembered(x, k, q, g_port_fd, Uses, port)
  BY <1>1 DEF Known
<1>4. PICK u \in FdSlot : /\ g_port_fd[u].ifindex = q.phy
                          /\ Holders(k, Uses) = {} => g_port_fd[u].old_time >= x.ttl
  BY <1>3 DEF Remembered
<1>5. Age >= x.ttl
  BY <1>2, OldEnough
<1> HIDE DEF Age
<1>6. \A p \in Holders(k, Uses') : p \in Holders(k, Uses) /\ p # Cur
  BY DEF Holders, Leaves
<1>7. \A p \in Holders(k, Uses) : p # Cur => p \in Holders(k, Uses')
  BY DEF Holders, Leaves
<1>8. g_port_fd'[u].ifindex = q.phy
  BY <1>4
<1>9. ASSUME Holders(k, Uses') = {} PROVE g_port_fd'[u].old_time >= x.ttl
  <2>1. CASE Cur \in Holders(k, Uses)
    <3>1. q.name = k[1]
      BY <1>3 DEF Remembered
    <3>2. Cur \in Users(Uses, u)
      BY <1>4, <2>1, <3>1, HolderSlot
    <3>3. u = s
      BY <3>2 DEF Users
    <3>4. QED BY <1>5, <3>3
  <2>2. CASE Cur \notin Holders(k, Uses)
    <3>1. Holders(k, Uses) = {}
      BY <1>7, <1>9, <2>2
    <3>2. QED BY <1>4, <1>5, <3>1
  <2>3. QED BY <2>1, <2>2
<1>10. ASSUME NEW p \in Holders(k, Uses')
       PROVE  p = q \/ port'[p].expires >= x.ttl
  <2>1. p \in Holders(k, Uses) /\ p \in DOMAIN Uses \ {Cur}
    BY <1>6 DEF Holders
  <2>2. p = q \/ port[p].expires >= x.ttl
    BY <1>3, <2>1 DEF Remembered
  <2>3. QED BY <2>1, <2>2
<1>11. Remembered(x, k, q, g_port_fd', Uses', port')
  BY <1>3, <1>8, <1>9, <1>10 DEF Remembered
<1>12. QED BY <1>2, <1>11 DEF Known

LEMMA VanishedAges ==
  ASSUME ServeInv, Bond = {}, OneInterface, AgeInv, port_vanished
  PROVE  AgeInv' /\ Lasts
<1>1. at.step = "port" /\ UNCHANGED neighbor
  BY VanishedCases
<1>2. SwitchType /\ World \in Worlds /\ VlansRead
  BY DEF ServeInv, SwitchType, AgeInv
<1>3. Mine \in Entry /\ Cur \in Port /\ Cur \in Listed /\ Listed \subseteq Port
  BY <1>1, <1>2, CurType, UsesType
<1>4. DOMAIN Uses = Valid /\ DOMAIN Uses \subseteq Port
  BY <1>2, UsesType
<1>5. ASSUME NEW w \in Worlds, Delete(w)
      PROVE  /\ World' = w /\ Leaves(Uses, Cur, Uses') /\ VlansRead'
             /\ \A p \in DOMAIN Uses \ {Cur} : port'[p] = port[p]
  <2>1. /\ World' = w /\ Leaves(Uses, Cur, Uses') /\ Listed' = Listed \ {Cur}
        /\ \A p \in Port : port'[p] = IF p = Cur THEN NewEntry ELSE port[p]
    BY <1>1, <1>2, <1>5, DeletedUses
  <2>2. \A p \in Listed \ {Cur} :
          port'[p].valid \/ port'[p].fresh => port'[p].vlan \in Vlan
    BY <1>2, <1>3, <2>1 DEF VlansRead
  <2>3. VlansRead'
    BY <2>1, <2>2 DEF VlansRead
  <2>4. QED BY <1>4, <2>1, <2>3
<1>6. CASE ~Mine.valid /\ Delete(World)
  <2>1. /\ World' = World /\ Leaves(Uses, Cur, Uses') /\ VlansRead'
        /\ \A p \in DOMAIN Uses \ {Cur} : port'[p] = port[p]
    BY <1>2, <1>5, <1>6
  <2>2. Cur \notin DOMAIN Uses
    BY <1>4, <1>6 DEF Valid, Mine
  <2>3. Uses' = Uses /\ \A p \in DOMAIN Uses : port'[p].expires = port[p].expires
    BY <2>1, <2>2, NothingLeaves
  <2>4. QED BY <1>1, <2>1, <2>3, QuietAges
<1>7. CASE Mine.valid /\ Delete(Left)
  <2> DEFINE s == Mine.index
             l2 == RemoveServerIp(World.l, World.g[s].fd, Cur.ip)
             w1 == [World EXCEPT !.l = l2]
  <2>1. Left \in Worlds
    BY <1>1, <1>2, LeftType
  <2>2. /\ World' = Left /\ Leaves(Uses, Cur, Uses') /\ VlansRead'
        /\ \A p \in DOMAIN Uses \ {Cur} : port'[p] = port[p]
    BY <1>5, <1>7, <2>1
  <2>3. Cur \in DOMAIN Uses /\ Uses[Cur].slot = s
    BY <1>3, <1>4, <1>7 DEF Uses, Valid, Mine
  <2>4. s \in FdSlot
    BY <1>3 DEF Entry
  <2>5. Left = Put(w1, s, Mine.name_index)
    BY DEF Left, World
  <2>6. l2 \in Table
    BY <1>2, RemoveServerIpType DEF Worlds
  <2> HIDE DEF s, l2
  <2>7. w1 \in Worlds /\ w1.g = World.g
    BY <1>2, <2>6 DEF Worlds
  <2> HIDE DEF w1
  <2>8. GivenBack(w1, s, Mine.name_index, World')
    BY <2>2, <2>4, <2>5, <2>7, PutEffect
  <2>9. World.g = g_port_fd /\ World'.g = g_port_fd'
    BY DEF World
  <2>10. /\ \A u \in FdSlot \ {s} : g_port_fd'[u] = g_port_fd[u]
         /\ g_port_fd'[s].ifindex = g_port_fd[s].ifindex
         /\ g_port_fd'[s].old_time = Age
    BY <2>7, <2>8, <2>9 DEF GivenBack
  <2>11. \A k \in DOMAIN neighbor : Known(neighbor[k], k, g_port_fd', Uses', port')
    BY <2>2, <2>3, <2>4, <2>10, LeftAges
  <2>12. \A k \in DOMAIN neighbor' : Known(neighbor'[k], k, g_port_fd', Uses', port')
    BY <1>1, <2>11
  <2>13. QED BY <1>1, <2>2, <2>12 DEF AgeInv, Lasts
<1>8. CASE UNCHANGED <<fds, list, port, told>>
  BY <1>1, <1>8, StillAges
<1>9. QED BY <1>6, <1>7, <1>8, VanishedCases

LEMMA AgeInit == SInit => AgeInv
<1> SUFFICES ASSUME SInit PROVE AgeInv
  OBVIOUS
<1>1. VlansRead
  BY DEF SInit, VlansRead, Listed, ToSet
<1>2. \A k \in DOMAIN neighbor : neighbor[k].owner = <<>>
  BY DEF SInit
<1>3. QED BY <1>1, <1>2 DEF AgeInv, Known

LEMMA AgeNext ==
  ASSUME Bond = {}, EpollMayFail = FALSE, OneVlan, OneInterface, ServeInv, AgeInv, [SNext]_svars
  PROVE  AgeInv' /\ Lasts
<1>1. SwitchType'
  BY SNextType DEF ServeInv
<1>2. CASE UNCHANGED svars
  <2>1. UNCHANGED <<fds, list>> /\ UNCHANGED port /\ UNCHANGED neighbor
    BY <1>2 DEF svars
  <2>2. QED BY <2>1, StillAges
<1>3. CASE Main
  <2>1. CASE port_skip
    <3>1. UNCHANGED <<fds, list>> /\ UNCHANGED port /\ UNCHANGED neighbor
      BY <2>1 DEF port_skip
    <3>2. QED BY <3>1, StillAges
  <2>2. CASE port_valid
    BY <1>1, <2>2, PortValidServes, PortValidAges
  <2>3. QED BY <1>1, <1>3, <2>1, <2>2, NeverSlaves, CfgNetInfoAges, GetPhyFdAges,
            HandleDisconnectAges, VanishedAges DEF Main
<1>4. CASE cfg_net_info_fails
  BY <1>1, <1>4, CfgNetInfoAges
<1>5. CASE Environment
  <2>1. CASE Tick
    BY <1>1, <2>1, TickServes, TickAges
  <2>2. ASSUME NEW p \in Port, appear(p) \/ vanish(p) \/ link(p) \/ enslave(p)
        PROVE  AgeInv' /\ Lasts
    <3>1. \E n : Change(p, n)
      BY <2>2 DEF appear, vanish, link, enslave
    <3>2. UNCHANGED <<fds, list>> /\ UNCHANGED port /\ UNCHANGED neighbor
      BY <3>1 DEF Change
    <3>3. QED BY <3>2, StillAges
  <2>3. QED BY <1>5, <2>1, <2>2 DEF Environment
<1>6. QED BY <1>2, <1>3, <1>4, <1>5 DEF SNext

(* While the fabric switch remembers a port id for one address, no other   *)
(* is announced under it: calc_expires_for_new makes a port wait for what  *)
(* was announced from its slot, and switch_get_fd_info does not give the   *)
(* slot to another interface before.  With one VLAN id; a second one       *)
(* breaks it.                                                              *)
THEOREM AnnouncementsAge ==
  ASSUME Bond = {}, EpollMayFail = FALSE, AddressesApart, OneVlan, OneInterface
  PROVE  SSpec => AnnouncedAfterAging
<1>1. ServeInv /\ AgeInv /\ [SNext]_svars => AgeInv' /\ Lasts
  BY AgeNext
<1>2. SSpec => []ServeInv
  BY ServeInvariant
<1>3. SSpec => [][Lasts]_svars
  BY <1>1, <1>2, AgeInit, PTL DEF SSpec
<1>4. QED BY <1>3 DEF AnnouncedAfterAging, Lasts
-----------------------------------------------------------------------------
(* Bonding devices.  A port is valid without a pending change only when    *)
(* all its slaves have sockets; the pass over the slaves has seen to those *)
(* before its cursor, and works on a port that is not valid or changed.    *)
Socketed(x) == x.fd_valid /\ ~x.deleted

Whole(e) == e.valid /\ ~e.bonding_change => \A i \in DOMAIN e.slave : Socketed(e.slave[i])

Passed(e, j) ==
  /\ e.valid => e.bonding_change
  /\ \A i \in DOMAIN e.slave : i < j => Socketed(e.slave[i])

BondInv ==
  /\ \A p \in Bond : Whole(port[p])
  /\ at.step = "slave" => Passed(Mine, at.j)

(* Entries with the same sockets on the slaves.                            *)
Alike(e2, e) == e2.valid = e.valid /\ e2.bonding_change = e.bonding_change /\ e2.slave = e.slave

LEMMA AlikeWhole ==
  ASSUME NEW e, NEW e2, Alike(e2, e)
  PROVE  /\ Whole(e) => Whole(e2)
         /\ \A j : Passed(e, j) => Passed(e2, j)
BY DEF Alike, Whole, Passed

LEMMA BondPort == Bond \subseteq Port
BY SwitchAssumption

(* One entry is set, and the thread is not among the slaves.               *)
LEMMA SetWhole ==
  ASSUME SwitchType, BondInv, at.step \notin {"idle", "crashed"}, NEW e, Set(e),
         Cur \in Bond => Whole(e)
  PROVE  \A p \in Bond : Whole(port'[p])
<1>1. \A p \in Port : port'[p] = IF p = Cur THEN e ELSE port[p]
  BY CurType DEF Set, SwitchType
<1>2. QED BY <1>1, BondPort DEF BondInv

LEMMA SetAlike ==
  ASSUME SwitchType, BondInv, at.step \notin {"idle", "crashed"}, NEW e, Set(e), Alike(e, Mine)
  PROVE  \A p \in Bond : Whole(port'[p])
<1>1. Cur \in Bond => Whole(e)
  BY AlikeWhole DEF BondInv, Mine
<1>2. QED BY <1>1, SetWhole

(* A step that does not start or continue a pass over slaves.              *)
LEMMA OutsideBond ==
  ASSUME \A p \in Bond : Whole(port'[p]), at'.step # "slave"
  PROVE  BondInv'
<1>1. QED BY DEF BondInv

(* A step that stays in the pass of the current port.                      *)
LEMMA InsideBond ==
  ASSUME \A p \in Bond : Whole(port'[p]), UNCHANGED list, at'.i = at.i,
         Passed(port'[Cur], at'.j)
  PROVE  BondInv'
<1>1. Mine' = port'[Cur]
  BY DEF Mine, Cur
<1>2. QED BY <1>1 DEF BondInv

LEMMA GoToAt ==
  ASSUME SwitchType, NEW step, NEW j, GoTo(step, j)
  PROVE  at'.step = step /\ at'.j = j /\ at'.i = at.i
BY DEF GoTo, SwitchType, AtOK

LEMMA LldpSendAlike ==
  ASSUME NEW e \in Entry, LldpSend(e)
  PROVE  \E x : Set(x) /\ Alike(x, e)
<1> DEFINE x == [e EXCEPT !.expires = LLDP_INTERVAL_CLOCK]
<1>1. Set(x) \/ Set(e)
  BY DEF LldpSend
<1>2. Alike(x, e) /\ Alike(e, e)
  BY DEF Alike, Entry
<1>3. QED BY <1>1, <1>2

LEMMA AnnounceAlike ==
  ASSUME NEW e \in Entry, Announce(e)
  PROVE  \E x : Set(x) /\ Alike(x, e)
<1> DEFINE x == [e EXCEPT !.expires = Age]
<1>1. Set(x) \/ LldpSend(e)
  BY DEF Announce
<1>2. Alike(x, e)
  BY DEF Alike, Entry
<1>3. QED BY <1>1, <1>2, LldpSendAlike

(* Reading the slaves marks every difference as a change.                  *)
LEMMA ReadWhole ==
  ASSUME SwitchType, NEW p \in Port, NEW e \in Entry, Whole(e)
  PROVE  Whole(Read(p, e))
<1> DEFINE n == net[p]
           change == e.vlan # 0 /\ e.vlan # n.vlan
           f == [e EXCEPT !.fresh = TRUE, !.up = n.up, !.vlan = n.vlan, !.vlan_change = change]
           sl == Slaves(e, n.slaves)
           named == n.slaves # {}
           g == [f EXCEPT !.slave = sl, !.names = named, !.bonding_change = TRUE]
<1>1. Read(p, e) = IF p \in Bond /\ ~SameSlaves(e, n.slaves) THEN g ELSE f
  BY DEF Read
<1> HIDE DEF n, change, sl, named
<1>2. Alike(f, e) /\ DOMAIN f = DOMAIN e
  BY DEF Alike, Entry
<1>3. "bonding_change" \in DOMAIN e
  BY DEF Entry
<1> HIDE DEF f
<1>4. g.bonding_change = TRUE
  BY <1>2, <1>3
<1> HIDE DEF g
<1>5. Whole(f) /\ Whole(g)
  BY <1>2, <1>4, AlikeWhole DEF Whole
<1>6. QED BY <1>1, <1>5

LEMMA SeenWhole ==
  ASSUME SwitchType, NEW p \in Port, Whole(port[p])
  PROVE  /\ Whole(Seen(p)) /\ Whole(Read(p, Seen(p)))
         /\ \A x \in PartlyRead(p) : Whole(x)
<1>1. port[p] \in Entry /\ Seen(p) \in Entry
  BY SeenType DEF SwitchType
<1>2. Whole(NewEntry)
  BY DEF Whole, NewEntry
<1>3. Alike([port[p] EXCEPT !.new = FALSE, !.fresh = FALSE], port[p])
  BY <1>1 DEF Alike, Entry
<1>4. Whole(Seen(p))
  BY <1>2, <1>3, AlikeWhole DEF Seen
<1>5. Whole(Read(p, Seen(p)))
  BY <1>1, <1>4, ReadWhole
<1>6. ASSUME NEW x \in PartlyRead(p)
      PROVE  Whole(x)
  <2> DEFINE e == Seen(p)
             n == net[p]
             d == Read(p, e)
             up == [e EXCEPT !.up = n.up]
             read == [d EXCEPT !.fresh = FALSE]
             part(S) == [e EXCEPT !.up = n.up, !.slave = Slaves(e, S), !.names = FALSE,
                                  !.bonding_change = TRUE]
  <2>1. x = e \/ x = up \/ x = read \/ \E S \in SUBSET n.slaves : x = part(S)
    BY DEF PartlyRead
  <2>2. Whole(e) /\ Whole(d) /\ e \in Entry /\ d \in Entry
    BY <1>1, <1>4, <1>5, ReadType
  <2> HIDE DEF e, n, d
  <2>3. Alike(up, e) /\ Alike(read, d)
    BY <2>2 DEF Alike, Entry
  <2>4. \A S \in SUBSET n.slaves : part(S).bonding_change = TRUE
    BY <2>2 DEF Entry
  <2> HIDE DEF up, read, part
  <2>5. Whole(up) /\ Whole(read)
    BY <2>2, <2>3, AlikeWhole
  <2>6. \A S \in SUBSET n.slaves : Whole(part(S))
    BY <2>4 DEF Whole
  <2>7. QED BY <2>1, <2>2, <2>5, <2>6
<1>7. QED BY <1>4, <1>5, <1>6

LEMMA CfgNetInfoBond ==
  ASSUME SwitchType, BondInv, snsd_cfg_net_info
  PROVE  BondInv'
<1> DEFINE here  == {p \in Port : net[p].here}
           entry == [p \in Port |-> IF p \in here THEN Read(p, Seen(p)) ELSE Seen(p)]
           drop  == {p \in here : entry[p].new /\ Fails(p, entry[p])}
           now   == list \o SetToSeq((here \ Listed) \ drop)
           first == [step |-> "port", i |-> 1, j |-> 0, check |-> since >= SWITCH_POLL_INTEVAL]
<1>1. /\ port' = [p \in Port |->
                    CASE p \in drop \/ p \notin here \cup Listed -> NewEntry
                      [] p \in here \ drop /\ Fails(p, entry[p]) -> [entry[p] EXCEPT !.fresh = FALSE]
                      [] OTHER -> entry[p]]
      /\ at' = IF now = <<>> THEN Idle ELSE first
  BY DEF snsd_cfg_net_info
<1>2. at'.step # "slave"
  <2>1. first.step = "port" /\ Idle.step = "idle"
    BY DEF Idle
  <2> HIDE DEF first, now
  <2>2. QED BY <1>1, <2>1
<1>3. ASSUME NEW p \in Port
      PROVE  /\ entry[p] \in Entry
             /\ Whole(port[p]) => Whole(entry[p])
  <2>1. entry[p] = Seen(p) \/ entry[p] = Read(p, Seen(p))
    OBVIOUS
  <2> HIDE DEF entry
  <2>2. Seen(p) \in Entry /\ Read(p, Seen(p)) \in Entry
    BY SeenType, ReadType
  <2>3. QED BY <2>1, <2>2, SeenWhole
<1>4. Whole(NewEntry)
  BY DEF Whole, NewEntry
<1> HIDE DEF entry, drop, here, now
<1>5. ASSUME NEW p \in Bond
      PROVE  Whole(port'[p])
  <2>1. p \in Port /\ Whole(port[p])
    BY BondPort DEF BondInv
  <2>2. entry[p] \in Entry /\ Whole(entry[p])
    BY <1>3, <2>1
  <2> DEFINE x == [entry[p] EXCEPT !.fresh = FALSE]
  <2>3. Alike(x, entry[p])
    BY <2>2 DEF Alike, Entry
  <2>4. Whole(x)
    BY <2>2, <2>3, AlikeWhole
  <2>5. port'[p] = NewEntry \/ port'[p] = x \/ port'[p] = entry[p]
    BY <1>1, <2>1
  <2> HIDE DEF x
  <2>6. QED BY <1>4, <2>2, <2>4, <2>5
<1>6. QED BY <1>2, <1>5, OutsideBond

LEMMA CfgNetInfoFailsBond ==
  ASSUME SwitchType, BondInv, cfg_net_info_fails
  PROVE  BondInv'
<1>1. /\ at.step = "idle" /\ UNCHANGED at
      /\ \A p \in Port : \/ port'[p] = port[p] \/ port'[p] = Read(p, Seen(p))
                         \/ port'[p] \in PartlyRead(p)
  BY CfgNetInfoFailsCases DEF Idle
<1>2. \A p \in Bond : Whole(port'[p])
  BY <1>1, BondPort, SeenWhole DEF BondInv
<1>3. QED BY <1>1, <1>2, OutsideBond

(* Steps of ports outside a pass over slaves.                              *)
LEMMA QuietBond ==
  ASSUME BondInv, UNCHANGED port, at'.step # "slave"
  PROVE  BondInv'
<1>1. \A p \in Bond : Whole(port'[p])
  BY DEF BondInv
<1>2. QED BY <1>1, OutsideBond

LEMMA PortValidBond ==
  ASSUME SwitchType, BondInv, port_valid
  PROVE  BondInv'
<1>1. at.step = "port" /\ Announce(Mine) /\ GoTo("disconnect", 0)
  BY DEF port_valid
<1>2. at'.step # "slave" /\ Mine \in Entry
  BY <1>1, GoToAt, CurType
<1>3. PICK x : Set(x) /\ Alike(x, Mine)
  BY <1>1, <1>2, AnnounceAlike
<1>4. \A p \in Bond : Whole(port'[p])
  BY <1>1, <1>3, SetAlike
<1>5. QED BY <1>2, <1>4, OutsideBond

LEMMA GetPhyFdBond ==
  ASSUME SwitchType, BondInv, switch_get_phy_fd
  PROVE  BondInv'
<1>1. at.step = "port" /\ Cur \notin Bond /\ GoTo("disconnect", 0)
  BY DEF switch_get_phy_fd
<1>2. at'.step # "slave"
  BY <1>1, GoToAt
<1>3. UNCHANGED port \/ \E e : LldpSend(e)
  BY DEF switch_get_phy_fd
<1>4. UNCHANGED port \/ \E e : Set(e)
  BY <1>3 DEF LldpSend
<1>5. CASE UNCHANGED port
  BY <1>2, <1>5, QuietBond
<1>6. ASSUME NEW e, Set(e) PROVE BondInv'
  <2>1. \A p \in Bond : Whole(port'[p])
    BY <1>1, <1>6, SetWhole
  <2>2. QED BY <1>2, <2>1, OutsideBond
<1>7. QED BY <1>4, <1>5, <1>6

LEMMA GetBondingPhyFdBond ==
  ASSUME SwitchType, BondInv, switch_get_bonding_phy_fd
  PROVE  BondInv'
<1> DEFINE s == SlotFor(Cur.phy)
           n == IndexFor(s, Cur.phy, TRUE)
           e == [Mine EXCEPT !.index = s, !.name_index = n]
<1>1. /\ at.step = "port" /\ ~Mine.valid /\ UNCHANGED list
      /\ \/ GoTo("disconnect", 0) /\ UNCHANGED port
         \/ GoTo("slave", 1) /\ Set(e)
  BY DEF switch_get_bonding_phy_fd
<1>2. CASE GoTo("disconnect", 0) /\ UNCHANGED port
  <2>1. at'.step # "slave"
    BY <1>2, GoToAt
  <2>2. QED BY <1>2, <2>1, QuietBond
<1>3. CASE GoTo("slave", 1) /\ Set(e)
  <2>1. Mine \in Entry /\ Cur \in Port
    BY <1>1, CurType
  <2> HIDE DEF s, n
  <2>2. Alike(e, Mine)
    BY <2>1 DEF Alike, Entry
  <2> HIDE DEF e
  <2>3. \A p \in Bond : Whole(port'[p])
    BY <1>1, <1>3, <2>2, SetAlike
  <2>4. at'.i = at.i /\ at'.j = 1
    BY <1>3, GoToAt
  <2>5. Passed(Mine, 1)
    <3>1. Mine.slave \in Seq(Slave)
      BY <2>1 DEF Entry
    <3>2. \A i \in DOMAIN Mine.slave : ~(i < 1)
      BY <3>1
    <3>3. QED BY <1>1, <3>2 DEF Passed
  <2>6. port'[Cur] = e
    BY <1>3, <2>1 DEF Set, SwitchType
  <2>7. Passed(port'[Cur], at'.j)
    BY <2>2, <2>4, <2>5, <2>6, AlikeWhole
  <2>8. QED BY <1>1, <2>3, <2>4, <2>7, InsideBond
<1>4. QED BY <1>1, <1>2, <1>3

LEMMA BondingChangeBond ==
  ASSUME SwitchType, BondInv, port_bonding_change
  PROVE  BondInv'
<1>1. /\ at.step = "port" /\ Mine.bonding_change /\ UNCHANGED list /\ UNCHANGED port
      /\ GoTo("slave", 1)
  BY DEF port_bonding_change
<1>2. at'.i = at.i /\ at'.j = 1 /\ Mine \in Entry
  BY <1>1, GoToAt, CurType
<1>3. Passed(Mine, 1)
  <2>1. Mine.slave \in Seq(Slave)
    BY <1>2 DEF Entry
  <2>2. \A i \in DOMAIN Mine.slave : ~(i < 1)
    BY <2>1
  <2>3. QED BY <1>1, <2>2 DEF Passed
<1>4. \A p \in Bond : Whole(port'[p])
  BY <1>1 DEF BondInv
<1>5. Passed(port'[Cur], at'.j)
  BY <1>1, <1>2, <1>3 DEF Mine
<1>6. QED BY <1>1, <1>2, <1>4, <1>5, InsideBond

(* The pass goes on with slaves rest, of which those before j are done.    *)
LEMMA PassGoesOn ==
  ASSUME SwitchType, BondInv, at.step = "slave", UNCHANGED list, at'.i = at.i,
         NEW rest, Set([Mine EXCEPT !.slave = rest]),
         \A i \in DOMAIN rest : i < at'.j => Socketed(rest[i])
  PROVE  BondInv'
<1> DEFINE e == [Mine EXCEPT !.slave = rest]
<1>1. Mine \in Entry /\ Cur \in Port
  BY CurType
<1>2. e.valid = Mine.valid /\ e.bonding_change = Mine.bonding_change /\ e.slave = rest
  BY <1>1 DEF Entry
<1>3. Mine.valid => Mine.bonding_change
  BY DEF BondInv, Passed
<1> HIDE DEF e
<1>4. Whole(e) /\ Passed(e, at'.j)
  BY <1>2, <1>3 DEF Whole, Passed
<1>5. Set(e)
  BY DEF e
<1>6. \A p \in Bond : Whole(port'[p])
  BY <1>4, <1>5, SetWhole
<1>7. port'[Cur] = e
  BY <1>1, <1>5 DEF Set, SwitchType
<1>8. QED BY <1>4, <1>6, <1>7, InsideBond

LEMMA SlaveGoneBond ==
  ASSUME SwitchType, BondInv, slave_gone
  PROVE  BondInv'
<1> DEFINE rest == RemoveAt(Mine.slave, at.j)
<1>1. /\ at.step = "slave" /\ at.j <= Len(Mine.slave)
      /\ Set([Mine EXCEPT !.slave = rest]) /\ UNCHANGED list /\ UNCHANGED at
  BY DEF slave_gone
<1>2. at.j \in 1 .. Len(Mine.slave) /\ Mine.slave \in Seq(Slave) /\ Len(Mine.slave) \in Nat
  BY <1>1, SlaveAt
<1>3. /\ rest \in Seq(Slave) /\ Len(rest) = Len(Mine.slave) - 1
      /\ \A i \in 1 .. Len(Mine.slave) - 1 :
           rest[i] = IF i < at.j THEN Mine.slave[i] ELSE Mine.slave[i + 1]
  BY <1>2, RemoveAtIndices
<1> HIDE DEF rest
<1>4. \A i \in DOMAIN rest : i < at.j => i \in DOMAIN Mine.slave /\ rest[i] = Mine.slave[i]
  BY <1>2, <1>3
<1>5. \A i \in DOMAIN rest : i < at'.j => Socketed(rest[i])
  BY <1>1, <1>4 DEF BondInv, Passed
<1>6. QED BY <1>1, <1>5, PassGoesOn

LEMMA SlaveKeptBond ==
  ASSUME SwitchType, BondInv, slave_kept
  PROVE  BondInv'
<1>1. /\ at.step = "slave" /\ at.j <= Len(Mine.slave) /\ Socketed(Mine.slave[at.j])
      /\ UNCHANGED list /\ UNCHANGED port /\ GoTo("slave", at.j + 1)
  BY DEF slave_kept, Socketed
<1>2. at.j \in Nat /\ Mine.slave \in Seq(Slave) /\ at'.i = at.i /\ at'.j = at.j + 1
  BY <1>1, SlaveAt, GoToAt
<1>3. Passed(Mine, at.j)
  BY <1>1 DEF BondInv
<1>4. ASSUME NEW i \in DOMAIN Mine.slave, i < at.j + 1
      PROVE  Socketed(Mine.slave[i])
  <2>1. i = at.j \/ i < at.j
    BY <1>2, <1>4
  <2>2. QED BY <1>1, <1>3, <2>1 DEF Passed
<1>5. Passed(port'[Cur], at'.j)
  BY <1>1, <1>2, <1>3, <1>4 DEF Passed, Mine
<1>6. \A p \in Bond : Whole(port'[p])
  BY <1>1 DEF BondInv
<1>7. QED BY <1>1, <1>2, <1>5, <1>6, InsideBond

LEMMA SlaveNewBond ==
  ASSUME SwitchType, BondInv, slave_new
  PROVE  BondInv'
<1> DEFINE sl == Mine.slave[at.j]
<1>1. /\ at.step = "slave" /\ at.j <= Len(Mine.slave) /\ ~sl.deleted /\ UNCHANGED list
      /\ \/ GoTo("disconnect", 0) /\ UNCHANGED port
         \/ /\ GoTo("slave", at.j + 1)
            /\ \E slot : Set([Mine EXCEPT !.slave[at.j].index = slot,
                                          !.slave[at.j].fd_valid = TRUE])
  BY DEF slave_new
<1>2. CASE GoTo("disconnect", 0) /\ UNCHANGED port
  <2>1. at'.step # "slave"
    BY <1>2, GoToAt
  <2>2. QED BY <1>2, <2>1, QuietBond
<1>3. ASSUME GoTo("slave", at.j + 1),
             NEW slot, Set([Mine EXCEPT !.slave[at.j].index = slot,
                                        !.slave[at.j].fd_valid = TRUE])
      PROVE  BondInv'
  <2> DEFINE x == [sl EXCEPT !.index = slot, !.fd_valid = TRUE]
             more == [Mine.slave EXCEPT ![at.j] = x]
  <2>1. /\ at.j \in 1 .. Len(Mine.slave) /\ Mine.slave \in Seq(Slave) /\ sl \in Slave
        /\ Mine \in Entry /\ at.j \in Nat
    BY <1>1, SlaveAt, CurType DEF SwitchType, AtOK
  <2>2. [Mine EXCEPT !.slave[at.j].index = slot, !.slave[at.j].fd_valid = TRUE]
          = [Mine EXCEPT !.slave = more]
    BY <2>1 DEF Entry
  <2>3. x.fd_valid = TRUE /\ x.deleted = sl.deleted
    BY <2>1 DEF Slave
  <2>4. Socketed(x)
    BY <1>1, <2>3 DEF Socketed
  <2> HIDE DEF x
  <2>5. /\ DOMAIN more = DOMAIN Mine.slave
        /\ \A i \in DOMAIN more : more[i] = IF i = at.j THEN x ELSE Mine.slave[i]
    BY <2>1
  <2> HIDE DEF more
  <2>6. at'.i = at.i /\ at'.j = at.j + 1
    BY <1>3, GoToAt
  <2>7. \A i \in DOMAIN more : i \in Nat
    BY <2>1, <2>5
  <2>8. \A i \in DOMAIN more : i < at'.j => i = at.j \/ i < at.j
    BY <2>1, <2>6, <2>7
  <2>9. \A i \in DOMAIN more : i < at'.j => Socketed(more[i])
    BY <1>1, <2>4, <2>5, <2>8 DEF BondInv, Passed
  <2>10. Set([Mine EXCEPT !.slave = more])
    BY <1>3, <2>2
  <2>11. QED BY <1>1, <2>6, <2>9, <2>10, PassGoesOn
<1>4. QED BY <1>1, <1>2, <1>3

LEMMA SlavesDoneBond ==
  ASSUME SwitchType, BondInv, slaves_done
  PROVE  BondInv'
<1> DEFINE e == [Mine EXCEPT !.bonding_change = FALSE]
           started == Started(e, e.index, e.name_index, World)
<1>1. /\ at.step = "slave" /\ at.j > Len(Mine.slave) /\ GoTo("disconnect", 0)
      /\ Announce(e) \/ LldpSend(started)
  BY DEF slaves_done
<1>2. Mine \in Entry /\ at'.step # "slave" /\ at.j \in Nat
  BY <1>1, CurType, GoToAt DEF SwitchType, AtOK
<1>3. e \in Entry /\ e.slave = Mine.slave
  BY <1>2 DEF Entry
<1> HIDE DEF e
<1>4. started \in Entry /\ started.slave = e.slave
  <2>1. e.index \in FdSlot /\ e.name_index \in 0 .. MAX_NAME_INDEX
    BY <1>3 DEF Entry
  <2>2. started \in Entry
    BY <1>3, <2>1, StartedType DEF SwitchType
  <2>3. started.slave = e.slave
    BY <1>3 DEF Started, Entry
  <2>4. QED BY <2>2, <2>3
<1> HIDE DEF started
<1>5. \A i \in DOMAIN Mine.slave : Socketed(Mine.slave[i])
  <2>1. Mine.slave \in Seq(Slave)
    BY <1>2 DEF Entry
  <2>2. \A i \in DOMAIN Mine.slave : i < at.j
    BY <1>1, <1>2, <2>1
  <2>3. QED BY <1>1, <2>2 DEF BondInv, Passed
<1>6. \E x : Set(x) /\ (Alike(x, e) \/ Alike(x, started))
  BY <1>1, <1>3, <1>4, AnnounceAlike, LldpSendAlike
<1>7. PICK x : Set(x) /\ x.slave = Mine.slave
  BY <1>3, <1>4, <1>6 DEF Alike
<1>8. Whole(x)
  BY <1>5, <1>7 DEF Whole
<1>9. \A p \in Bond : Whole(port'[p])
  BY <1>1, <1>7, <1>8, SetWhole
<1>10. QED BY <1>2, <1>9, OutsideBond

LEMMA HandleDisconnectBond ==
  ASSUME SwitchType, BondInv, switch_port_handle_disconnect
  PROVE  BondInv'
<1> DEFINE off == [Mine EXCEPT !.disconnect = FALSE]
           on == [Mine EXCEPT !.disconnect = TRUE]
<1>1. /\ at.step = "disconnect" /\ NextPort(at.i + 1, Len(list))
      /\ Set(off) \/ Set(on) \/ UNCHANGED port
  BY DEF switch_port_handle_disconnect
<1>2. at'.step # "slave" /\ Mine \in Entry
  BY <1>1, NextPortStep, CurType
<1>3. Alike(off, Mine) /\ Alike(on, Mine)
  BY <1>2 DEF Alike, Entry
<1> HIDE DEF off, on
<1>4. CASE UNCHANGED port
  BY <1>2, <1>4, QuietBond
<1>5. CASE Set(off) \/ Set(on)
  <2>1. \A p \in Bond : Whole(port'[p])
    BY <1>1, <1>3, <1>5, SetAlike
  <2>2. QED BY <1>2, <2>1, OutsideBond
<1>6. QED BY <1>1, <1>4, <1>5

LEMMA DeleteBond ==
  ASSUME SwitchType, BondInv, at.step \notin {"idle", "crashed"}, NEW w, Delete(w)
  PROVE  BondInv'
<1>1. at'.step # "slave" /\ Set(NewEntry)
  BY NextPortStep DEF Delete
<1>2. Whole(NewEntry)
  BY DEF Whole, NewEntry
<1>3. \A p \in Bond : Whole(port'[p])
  BY <1>1, <1>2, SetWhole
<1>4. QED BY <1>1, <1>3, OutsideBond

LEMMA LeavingBond ==
  ASSUME SwitchType, BondInv, port_vanished \/ free_slave
  PROVE  BondInv'
<1>1. /\ at.step \in {"port", "free"}
      /\ \/ \E w : Delete(w)
         \/ UNCHANGED port /\ \E j : GoTo("free", j)
         \/ UNCHANGED port /\ NextPort(at.i + 1, Len(list))
  <2>1. CASE port_vanished
    BY <2>1, VanishedCases
  <2>2. CASE free_slave
    BY <2>2 DEF free_slave
  <2>3. QED BY <2>1, <2>2
<1>2. QED BY <1>1, DeleteBond, GoToAt, NextPortStep, QuietBond

LEMMA TickBond ==
  ASSUME SwitchType, BondInv, Tick
  PROVE  BondInv'
<1>1. /\ at.step = "idle" /\ UNCHANGED at
      /\ port' = [p \in Port |-> [port[p] EXCEPT !.expires = Down(@, 0)]]
  BY DEF Tick, Idle
<1>2. \A p \in Port : Alike(port'[p], port[p])
  BY <1>1 DEF SwitchType, Alike, Entry
<1>3. \A p \in Bond : Whole(port'[p])
  BY <1>2, BondPort, AlikeWhole DEF BondInv
<1>4. QED BY <1>1, <1>3, OutsideBond

LEMMA BondInit == SInit => BondInv
<1> SUFFICES ASSUME SInit PROVE BondInv
  OBVIOUS
<1>1. at.step = "idle" /\ \A p \in Port : port[p] = NewEntry
  BY DEF SInit, Idle
<1>2. Whole(NewEntry)
  BY DEF Whole, NewEntry
<1>3. QED BY <1>1, <1>2, BondPort DEF BondInv

LEMMA BondNext ==
  ASSUME SwitchType, BondInv, [SNext]_svars
  PROVE  BondInv'
<1>1. CASE UNCHANGED svars
  BY <1>1 DEF svars, BondInv, Mine, Cur
<1>2. CASE Main
  <2>1. CASE verify_slave_null
    <3>1. UNCHANGED port /\ at'.step # "slave"
      BY <2>1 DEF verify_slave_null, Crashed, Idle
    <3>2. QED BY <3>1, QuietBond
  <2>2. CASE port_skip
    <3>1. UNCHANGED port /\ GoTo("disconnect", 0)
      BY <2>2 DEF port_skip
    <3>2. QED BY <3>1, GoToAt, QuietBond
  <2>3. QED
    BY <1>2, <2>1, <2>2, CfgNetInfoBond, PortValidBond, GetPhyFdBond, GetBondingPhyFdBond,
       BondingChangeBond, SlaveGoneBond, SlaveKeptBond, SlaveNewBond, SlavesDoneBond,
       HandleDisconnectBond, LeavingBond DEF Main
<1>3. CASE cfg_net_info_fails
  BY <1>3, CfgNetInfoFailsBond
<1>4. CASE Environment
  <2>1. CASE Tick
    BY <2>1, TickBond
  <2>2. ASSUME NEW p \in Port, appear(p) \/ vanish(p) \/ link(p) \/ enslave(p)
        PROVE  BondInv'
    <3>1. UNCHANGED port /\ UNCHANGED at /\ at = Idle
      BY <2>2 DEF appear, vanish, link, enslave, Change
    <3>2. at'.step # "slave"
      BY <3>1 DEF Idle
    <3>3. QED BY <3>1, <3>2, QuietBond
  <2>3. QED BY <1>4, <2>1, <2>2 DEF Environment
<1>5. QED BY <1>1, <1>2, <1>3, <1>4 DEF SNext

(* A bonding port in service whose slaves did not change since has a       *)
(* socket on each of them: a pass of switch_get_bonding_fd that fails at   *)
(* some slave leaves the port invalid or its change pending, so that a     *)
(* later pass completes it.                                                *)
THEOREM BondsComplete == SSpec => []BondComplete
<1>1. BondInv => BondComplete
  BY DEF BondInv, Whole, Socketed, BondComplete, Serving
<1>2. SwitchType /\ [SNext]_svars => SwitchType'
  BY SNextType
<1>3. SwitchType /\ BondInv /\ [SNext]_svars => BondInv'
  BY BondNext
<1>4. QED BY <1>1, <1>2, <1>3, SInitType, BondInit, PTL DEF SSpec
=============================================================================
