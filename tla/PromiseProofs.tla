--------------------------- MODULE PromiseProofs ---------------------------
(***************************************************************************)
(* Proof that the engine keeps what Requests promises, in two parts.       *)
(*                                                                         *)
(* Two tasks the static peons compare with each other never both run       *)
(* alive.  The judge tells tasks apart by their serial numbers and lets a  *)
(* task run beside one with the same number, so the proof is about who may *)
(* have which number: a connect shares its number with no other task,      *)
(* although a batch shares its own with the disconnects it makes.          *)
(*                                                                         *)
(* Every step of the engine is then one on the requests or none.  What a   *)
(* list gives to the requests is the set of its live tasks' keys and       *)
(* numbers (LiveIds); there is one lemma for each way a list changes and   *)
(* one for each action.                                                    *)
(***************************************************************************)
EXTENDS PeonProofs

Sns(s)      == {t.sn : t \in ToSet(s)}
Distinct(s) == \A i, j \in 1 .. Len(s) : s[i].sn = s[j].sn => i = j

(* The numbers of connects, and of disconnects and batches, in the lists.  *)
ConnectSns    == Sns(wait["CONNECT"]) \cup Sns(proc["CONNECT"])
DisconnectSns == Sns(wait["DISCONN"]) \cup Sns(proc["DISCONN"])
                   \cup Sns(wait["DCBATCH"]) \cup Sns(proc["DCBATCH"])

(* No two connects in the lists have the same number.                      *)
ConnectsDistinct ==
  /\ Distinct(wait["CONNECT"]) /\ Distinct(proc["CONNECT"])
  /\ Sns(wait["CONNECT"]) \cap Sns(proc["CONNECT"]) = {}

(* Numbers of connects and of disconnects are apart, and have been drawn.  *)
SnsApart ==
  /\ ConnectSns \cap DisconnectSns = {}
  /\ \A n \in ConnectSns \cup DisconnectSns : n <= sn

(* A request that is not queued yet has a number of its own.               *)
SnsDrawn ==
  /\ \A c \in Caller : adding[c] # NoRequest =>
       /\ adding[c].task.sn <= sn
       /\ adding[c].task.sn \notin ConnectSns \cup DisconnectSns
  /\ \A c, e \in Caller :
       adding[c] # NoRequest /\ adding[e] # NoRequest
         /\ adding[c].task.sn = adding[e].task.sn => c = e

(* Live running tasks that are compared have the same list and number.     *)
RunsApart ==
  \A p, q \in StaticPeon : \A t \in ToSet(proc[p]) : \A u \in ToSet(proc[q]) :
    /\ t.state = "LIVE" /\ u.state = "LIVE"
    /\ task_match(u, t, Compare(p, q))
    => p = q /\ t.sn = u.sn

ExclusiveInv ==
  /\ ConnectsDistinct /\ SnsApart /\ SnsDrawn /\ RunsApart
  /\ ToSet(proc["RECHECK"]) = {}
-----------------------------------------------------------------------------
(* The numbers of a list, by position.                                     *)
LEMMA SnsByIndex ==
  ASSUME NEW s \in Seq(Task)
  PROVE  \A n : n \in Sns(s) <=> \E i \in 1 .. Len(s) : n = s[i].sn
BY ListDomain DEF Sns, ToSet

(* A list whose entries change in place and keep their numbers.            *)
LEMMA SameSns ==
  ASSUME NEW s \in Seq(Task), NEW m \in Seq(Task), Len(m) = Len(s),
         \A i \in 1 .. Len(s) : m[i].sn = s[i].sn
  PROVE  Sns(m) = Sns(s) /\ (Distinct(s) => Distinct(m))
<1>1. \A n : n \in Sns(m) <=> n \in Sns(s)
  BY SnsByIndex
<1>2. Sns(m) = Sns(s)
  BY <1>1
<1>3. Distinct(s) => Distinct(m)
  BY DEF Distinct
<1>4. QED BY <1>2, <1>3

(* A list that loses an entry loses its number, if it had it once.         *)
LEMMA RemovedSns ==
  ASSUME NEW s \in Seq(Task), NEW k \in 1 .. Len(s)
  PROVE  /\ Sns(RemoveAt(s, k)) \subseteq Sns(s)
         /\ Distinct(s) => Distinct(RemoveAt(s, k)) /\ s[k].sn \notin Sns(RemoveAt(s, k))
<1> DEFINE r == RemoveAt(s, k)
<1>1. /\ r \in Seq(Task) /\ Len(r) = Len(s) - 1 /\ ToSet(r) \subseteq ToSet(s)
      /\ Len(s) \in Nat
  BY RemoveAtProperties, ListDomain
<1>2. \A j \in 1 .. Len(s) - 1 : r[j] = IF j < k THEN s[j] ELSE s[j + 1]
  BY RemoveAtIndices
<1> HIDE DEF r
<1>3. Sns(r) \subseteq Sns(s)
  BY <1>1 DEF Sns
<1>4. ASSUME Distinct(s)
      PROVE  Distinct(r) /\ s[k].sn \notin Sns(r)
  <2> DEFINE at(j) == IF j < k THEN j ELSE j + 1
  <2>1. \A j \in 1 .. Len(s) - 1 : at(j) \in 1 .. Len(s) /\ at(j) # k /\ r[j] = s[at(j)]
    BY <1>1, <1>2
  <2>2. \A i, j \in 1 .. Len(s) - 1 : at(i) = at(j) => i = j
    OBVIOUS
  <2> HIDE DEF at
  <2>3. Distinct(r)
    BY <1>1, <1>4, <2>1, <2>2 DEF Distinct
  <2>4. s[k].sn \notin Sns(r)
    <3>1. SUFFICES ASSUME s[k].sn \in Sns(r) PROVE FALSE
      OBVIOUS
    <3>2. PICK j \in 1 .. Len(s) - 1 : s[k].sn = r[j].sn
      BY <1>1, <3>1, SnsByIndex
    <3>3. s[k].sn = s[at(j)].sn /\ at(j) \in 1 .. Len(s) /\ at(j) # k
      BY <2>1, <3>2
    <3>4. QED BY <1>4, <3>3 DEF Distinct
  <2>5. QED BY <2>3, <2>4
<1>5. QED BY <1>3, <1>4 DEF r

(* A list that gains an entry gains its number.                            *)
LEMMA AppendedSns ==
  ASSUME NEW s \in Seq(Task), NEW t \in Task
  PROVE  /\ Sns(Append(s, t)) = Sns(s) \cup {t.sn}
         /\ Distinct(s) /\ t.sn \notin Sns(s) => Distinct(Append(s, t))
<1> DEFINE a == Append(s, t)
<1>1. /\ a \in Seq(Task) /\ Len(a) = Len(s) + 1 /\ ToSet(a) = ToSet(s) \cup {t}
  BY AppendedProperties
<1>2. Len(s) \in Nat /\ (\A i \in 1 .. Len(s) : a[i] = s[i]) /\ a[Len(s) + 1] = t
  OBVIOUS
<1> HIDE DEF a
<1>3. Sns(a) = Sns(s) \cup {t.sn}
  BY <1>1 DEF Sns
<1>4. ASSUME Distinct(s), t.sn \notin Sns(s) PROVE Distinct(a)
  <2>1. \A i \in 1 .. Len(s) : s[i].sn # t.sn
    BY <1>4, SnsByIndex
  <2>2. \A i \in 1 .. Len(s) + 1 : i = Len(s) + 1 \/ i \in 1 .. Len(s)
    BY <1>2
  <2>3. QED BY <1>1, <1>2, <1>4, <2>1, <2>2 DEF Distinct
<1>5. QED BY <1>3, <1>4 DEF a
-----------------------------------------------------------------------------
(* No running task comes to life, and none gets another key or number.     *)
NoneStarts ==
  /\ ToSet(proc'["RECHECK"]) = {}
  /\ \A p \in StaticPeon : \A u \in ToSet(proc'[p]) : u.state = "LIVE" =>
       \E v \in ToSet(proc[p]) : v.state = "LIVE" /\ v.key = u.key /\ v.sn = u.sn

LEMMA RunsStayApart ==
  ASSUME RunsApart, NoneStarts
  PROVE  RunsApart'
<1> SUFFICES ASSUME NEW p \in StaticPeon, NEW q \in StaticPeon,
                    NEW t \in ToSet(proc'[p]), NEW u \in ToSet(proc'[q]),
                    t.state = "LIVE", u.state = "LIVE", task_match(u, t, Compare(p, q))
             PROVE  p = q /\ t.sn = u.sn
  BY DEF RunsApart
<1>1. PICK v \in ToSet(proc[p]) : v.state = "LIVE" /\ v.key = t.key /\ v.sn = t.sn
  BY DEF NoneStarts
<1>2. PICK w \in ToSet(proc[q]) : w.state = "LIVE" /\ w.key = u.key /\ w.sn = u.sn
  BY DEF NoneStarts
<1>3. task_match(w, v, Compare(p, q))
  BY <1>1, <1>2 DEF task_match
<1>4. QED BY <1>1, <1>2, <1>3 DEF RunsApart

(* A step that puts no number into the lists and starts no task.           *)
LEMMA NoNewSn ==
  ASSUME TypeOK, ExclusiveInv, ConnectsDistinct', NoneStarts, NoRequestAdded,
         ConnectSns' \subseteq ConnectSns, DisconnectSns' \subseteq DisconnectSns,
         sn' = sn
  PROVE  ExclusiveInv'
<1>1. RunsApart' /\ ToSet(proc'["RECHECK"]) = {}
  BY RunsStayApart DEF ExclusiveInv, NoneStarts
<1>2. SnsApart'
  BY DEF ExclusiveInv, SnsApart
<1>3. SnsDrawn'
  BY DEF ExclusiveInv, SnsDrawn, NoRequestAdded
<1>4. QED BY <1>1, <1>2, <1>3 DEF ExclusiveInv

(* A step that leaves keys, numbers and states of all listed tasks alone.  *)
LEMMA ListsUnchanged ==
  ASSUME PeonInv, ExclusiveInv, UNCHANGED <<sn, proc>>, NoRequestAdded,
         \A p \in {"CONNECT", "DISCONN", "DCBATCH"} : wait'[p] = wait[p]
  PROVE  ExclusiveInv'
<1>1. ConnectsDistinct' /\ ConnectSns' = ConnectSns /\ DisconnectSns' = DisconnectSns
  BY DEF ExclusiveInv, ConnectsDistinct, ConnectSns, DisconnectSns
<1>2. NoneStarts
  BY DEF ExclusiveInv, NoneStarts
<1>3. QED BY <1>1, <1>2, NoNewSn DEF PeonInv

(* The numbers in the lists are numbers, and no larger than the last one   *)
(* drawn.                                                                  *)
LEMMA SnsTyped ==
  ASSUME TypeOK
  PROVE  /\ sn \in Nat /\ ConnectSns \subseteq Nat /\ DisconnectSns \subseteq Nat
         /\ \A p \in StaticPeon : wait[p] \in Seq(Task) /\ proc[p] \in Seq(Task)
<1>1. \A p \in StaticPeon : wait[p] \in Seq(Task) /\ proc[p] \in Seq(Task)
  BY DEF TypeOK, Peon
<1>2. ASSUME NEW s \in Seq(Task) PROVE Sns(s) \subseteq Nat
  <2>1. ToSet(s) \subseteq Task
    BY ToSetInT
  <2>2. \A t \in Task : t.sn \in Nat
    BY DEF Task
  <2>3. QED BY <2>1, <2>2 DEF Sns
<1>3. QED BY <1>1, <1>2 DEF TypeOK, ConnectSns, DisconnectSns, StaticPeon

(* A step that puts one number into the lists: a connect gets one that     *)
(* nobody has, a disconnect one that no connect has.                       *)
LEMMA OneNewSn ==
  ASSUME TypeOK, ExclusiveInv, ConnectsDistinct', NoneStarts, NoRequestAdded,
         NEW n \in Nat, sn' \in Nat, sn <= sn', n <= sn', n \notin ConnectSns,
         \/ /\ ConnectSns' \subseteq ConnectSns \cup {n} /\ n \notin DisconnectSns
            /\ DisconnectSns' \subseteq DisconnectSns
         \/ /\ ConnectSns' \subseteq ConnectSns
            /\ DisconnectSns' \subseteq DisconnectSns \cup {n},
         \A c \in Caller : adding'[c] # NoRequest => adding'[c].task.sn # n
  PROVE  ExclusiveInv'
<1>1. RunsApart' /\ ToSet(proc'["RECHECK"]) = {}
  BY RunsStayApart DEF ExclusiveInv, NoneStarts
<1>2. SnsApart'
  <2>1. ConnectSns' \cap DisconnectSns' = {}
    BY DEF ExclusiveInv, SnsApart
  <2>2. ASSUME NEW k \in ConnectSns' \cup DisconnectSns' PROVE k <= sn'
    <3>1. CASE k = n
      BY <3>1
    <3>2. CASE k \in ConnectSns \cup DisconnectSns
      <4>1. k \in Nat /\ k <= sn /\ sn \in Nat
        BY <3>2, SnsTyped DEF ExclusiveInv, SnsApart
      <4>2. QED BY <4>1
    <3>3. QED BY <2>2, <3>1, <3>2
  <2>3. QED BY <2>1, <2>2 DEF SnsApart
<1>3. SnsDrawn'
  <2>1. ASSUME NEW c \in Caller, adding'[c] # NoRequest
        PROVE  adding'[c].task.sn <= sn'
               /\ adding'[c].task.sn \notin ConnectSns' \cup DisconnectSns'
    <3>1. adding'[c] = adding[c] /\ adding[c] # NoRequest
      BY <2>1 DEF NoRequestAdded
    <3>2. adding[c].task.sn <= sn /\ adding[c].task.sn \notin ConnectSns \cup DisconnectSns
      BY <3>1 DEF ExclusiveInv, SnsDrawn
    <3>3. adding[c].task.sn \in Nat /\ sn \in Nat
      BY <3>1 DEF TypeOK, Request, Task
    <3>4. adding[c].task.sn <= sn'
      BY <3>2, <3>3
    <3>5. QED BY <2>1, <3>1, <3>2, <3>4
  <2>2. QED BY <2>1 DEF ExclusiveInv, SnsDrawn, NoRequestAdded
<1>4. QED BY <1>1, <1>2, <1>3 DEF ExclusiveInv

(* peon_sn_generate: the number is larger than all there are.              *)
LEMMA GenerateExclusive ==
  ASSUME PeonInv, ExclusiveInv, NEW c \in Caller, peon_sn_generate(c)
  PROVE  ExclusiveInv'
<1>0. TypeOK
  BY DEF PeonInv
<1>1. PICK r \in Requests(c) :
        adding' = [adding EXCEPT ![c] =
                     [peon |-> r.peon, task |-> NewTask(r.key, r.force, sn + 1)]]
  BY DEF peon_sn_generate
<1>2. /\ adding'[c].task.sn = sn + 1
      /\ \A e \in Caller : e # c => adding'[e] = adding[e]
  BY <1>0, <1>1 DEF TypeOK, NewTask
<1>3. sn' = sn + 1 /\ UNCHANGED <<wait, proc>> /\ sn \in Nat
  BY <1>0 DEF peon_sn_generate, lists, TypeOK
<1>4. /\ ConnectsDistinct' /\ RunsApart' /\ ToSet(proc'["RECHECK"]) = {}
      /\ ConnectSns' = ConnectSns /\ DisconnectSns' = DisconnectSns
  BY <1>3 DEF ExclusiveInv, ConnectsDistinct, RunsApart, ConnectSns, DisconnectSns
<1>5. \A k \in ConnectSns \cup DisconnectSns : k \in Nat /\ k <= sn
  BY <1>0, SnsTyped DEF ExclusiveInv, SnsApart
<1>6. SnsApart'
  <2>1. \A k \in ConnectSns \cup DisconnectSns : k <= sn'
    BY <1>3, <1>5
  <2>2. QED BY <1>4, <2>1 DEF ExclusiveInv, SnsApart
<1>7. SnsDrawn'
  <2>1. \A e \in Caller : adding[e] # NoRequest =>
          adding[e].task.sn \in Nat /\ adding[e].task.sn <= sn
    BY <1>0 DEF TypeOK, Request, Task, ExclusiveInv, SnsDrawn
  <2>2. sn + 1 \notin ConnectSns \cup DisconnectSns
    BY <1>3, <1>5
  <2>3. \A e \in Caller : adding'[e] # NoRequest =>
          /\ adding'[e].task.sn <= sn'
          /\ adding'[e].task.sn \notin ConnectSns' \cup DisconnectSns'
    <3>1. ASSUME NEW e \in Caller, adding'[e] # NoRequest, e # c
          PROVE  /\ adding'[e].task.sn <= sn'
                 /\ adding'[e].task.sn \notin ConnectSns' \cup DisconnectSns'
      <4>1. adding[e].task.sn \in Nat /\ adding[e].task.sn <= sn
            /\ adding[e].task.sn \notin ConnectSns \cup DisconnectSns
        BY <1>2, <2>1, <3>1 DEF ExclusiveInv, SnsDrawn
      <4>2. adding[e].task.sn <= sn + 1
        BY <1>3, <4>1
      <4>3. QED BY <1>2, <1>3, <1>4, <3>1, <4>1, <4>2
    <3>2. QED BY <1>2, <1>3, <1>4, <2>2, <3>1
  <2>4. ASSUME NEW e \in Caller, e # c, adding'[e] # NoRequest
        PROVE  adding'[e].task.sn # adding'[c].task.sn
    <3>1. adding[e].task.sn \in Nat /\ adding[e].task.sn <= sn
      BY <1>2, <2>1, <2>4
    <3>2. QED BY <1>2, <1>3, <2>4, <3>1
  <2>5. QED BY <1>2, <2>3, <2>4 DEF ExclusiveInv, SnsDrawn
<1>8. QED BY <1>4, <1>6, <1>7 DEF ExclusiveInv

(* Queueing a task, on the static peon or on a dynamic one.                *)
LEMMA QueueExclusive ==
  ASSUME PeonInv, ExclusiveInv, NoneStarts, NoRequestAdded, sn' = sn,
         \A p \in StaticPeon : Sns(proc'[p]) = Sns(proc[p]), Distinct(proc'["CONNECT"]),
         NEW pe \in {"CONNECT", "DISCONN", "DCBATCH"}, NEW t \in Task, Queue(pe, t),
         t.sn <= sn, t.sn \notin ConnectSns,
         pe = "CONNECT" => t.sn \notin DisconnectSns,
         \A c \in Caller : adding'[c] # NoRequest => adding'[c].task.sn # t.sn
  PROVE  ExclusiveInv'
<1>0. TypeOK /\ sn \in Nat /\ t.sn \in Nat
      /\ \A p \in StaticPeon : wait[p] \in Seq(Task) /\ p \in Peon /\ p \notin DynPeon
  BY SnsTyped, ConstantsAssumption DEF PeonInv, Task, Peon
<1>1. CASE QueueStatic(pe, t)
  <2>1. \A p \in StaticPeon : wait'[p] = IF p = pe THEN Append(wait[pe], t) ELSE wait[p]
    BY <1>0, <1>1 DEF QueueStatic, TypeOK
  <2>2. \A p \in StaticPeon : Sns(wait'[p]) = Sns(wait[p]) \cup (IF p = pe THEN {t.sn} ELSE {})
    BY <1>0, <2>1, AppendedSns
  <2>3. ConnectsDistinct'
    <3>1. Sns(wait["CONNECT"]) \cap Sns(proc["CONNECT"]) = {} /\ Distinct(wait["CONNECT"])
      BY DEF ExclusiveInv, ConnectsDistinct
    <3>2. t.sn \notin Sns(wait["CONNECT"]) /\ t.sn \notin Sns(proc["CONNECT"])
      BY DEF ConnectSns
    <3>3. "CONNECT" \in StaticPeon
      BY DEF StaticPeon
    <3>4. Distinct(wait'["CONNECT"])
      BY <1>0, <2>1, <3>1, <3>2, <3>3, AppendedSns
    <3>5. QED BY <2>2, <3>1, <3>2, <3>3, <3>4 DEF ConnectsDistinct
  <2>4. \/ /\ pe = "CONNECT" /\ ConnectSns' = ConnectSns \cup {t.sn}
           /\ DisconnectSns' = DisconnectSns
        \/ ConnectSns' = ConnectSns /\ DisconnectSns' = DisconnectSns \cup {t.sn}
    BY <2>2 DEF ConnectSns, DisconnectSns, StaticPeon
  <2>5. QED BY <1>0, <2>3, <2>4, OneNewSn
<1>2. CASE QueueDynamic(pe, t) \/ QueueStuck
  <2>1. \A p \in StaticPeon : wait'[p] = wait[p]
    BY <1>0, <1>2 DEF QueueDynamic, QueueStuck, TypeOK
  <2>2. ConnectsDistinct' /\ ConnectSns' = ConnectSns /\ DisconnectSns' = DisconnectSns
    BY <2>1 DEF ExclusiveInv, ConnectsDistinct, ConnectSns, DisconnectSns, StaticPeon
  <2>3. QED BY <1>0, <2>2, NoNewSn
<1>3. QED BY <1>1, <1>2 DEF Queue

LEMMA CallerExclusive ==
  ASSUME PeonInv, ExclusiveInv, NEW c \in Caller, peon_task_reject(c) \/ peon_task_add(c)
  PROVE  ExclusiveInv'
<1>0. TypeOK
  BY DEF PeonInv
<1>1. /\ adding[c] # NoRequest /\ sn' = sn /\ proc' = proc
      /\ adding' = [adding EXCEPT ![c] = NoRequest]
  BY DEF peon_task_reject, peon_task_add, lists
<1>2. NoRequestAdded /\ adding'[c] = NoRequest /\ \A e \in Caller : e # c => adding'[e] = adding[e]
  BY <1>0, <1>1 DEF TypeOK, NoRequestAdded
<1>3. CASE peon_task_reject(c)
  BY <1>1, <1>2, <1>3, ListsUnchanged DEF peon_task_reject, lists
<1>4. CASE peon_task_add(c)
  <2> DEFINE t == adding[c].task
  <2>1. adding[c] \in [peon : StaticPeon \ {"RECHECK"}, task : Task]
    BY <1>0, <1>1 DEF TypeOK, Request
  <2>2. /\ adding[c].peon \in {"CONNECT", "DISCONN", "DCBATCH"} /\ t \in Task
        /\ Queue(adding[c].peon, t)
    BY <1>4, <2>1 DEF peon_task_add, StaticPeon
  <2>3. /\ t.sn <= sn /\ t.sn \notin ConnectSns /\ t.sn \notin DisconnectSns
    BY <1>1 DEF ExclusiveInv, SnsDrawn
  <2>4. \A e \in Caller : adding'[e] # NoRequest => adding'[e].task.sn # t.sn
    BY <1>1, <1>2 DEF ExclusiveInv, SnsDrawn
  <2>5. /\ NoneStarts /\ Distinct(proc'["CONNECT"])
        /\ \A p \in StaticPeon : Sns(proc'[p]) = Sns(proc[p])
    BY <1>1 DEF ExclusiveInv, ConnectsDistinct, NoneStarts
  <2> HIDE DEF t
  <2>6. QED BY <1>1, <1>2, <2>2, <2>3, <2>4, <2>5, QueueExclusive
<1>5. QED BY <1>3, <1>4

(* A handler moves on: numbers and states stay.                            *)
LEMMA HandledSns ==
  ASSUME TypeOK, ExclusiveInv, NEW pe \in Peon, NEW i \in DOMAIN proc[pe], NEW c \in Ctx,
         proc' = [proc EXCEPT ![pe][i].ctx = c]
  PROVE  /\ NoneStarts /\ Distinct(proc'["CONNECT"])
         /\ \A p \in StaticPeon : Sns(proc'[p]) = Sns(proc[p])
<1> DEFINE s == proc[pe]
           e == [s[i] EXCEPT !.ctx = c]
           m == [s EXCEPT ![i] = e]
<1>1. s \in Seq(Task) /\ i \in 1 .. Len(s) /\ DOMAIN s = 1 .. Len(s) /\ Len(s) \in Nat
  BY ListDomain DEF TypeOK
<1>2. s[i] \in Task
  BY <1>1
<1>3. e \in Task /\ e.sn = s[i].sn /\ e.key = s[i].key /\ e.state = s[i].state
  BY <1>2 DEF Task
<1>4. proc' = [proc EXCEPT ![pe] = m]
  OBVIOUS
<1> HIDE DEF e
<1>5. /\ m \in Seq(Task) /\ Len(m) = Len(s)
      /\ \A j \in 1 .. Len(s) : m[j] = IF j = i THEN e ELSE s[j]
  BY <1>1, <1>3
<1>6. \A j \in 1 .. Len(s) : m[j].sn = s[j].sn /\ m[j].key = s[j].key /\ m[j].state = s[j].state
  BY <1>3, <1>5
<1> HIDE DEF m
<1>7. Sns(m) = Sns(s) /\ (Distinct(s) => Distinct(m))
  BY <1>1, <1>5, <1>6, SameSns
<1>8. \A u \in ToSet(m) : \E v \in ToSet(s) : v.state = u.state /\ v.key = u.key /\ v.sn = u.sn
  <2>1. ASSUME NEW u \in ToSet(m)
        PROVE  \E v \in ToSet(s) : v.state = u.state /\ v.key = u.key /\ v.sn = u.sn
    <3>1. PICK j \in 1 .. Len(s) : u = m[j]
      BY <1>5, ListDomain DEF ToSet
    <3>2. s[j] \in ToSet(s)
      BY <1>1, InToSet
    <3>3. QED BY <1>6, <3>1, <3>2
  <2>2. QED BY <2>1
<1>9. proc'[pe] = m /\ \A p \in Peon : p # pe => proc'[p] = proc[p]
  BY <1>4 DEF TypeOK
<1>10. StaticPeon \subseteq Peon /\ "CONNECT" \in StaticPeon /\ "RECHECK" \in StaticPeon
  BY DEF Peon, StaticPeon
<1>11. Distinct(proc'["CONNECT"]) /\ \A p \in StaticPeon : Sns(proc'[p]) = Sns(proc[p])
  BY <1>7, <1>9, <1>10 DEF ExclusiveInv, ConnectsDistinct
<1>12. NoneStarts
  <2>1. \A p \in StaticPeon : \A u \in ToSet(proc'[p]) : \E v \in ToSet(proc[p]) :
          v.state = u.state /\ v.key = u.key /\ v.sn = u.sn
    BY <1>8, <1>9, <1>10
  <2>2. ToSet(proc'["RECHECK"]) = {}
    BY <1>10, <2>1 DEF ExclusiveInv
  <2>3. QED BY <2>1, <2>2 DEF NoneStarts
<1>13. QED BY <1>11, <1>12

LEMMA HandleExclusive ==
  ASSUME PeonInv, ExclusiveInv, NEW pe \in Peon, NEW i \in DOMAIN proc[pe], NEW c \in Ctx,
         handle(pe, i, c)
  PROVE  ExclusiveInv'
<1>1. proc' = [proc EXCEPT ![pe][i].ctx = c] /\ UNCHANGED <<sn, wait, adding>>
  BY DEF handle
<1>2. /\ NoneStarts /\ Distinct(proc'["CONNECT"])
      /\ \A p \in StaticPeon : Sns(proc'[p]) = Sns(proc[p])
  BY <1>1, HandledSns DEF PeonInv
<1>3. ConnectsDistinct' /\ ConnectSns' = ConnectSns /\ DisconnectSns' = DisconnectSns
  BY <1>1, <1>2 DEF ExclusiveInv, ConnectsDistinct, ConnectSns, DisconnectSns, StaticPeon
<1>4. QED BY <1>1, <1>2, <1>3, NoNewSn DEF PeonInv, NoRequestAdded

(* peon_add_disconn_task_inherit: the number of a batch, which no connect  *)
(* has and no caller is about to queue.                                    *)
LEMMA InheritExclusive ==
  ASSUME PeonInv, ExclusiveInv, NEW i \in DOMAIN proc["DCBATCH"], NEW d \in Device, NEW c \in Ctx,
         peon_add_disconn_task_inherit(i, d, c)
  PROVE  ExclusiveInv'
<1> DEFINE b == proc["DCBATCH"][i]
           t == NewTask(d, FALSE, b.sn)
<1>0. TypeOK /\ "DCBATCH" \in Peon /\ "DCBATCH" \in StaticPeon /\ proc["DCBATCH"] \in Seq(Task)
  BY DEF Peon, StaticPeon, PeonInv, TypeOK
<1>1. b \in Task /\ b.sn \in Nat /\ b \in ToSet(proc["DCBATCH"])
  <2>1. b \in Task /\ b \in ToSet(proc["DCBATCH"])
    BY <1>0, ListDomain, InToSet
  <2>2. QED BY <2>1 DEF Task
<1>2. t \in Task /\ t.sn = b.sn
  <2>1. 0 \in 0 .. MaxAge /\ 0 \in 0 .. PEON_FAIL_RETRY_INTERVAL /\ CtxInit \in Ctx
    BY ConstantsAssumption DEF MaxAge
  <2>2. QED BY <2>1, <1>1 DEF NewTask, Task
<1>3. b.sn \in DisconnectSns
  BY <1>1 DEF DisconnectSns, Sns
<1>4. /\ Queue("DISCONN", t) /\ sn' = sn /\ adding' = adding
      /\ proc' = [proc EXCEPT !["DCBATCH"][i].ctx = c]
  BY DEF peon_add_disconn_task_inherit
<1>5. /\ NoneStarts /\ Distinct(proc'["CONNECT"])
      /\ \A p \in StaticPeon : Sns(proc'[p]) = Sns(proc[p])
  BY <1>0, <1>4, HandledSns
<1>6. b.sn \notin ConnectSns /\ b.sn <= sn
  BY <1>3 DEF ExclusiveInv, SnsApart
<1>7. \A e \in Caller : adding'[e] # NoRequest => adding'[e].task.sn # b.sn
  BY <1>3, <1>4 DEF ExclusiveInv, SnsDrawn
<1> HIDE DEF t, b
<1>8. QED BY <1>2, <1>4, <1>5, <1>6, <1>7, QueueExclusive DEF NoRequestAdded
-----------------------------------------------------------------------------
(* A task leaves a wait list.                                              *)
LEMMA DeadExclusive ==
  ASSUME PeonInv, ExclusiveInv, NEW pe \in Peon, scan_dead(pe)
  PROVE  ExclusiveInv'
<1> DEFINE cut == RemoveAt(wait[pe], lock.at)
<1>0. TypeOK
  BY DEF PeonInv
<1>1. /\ Scanning(pe) /\ wait' = [wait EXCEPT ![pe] = cut]
      /\ UNCHANGED <<sn, proc, adding>>
  BY DEF scan_dead, FreeAtCursor
<1>2. wait[pe] \in Seq(Task) /\ lock.at \in 1 .. Len(wait[pe])
  BY <1>1, CursorInList
<1>3. Sns(cut) \subseteq Sns(wait[pe]) /\ (Distinct(wait[pe]) => Distinct(cut))
  BY <1>2, RemovedSns
<1> HIDE DEF cut
<1>4. wait'[pe] = cut /\ \A p \in Peon : p # pe => wait'[p] = wait[p]
  BY <1>0, <1>1 DEF TypeOK
<1>5. \A p \in StaticPeon : /\ Sns(wait'[p]) \subseteq Sns(wait[p])
                            /\ Distinct(wait[p]) => Distinct(wait'[p])
  BY <1>3, <1>4 DEF Peon
<1>6. /\ ConnectsDistinct'
      /\ ConnectSns' \subseteq ConnectSns /\ DisconnectSns' \subseteq DisconnectSns
  BY <1>1, <1>5 DEF ExclusiveInv, ConnectsDistinct, ConnectSns, DisconnectSns, StaticPeon
<1>7. NoneStarts /\ NoRequestAdded
  BY <1>1 DEF ExclusiveInv, NoneStarts, NoRequestAdded
<1>8. QED BY <1>0, <1>1, <1>6, <1>7, NoNewSn

(* Time passes.                                                            *)
LEMMA TickExclusive ==
  ASSUME PeonInv, ExclusiveInv, Tick
  PROVE  ExclusiveInv'
<1>0. TypeOK
  BY DEF PeonInv
<1>1. /\ UNCHANGED <<sn, proc, adding>>
      /\ wait' = [pe \in Peon |-> [i \in DOMAIN wait[pe] |-> Older(wait[pe][i])]]
  BY DEF Tick
<1>2. ASSUME NEW p \in StaticPeon
      PROVE  Sns(wait'[p]) = Sns(wait[p]) /\ (Distinct(wait[p]) => Distinct(wait'[p]))
  <2> DEFINE s == wait[p]
             m == [i \in DOMAIN s |-> Older(s[i])]
  <2>1. p \in Peon /\ s \in Seq(Task) /\ DOMAIN s = 1 .. Len(s)
    BY <1>0, ListDomain DEF TypeOK, Peon
  <2>2. wait'[p] = m
    BY <1>1, <2>1
  <2>3. m \in Seq(Task) /\ Len(m) = Len(s)
    BY <2>1, OlderListProperties
  <2>4. \A i \in 1 .. Len(s) : m[i].sn = s[i].sn
    <3>1. ASSUME NEW i \in 1 .. Len(s) PROVE Older(s[i]).sn = s[i].sn
      <4>1. s[i] \in Task
        BY <2>1, InToSet
      <4>2. QED BY <4>1 DEF Older, Task
    <3>2. QED BY <2>1, <3>1
  <2> HIDE DEF m
  <2>5. QED BY <2>1, <2>2, <2>3, <2>4, SameSns
<1>3. ConnectsDistinct' /\ ConnectSns' = ConnectSns /\ DisconnectSns' = DisconnectSns
  BY <1>1, <1>2 DEF ExclusiveInv, ConnectsDistinct, ConnectSns, DisconnectSns, StaticPeon
<1>4. NoneStarts /\ NoRequestAdded
  BY <1>1 DEF ExclusiveInv, NoneStarts, NoRequestAdded
<1>5. QED BY <1>0, <1>1, <1>3, <1>4, NoNewSn

(* peon_task_complete: a connect that failed takes its number back to the  *)
(* wait list; one that succeeded gives it up.                              *)
LEMMA CompleteExclusive ==
  ASSUME PeonInv, ExclusiveInv, NEW pe \in Peon, NEW i \in DOMAIN proc[pe], NEW c \in Ctx,
         NEW failed \in CanFail(pe), peon_task_complete(pe, i, failed, c)
  PROVE  ExclusiveInv'
<1> DEFINE t == proc[pe][i]
           cut == RemoveAt(proc[pe], i)
           again == [t EXCEPT !.backoff = PEON_FAIL_RETRY_INTERVAL, !.ctx = c]
           watch == [t EXCEPT !.sn = 0, !.ctx = c]
<1>0. TypeOK
  BY DEF PeonInv
<1>1. /\ proc' = [proc EXCEPT ![pe] = cut] /\ UNCHANGED <<sn, adding>>
      /\ \/ failed /\ wait' = [wait EXCEPT ![pe] = Append(wait[pe], again)]
         \/ wait' = [wait EXCEPT !["RECHECK"] = Append(wait["RECHECK"], watch)]
         \/ wait' = wait
  BY DEF peon_task_complete, peon_move_task_to_recheck
<1>2. proc[pe] \in Seq(Task) /\ i \in 1 .. Len(proc[pe])
  BY <1>0, ListDomain DEF TypeOK
<1>3. t \in Task /\ t \in ToSet(proc[pe])
  BY <1>2, InToSet
<1>4. /\ Sns(cut) \subseteq Sns(proc[pe]) /\ ToSet(cut) \subseteq ToSet(proc[pe])
      /\ Distinct(proc[pe]) => Distinct(cut) /\ t.sn \notin Sns(cut)
  BY <1>2, RemovedSns, RemoveAtProperties
<1>5. again \in Task /\ again.sn = t.sn
  <2>1. PEON_FAIL_RETRY_INTERVAL \in 0 .. PEON_FAIL_RETRY_INTERVAL
    BY ConstantsAssumption
  <2>2. QED BY <1>3, <2>1 DEF Task
<1>6. t.sn \in Sns(proc[pe])
  BY <1>3 DEF Sns
<1> HIDE DEF t, cut, again, watch
<1>7. proc'[pe] = cut /\ \A p \in Peon : p # pe => proc'[p] = proc[p]
  BY <1>0, <1>1 DEF TypeOK
<1>8. NoneStarts /\ NoRequestAdded
  <2>1. \A p \in StaticPeon : ToSet(proc'[p]) \subseteq ToSet(proc[p])
    BY <1>4, <1>7 DEF Peon
  <2>2. QED BY <1>1, <2>1 DEF ExclusiveInv, NoneStarts, NoRequestAdded, StaticPeon
<1>9. \A p \in StaticPeon : /\ Sns(proc'[p]) \subseteq Sns(proc[p])
                            /\ Distinct(proc[p]) => Distinct(proc'[p])
  BY <1>4, <1>7 DEF Peon
<1>10. CASE \A p \in {"CONNECT", "DISCONN", "DCBATCH"} : wait'[p] = wait[p]
  <2>1. /\ ConnectsDistinct'
        /\ ConnectSns' \subseteq ConnectSns /\ DisconnectSns' \subseteq DisconnectSns
    BY <1>9, <1>10 DEF ExclusiveInv, ConnectsDistinct, ConnectSns, DisconnectSns, StaticPeon
  <2>2. QED BY <1>0, <1>1, <1>8, <2>1, NoNewSn
<1>11. CASE failed /\ wait' = [wait EXCEPT ![pe] = Append(wait[pe], again)]
  <2>1. pe = "CONNECT" /\ "CONNECT" \in StaticPeon
    BY <1>11 DEF CanFail, StaticPeon
  <2>2. wait["CONNECT"] \in Seq(Task)
    BY <1>0, <2>1 DEF TypeOK, Peon
  <2>3. /\ wait'["CONNECT"] = Append(wait["CONNECT"], again)
        /\ wait'["DISCONN"] = wait["DISCONN"] /\ wait'["DCBATCH"] = wait["DCBATCH"]
    BY <1>0, <1>11, <2>1 DEF TypeOK, Peon, StaticPeon
  <2>4. /\ Distinct(wait["CONNECT"]) /\ Distinct(proc["CONNECT"])
        /\ Sns(wait["CONNECT"]) \cap Sns(proc["CONNECT"]) = {}
    BY DEF ExclusiveInv, ConnectsDistinct
  <2>5. t.sn \notin Sns(wait["CONNECT"])
    BY <1>6, <2>1, <2>4
  <2>6. /\ Sns(wait'["CONNECT"]) = Sns(wait["CONNECT"]) \cup {t.sn}
        /\ Distinct(wait'["CONNECT"])
    BY <1>5, <2>2, <2>3, <2>4, <2>5, AppendedSns
  <2>7. /\ Distinct(proc'["CONNECT"]) /\ t.sn \notin Sns(proc'["CONNECT"])
        /\ Sns(proc'["CONNECT"]) \subseteq Sns(proc["CONNECT"])
    BY <1>4, <1>7, <2>1, <2>4
  <2>8. ConnectsDistinct' /\ ConnectSns' \subseteq ConnectSns
    BY <1>6, <2>1, <2>4, <2>6, <2>7 DEF ConnectsDistinct, ConnectSns
  <2>9. DisconnectSns' \subseteq DisconnectSns
    BY <1>9, <2>3 DEF DisconnectSns, StaticPeon
  <2>10. QED BY <1>0, <1>1, <1>8, <2>8, <2>9, NoNewSn
<1>12. QED BY <1>0, <1>1, <1>10, <1>11 DEF TypeOK, Peon, StaticPeon

(* recheck_gone: the connect is given a number that was just drawn.        *)
LEMMA RecheckGoneExclusive ==
  ASSUME PeonInv, ExclusiveInv, NEW c \in Ctx, recheck_gone(c)
  PROVE  ExclusiveInv'
<1> DEFINE old == wait["RECHECK"][lock.at]
           new == [old EXCEPT !.sn = sn + 1, !.age = 0, !.backoff = 0, !.ctx = c]
<1>0. TypeOK /\ {"CONNECT", "RECHECK", "DISCONN", "DCBATCH"} \subseteq Peon
  BY DEF PeonInv, Peon, StaticPeon
<1>1. /\ Scanning("RECHECK") /\ sn' = sn + 1 /\ UNCHANGED <<proc, adding>>
      /\ wait' = [wait EXCEPT !["RECHECK"] = RemoveAt(wait["RECHECK"], lock.at),
                              !["CONNECT"] = Append(wait["CONNECT"], new)]
  <2>1. [wait EXCEPT !["RECHECK"] = RemoveAt(@, lock.at), !["CONNECT"] = Append(@, new)]
        = [wait EXCEPT !["RECHECK"] = RemoveAt(wait["RECHECK"], lock.at),
                       !["CONNECT"] = Append(wait["CONNECT"], new)]
    BY <1>0 DEF TypeOK
  <2>2. QED BY <2>1 DEF recheck_gone
<1>2. old \in Task
  BY <1>0, <1>1, CursorInList
<1>3. sn \in Nat
  BY <1>0 DEF TypeOK
<1>4. new \in Task /\ new.sn = sn + 1
  <2>1. 0 \in 0 .. MaxAge /\ 0 \in 0 .. PEON_FAIL_RETRY_INTERVAL
    BY ConstantsAssumption DEF MaxAge
  <2>2. sn + 1 \in Nat
    BY <1>3
  <2> HIDE DEF old
  <2>3. QED BY <1>2, <2>1, <2>2 DEF Task
<1> HIDE DEF new, old
<1>5. /\ wait'["CONNECT"] = Append(wait["CONNECT"], new) /\ wait["CONNECT"] \in Seq(Task)
      /\ wait'["DISCONN"] = wait["DISCONN"] /\ wait'["DCBATCH"] = wait["DCBATCH"]
  BY <1>0, <1>1 DEF TypeOK
<1>6. \A k \in ConnectSns \cup DisconnectSns : k \in Nat /\ k <= sn
  BY <1>0, SnsTyped DEF ExclusiveInv, SnsApart
<1>7. sn + 1 \notin ConnectSns /\ sn + 1 \notin DisconnectSns
  BY <1>3, <1>6
<1>8. Sns(wait'["CONNECT"]) = Sns(wait["CONNECT"]) \cup {sn + 1} /\ Distinct(wait'["CONNECT"])
  BY <1>4, <1>5, <1>7, AppendedSns DEF ExclusiveInv, ConnectsDistinct, ConnectSns
<1>9. /\ ConnectsDistinct' /\ ConnectSns' = ConnectSns \cup {sn + 1}
      /\ DisconnectSns' = DisconnectSns
  BY <1>1, <1>5, <1>7, <1>8 DEF ExclusiveInv, ConnectsDistinct, ConnectSns, DisconnectSns
<1>10. NoneStarts /\ NoRequestAdded
  BY <1>1 DEF ExclusiveInv, NoneStarts, NoRequestAdded
<1>11. \A e \in Caller : adding'[e] # NoRequest => adding'[e].task.sn # sn + 1
  <2>1. ASSUME NEW e \in Caller, adding[e] # NoRequest
        PROVE  adding[e].task.sn # sn + 1
    <3>1. adding[e].task.sn \in Nat /\ adding[e].task.sn <= sn
      BY <1>0, <2>1 DEF TypeOK, Request, Task, ExclusiveInv, SnsDrawn
    <3>2. QED BY <1>3, <3>1
  <2>2. adding' = adding
    BY <1>1
  <2>3. QED BY <2>1, <2>2
<1>12. QED BY <1>0, <1>1, <1>3, <1>7, <1>9, <1>10, <1>11, OneNewSn
-----------------------------------------------------------------------------
(* Marking keeps the numbers; what is alive afterwards was not outdated.   *)
LEMMA MarkedSns ==
  ASSUME NEW s \in Seq(Task), NEW pe, NEW t, NEW type
  PROVE  LET m == MarkedList(s, pe, t, type)
         IN  /\ m \in Seq(Task) /\ Len(m) = Len(s)
             /\ Sns(m) = Sns(s) /\ (Distinct(s) => Distinct(m))
             /\ \A i \in 1 .. Len(s) : m[i].sn = s[i].sn
             /\ \A u \in ToSet(m) : u.state = "LIVE" => u \in ToSet(s)
<1> DEFINE m == MarkedList(s, pe, t, type)
<1>1. /\ m \in Seq(Task) /\ Len(m) = Len(s)
      /\ \A i \in 1 .. Len(s) : m[i] = Marked(s[i], pe, t, type)
  BY MarkedListProperties
<1>2. ASSUME NEW q \in Task
      PROVE  /\ Marked(q, pe, t, type).sn = q.sn
             /\ Marked(q, pe, t, type).state = "LIVE" => Marked(q, pe, t, type) = q
  BY DEF Marked, Task
<1> HIDE DEF m
<1>3. \A i \in 1 .. Len(s) : s[i] \in Task /\ s[i] \in ToSet(s)
  BY InToSet
<1>4. \A i \in 1 .. Len(s) : m[i].sn = s[i].sn /\ (m[i].state = "LIVE" => m[i] = s[i])
  BY <1>1, <1>2, <1>3
<1>5. \A u \in ToSet(m) : u.state = "LIVE" => u \in ToSet(s)
  <2>1. \A u \in ToSet(m) : \E i \in 1 .. Len(s) : u = m[i]
    BY <1>1, ListDomain DEF ToSet
  <2>2. QED BY <1>3, <1>4, <2>1
<1>6. Sns(m) = Sns(s) /\ (Distinct(s) => Distinct(m))
  BY <1>1, <1>4, SameSns
<1>7. QED BY <1>1, <1>4, <1>5, <1>6 DEF m

(* The judge lets t run: no live task that is compared with it runs, since *)
(* that would have an older, a newer or the same number, and the same      *)
(* number is another connect's or a disconnect's.                          *)
LEMMA JudgedAlone ==
  ASSUME PeonInv, ExclusiveInv, NEW pe \in StaticPeon \ {"RECHECK"}, NEW t \in ToSet(wait[pe]),
         ~MustWait(t, pe), ~MustDiscard(t, pe),
         NEW q \in StaticPeon, NEW u \in ToSet(proc[q]), u.state = "LIVE",
         task_match(u, t, Compare(pe, q)) \/ task_match(t, u, Compare(q, pe))
  PROVE  FALSE
<1>0. /\ u \in Listed(q) /\ q \in Peon /\ pe \in Peon /\ t \in Listed(pe)
      /\ q # "RECHECK"
  BY DEF Listed, Peon, ExclusiveInv
<1>1. t.sn \in Nat /\ u.sn \in Nat
  <2>1. t \in Task /\ u \in Task
    BY <1>0, ListedInTask DEF PeonInv
  <2>2. QED BY <2>1 DEF Task
<1>2. task_match(u, t, Compare(pe, q))
  <2>1. Compare(pe, q) = Compare(q, pe)
    BY <1>0 DEF Compare, StaticPeon
  <2>2. QED BY <2>1 DEF task_match
<1>3. Compare(pe, q) # "no"
  BY <1>2 DEF task_match
<1>4. ~(u.sn < t.sn)
  BY <1>0, <1>2 DEF MustWait, Outdated
<1>5. ~(t.sn < u.sn)
  BY <1>0, <1>2 DEF MustDiscard, Newer
<1>6. t.sn = u.sn
  BY <1>1, <1>4, <1>5
<1>7. t.sn \in Sns(wait[pe]) /\ u.sn \in Sns(proc[q])
  BY DEF Sns
<1>8. \/ pe = "CONNECT" /\ q \in {"CONNECT", "DISCONN", "DCBATCH"}
      \/ pe \in {"DISCONN", "DCBATCH"} /\ q = "CONNECT"
  BY <1>0, <1>3 DEF Compare, StaticPeon
<1>9. CASE pe = "CONNECT" /\ q = "CONNECT"
  BY <1>6, <1>7, <1>9 DEF ExclusiveInv, ConnectsDistinct
<1>10. CASE pe = "CONNECT" /\ q \in {"DISCONN", "DCBATCH"}
  BY <1>6, <1>7, <1>10 DEF ExclusiveInv, SnsApart, ConnectSns, DisconnectSns
<1>11. CASE pe \in {"DISCONN", "DCBATCH"} /\ q = "CONNECT"
  BY <1>6, <1>7, <1>11 DEF ExclusiveInv, SnsApart, ConnectSns, DisconnectSns
<1>12. QED BY <1>8, <1>9, <1>10, <1>11

(* One iteration of peon_task_get over a live task.                        *)
LEMMA ScanLiveExclusive ==
  ASSUME PeonInv, ExclusiveInv, NEW pe \in Peon, scan_live(pe)
  PROVE  ExclusiveInv'
<1> DEFINE t == wait[pe][lock.at]
           type == TypeOf(pe)
           marked == [p \in Peon |-> MarkedList(wait[p], p, t, type)]
           running == [p \in Peon |-> MarkedList(proc[p], p, t, type)]
           cut == RemoveAt(marked[pe], lock.at)
<1>0. TypeOK
  BY DEF PeonInv
<1>1. /\ UNCHANGED <<sn, adding>> /\ Scanning(pe) /\ pe # "RECHECK" /\ t.state = "LIVE"
      /\ \/ wait' = [marked EXCEPT ![pe] = cut] /\ proc' = running
         \/ /\ ~MustWait(t, type) /\ ~MustDiscard(t, type)
            /\ wait' = [marked EXCEPT ![pe] = cut]
            /\ proc' = [running EXCEPT ![pe] = Append(running[pe], t)]
         \/ wait' = marked /\ proc' = running
  BY DEF scan_live, FreeAtCursor
<1>2. /\ wait[pe] \in Seq(Task) /\ lock.at \in 1 .. Len(wait[pe])
      /\ t \in Task /\ t \in ToSet(wait[pe])
  BY <1>1, CursorInList
<1>3. ASSUME NEW p \in Peon
      PROVE  /\ marked[p] \in Seq(Task) /\ Len(marked[p]) = Len(wait[p])
             /\ Sns(marked[p]) = Sns(wait[p]) /\ (Distinct(wait[p]) => Distinct(marked[p]))
             /\ \A i \in 1 .. Len(wait[p]) : marked[p][i].sn = wait[p][i].sn
  <2>1. wait[p] \in Seq(Task) /\ marked[p] = MarkedList(wait[p], p, t, type)
    BY <1>0 DEF TypeOK
  <2> HIDE DEF marked, t, type
  <2>2. QED BY <2>1, MarkedSns
<1>4. ASSUME NEW p \in Peon
      PROVE  /\ running[p] \in Seq(Task)
             /\ Sns(running[p]) = Sns(proc[p]) /\ (Distinct(proc[p]) => Distinct(running[p]))
             /\ \A u \in ToSet(running[p]) : u.state = "LIVE" => u \in ToSet(proc[p])
             /\ ToSet(proc[p]) = {} => ToSet(running[p]) = {}
  <2>1. proc[p] \in Seq(Task) /\ running[p] = MarkedList(proc[p], p, t, type)
    BY <1>0 DEF TypeOK
  <2> HIDE DEF running, t, type
  <2>2. /\ running[p] \in Seq(Task)
        /\ Sns(running[p]) = Sns(proc[p]) /\ (Distinct(proc[p]) => Distinct(running[p]))
        /\ \A u \in ToSet(running[p]) : u.state = "LIVE" => u \in ToSet(proc[p])
    BY <2>1, MarkedSns
  <2>3. ToSet(proc[p]) = {} => ToSet(running[p]) = {}
    BY <2>2 DEF Sns
  <2>4. QED BY <2>2, <2>3
<1>5. /\ Sns(cut) \subseteq Sns(wait[pe])
      /\ Distinct(wait[pe]) => Distinct(cut) /\ t.sn \notin Sns(cut)
  <2>1. /\ marked[pe] \in Seq(Task) /\ lock.at \in 1 .. Len(marked[pe])
        /\ marked[pe][lock.at].sn = t.sn
    BY <1>2, <1>3
  <2> HIDE DEF marked, t
  <2>2. QED BY <1>3, <2>1, RemovedSns
<1>6. t.sn \in Sns(wait[pe])
  BY <1>2 DEF Sns
<1>7. NoRequestAdded /\ sn' = sn /\ DOMAIN marked = Peon /\ DOMAIN running = Peon
  BY <1>1 DEF NoRequestAdded
<1>8. StaticPeon \subseteq Peon /\ {"CONNECT", "DISCONN", "DCBATCH", "RECHECK"} = StaticPeon
  BY DEF Peon, StaticPeon
<1>9. \/ wait' = [marked EXCEPT ![pe] = cut] \/ wait' = marked
  BY <1>1
<1> HIDE DEF marked, running, cut
<1>10. ASSUME NEW p \in Peon
       PROVE  Sns(wait'[p]) \subseteq Sns(wait[p]) /\ (Distinct(wait[p]) => Distinct(wait'[p]))
  BY <1>3, <1>5, <1>7, <1>9
<1>11. CASE proc' = running
  <2>1. NoneStarts
    BY <1>4, <1>8, <1>11 DEF ExclusiveInv, NoneStarts
  <2>2. /\ ConnectsDistinct'
        /\ ConnectSns' \subseteq ConnectSns /\ DisconnectSns' \subseteq DisconnectSns
    BY <1>4, <1>8, <1>10, <1>11 DEF ExclusiveInv, ConnectsDistinct, ConnectSns, DisconnectSns
  <2>3. QED BY <1>0, <1>7, <2>1, <2>2, NoNewSn
<1>12. CASE /\ ~MustWait(t, type) /\ ~MustDiscard(t, type)
            /\ wait' = [marked EXCEPT ![pe] = cut]
            /\ proc' = [running EXCEPT ![pe] = Append(running[pe], t)]
  <2>1. /\ proc'[pe] = Append(running[pe], t) /\ wait'[pe] = cut
        /\ \A p \in Peon : p # pe => proc'[p] = running[p]
    BY <1>7, <1>12
  <2>2. /\ ToSet(proc'[pe]) = ToSet(running[pe]) \cup {t}
        /\ Sns(proc'[pe]) = Sns(proc[pe]) \cup {t.sn}
        /\ Distinct(running[pe]) /\ t.sn \notin Sns(proc[pe]) => Distinct(proc'[pe])
    BY <1>2, <1>4, <2>1, AppendedProperties, AppendedSns
  <2>3. ConnectsDistinct'
    <3>1. /\ Distinct(wait["CONNECT"]) /\ Distinct(proc["CONNECT"])
          /\ Sns(wait["CONNECT"]) \cap Sns(proc["CONNECT"]) = {}
      BY DEF ExclusiveInv, ConnectsDistinct
    <3>2. CASE pe = "CONNECT"
      <4>1. t.sn \notin Sns(proc["CONNECT"])
        BY <1>6, <3>1, <3>2
      <4>2. QED BY <1>4, <1>5, <2>1, <2>2, <3>1, <3>2, <4>1 DEF ConnectsDistinct
    <3>3. CASE pe # "CONNECT"
      BY <1>4, <1>8, <1>10, <2>1, <3>1, <3>3 DEF ConnectsDistinct
    <3>4. QED BY <3>2, <3>3
  <2>4. ASSUME NEW p \in StaticPeon
        PROVE  Sns(wait'[p]) \cup Sns(proc'[p]) \subseteq Sns(wait[p]) \cup Sns(proc[p])
    <3>1. CASE p = pe
      BY <1>5, <1>6, <2>1, <2>2, <3>1
    <3>2. CASE p # pe
      BY <1>4, <1>8, <1>10, <2>1, <3>2
    <3>3. QED BY <3>1, <3>2
  <2>5. ConnectSns' \subseteq ConnectSns /\ DisconnectSns' \subseteq DisconnectSns
    BY <1>8, <2>4 DEF ConnectSns, DisconnectSns
  <2>6. ToSet(proc'["RECHECK"]) = {}
    BY <1>1, <1>4, <1>8, <2>1 DEF ExclusiveInv
  <2>7. \A p \in StaticPeon : \A u \in ToSet(proc'[p]) : u.state = "LIVE" =>
          u \in ToSet(proc[p]) \/ (p = pe /\ u = t)
    BY <1>4, <1>8, <2>1, <2>2
  <2>8. RunsApart'
    <3>1. SUFFICES ASSUME NEW p \in StaticPeon, NEW q \in StaticPeon,
                          NEW v \in ToSet(proc'[p]), NEW u \in ToSet(proc'[q]),
                          v.state = "LIVE", u.state = "LIVE", task_match(u, v, Compare(p, q))
                   PROVE  p = q /\ v.sn = u.sn
      BY DEF RunsApart
    <3>2. CASE pe \in StaticPeon
      <4>0. type = pe
        BY <3>2, ConstantsAssumption DEF TypeOf, StaticPeon
      <4> HIDE DEF t, type
      <4>1. CASE v \in ToSet(proc[p]) /\ u \in ToSet(proc[q])
        BY <3>1, <4>1 DEF ExclusiveInv, RunsApart
      <4>2. CASE p = pe /\ v = t /\ u \in ToSet(proc[q])
        BY <1>1, <1>2, <1>12, <3>1, <3>2, <4>0, <4>2, JudgedAlone
      <4>3. CASE q = pe /\ u = t /\ v \in ToSet(proc[p])
        BY <1>1, <1>2, <1>12, <3>1, <3>2, <4>0, <4>3, JudgedAlone
      <4>4. CASE p = pe /\ v = t /\ q = pe /\ u = t
        BY <4>4
      <4>5. QED BY <2>7, <3>1, <4>1, <4>2, <4>3, <4>4
    <3>3. CASE pe \notin StaticPeon
      <4>1. v \in ToSet(proc[p]) /\ u \in ToSet(proc[q])
        BY <2>7, <3>1, <3>3
      <4>2. QED BY <3>1, <4>1 DEF ExclusiveInv, RunsApart
    <3>4. QED BY <3>2, <3>3
  <2>9. SnsApart'
    BY <1>7, <2>5 DEF ExclusiveInv, SnsApart
  <2>10. SnsDrawn'
    BY <1>7, <2>5 DEF ExclusiveInv, SnsDrawn, NoRequestAdded
  <2>11. QED BY <2>3, <2>6, <2>8, <2>9, <2>10 DEF ExclusiveInv
<1>13. QED BY <1>1, <1>11, <1>12
-----------------------------------------------------------------------------
LEMMA ExclusiveInit == Init => ExclusiveInv
<1> SUFFICES ASSUME Init PROVE ExclusiveInv
  OBVIOUS
<1>1. \A p \in StaticPeon : wait[p] = <<>> /\ proc[p] = <<>>
  BY DEF Init, Peon
<1>2. ToSet(<<>>) = {} /\ Sns(<<>>) = {} /\ Distinct(<<>>)
  BY DEF ToSet, Sns, Distinct
<1>3. ConnectsDistinct /\ ConnectSns = {} /\ DisconnectSns = {} /\ ToSet(proc["RECHECK"]) = {}
  BY <1>1, <1>2 DEF ConnectsDistinct, ConnectSns, DisconnectSns, StaticPeon
<1>4. RunsApart
  BY <1>1, <1>2 DEF RunsApart
<1>5. SnsDrawn
  BY DEF Init, SnsDrawn
<1>6. QED BY <1>3, <1>4, <1>5 DEF ExclusiveInv, SnsApart

LEMMA ExclusiveNext == PeonInv /\ ExclusiveInv /\ [Next]_vars => ExclusiveInv'
<1> SUFFICES ASSUME PeonInv, ExclusiveInv, [Next]_vars PROVE ExclusiveInv'
  OBVIOUS
<1>1. CASE \E c \in Caller : peon_sn_generate(c) \/ peon_task_reject(c) \/ peon_task_add(c)
  BY <1>1, GenerateExclusive, CallerExclusive
<1>2. CASE \E i \in DOMAIN proc["DCBATCH"] : \E d \in Device : \E c \in Ctx :
             peon_add_disconn_task_inherit(i, d, c)
  BY <1>2, InheritExclusive
<1>3. CASE \E pe \in Peon : scan_dead(pe) \/ scan_live(pe)
  BY <1>3, DeadExclusive, ScanLiveExclusive
<1>4. CASE \E pe \in Peon : \E i \in DOMAIN proc[pe] : \E c \in Ctx :
             handle(pe, i, c) \/ \E failed \in CanFail(pe) : peon_task_complete(pe, i, failed, c)
  BY <1>4, HandleExclusive, CompleteExclusive
<1>5. CASE \/ \E pe \in Peon : peon_task_get(pe) \/ scan_end(pe)
           \/ dynamic_exit \/ peon_run_recheck \/ recheck_present \/ UNCHANGED vars
  <2>1. UNCHANGED <<sn, wait, proc, adding>>
    BY <1>5 DEF peon_task_get, scan_end, dynamic_exit, peon_run_recheck, recheck_present, vars,
       lists
  <2>2. NoRequestAdded
    BY <2>1 DEF NoRequestAdded
  <2>3. QED BY <2>1, <2>2, ListsUnchanged
<1>6. CASE (\E d \in DynPeon : peon_deconstruct(d)) \/ recheck_dead
  <2>1. UNCHANGED <<sn, proc, adding>>
    BY <1>6 DEF peon_deconstruct, recheck_dead
  <2>2. \A p \in {"CONNECT", "DISCONN", "DCBATCH"} : wait'[p] = wait[p]
    BY <1>6, ConstantsAssumption DEF peon_deconstruct, recheck_dead, PeonInv, TypeOK, Peon,
       StaticPeon
  <2>3. NoRequestAdded
    BY <2>1 DEF NoRequestAdded
  <2>4. QED BY <2>1, <2>2, <2>3, ListsUnchanged
<1>7. CASE \E c \in Ctx : recheck_gone(c)
  BY <1>7, RecheckGoneExclusive
<1>8. CASE Tick
  BY <1>8, TickExclusive
<1>9. QED BY <1>1, <1>2, <1>3, <1>4, <1>5, <1>6, <1>7, <1>8 DEF Next

LEMMA ExclusiveInvariant == Spec => []ExclusiveInv
<1>1. QED BY ExclusiveInit, ExclusiveNext, EngineInvariant, PTL DEF Spec

(* Two tasks that the static peons compare with each other never both run  *)
(* alive: connects of one device, a connect and a disconnect of one        *)
(* device, a connect and the batch of its host.                            *)
THEOREM RunsExclusive == Spec => []LiveRunExclusive
<1>1. TypeOK /\ ExclusiveInv => LiveRunExclusive
  <2> SUFFICES ASSUME TypeOK, ExclusiveInv, NEW p \in StaticPeon, NEW q \in StaticPeon,
                      NEW i \in DOMAIN proc[p], NEW j \in DOMAIN proc[q],
                      proc[p][i].state = "LIVE", proc[q][j].state = "LIVE",
                      task_match(proc[q][j], proc[p][i], Compare(p, q))
               PROVE  p = q /\ i = j
    BY DEF LiveRunExclusive
  <2>1. proc[p] \in Seq(Task) /\ proc[q] \in Seq(Task)
    BY SnsTyped
  <2>2. /\ i \in 1 .. Len(proc[p]) /\ j \in 1 .. Len(proc[q])
        /\ proc[p][i] \in ToSet(proc[p]) /\ proc[q][j] \in ToSet(proc[q])
    BY <2>1, ListDomain, InToSet
  <2>3. p = q /\ proc[p][i].sn = proc[q][j].sn
    BY <2>2 DEF ExclusiveInv, RunsApart
  <2>4. p = "CONNECT"
    <3>1. Compare(p, p) # "no"
      BY <2>3 DEF task_match
    <3>2. QED BY <3>1 DEF Compare, StaticPeon
  <2>5. QED BY <2>2, <2>3, <2>4 DEF ExclusiveInv, ConnectsDistinct, Distinct
<1>2. QED BY <1>1, ExclusiveInvariant, TypeCorrect, PTL
-----------------------------------------------------------------------------
(* The refinement of Requests.                                             *)

(* The live tasks of a list as the requests see them, and that none of     *)
(* them is in the list twice.                                              *)
LiveIds(s) == {<<t.key, t.sn>> : t \in Live(s)}
LivesApart(s) ==
  \A i, j \in 1 .. Len(s) :
    s[i].state = "LIVE" /\ s[j].state = "LIVE" /\ s[i].key = s[j].key /\ s[i].sn = s[j].sn
    => i = j

(* List m holds nothing that s does not hold.                              *)
Fewer(m, s) ==
  /\ Len(m) <= Len(s) /\ Sns(m) \subseteq Sns(s) /\ LiveIds(m) \subseteq LiveIds(s)
  /\ LivesApart(s) => LivesApart(m)
Alike(m, s) == Fewer(m, s) /\ LiveIds(m) = LiveIds(s)
-----------------------------------------------------------------------------
(* The live tasks of a list, by position.                                  *)
LEMMA LiveByIndex ==
  ASSUME NEW s \in Seq(Task)
  PROVE  /\ \A id : id \in LiveIds(s) <=>
              \E i \in 1 .. Len(s) : s[i].state = "LIVE" /\ id = <<s[i].key, s[i].sn>>
         /\ \A id \in LiveIds(s) : id = <<id[1], id[2]>> /\ id[2] \in Nat /\ id[2] \in Sns(s)
<1>1. \A t : t \in ToSet(s) <=> \E i \in 1 .. Len(s) : t = s[i]
  BY ListDomain DEF ToSet
<1>2. \A i \in 1 .. Len(s) : s[i].sn \in Nat /\ s[i].sn \in Sns(s)
  <2>1. \A i \in 1 .. Len(s) : s[i] \in Task /\ s[i] \in ToSet(s)
    BY InToSet
  <2>2. QED BY <2>1 DEF Task, Sns
<1>3. \A id : id \in LiveIds(s) <=>
        \E i \in 1 .. Len(s) : s[i].state = "LIVE" /\ id = <<s[i].key, s[i].sn>>
  BY <1>1 DEF LiveIds, Live
<1>4. QED BY <1>2, <1>3

(* Keys, numbers and states stay, entry by entry.                          *)
LEMMA SameEntriesAlike ==
  ASSUME NEW s \in Seq(Task), NEW m \in Seq(Task), Len(m) = Len(s),
         \A i \in 1 .. Len(s) :
           m[i].key = s[i].key /\ m[i].sn = s[i].sn /\ m[i].state = s[i].state
  PROVE  Alike(m, s)
<1>1. Sns(m) = Sns(s) /\ Len(s) \in Nat
  BY SameSns
<1>2. \A id : id \in LiveIds(m) <=> id \in LiveIds(s)
  <2>1. \A id : id \in LiveIds(m) <=>
          \E i \in 1 .. Len(s) : m[i].state = "LIVE" /\ id = <<m[i].key, m[i].sn>>
    BY LiveByIndex
  <2>2. \A id : id \in LiveIds(s) <=>
          \E i \in 1 .. Len(s) : s[i].state = "LIVE" /\ id = <<s[i].key, s[i].sn>>
    BY LiveByIndex
  <2>3. QED BY <2>1, <2>2
<1>3. LiveIds(m) = LiveIds(s)
  BY <1>2
<1>4. LivesApart(s) => LivesApart(m)
  BY DEF LivesApart
<1>5. QED BY <1>1, <1>3, <1>4 DEF Alike, Fewer

(* The judge takes what is outdated off the live tasks.                    *)
LEMMA MarkedLives ==
  ASSUME NEW s \in Seq(Task), NEW pe, NEW t \in Task, NEW type
  PROVE  LET m == MarkedList(s, pe, t, type)
         IN  /\ Fewer(m, s)
             /\ \A id : id \in LiveIds(m) <=>
                  \E i \in 1 .. Len(s) : /\ s[i].state = "LIVE" /\ id = <<s[i].key, s[i].sn>>
                                         /\ ~Outdated(s[i], pe, t, type)
<1> DEFINE m == MarkedList(s, pe, t, type)
<1>1. /\ m \in Seq(Task) /\ Len(m) = Len(s) /\ Len(s) \in Nat
      /\ \A i \in 1 .. Len(s) : m[i] = Marked(s[i], pe, t, type)
      /\ Sns(m) = Sns(s)
  BY MarkedListProperties, MarkedSns
<1>2. ASSUME NEW q \in Task
      PROVE  /\ Marked(q, pe, t, type).key = q.key /\ Marked(q, pe, t, type).sn = q.sn
             /\ Marked(q, pe, t, type).state = "LIVE" <=>
                  q.state = "LIVE" /\ ~Outdated(q, pe, t, type)
  BY DEF Marked, Task
<1> HIDE DEF m
<1>3. \A i \in 1 .. Len(s) :
        /\ m[i].key = s[i].key /\ m[i].sn = s[i].sn
        /\ m[i].state = "LIVE" <=> s[i].state = "LIVE" /\ ~Outdated(s[i], pe, t, type)
  <2>1. \A i \in 1 .. Len(s) : s[i] \in Task
    BY InToSet
  <2>2. QED BY <1>1, <1>2, <2>1
<1>4. \A id : id \in LiveIds(m) <=>
        \E i \in 1 .. Len(s) : /\ s[i].state = "LIVE" /\ id = <<s[i].key, s[i].sn>>
                               /\ ~Outdated(s[i], pe, t, type)
  BY <1>1, <1>3, LiveByIndex
<1>5. LiveIds(m) \subseteq LiveIds(s)
  BY <1>4, LiveByIndex
<1>6. LivesApart(s) => LivesApart(m)
  BY <1>1, <1>3 DEF LivesApart
<1>7. QED BY <1>1, <1>4, <1>5, <1>6 DEF Fewer, m

(* A task leaves a list.                                                   *)
LEMMA RemovedLives ==
  ASSUME NEW s \in Seq(Task), NEW k \in 1 .. Len(s)
  PROVE  LET r == RemoveAt(s, k)
         IN  /\ Fewer(r, s) /\ Len(r) = Len(s) - 1
             /\ s[k].state # "LIVE" => LiveIds(r) = LiveIds(s)
             /\ s[k].state = "LIVE" /\ LivesApart(s)
                  => LiveIds(r) = LiveIds(s) \ {<<s[k].key, s[k].sn>>}
             /\ \/ LiveIds(r) = LiveIds(s)
                \/ LiveIds(r) = LiveIds(s) \ {<<s[k].key, s[k].sn>>}
<1> DEFINE r == RemoveAt(s, k)
           at(j) == IF j < k THEN j ELSE j + 1
           from(i) == IF i < k THEN i ELSE i - 1
<1>1. /\ r \in Seq(Task) /\ Len(r) = Len(s) - 1 /\ Len(s) \in Nat
      /\ \A j \in 1 .. Len(s) - 1 : r[j] = IF j < k THEN s[j] ELSE s[j + 1]
  BY RemoveAtIndices, ListDomain
<1>2. Sns(r) \subseteq Sns(s)
  BY RemovedSns
<1> HIDE DEF r
<1>3. \A j \in 1 .. Len(s) - 1 : at(j) \in 1 .. Len(s) /\ at(j) # k /\ r[j] = s[at(j)]
  BY <1>1
<1>4. \A i \in 1 .. Len(s) : i # k => from(i) \in 1 .. Len(s) - 1 /\ at(from(i)) = i
  BY <1>1
<1>5. \A i, j \in 1 .. Len(s) - 1 : at(i) = at(j) => i = j
  OBVIOUS
<1> HIDE DEF at, from
<1>6. LivesApart(s) => LivesApart(r)
  BY <1>1, <1>3, <1>5 DEF LivesApart
<1>0. \A id : id \in LiveIds(s) <=>
        \E i \in 1 .. Len(s) : s[i].state = "LIVE" /\ id = <<s[i].key, s[i].sn>>
  BY LiveByIndex
<1>7. \A id : id \in LiveIds(r) <=>
        \E i \in 1 .. Len(s) : i # k /\ s[i].state = "LIVE" /\ id = <<s[i].key, s[i].sn>>
  <2>1. \A id : id \in LiveIds(r) <=>
          \E j \in 1 .. Len(s) - 1 : r[j].state = "LIVE" /\ id = <<r[j].key, r[j].sn>>
    BY <1>1, LiveByIndex
  <2>2. ASSUME NEW i \in 1 .. Len(s), i # k
        PROVE  \E j \in 1 .. Len(s) - 1 : r[j] = s[i]
    BY <1>3, <1>4, <2>2
  <2>3. \A j \in 1 .. Len(s) - 1 : \E i \in 1 .. Len(s) : i # k /\ r[j] = s[i]
    BY <1>3
  <2>4. ASSUME NEW id \in LiveIds(r)
        PROVE  \E i \in 1 .. Len(s) : i # k /\ s[i].state = "LIVE" /\ id = <<s[i].key, s[i].sn>>
    <3>1. PICK j \in 1 .. Len(s) - 1 : r[j].state = "LIVE" /\ id = <<r[j].key, r[j].sn>>
      BY <2>1, <2>4
    <3>2. PICK i \in 1 .. Len(s) : i # k /\ r[j] = s[i]
      BY <2>3
    <3>3. QED BY <3>1, <3>2
  <2>5. ASSUME NEW i \in 1 .. Len(s), i # k, s[i].state = "LIVE"
        PROVE  <<s[i].key, s[i].sn>> \in LiveIds(r)
    <3>1. PICK j \in 1 .. Len(s) - 1 : r[j] = s[i]
      BY <2>2, <2>5
    <3>2. r[j].state = "LIVE" /\ <<s[i].key, s[i].sn>> = <<r[j].key, r[j].sn>>
      BY <2>5, <3>1
    <3>3. QED BY <2>1, <3>2
  <2>6. QED BY <2>4, <2>5
<1>8. LiveIds(r) \subseteq LiveIds(s)
  BY <1>0, <1>7
<1>9. s[k].state # "LIVE" => LiveIds(r) = LiveIds(s)
  <2>1. s[k].state # "LIVE" => \A id : id \in LiveIds(r) <=> id \in LiveIds(s)
    BY <1>0, <1>7
  <2>2. QED BY <2>1
<1>10. ASSUME s[k].state = "LIVE", LivesApart(s)
       PROVE  LiveIds(r) = LiveIds(s) \ {<<s[k].key, s[k].sn>>}
  <2>1. \A i \in 1 .. Len(s) : s[i].state = "LIVE" /\ i # k =>
          <<s[i].key, s[i].sn>> # <<s[k].key, s[k].sn>>
    BY <1>10 DEF LivesApart
  <2>2. \A id : id \in LiveIds(r) <=> id \in LiveIds(s) /\ id # <<s[k].key, s[k].sn>>
    BY <1>0, <1>7, <1>10, <2>1
  <2>3. QED BY <2>2
<1>11. \/ LiveIds(r) = LiveIds(s)
       \/ LiveIds(r) = LiveIds(s) \ {<<s[k].key, s[k].sn>>}
  <2>1. \A id \in LiveIds(s) : id # <<s[k].key, s[k].sn>> => id \in LiveIds(r)
    BY <1>0, <1>7
  <2>2. QED BY <1>8, <2>1
<1>12. QED BY <1>1, <1>2, <1>6, <1>8, <1>9, <1>10, <1>11 DEF Fewer, r

(* A live task joins a list.                                               *)
LEMMA AppendedLives ==
  ASSUME NEW s \in Seq(Task), NEW t \in Task, t.state = "LIVE"
  PROVE  /\ Append(s, t) \in Seq(Task)
         /\ Len(Append(s, t)) = Len(s) + 1 /\ Sns(Append(s, t)) = Sns(s) \cup {t.sn}
         /\ LiveIds(Append(s, t)) = LiveIds(s) \cup {<<t.key, t.sn>>}
         /\ LivesApart(s) /\ <<t.key, t.sn>> \notin LiveIds(s) => LivesApart(Append(s, t))
<1> DEFINE a == Append(s, t)
<1>1. /\ a \in Seq(Task) /\ Len(a) = Len(s) + 1 /\ ToSet(a) = ToSet(s) \cup {t}
      /\ Sns(a) = Sns(s) \cup {t.sn}
  BY AppendedProperties, AppendedSns
<1>2. Len(s) \in Nat /\ (\A i \in 1 .. Len(s) : a[i] = s[i]) /\ a[Len(s) + 1] = t
  OBVIOUS
<1> HIDE DEF a
<1>3. LiveIds(a) = LiveIds(s) \cup {<<t.key, t.sn>>}
  BY <1>1 DEF LiveIds, Live
<1>4. ASSUME LivesApart(s), <<t.key, t.sn>> \notin LiveIds(s) PROVE LivesApart(a)
  <2>1. \A i \in 1 .. Len(s) : s[i].state = "LIVE" => s[i].sn # t.sn \/ s[i].key # t.key
    BY <1>4, LiveByIndex
  <2>2. \A i \in 1 .. Len(s) + 1 : i = Len(s) + 1 \/ i \in 1 .. Len(s)
    BY <1>2
  <2>3. QED BY <1>1, <1>2, <1>4, <2>1, <2>2 DEF LivesApart
<1>5. QED BY <1>1, <1>3, <1>4 DEF a
-----------------------------------------------------------------------------
(* What the refinement rests on: no live request is in the lists of a peon *)
(* twice but a disconnect, which two names of one device may double, a     *)
(* dynamic peon has one task at most, every task that is not watched has a *)
(* number, and no device that is watched is being connected.               *)
OneTask == \A d \in DynPeon : Len(wait[d]) + Len(proc[d]) <= 1
Numbered ==
  /\ \A p \in Peon \ {"RECHECK"} : 0 \notin Sns(wait[p]) \cup Sns(proc[p])
  /\ \A c \in Caller : adding[c] # NoRequest => adding[c].task.sn # 0
NoTwins ==
  \A p \in Peon \ {"DISCONN"} : /\ LivesApart(wait[p]) /\ LivesApart(proc[p])
                                /\ LiveIds(wait[p]) \cap LiveIds(proc[p]) = {}
WatchedIdle ==
  \A id \in LiveIds(proc["CONNECT"]) : <<id[1], 0>> \notin LiveIds(wait["RECHECK"])

PromiseInv == OneTask /\ Numbered /\ NoTwins /\ WatchedIdle

(* The requests and the watched devices by the live tasks of the lists.    *)
Req(p, k, n) == [queue |-> p, key |-> k, sn |-> n]
Watched(list) == {t.key : t \in Live(list["RECHECK"])}

LEMMA RequestIn ==
  ASSUME NEW list
  PROVE  /\ \A p, k, n : Req(p, k, n) \in AsRequests(list) <=>
              p \in Peon \ {"RECHECK"} /\ <<k, n>> \in LiveIds(list[p])
         /\ \A r \in AsRequests(list) : r = Req(r.queue, r.key, r.sn)
<1>1. \A r : r \in AsRequests(list) <=>
        \E p \in Peon \ {"RECHECK"} : \E t \in Live(list[p]) : r = Req(p, t.key, t.sn)
  BY DEF AsRequests, Req
<1>2. \A p, k, n, q, j, m : Req(p, k, n) = Req(q, j, m) <=> p = q /\ k = j /\ n = m
  BY DEF Req
<1>3. \A p, k, n : Req(p, k, n) \in AsRequests(list) <=>
        p \in Peon \ {"RECHECK"} /\ <<k, n>> \in LiveIds(list[p])
  BY <1>1, <1>2 DEF LiveIds
<1>4. \A r \in AsRequests(list) : r = Req(r.queue, r.key, r.sn)
  BY <1>1 DEF Req
<1>5. QED BY <1>3, <1>4

(* A set of requests that has those of the lists and no others.            *)
LEMMA RequestsAre ==
  ASSUME NEW list, NEW T,
         \A r \in T : r = Req(r.queue, r.key, r.sn) /\ r.queue \in Peon \ {"RECHECK"},
         \A p \in Peon \ {"RECHECK"} : \A k, n : Req(p, k, n) \in T <=> <<k, n>> \in LiveIds(list[p])
  PROVE  AsRequests(list) = T
<1>1. \A r \in AsRequests(list) :
        /\ r = Req(r.queue, r.key, r.sn) /\ r.queue \in Peon \ {"RECHECK"}
        /\ <<r.key, r.sn>> \in LiveIds(list[r.queue])
  <2>1. ASSUME NEW r \in AsRequests(list)
        PROVE  r = Req(r.queue, r.key, r.sn) /\ Req(r.queue, r.key, r.sn) \in AsRequests(list)
    BY RequestIn
  <2>2. QED BY <2>1, RequestIn
<1>2. \A r \in T : <<r.key, r.sn>> \in LiveIds(list[r.queue])
  OBVIOUS
<1>3. \A r \in T : r \in AsRequests(list)
  <2>1. ASSUME NEW r \in T PROVE r \in AsRequests(list)
    <3>1. Req(r.queue, r.key, r.sn) \in AsRequests(list)
      BY <1>2, RequestIn
    <3>2. QED BY <3>1
  <2>2. QED BY <2>1
<1>4. \A r \in AsRequests(list) : r \in T
  <2>1. ASSUME NEW r \in AsRequests(list) PROVE r \in T
    <3>1. Req(r.queue, r.key, r.sn) \in T
      BY <1>1
    <3>2. QED BY <1>1, <3>1
  <2>2. QED BY <2>1
<1>5. QED BY <1>3, <1>4

(* One list gains a request, or loses one; the others keep theirs.         *)
Gains(new, old, p, k, n) ==
  /\ \A q \in Peon \ {"RECHECK"} : q # p => LiveIds(new[q]) = LiveIds(old[q])
  /\ LiveIds(new[p]) = LiveIds(old[p]) \cup {<<k, n>>}
Loses(new, old, p, k, n) ==
  /\ \A q \in Peon \ {"RECHECK"} : q # p => LiveIds(new[q]) = LiveIds(old[q])
  /\ LiveIds(new[p]) = LiveIds(old[p]) \ {<<k, n>>}

LEMMA RequestJoins ==
  ASSUME NEW old, NEW new, NEW p \in Peon \ {"RECHECK"}, NEW k, NEW n, Gains(new, old, p, k, n)
  PROVE  AsRequests(new) = AsRequests(old) \cup {Req(p, k, n)}
<1> DEFINE T == AsRequests(old) \cup {Req(p, k, n)}
<1>1. /\ \A q, j, m : Req(q, j, m) \in AsRequests(old) <=>
           q \in Peon \ {"RECHECK"} /\ <<j, m>> \in LiveIds(old[q])
      /\ \A r \in AsRequests(old) : r = Req(r.queue, r.key, r.sn)
  BY RequestIn
<1>2. \A r \in T : r = Req(r.queue, r.key, r.sn) /\ r.queue \in Peon \ {"RECHECK"}
  <2>1. \A r \in AsRequests(old) : Req(r.queue, r.key, r.sn) \in AsRequests(old)
    BY <1>1
  <2>2. Req(p, k, n) = Req(Req(p, k, n).queue, Req(p, k, n).key, Req(p, k, n).sn)
        /\ Req(p, k, n).queue = p
    BY DEF Req
  <2>3. \A r \in AsRequests(old) : r = Req(r.queue, r.key, r.sn) /\ r.queue \in Peon \ {"RECHECK"}
    BY <1>1, <2>1
  <2>4. QED BY <2>2, <2>3
<1>3. ASSUME NEW q \in Peon \ {"RECHECK"}, NEW j, NEW m
      PROVE  Req(q, j, m) \in T <=> <<j, m>> \in LiveIds(new[q])
  <2>1. Req(q, j, m) \in AsRequests(old) <=> <<j, m>> \in LiveIds(old[q])
    BY <1>1
  <2>2. Req(q, j, m) = Req(p, k, n) <=> q = p /\ <<j, m>> = <<k, n>>
    BY DEF Req
  <2>3. CASE q = p
    BY <2>1, <2>2, <2>3 DEF Gains
  <2>4. CASE q # p
    BY <2>1, <2>2, <2>4 DEF Gains
  <2>5. QED BY <2>3, <2>4
<1> HIDE DEF T
<1>4. QED BY <1>2, <1>3, RequestsAre DEF T

LEMMA RequestLeaves ==
  ASSUME NEW old, NEW new, NEW p \in Peon \ {"RECHECK"}, NEW k, NEW n, Loses(new, old, p, k, n)
  PROVE  AsRequests(new) = AsRequests(old) \ {Req(p, k, n)}
<1> DEFINE T == AsRequests(old) \ {Req(p, k, n)}
<1>1. /\ \A q, j, m : Req(q, j, m) \in AsRequests(old) <=>
           q \in Peon \ {"RECHECK"} /\ <<j, m>> \in LiveIds(old[q])
      /\ \A r \in AsRequests(old) : r = Req(r.queue, r.key, r.sn)
  BY RequestIn
<1>2. \A r \in T : r = Req(r.queue, r.key, r.sn) /\ r.queue \in Peon \ {"RECHECK"}
  <2>1. \A r \in AsRequests(old) : Req(r.queue, r.key, r.sn) \in AsRequests(old)
    BY <1>1
  <2>2. Req(p, k, n) = Req(Req(p, k, n).queue, Req(p, k, n).key, Req(p, k, n).sn)
        /\ Req(p, k, n).queue = p
    BY DEF Req
  <2>3. \A r \in AsRequests(old) : r = Req(r.queue, r.key, r.sn) /\ r.queue \in Peon \ {"RECHECK"}
    BY <1>1, <2>1
  <2>4. QED BY <2>2, <2>3
<1>3. ASSUME NEW q \in Peon \ {"RECHECK"}, NEW j, NEW m
      PROVE  Req(q, j, m) \in T <=> <<j, m>> \in LiveIds(new[q])
  <2>1. Req(q, j, m) \in AsRequests(old) <=> <<j, m>> \in LiveIds(old[q])
    BY <1>1
  <2>2. Req(q, j, m) = Req(p, k, n) <=> q = p /\ <<j, m>> = <<k, n>>
    BY DEF Req
  <2>3. CASE q = p
    BY <2>1, <2>2, <2>3 DEF Loses
  <2>4. CASE q # p
    BY <2>1, <2>2, <2>4 DEF Loses
  <2>5. QED BY <2>3, <2>4
<1> HIDE DEF T
<1>4. QED BY <1>2, <1>3, RequestsAre DEF T

(* The lists keep their requests.                                          *)
LEMMA RequestsStay ==
  ASSUME NEW old, NEW new,
         \A q \in Peon \ {"RECHECK"} : LiveIds(new[q]) = LiveIds(old[q])
  PROVE  AsRequests(new) = AsRequests(old)
<1>1. \A r \in AsRequests(old) : r = Req(r.queue, r.key, r.sn) /\ r.queue \in Peon \ {"RECHECK"}
  <2>1. \A r \in AsRequests(old) : Req(r.queue, r.key, r.sn) \in AsRequests(old)
    BY RequestIn
  <2>2. QED BY <2>1, RequestIn
<1>2. \A q \in Peon \ {"RECHECK"} : \A j, m :
        Req(q, j, m) \in AsRequests(old) <=> <<j, m>> \in LiveIds(new[q])
  BY RequestIn
<1>3. QED BY <1>1, <1>2, RequestsAre

LEMMA WatchedIn ==
  ASSUME KeysOK
  PROVE  \A k : k \in Watched(wait) <=> <<k, 0>> \in LiveIds(wait["RECHECK"])
<1>1. \A t \in Live(wait["RECHECK"]) : t.sn = 0
  BY DEF KeysOK, Listed, Live
<1>2. QED BY <1>1 DEF Watched, LiveIds

(* A step that leaves the live tasks of every list alone.                  *)
LEMMA PromiseStutters ==
  ASSUME \A p \in Peon : LiveIds(wait'[p]) = LiveIds(wait[p]) /\ LiveIds(proc'[p]) = LiveIds(proc[p])
  PROVE  UNCHANGED Promise!rvars
<1>1. ASSUME NEW old, NEW new, \A p \in Peon : LiveIds(new[p]) = LiveIds(old[p])
      PROVE  AsRequests(new) = AsRequests(old)
  BY <1>1, RequestsStay
<1>2. AsRequests(wait') = AsRequests(wait) /\ AsRequests(proc') = AsRequests(proc)
  BY <1>1
<1>3. \A list : {t.key : t \in Live(list)} = {id[1] : id \in LiveIds(list)}
  <2> SUFFICES ASSUME NEW list PROVE {t.key : t \in Live(list)} = {id[1] : id \in LiveIds(list)}
    OBVIOUS
  <2>1. \A t \in Live(list) : <<t.key, t.sn>> \in LiveIds(list) /\ <<t.key, t.sn>>[1] = t.key
    BY DEF LiveIds
  <2>2. \A id \in LiveIds(list) : \E t \in Live(list) : id[1] = t.key
    BY DEF LiveIds
  <2>3. QED BY <2>1, <2>2
<1>4. {t.key : t \in Live(wait'["RECHECK"])} = {t.key : t \in Live(wait["RECHECK"])}
  <2>1. LiveIds(wait'["RECHECK"]) = LiveIds(wait["RECHECK"])
    BY DEF Peon, StaticPeon
  <2>2. {t.key : t \in Live(wait'["RECHECK"])} = {id[1] : id \in LiveIds(wait'["RECHECK"])}
    BY <1>3
  <2>3. {t.key : t \in Live(wait["RECHECK"])} = {id[1] : id \in LiveIds(wait["RECHECK"])}
    BY <1>3
  <2>4. QED BY <2>1, <2>2, <2>3
<1>5. QED BY <1>2, <1>4 DEF Promise!rvars
-----------------------------------------------------------------------------
(* The invariant, for one step.                                            *)
Ready == PeonInv /\ ExclusiveInv /\ PromiseInv /\ PeonInv'

LEMMA ReadyTypes ==
  ASSUME Ready
  PROVE  /\ \A p \in Peon : wait[p] \in Seq(Task) /\ proc[p] \in Seq(Task)
         /\ \A p \in Peon : wait'[p] \in Seq(Task) /\ proc'[p] \in Seq(Task)
         /\ {"CONNECT", "DISCONN", "DCBATCH", "RECHECK"} \subseteq Peon
         /\ "RECHECK" \notin DynPeon /\ DynPeon \subseteq Peon
         /\ DOMAIN wait = Peon /\ DOMAIN proc = Peon
BY ConstantsAssumption DEF Ready, PeonInv, TypeOK, Peon, StaticPeon

(* Unchanged lists.                                                        *)
LEMMA SameAlike ==
  ASSUME NEW s \in Seq(Task)
  PROVE  Alike(s, s)
BY ListDomain DEF Alike, Fewer

(* A step that puts nothing into the lists.                                *)
LEMMA FewerPromise ==
  ASSUME Ready, NoRequestAdded,
         \A p \in Peon : Fewer(wait'[p], wait[p]) /\ Fewer(proc'[p], proc[p])
  PROVE  PromiseInv'
<1>1. OneTask'
  <2> SUFFICES ASSUME NEW d \in DynPeon PROVE Len(wait'[d]) + Len(proc'[d]) <= 1
    BY DEF OneTask
  <2>1. d \in Peon /\ Len(wait[d]) + Len(proc[d]) <= 1
    BY DEF Ready, PromiseInv, OneTask, Peon
  <2>2. /\ Len(wait[d]) \in Nat /\ Len(proc[d]) \in Nat
        /\ Len(wait'[d]) \in Nat /\ Len(proc'[d]) \in Nat
    BY <2>1, ReadyTypes
  <2>3. Len(wait'[d]) <= Len(wait[d]) /\ Len(proc'[d]) <= Len(proc[d])
    BY <2>1 DEF Fewer
  <2>4. \A a, b, i, j \in Nat : i <= a /\ j <= b /\ a + b <= 1 => i + j <= 1
    OBVIOUS
  <2>5. QED BY <2>1, <2>2, <2>3, <2>4, Zenon
<1>2. Numbered'
  BY DEF Ready, PromiseInv, Numbered, Fewer, NoRequestAdded
<1>3. NoTwins'
  BY DEF Ready, PromiseInv, NoTwins, Fewer
<1>4. WatchedIdle'
  BY ReadyTypes DEF Ready, PromiseInv, WatchedIdle, Fewer
<1>5. QED BY <1>1, <1>2, <1>3, <1>4 DEF PromiseInv

LEMMA AlikePromise ==
  ASSUME Ready, NoRequestAdded,
         \A p \in Peon : Alike(wait'[p], wait[p]) /\ Alike(proc'[p], proc[p])
  PROVE  PromiseInv' /\ UNCHANGED Promise!rvars
BY FewerPromise, PromiseStutters DEF Alike

(* Steps that leave all lists alone.                                       *)
LEMMA IdlePromise ==
  ASSUME Ready, NoRequestAdded, UNCHANGED <<wait, proc>>
  PROVE  PromiseInv' /\ UNCHANGED Promise!rvars
BY AlikePromise, SameAlike, ReadyTypes

LEMMA GeneratePromise ==
  ASSUME Ready, NEW c \in Caller, peon_sn_generate(c)
  PROVE  PromiseInv' /\ UNCHANGED Promise!rvars
<1>1. UNCHANGED <<wait, proc>> /\ sn \in Nat
      /\ \E r \in Requests(c) :
           adding' = [adding EXCEPT ![c] =
                        [peon |-> r.peon, task |-> NewTask(r.key, r.force, sn + 1)]]
  BY DEF peon_sn_generate, lists, Ready, PeonInv, TypeOK
<1>2. adding'[c].task.sn = sn + 1 /\ \A e \in Caller : e # c => adding'[e] = adding[e]
  BY <1>1 DEF Ready, PeonInv, TypeOK, NewTask
<1>3. Numbered'
  <2>1. sn + 1 # 0
    BY <1>1
  <2>2. QED BY <1>1, <1>2, <2>1 DEF Ready, PromiseInv, Numbered
<1>4. OneTask' /\ NoTwins' /\ WatchedIdle'
  BY <1>1 DEF Ready, PromiseInv, OneTask, NoTwins, WatchedIdle
<1>5. UNCHANGED Promise!rvars
  BY <1>1, PromiseStutters
<1>6. QED BY <1>3, <1>4, <1>5 DEF PromiseInv

(* A task marked dead earlier is freed.                                    *)
LEMMA DeadPromise ==
  ASSUME Ready, NEW pe \in Peon, scan_dead(pe) \/ (pe = "RECHECK" /\ recheck_dead)
  PROVE  PromiseInv' /\ UNCHANGED Promise!rvars
<1>1. /\ Scanning(pe) /\ wait' = [wait EXCEPT ![pe] = RemoveAt(wait[pe], lock.at)]
      /\ wait[pe][lock.at].state = "DEAD" /\ UNCHANGED <<proc, adding>>
  BY DEF scan_dead, recheck_dead, FreeAtCursor
<1>2. wait[pe] \in Seq(Task) /\ lock.at \in 1 .. Len(wait[pe])
  BY <1>1, CursorInList DEF Ready
<1>3. Alike(RemoveAt(wait[pe], lock.at), wait[pe])
  BY <1>1, <1>2, RemovedLives DEF Alike
<1>4. \A p \in Peon : wait'[p] = IF p = pe THEN RemoveAt(wait[pe], lock.at) ELSE wait[p]
  BY <1>1, ReadyTypes
<1>5. \A p \in Peon : Alike(wait'[p], wait[p]) /\ Alike(proc'[p], proc[p])
  BY <1>1, <1>3, <1>4, SameAlike, ReadyTypes
<1>6. QED BY <1>1, <1>5, AlikePromise DEF NoRequestAdded

(* A handler moves on.                                                     *)
LEMMA HandledAlike ==
  ASSUME Ready, NEW pe \in Peon, NEW i \in DOMAIN proc[pe], NEW c \in Ctx,
         proc' = [proc EXCEPT ![pe][i].ctx = c]
  PROVE  \A p \in Peon : Alike(proc'[p], proc[p])
<1> DEFINE s == proc[pe]
           e == [s[i] EXCEPT !.ctx = c]
           m == [s EXCEPT ![i] = e]
<1>1. s \in Seq(Task) /\ i \in 1 .. Len(s) /\ DOMAIN s = 1 .. Len(s) /\ Len(s) \in Nat
  BY ListDomain, ReadyTypes
<1>2. s[i] \in Task
  BY <1>1
<1>3. e \in Task /\ e.sn = s[i].sn /\ e.key = s[i].key /\ e.state = s[i].state
  BY <1>2 DEF Task
<1>4. proc' = [proc EXCEPT ![pe] = m]
  OBVIOUS
<1> HIDE DEF e
<1>5. /\ m \in Seq(Task) /\ Len(m) = Len(s)
      /\ \A j \in 1 .. Len(s) : m[j] = IF j = i THEN e ELSE s[j]
  BY <1>1, <1>3
<1> HIDE DEF m
<1>6. Alike(m, s)
  BY <1>1, <1>3, <1>5, SameEntriesAlike
<1>7. \A p \in Peon : proc'[p] = IF p = pe THEN m ELSE proc[p]
  BY <1>4, ReadyTypes
<1>8. QED BY <1>6, <1>7, SameAlike, ReadyTypes

LEMMA HandlePromise ==
  ASSUME Ready, NEW pe \in Peon, NEW i \in DOMAIN proc[pe], NEW c \in Ctx, handle(pe, i, c)
  PROVE  PromiseInv' /\ UNCHANGED Promise!rvars
<1>1. UNCHANGED <<wait, adding>> /\ \A p \in Peon : Alike(proc'[p], proc[p])
  BY HandledAlike DEF handle
<1>2. QED BY <1>1, AlikePromise, SameAlike, ReadyTypes DEF NoRequestAdded

(* Time passes.                                                            *)
LEMMA TickPromise ==
  ASSUME Ready, Tick
  PROVE  PromiseInv' /\ UNCHANGED Promise!rvars
<1>1. /\ wait' = [pe \in Peon |-> [i \in DOMAIN wait[pe] |-> Older(wait[pe][i])]]
      /\ UNCHANGED <<proc, adding>>
  BY DEF Tick
<1>2. ASSUME NEW p \in Peon PROVE Alike(wait'[p], wait[p])
  <2> DEFINE s == wait[p]
             m == [i \in DOMAIN s |-> Older(s[i])]
  <2>1. s \in Seq(Task) /\ DOMAIN s = 1 .. Len(s) /\ wait'[p] = m
    BY <1>1, ReadyTypes, ListDomain
  <2>2. m \in Seq(Task) /\ Len(m) = Len(s)
    BY <2>1, OlderListProperties
  <2>3. \A q \in Task : Older(q).key = q.key /\ Older(q).sn = q.sn /\ Older(q).state = q.state
    BY DEF Older, Task
  <2>4. \A i \in 1 .. Len(s) : s[i] \in Task /\ m[i] = Older(s[i])
    BY <2>1, InToSet
  <2> HIDE DEF m
  <2>5. QED BY <2>1, <2>2, <2>3, <2>4, SameEntriesAlike
<1>3. QED BY <1>1, <1>2, AlikePromise, SameAlike, ReadyTypes DEF NoRequestAdded
-----------------------------------------------------------------------------
(* A new request joins the waiting ones.                                   *)
LEMMA Submitted ==
  ASSUME Ready, NoRequestAdded, NEW p \in Peon \ {"RECHECK"}, NEW t \in Task, t.state = "LIVE",
         t.sn # 0,
         p # "DISCONN" => <<t.key, t.sn>> \notin LiveIds(wait[p]) \cup LiveIds(proc[p]),
         p \in DynPeon => Len(wait[p]) = 0 /\ Len(proc[p]) = 0,
         wait'[p] = Append(wait[p], t), \A q \in Peon : q # p => wait'[q] = wait[q],
         \A q \in Peon : Alike(proc'[q], proc[q])
  PROVE  PromiseInv' /\ Promise!Next
<1> DEFINE r == Req(p, t.key, t.sn)
<1>1. /\ wait'[p] = Append(wait[p], t)
      /\ \A q \in Peon : q # p => wait'[q] = wait[q]
  OBVIOUS
<1>2. /\ Len(wait'[p]) = Len(wait[p]) + 1 /\ Sns(wait'[p]) = Sns(wait[p]) \cup {t.sn}
      /\ LiveIds(wait'[p]) = LiveIds(wait[p]) \cup {<<t.key, t.sn>>}
      /\ p # "DISCONN" => LivesApart(wait'[p])
  <2>1. wait[p] \in Seq(Task) /\ (p # "DISCONN" => LivesApart(wait[p]))
    BY ReadyTypes DEF Ready, PromiseInv, NoTwins
  <2>2. QED BY <1>1, <2>1, AppendedLives
<1>3. OneTask'
  <2> SUFFICES ASSUME NEW d \in DynPeon PROVE Len(wait'[d]) + Len(proc'[d]) <= 1
    BY DEF OneTask
  <2>1. d \in Peon /\ Len(wait[d]) + Len(proc[d]) <= 1
    BY DEF Ready, PromiseInv, OneTask, Peon
  <2>2. /\ Len(wait[d]) \in Nat /\ Len(proc[d]) \in Nat
        /\ Len(wait'[d]) \in Nat /\ Len(proc'[d]) \in Nat
    <3>1. /\ wait[d] \in Seq(Task) /\ proc[d] \in Seq(Task)
          /\ wait'[d] \in Seq(Task) /\ proc'[d] \in Seq(Task)
      BY <2>1, ReadyTypes
    <3>2. QED BY <3>1, ListDomain
  <2>3. Len(proc'[d]) <= Len(proc[d])
    BY <2>1 DEF Alike, Fewer
  <2>4. CASE d = p
    <3>1. \A a, j \in Nat : a = 0 + 1 /\ j <= 0 => a + j <= 1
      OBVIOUS
    <3>2. Len(wait'[d]) = 0 + 1 /\ Len(proc'[d]) <= 0
      BY <1>2, <2>3, <2>4
    <3>3. QED BY <2>2, <3>1, <3>2, Zenon
  <2>5. CASE d # p
    <3>1. \A a, b, j \in Nat : j <= b /\ a + b <= 1 => a + j <= 1
      OBVIOUS
    <3>2. wait'[d] = wait[d]
      BY <1>1, <2>1, <2>5
    <3>3. QED BY <2>1, <2>2, <2>3, <3>1, <3>2, Zenon
  <2>6. QED BY <2>4, <2>5
<1>4. Numbered'
  <2>1. \A q \in Peon \ {"RECHECK"} : 0 \notin Sns(wait'[q]) \cup Sns(proc'[q])
    BY <1>1, <1>2 DEF Ready, PromiseInv, Numbered, Alike, Fewer
  <2>2. QED BY <2>1 DEF Ready, PromiseInv, Numbered, NoRequestAdded
<1>5. NoTwins'
  <2> SUFFICES ASSUME NEW q \in Peon \ {"DISCONN"}
               PROVE  /\ LivesApart(wait'[q]) /\ LivesApart(proc'[q])
                      /\ LiveIds(wait'[q]) \cap LiveIds(proc'[q]) = {}
    BY DEF NoTwins
  <2>1. LivesApart(proc'[q]) /\ LiveIds(proc'[q]) = LiveIds(proc[q]) /\ LivesApart(wait[q])
        /\ LiveIds(wait[q]) \cap LiveIds(proc[q]) = {}
    BY DEF Alike, Fewer, Ready, PromiseInv, NoTwins
  <2>2. CASE q = p
    BY <1>2, <2>1, <2>2
  <2>3. CASE q # p
    BY <1>1, <2>1, <2>3
  <2>4. QED BY <2>2, <2>3
<1>6. WatchedIdle'
  BY <1>1, ReadyTypes DEF Ready, PromiseInv, WatchedIdle, Alike
<1>7. AsRequests(wait') = AsRequests(wait) \cup {r}
  <2>1. Gains(wait', wait, p, t.key, t.sn)
    BY <1>1, <1>2 DEF Gains
  <2>2. QED BY <2>1, RequestJoins
<1>8. AsRequests(proc') = AsRequests(proc)
  BY RequestsStay DEF Alike
<1>9. wait'["RECHECK"] = wait["RECHECK"]
  BY <1>1, ReadyTypes
<1>10. r.queue = "DISCONN" \/ r \notin AsRequests(wait) \cup AsRequests(proc)
  <2>1. r.queue = p
    BY DEF Req
  <2>2. QED BY <2>1, RequestIn
<1>11. r \in Promise!Request
  <2>1. p \in Promise!Queue /\ t.key \in Device \cup Batch /\ t.sn \in Nat
    BY DEF Promise!Queue, Peon, StaticPeon, Task
  <2>2. QED BY <2>1 DEF Promise!Request, Req
<1>12. Promise!Submit(r) /\ r \in AsRequests(wait')
  BY <1>7, <1>8, <1>9, <1>10, <1>11 DEF Promise!Submit
<1>13. QED BY <1>3, <1>4, <1>5, <1>6, <1>12 DEF PromiseInv, Promise!Next

(* peon_task_add, with the queue of a static or a new dynamic peon.        *)
LEMMA QueuePromise ==
  ASSUME Ready, NoRequestAdded, NEW pe \in {"CONNECT", "DISCONN", "DCBATCH"},
         NEW t \in Task, t.state = "LIVE", t.sn # 0, Queue(pe, t),
         pe # "DISCONN" => <<t.key, t.sn>> \notin LiveIds(wait[pe]) \cup LiveIds(proc[pe]),
         \A q \in Peon : Alike(proc'[q], proc[q])
  PROVE  PromiseInv' /\ (Promise!Next \/ UNCHANGED Promise!rvars)
<1>1. CASE QueueStatic(pe, t)
  <2>1. pe \in Peon \ {"RECHECK"} /\ pe \notin DynPeon
    BY ConstantsAssumption DEF Peon, StaticPeon
  <2>2. wait'[pe] = Append(wait[pe], t) /\ \A q \in Peon : q # pe => wait'[q] = wait[q]
    BY <1>1, <2>1, ReadyTypes DEF QueueStatic
  <2>3. QED BY <2>1, <2>2, Submitted
<1>2. CASE QueueDynamic(pe, t)
  <2>1. PICK d \in DynPeon : dyn[d] = "none" /\ wait' = [wait EXCEPT ![d] = <<t>>]
    BY <1>2 DEF QueueDynamic
  <2>2. d \in Peon \ {"RECHECK"} /\ wait[d] \in Seq(Task) /\ proc[d] \in Seq(Task)
    BY ReadyTypes
  <2>3. Len(wait[d]) = 0 /\ Len(proc[d]) = 0
    BY <2>1 DEF Ready, PeonInv, LockOK
  <2>4. LiveIds(wait[d]) = {} /\ LiveIds(proc[d]) = {}
    BY <2>2, <2>3, EmptyList DEF LiveIds, Live
  <2>5. wait[d] = <<>>
    BY <2>2, <2>3
  <2>6. wait'[d] = Append(wait[d], t) /\ \A q \in Peon : q # d => wait'[q] = wait[q]
    BY <2>1, <2>2, <2>5, ReadyTypes
  <2>7. QED BY <2>2, <2>3, <2>4, <2>6, Submitted
<1>3. CASE QueueStuck
  <2>1. UNCHANGED wait
    BY <1>3 DEF QueueStuck
  <2>2. QED BY <2>1, AlikePromise, SameAlike, ReadyTypes
<1>4. QED BY <1>1, <1>2, <1>3 DEF Queue

LEMMA CallerPromise ==
  ASSUME Ready, NEW c \in Caller, peon_task_reject(c) \/ peon_task_add(c)
  PROVE  PromiseInv' /\ (Promise!Next \/ UNCHANGED Promise!rvars)
<1>1. /\ adding[c] # NoRequest /\ proc' = proc /\ adding' = [adding EXCEPT ![c] = NoRequest]
  BY DEF peon_task_reject, peon_task_add, lists
<1>2. NoRequestAdded
  BY <1>1 DEF Ready, PeonInv, TypeOK, NoRequestAdded
<1>3. CASE peon_task_reject(c)
  BY <1>2, <1>3, IdlePromise DEF peon_task_reject, lists
<1>4. CASE peon_task_add(c)
  <2> DEFINE t == adding[c].task
             pe == adding[c].peon
  <2>1. adding[c] \in [peon : StaticPeon \ {"RECHECK"}, task : Task]
    BY <1>1 DEF Ready, PeonInv, TypeOK, Request
  <2>2. pe \in {"CONNECT", "DISCONN", "DCBATCH"} /\ t \in Task /\ Queue(pe, t)
    BY <1>4, <2>1 DEF peon_task_add, StaticPeon
  <2>3. t.state = "LIVE" /\ t.sn # 0 /\ t.sn \notin ConnectSns \cup DisconnectSns
    BY <1>1 DEF Ready, PeonInv, KeysOK, PromiseInv, Numbered, ExclusiveInv, SnsDrawn
  <2> HIDE DEF t, pe
  <2>4. t.sn \notin Sns(wait[pe]) \cup Sns(proc[pe])
    BY <2>2, <2>3 DEF ConnectSns, DisconnectSns
  <2>5. <<t.key, t.sn>> \notin LiveIds(wait[pe]) \cup LiveIds(proc[pe])
    <3>1. \A s : \A id \in LiveIds(s) : id[2] \in Sns(s)
      BY DEF LiveIds, Live, Sns
    <3>2. QED BY <2>4, <3>1
  <2>6. QED BY <1>1, <1>2, <2>2, <2>3, <2>5, QueuePromise, SameAlike, ReadyTypes
<1>5. QED BY <1>3, <1>4

(* A batch makes a disconnect that keeps its number, for the first time or *)
(* once more.                                                              *)
LEMMA InheritPromise ==
  ASSUME Ready, NEW i \in DOMAIN proc["DCBATCH"], NEW d \in Device, NEW c \in Ctx,
         peon_add_disconn_task_inherit(i, d, c)
  PROVE  PromiseInv' /\ (Promise!Next \/ UNCHANGED Promise!rvars)
<1> DEFINE b == proc["DCBATCH"][i]
           t == NewTask(d, FALSE, b.sn)
<1>1. b \in Task /\ b \in ToSet(proc["DCBATCH"])
  <2>1. proc["DCBATCH"] \in Seq(Task)
    BY ReadyTypes
  <2>2. QED BY <2>1, ListDomain, InToSet
<1>2. b.sn \in Nat /\ b.sn \in Sns(proc["DCBATCH"])
  BY <1>1 DEF Task, Sns
<1>3. b.sn # 0
  BY <1>2, ReadyTypes DEF Ready, PromiseInv, Numbered
<1>4. t \in Task /\ t.sn = b.sn /\ t.key = d /\ t.state = "LIVE"
  <2>1. 0 \in 0 .. MaxAge /\ 0 \in 0 .. PEON_FAIL_RETRY_INTERVAL /\ CtxInit \in Ctx
    BY ConstantsAssumption DEF MaxAge
  <2>2. QED BY <2>1, <1>2 DEF NewTask, Task
<1>5. /\ Queue("DISCONN", t) /\ adding' = adding
      /\ proc' = [proc EXCEPT !["DCBATCH"][i].ctx = c]
  BY DEF peon_add_disconn_task_inherit
<1>6. \A p \in Peon : Alike(proc'[p], proc[p])
  BY <1>5, HandledAlike, ReadyTypes
<1> HIDE DEF t, b
<1>7. QED BY <1>3, <1>4, <1>5, <1>6, QueuePromise DEF NoRequestAdded
-----------------------------------------------------------------------------
(* The watched devices of a step and of the next one.                      *)
LEMMA WatchedChange ==
  ASSUME Ready
  PROVE  /\ \A k : k \in Watched(wait) <=> <<k, 0>> \in LiveIds(wait["RECHECK"])
         /\ \A k : k \in Watched(wait') <=> <<k, 0>> \in LiveIds(wait'["RECHECK"])
         /\ \A id \in LiveIds(wait["RECHECK"]) \cup LiveIds(wait'["RECHECK"]) : id = <<id[1], 0>>
<1>1. KeysOK /\ KeysOK'
  BY DEF Ready, PeonInv
<1>2. \A k : k \in Watched(wait) <=> <<k, 0>> \in LiveIds(wait["RECHECK"])
  BY <1>1, WatchedIn
<1>3. /\ \A t \in Live(wait["RECHECK"]) : t.sn = 0
      /\ \A t \in Live(wait'["RECHECK"]) : t.sn = 0
  BY <1>1 DEF KeysOK, Listed, Live
<1>4. \A k : k \in Watched(wait') <=> <<k, 0>> \in LiveIds(wait'["RECHECK"])
  BY <1>3 DEF Watched, LiveIds
<1>5. \A id \in LiveIds(wait["RECHECK"]) \cup LiveIds(wait'["RECHECK"]) : id = <<id[1], 0>>
  BY <1>3 DEF LiveIds
<1>6. QED BY <1>2, <1>4, <1>5

(* A device that is watched is lost and a connect is queued.               *)
LEMMA RecheckGonePromise ==
  ASSUME Ready, NEW c \in Ctx, recheck_gone(c)
  PROVE  PromiseInv' /\ Promise!Next
<1> DEFINE old == wait["RECHECK"][lock.at]
           new == [old EXCEPT !.sn = sn + 1, !.age = 0, !.backoff = 0, !.ctx = c]
           cut == RemoveAt(wait["RECHECK"], lock.at)
           r == Req("CONNECT", old.key, sn + 1)
<1>0. TypeOK /\ sn \in Nat /\ {"CONNECT", "RECHECK", "DISCONN", "DCBATCH"} \subseteq Peon
  BY DEF Ready, PeonInv, TypeOK, Peon, StaticPeon
<1>1. /\ Scanning("RECHECK") /\ old.state = "LIVE" /\ UNCHANGED <<proc, adding>>
      /\ wait'["RECHECK"] = cut /\ wait'["CONNECT"] = Append(wait["CONNECT"], new)
      /\ \A p \in Peon \ {"RECHECK", "CONNECT"} : wait'[p] = wait[p]
  BY <1>0, ReadyTypes DEF recheck_gone
<1>2. /\ old \in Task /\ old \in ToSet(wait["RECHECK"])
      /\ wait["RECHECK"] \in Seq(Task) /\ lock.at \in 1 .. Len(wait["RECHECK"])
  BY <1>0, <1>1, CursorInList DEF Ready
<1>3. new \in Task /\ new.sn = sn + 1 /\ new.key = old.key /\ new.state = "LIVE"
  <2>1. 0 \in 0 .. MaxAge /\ 0 \in 0 .. PEON_FAIL_RETRY_INTERVAL
    BY ConstantsAssumption DEF MaxAge
  <2>2. sn + 1 \in Nat
    BY <1>0
  <2> HIDE DEF old
  <2>3. QED BY <1>1, <1>2, <2>1, <2>2 DEF Task
<1>4. old.sn = 0
  BY <1>2, <1>0 DEF Ready, PeonInv, KeysOK, Listed
<1>5. <<old.key, sn + 1>> \notin LiveIds(wait["CONNECT"]) \cup LiveIds(proc["CONNECT"])
  <2>1. \A k \in ConnectSns : k \in Nat /\ k <= sn
    BY <1>0, SnsTyped DEF Ready, ExclusiveInv, SnsApart
  <2>2. sn + 1 \notin ConnectSns
    BY <1>0, <2>1
  <2>3. \A s : \A id \in LiveIds(s) : id[2] \in Sns(s)
    BY DEF LiveIds, Live, Sns
  <2>4. QED BY <2>2, <2>3 DEF ConnectSns
<1>6. /\ Fewer(cut, wait["RECHECK"])
      /\ LiveIds(cut) = LiveIds(wait["RECHECK"]) \ {<<old.key, 0>>}
  <2>1. LivesApart(wait["RECHECK"])
    BY <1>0 DEF Ready, PromiseInv, NoTwins
  <2>2. QED BY <1>1, <1>2, <1>4, <2>1, RemovedLives
<1> HIDE DEF new, old, cut
<1>7. /\ Sns(wait'["CONNECT"]) = Sns(wait["CONNECT"]) \cup {sn + 1}
      /\ LiveIds(wait'["CONNECT"]) = LiveIds(wait["CONNECT"]) \cup {<<old.key, sn + 1>>}
      /\ LivesApart(wait'["CONNECT"])
  <2>1. wait["CONNECT"] \in Seq(Task) /\ LivesApart(wait["CONNECT"])
    BY <1>0, ReadyTypes DEF Ready, PromiseInv, NoTwins
  <2>2. QED BY <1>1, <1>3, <1>5, <2>1, AppendedLives
<1>8. OneTask'
  BY <1>0, <1>1, ConstantsAssumption DEF Ready, PromiseInv, OneTask, Peon, StaticPeon
<1>9. Numbered'
  <2>1. sn + 1 # 0
    BY <1>0
  <2>2. QED BY <1>0, <1>1, <1>7, <2>1 DEF Ready, PromiseInv, Numbered
<1>10. NoTwins'
  <2> SUFFICES ASSUME NEW q \in Peon \ {"DISCONN"}
               PROVE  /\ LivesApart(wait'[q]) /\ LivesApart(proc'[q])
                      /\ LiveIds(wait'[q]) \cap LiveIds(proc'[q]) = {}
    BY DEF NoTwins
  <2>1. /\ proc' = proc /\ LivesApart(proc[q]) /\ LivesApart(wait[q])
        /\ LiveIds(wait[q]) \cap LiveIds(proc[q]) = {}
    BY <1>1 DEF Ready, PromiseInv, NoTwins
  <2>2. CASE q = "CONNECT"
    BY <1>5, <1>7, <2>1, <2>2
  <2>3. CASE q = "RECHECK"
    BY <1>1, <1>6, <2>1, <2>3 DEF Fewer
  <2>4. CASE q \notin {"CONNECT", "RECHECK"}
    BY <1>1, <2>1, <2>4
  <2>5. QED BY <2>2, <2>3, <2>4
<1>11. WatchedIdle'
  BY <1>1, <1>6 DEF Ready, PromiseInv, WatchedIdle, Fewer
<1>12. AsRequests(wait') = AsRequests(wait) \cup {r}
  <2>1. Gains(wait', wait, "CONNECT", old.key, sn + 1)
    BY <1>1, <1>7 DEF Gains
  <2>2. "CONNECT" \in Peon \ {"RECHECK"}
    BY <1>0
  <2>3. QED BY <2>1, <2>2, RequestJoins
<1>13. old.key \in Watched(wait) /\ Watched(wait') = Watched(wait) \ {old.key}
  <2>1. <<old.key, 0>> \in LiveIds(wait["RECHECK"])
    BY <1>1, <1>2, <1>4 DEF LiveIds, Live
  <2>2. \A k : k \in Watched(wait') <=> k \in Watched(wait) /\ k # old.key
    BY <1>1, <1>6, WatchedChange
  <2>3. QED BY <2>1, <2>2, WatchedChange
<1>14. r \notin AsRequests(wait) \cup AsRequests(proc)
  BY <1>5, RequestIn
<1>15. r \in Promise!Request /\ r.queue = "CONNECT" /\ r.key = old.key
  <2>1. old.key \in Device \cup Batch /\ sn + 1 \in Nat
    BY <1>0, <1>2 DEF Task
  <2>2. QED BY <2>1 DEF Promise!Request, Promise!Queue, Req
<1>16. PICK x : x = r
  OBVIOUS
<1> HIDE DEF r
<1>17. Promise!Next
  <2>1. Promise!Revive(x) /\ x \in AsRequests(wait')
    BY <1>1, <1>12, <1>13, <1>14, <1>15, <1>16 DEF Promise!Revive, Watched
  <2>2. QED BY <2>1 DEF Promise!Next
<1>18. QED BY <1>8, <1>9, <1>10, <1>11, <1>17 DEF PromiseInv

(* A dynamic peon frees the request it did not run.                        *)
LEMMA DeconstructPromise ==
  ASSUME Ready, NEW d \in DynPeon, peon_deconstruct(d)
  PROVE  PromiseInv' /\ (Promise!Next \/ UNCHANGED Promise!rvars)
<1>1. /\ d \in Peon \ {"RECHECK"} /\ wait[d] \in Seq(Task) /\ proc[d] \in Seq(Task)
      /\ Len(wait[d]) + Len(proc[d]) <= 1
  BY ReadyTypes DEF Ready, PromiseInv, OneTask
<1>2. /\ wait'[d] = <<>> /\ (\A p \in Peon : p # d => wait'[p] = wait[p])
      /\ UNCHANGED <<proc, adding>>
  BY <1>1, ReadyTypes DEF peon_deconstruct
<1>3. /\ LiveIds(<<>>) = {} /\ Sns(<<>>) = {} /\ LivesApart(<<>>) /\ Len(<<>>) = 0
  BY DEF LiveIds, Live, Sns, ToSet, LivesApart
<1>4. Fewer(wait'[d], wait[d])
  BY <1>1, <1>2, <1>3, ListDomain DEF Fewer
<1>5. \A p \in Peon : Fewer(wait'[p], wait[p]) /\ Fewer(proc'[p], proc[p])
  BY <1>2, <1>4, SameAlike, ReadyTypes DEF Alike
<1>6. PromiseInv'
  BY <1>2, <1>5, FewerPromise DEF NoRequestAdded
<1>7. CASE LiveIds(wait[d]) = {}
  <2>1. \A p \in Peon : LiveIds(wait'[p]) = LiveIds(wait[p]) /\ LiveIds(proc'[p]) = LiveIds(proc[p])
    BY <1>2, <1>3, <1>7
  <2>2. QED BY <1>6, <2>1, PromiseStutters
<1>8. CASE LiveIds(wait[d]) # {}
  <2>1. PICK i \in 1 .. Len(wait[d]) : wait[d][i].state = "LIVE"
    BY <1>1, <1>8, LiveByIndex
  <2> DEFINE t == wait[d][i]
             r == Req(d, t.key, t.sn)
  <2>2. \A j \in 1 .. Len(wait[d]) : j = i
    <3>1. \A a, b \in Nat : a + b <= 1 => a <= 1
      OBVIOUS
    <3>2. Len(wait[d]) \in Nat /\ Len(proc[d]) \in Nat
      BY <1>1, ListDomain
    <3>3. Len(wait[d]) <= 1
      BY <1>1, <3>1, <3>2, Zenon
    <3>4. QED BY <2>1, <3>2, <3>3
  <2>3. LiveIds(wait[d]) = {<<t.key, t.sn>>}
    BY <1>1, <2>1, <2>2, LiveByIndex
  <2> HIDE DEF t
  <2>4. Loses(wait', wait, d, t.key, t.sn)
    BY <1>2, <1>3, <2>3 DEF Loses
  <2>5. AsRequests(wait') = AsRequests(wait) \ {r}
    BY <1>1, <2>4, RequestLeaves
  <2>6. r \in AsRequests(wait) /\ r.queue \in DynPeon
    <3>1. r \in AsRequests(wait)
      BY <1>1, <2>3, RequestIn
    <3>2. QED BY <3>1 DEF Req
  <2>7. wait'["RECHECK"] = wait["RECHECK"]
    BY <1>1, <1>2, ReadyTypes
  <2>8. Promise!Drop(r)
    BY <1>2, <2>5, <2>6, <2>7 DEF Promise!Drop
  <2>9. QED BY <1>6, <2>6, <2>8 DEF Promise!Next
<1>9. QED BY <1>7, <1>8, <1>6
-----------------------------------------------------------------------------
(* A task ends.  A connect that failed waits for its next try, one that    *)
(* succeeded is watched: nobody else connects its device, and none that is *)
(* watched was being connected.  A disconnect that runs twice ends once    *)
(* for the requests.                                                       *)
LEMMA CompletePromise ==
  ASSUME Ready, NEW pe \in Peon, NEW i \in DOMAIN proc[pe], NEW c \in Ctx,
         NEW failed \in CanFail(pe), peon_task_complete(pe, i, failed, c)
  PROVE  PromiseInv' /\ (Promise!Next \/ UNCHANGED Promise!rvars)
<1> DEFINE t == proc[pe][i]
           cut == RemoveAt(proc[pe], i)
           again == [t EXCEPT !.backoff = PEON_FAIL_RETRY_INTERVAL, !.ctx = c]
           watch == [t EXCEPT !.sn = 0, !.ctx = c]
           r == Req(pe, t.key, t.sn)
<1>1. /\ proc' = [proc EXCEPT ![pe] = cut] /\ UNCHANGED adding
      /\ \/ /\ t.state = "LIVE" /\ failed
            /\ wait' = [wait EXCEPT ![pe] = Append(wait[pe], again)]
         \/ /\ t.state = "LIVE" /\ ~failed /\ pe = "CONNECT"
            /\ wait' = [wait EXCEPT !["RECHECK"] = Append(wait["RECHECK"], watch)]
         \/ /\ t.state = "DEAD" \/ (~failed /\ pe # "CONNECT")
            /\ UNCHANGED wait
  BY DEF peon_task_complete, peon_move_task_to_recheck
<1>2. /\ proc[pe] \in Seq(Task) /\ wait[pe] \in Seq(Task) /\ i \in 1 .. Len(proc[pe])
      /\ wait["RECHECK"] \in Seq(Task)
  BY ReadyTypes, ListDomain
<1>3. t \in Task /\ t \in ToSet(proc[pe])
  BY <1>2, InToSet
<1>4. pe # "RECHECK"
  BY <1>3 DEF Ready, ExclusiveInv
<1>5. again \in Task /\ again.sn = t.sn /\ again.key = t.key /\ again.state = t.state
  <2>1. PEON_FAIL_RETRY_INTERVAL \in 0 .. PEON_FAIL_RETRY_INTERVAL
    BY ConstantsAssumption
  <2>2. QED BY <1>3, <2>1 DEF Task
<1>6. watch \in Task /\ watch.sn = 0 /\ watch.key = t.key /\ watch.state = t.state
  BY <1>3 DEF Task
<1>7. /\ Fewer(cut, proc[pe])
      /\ t.state # "LIVE" => LiveIds(cut) = LiveIds(proc[pe])
      /\ t.state = "LIVE" /\ pe # "DISCONN"
           => LiveIds(cut) = LiveIds(proc[pe]) \ {<<t.key, t.sn>>}
      /\ \/ LiveIds(cut) = LiveIds(proc[pe])
         \/ LiveIds(cut) = LiveIds(proc[pe]) \ {<<t.key, t.sn>>}
  <2>1. pe # "DISCONN" => LivesApart(proc[pe])
    BY DEF Ready, PromiseInv, NoTwins
  <2>2. QED BY <1>2, <2>1, RemovedLives
<1>8. t.state = "LIVE" => <<t.key, t.sn>> \in LiveIds(proc[pe])
  BY <1>3 DEF LiveIds, Live
<1>9. t.sn \in Sns(proc[pe])
  BY <1>3 DEF Sns
<1> HIDE DEF t, cut, again, watch
<1>10. proc'[pe] = cut /\ \A p \in Peon : p # pe => proc'[p] = proc[p]
  BY <1>1, ReadyTypes
<1>11. \A p \in Peon : Fewer(proc'[p], proc[p])
  BY <1>7, <1>10, SameAlike, ReadyTypes DEF Alike
<1>12. CASE wait' = wait /\ LiveIds(cut) = LiveIds(proc[pe])
  <2>1. \A p \in Peon : Alike(wait'[p], wait[p]) /\ Alike(proc'[p], proc[p])
    BY <1>7, <1>10, <1>12, SameAlike, ReadyTypes DEF Alike
  <2>2. QED BY <1>1, <2>1, AlikePromise DEF NoRequestAdded
<1>13. ASSUME t.state = "LIVE", LiveIds(cut) = LiveIds(proc[pe]) \ {<<t.key, t.sn>>}
       PROVE  AsRequests(proc') = AsRequests(proc) \ {r} /\ r \in AsRequests(proc)
  <2>1. Loses(proc', proc, pe, t.key, t.sn)
    BY <1>10, <1>13 DEF Loses
  <2>2. QED BY <1>4, <1>8, <1>13, <2>1, RequestLeaves, RequestIn
<1>14. r.queue = pe /\ r.key = t.key
  BY DEF Req
<1>15. PICK x : x = r
  OBVIOUS
<1> HIDE DEF r
<1>16. \A p \in Peon : 0 \notin Sns(proc'[p]) \/ p = "RECHECK"
  BY <1>11 DEF Ready, PromiseInv, Numbered, Fewer
<1>17. CASE /\ t.state = "LIVE" /\ pe # "CONNECT"
            /\ LiveIds(cut) = LiveIds(proc[pe]) \ {<<t.key, t.sn>>}
  <2>1. ~failed /\ wait' = wait
    BY <1>1, <1>17 DEF CanFail
  <2>2. PromiseInv'
    BY <1>1, <1>11, <2>1, FewerPromise, SameAlike, ReadyTypes DEF NoRequestAdded, Alike
  <2>3. Promise!Finish(x) /\ x \in AsRequests(proc)
    BY <1>13, <1>14, <1>15, <1>17, <2>1 DEF Promise!Finish
  <2>4. Promise!Next
    BY <2>3 DEF Promise!Next
  <2>5. QED BY <2>2, <2>4
<1>18. CASE t.state = "LIVE" /\ pe = "CONNECT" /\ failed
  <2>1. /\ wait'["CONNECT"] = Append(wait["CONNECT"], again)
        /\ \A p \in Peon : p # "CONNECT" => wait'[p] = wait[p]
    BY <1>1, <1>18, ReadyTypes
  <2>2. <<t.key, t.sn>> \notin LiveIds(wait["CONNECT"]) /\ LivesApart(wait["CONNECT"])
    BY <1>8, <1>18 DEF Ready, PromiseInv, NoTwins
  <2>3. /\ Sns(wait'["CONNECT"]) = Sns(wait["CONNECT"]) \cup {t.sn}
        /\ LiveIds(wait'["CONNECT"]) = LiveIds(wait["CONNECT"]) \cup {<<t.key, t.sn>>}
        /\ LivesApart(wait'["CONNECT"])
    BY <1>2, <1>5, <1>18, <2>1, <2>2, AppendedLives
  <2>4. OneTask'
    BY <1>10, <1>18, <2>1, ConstantsAssumption DEF Ready, PromiseInv, OneTask, Peon, StaticPeon
  <2>5. Numbered'
    <3>1. \A p \in Peon \ {"RECHECK"} : 0 \notin Sns(wait'[p])
      BY <1>4, <1>9, <1>18, <2>1, <2>3 DEF Ready, PromiseInv, Numbered
    <3>2. QED BY <1>1, <1>16, <3>1 DEF Ready, PromiseInv, Numbered
  <2>6. NoTwins'
    <3> SUFFICES ASSUME NEW q \in Peon \ {"DISCONN"}
                 PROVE  /\ LivesApart(wait'[q]) /\ LivesApart(proc'[q])
                        /\ LiveIds(wait'[q]) \cap LiveIds(proc'[q]) = {}
      BY DEF NoTwins
    <3>1. /\ LivesApart(proc'[q]) /\ LivesApart(wait[q])
          /\ LiveIds(wait[q]) \cap LiveIds(proc[q]) = {}
      BY <1>11 DEF Ready, PromiseInv, NoTwins, Fewer
    <3>2. CASE q = "CONNECT"
      BY <1>7, <1>10, <1>18, <2>2, <2>3, <3>1, <3>2
    <3>3. CASE q # "CONNECT"
      BY <1>10, <1>18, <2>1, <3>1, <3>3
    <3>4. QED BY <3>2, <3>3
  <2>7. WatchedIdle'
    BY <1>4, <1>11, <1>18, <2>1, ReadyTypes DEF Ready, PromiseInv, WatchedIdle, Fewer
  <2>8. AsRequests(wait') = AsRequests(wait) \cup {r}
    <3>1. Gains(wait', wait, "CONNECT", t.key, t.sn)
      BY <2>1, <2>3 DEF Gains
    <3>2. QED BY <1>4, <1>18, <3>1, RequestJoins DEF r
  <2>9. wait'["RECHECK"] = wait["RECHECK"]
    BY <2>1, ReadyTypes
  <2>10. Promise!Finish(x) /\ x \in AsRequests(proc)
    BY <1>7, <1>13, <1>14, <1>15, <1>18, <2>8, <2>9 DEF Promise!Finish
  <2>11. Promise!Next
    BY <2>10 DEF Promise!Next
  <2>12. QED BY <2>4, <2>5, <2>6, <2>7, <2>11 DEF PromiseInv
<1>19. CASE t.state = "LIVE" /\ pe = "CONNECT" /\ ~failed
  <2>1. /\ wait'["RECHECK"] = Append(wait["RECHECK"], watch)
        /\ \A p \in Peon : p # "RECHECK" => wait'[p] = wait[p]
    BY <1>1, <1>19, ReadyTypes
  <2>2. <<t.key, 0>> \notin LiveIds(wait["RECHECK"]) /\ LivesApart(wait["RECHECK"])
    BY <1>8, <1>19, ReadyTypes DEF Ready, PromiseInv, NoTwins, WatchedIdle
  <2>3. /\ LiveIds(wait'["RECHECK"]) = LiveIds(wait["RECHECK"]) \cup {<<t.key, 0>>}
        /\ LivesApart(wait'["RECHECK"])
    BY <1>2, <1>6, <1>19, <2>1, <2>2, AppendedLives
  <2>4. OneTask'
    BY <1>10, <1>19, <2>1, ConstantsAssumption DEF Ready, PromiseInv, OneTask, Peon, StaticPeon
  <2>5. Numbered'
    <3>1. \A p \in Peon \ {"RECHECK"} : 0 \notin Sns(wait'[p])
      BY <2>1 DEF Ready, PromiseInv, Numbered
    <3>2. QED BY <1>1, <1>16, <3>1 DEF Ready, PromiseInv, Numbered
  <2>6. NoTwins'
    <3> SUFFICES ASSUME NEW q \in Peon \ {"DISCONN"}
                 PROVE  /\ LivesApart(wait'[q]) /\ LivesApart(proc'[q])
                        /\ LiveIds(wait'[q]) \cap LiveIds(proc'[q]) = {}
      BY DEF NoTwins
    <3>1. /\ LivesApart(proc'[q]) /\ LivesApart(wait[q])
          /\ LiveIds(wait[q]) \cap LiveIds(proc[q]) = {}
          /\ LiveIds(proc'[q]) \subseteq LiveIds(proc[q])
      BY <1>11 DEF Ready, PromiseInv, NoTwins, Fewer
    <3>2. CASE q = "RECHECK"
      <4>1. LiveIds(proc["RECHECK"]) = {}
        BY DEF Ready, ExclusiveInv, LiveIds, Live
      <4>2. QED BY <2>3, <3>1, <3>2, <4>1
    <3>3. CASE q # "RECHECK"
      BY <2>1, <3>1, <3>3
    <3>4. QED BY <3>2, <3>3
  <2>7. ASSUME NEW id \in LiveIds(proc["CONNECT"]), id[1] = t.key
        PROVE  id = <<t.key, t.sn>>
    <3>1. PICK u \in ToSet(proc["CONNECT"]) : u.state = "LIVE" /\ id = <<u.key, u.sn>>
      BY DEF LiveIds, Live
    <3>2. u.key = t.key
      BY <2>7, <3>1
    <3>3. task_match(u, t, Compare("CONNECT", "CONNECT"))
      BY <3>2 DEF task_match, Compare
    <3>4. t.sn = u.sn
      BY <1>3, <1>19, <3>1, <3>3 DEF Ready, ExclusiveInv, RunsApart, StaticPeon
    <3>5. QED BY <3>1, <3>2, <3>4
  <2>8. WatchedIdle'
    <3> SUFFICES ASSUME NEW id \in LiveIds(proc'["CONNECT"])
                 PROVE  <<id[1], 0>> \notin LiveIds(wait'["RECHECK"])
      BY DEF WatchedIdle
    <3>1. id \in LiveIds(proc["CONNECT"]) /\ id # <<t.key, t.sn>>
      BY <1>7, <1>10, <1>19
    <3>2. id[1] # t.key
      BY <2>7, <3>1
    <3>3. <<id[1], 0>> \notin LiveIds(wait["RECHECK"])
      BY <3>1 DEF Ready, PromiseInv, WatchedIdle
    <3>4. QED BY <2>3, <3>2, <3>3
  <2>9. AsRequests(wait') = AsRequests(wait)
    BY <2>1, RequestsStay
  <2>10. t.key \notin Watched(wait) /\ Watched(wait') = Watched(wait) \cup {t.key}
    <3>1. t.key \notin Watched(wait)
      BY <2>2, WatchedChange
    <3>2. \A k : k \in Watched(wait') <=> k \in Watched(wait) \/ k = t.key
      BY <2>3, WatchedChange
    <3>3. QED BY <3>1, <3>2
  <2>11. Promise!Finish(x) /\ x \in AsRequests(proc)
    BY <1>7, <1>13, <1>14, <1>15, <1>19, <2>9, <2>10 DEF Promise!Finish, Watched
  <2>12. Promise!Next
    BY <2>11 DEF Promise!Next
  <2>13. QED BY <2>4, <2>5, <2>6, <2>8, <2>12 DEF PromiseInv
<1>20. CASE pe # "CONNECT" \/ t.state # "LIVE"
  <2>1. wait' = wait
    BY <1>1, <1>20 DEF CanFail
  <2>2. QED BY <1>7, <1>12, <1>17, <1>20, <2>1
<1>21. QED BY <1>18, <1>19, <1>20
-----------------------------------------------------------------------------
(* What the judge compares a task with are the requests it concerns.       *)
LEMMA ConcernsIsMatch ==
  ASSUME NEW pe \in Peon \ {"RECHECK"}, NEW p \in Peon \ {"RECHECK"}, NEW t \in Task, NEW q \in Task
  PROVE  Promise!Concerns(Req(pe, t.key, t.sn), Req(p, q.key, q.sn))
           <=> task_match(q, t, Compare(TypeOf(pe), p))
<1>1. \A d \in DynPeon : d \notin {"CONNECT", "DISCONN", "DCBATCH", "RECHECK"}
  BY ConstantsAssumption DEF StaticPeon
<1>2. pe \in DynPeon \cup {"CONNECT", "DISCONN", "DCBATCH"} /\ p \in DynPeon \cup {"CONNECT", "DISCONN", "DCBATCH"}
  BY DEF Peon, StaticPeon
<1>3. TypeOf(pe) = IF pe \in DynPeon THEN "DISCONN" ELSE pe
  BY DEF TypeOf
<1>4. CASE pe = "CONNECT"
  BY <1>1, <1>2, <1>3, <1>4 DEF Promise!Concerns, Req, task_match, Compare
<1>5. CASE pe = "DCBATCH"
  BY <1>1, <1>2, <1>3, <1>5 DEF Promise!Concerns, Req, task_match, Compare
<1>6. CASE pe \in DynPeon \cup {"DISCONN"}
  BY <1>1, <1>2, <1>3, <1>6 DEF Promise!Concerns, Req, task_match, Compare
<1>7. QED BY <1>2, <1>4, <1>5, <1>6

LEMMA ConcernedTasks ==
  ASSUME NEW list, \A p \in Peon : list[p] \in Seq(Task),
         NEW pe \in Peon \ {"RECHECK"}, NEW t \in Task
  PROVE  \A x : x \in AsRequests(list) /\ Promise!Concerns(Req(pe, t.key, t.sn), x) <=>
           \E p \in Peon \ {"RECHECK"} : \E q \in ToSet(list[p]) :
             /\ q.state = "LIVE" /\ x = Req(p, q.key, q.sn)
             /\ task_match(q, t, Compare(TypeOf(pe), p))
<1> DEFINE r == Req(pe, t.key, t.sn)
<1>1. \A x : x \in AsRequests(list) <=>
        \E p \in Peon \ {"RECHECK"} : \E q \in Live(list[p]) : x = Req(p, q.key, q.sn)
  BY DEF AsRequests, Req
<1>2. \A p \in Peon \ {"RECHECK"} : \A q \in Live(list[p]) :
        /\ q \in ToSet(list[p]) /\ q.state = "LIVE"
        /\ Promise!Concerns(r, Req(p, q.key, q.sn)) <=> task_match(q, t, Compare(TypeOf(pe), p))
  <2>1. \A p \in Peon : \A q \in ToSet(list[p]) : q \in Task
    BY ToSetInT
  <2>2. QED BY <2>1, ConcernsIsMatch DEF Live
<1>3. \A p : \A q \in ToSet(list[p]) : q.state = "LIVE" => q \in Live(list[p])
  BY DEF Live
<1> HIDE DEF r
<1>4. ASSUME NEW x, x \in AsRequests(list), Promise!Concerns(r, x)
      PROVE  \E p \in Peon \ {"RECHECK"} : \E q \in ToSet(list[p]) :
               /\ q.state = "LIVE" /\ x = Req(p, q.key, q.sn)
               /\ task_match(q, t, Compare(TypeOf(pe), p))
  BY <1>1, <1>2, <1>4
<1>5. ASSUME NEW p \in Peon \ {"RECHECK"}, NEW q \in ToSet(list[p]), q.state = "LIVE",
             task_match(q, t, Compare(TypeOf(pe), p))
      PROVE  Req(p, q.key, q.sn) \in AsRequests(list) /\ Promise!Concerns(r, Req(p, q.key, q.sn))
  BY <1>1, <1>2, <1>3, <1>5
<1>6. QED BY <1>4, <1>5 DEF r

(* The lists after the judge has marked what t makes obsolete.             *)
Judged(list, t, type) == [p \in Peon |-> MarkedList(list[p], p, t, type)]

(* The judge takes the older requests a task concerns off the lists.       *)
LEMMA JudgedRequests ==
  ASSUME NEW list, \A p \in Peon : list[p] \in Seq(Task),
         NEW pe \in Peon \ {"RECHECK"}, NEW t \in Task
  PROVE  AsRequests(Judged(list, t, TypeOf(pe))) =
           {x \in AsRequests(list) : ~(Promise!Concerns(Req(pe, t.key, t.sn), x) /\ x.sn < t.sn)}
<1> DEFINE j == Judged(list, t, TypeOf(pe))
           r == Req(pe, t.key, t.sn)
           T == {x \in AsRequests(list) : ~(Promise!Concerns(r, x) /\ x.sn < t.sn)}
<1>1. ASSUME NEW p \in Peon \ {"RECHECK"}, NEW k, NEW n
      PROVE  Req(p, k, n) \in T <=> <<k, n>> \in LiveIds(j[p])
  <2> DEFINE s == list[p]
  <2>1. s \in Seq(Task) /\ j[p] = MarkedList(s, p, t, TypeOf(pe))
    BY DEF Judged
  <2> HIDE DEF j
  <2>2. <<k, n>> \in LiveIds(j[p]) <=>
          \E i \in 1 .. Len(s) : /\ s[i].state = "LIVE" /\ <<k, n>> = <<s[i].key, s[i].sn>>
                                 /\ ~Outdated(s[i], p, t, TypeOf(pe))
    BY <2>1, MarkedLives
  <2>3. Req(p, k, n) \in AsRequests(list) <=>
          \E i \in 1 .. Len(s) : s[i].state = "LIVE" /\ <<k, n>> = <<s[i].key, s[i].sn>>
    <3>1. Req(p, k, n) \in AsRequests(list) <=> <<k, n>> \in LiveIds(s)
      BY RequestIn
    <3> HIDE DEF s
    <3>2. QED BY <2>1, <3>1, LiveByIndex
  <2>4. ASSUME NEW i \in 1 .. Len(s), s[i].state = "LIVE", <<k, n>> = <<s[i].key, s[i].sn>>
        PROVE  Outdated(s[i], p, t, TypeOf(pe)) <=> Promise!Concerns(r, Req(p, k, n)) /\ n < t.sn
    <3>1. s[i] \in Task /\ k = s[i].key /\ n = s[i].sn
      BY <2>1, <2>4, InToSet
    <3> HIDE DEF s, r
    <3>2. Promise!Concerns(r, Req(p, k, n)) <=> task_match(s[i], t, Compare(TypeOf(pe), p))
      BY <3>1, ConcernsIsMatch DEF r
    <3>3. QED BY <2>4, <3>1, <3>2 DEF Outdated
  <2>5. Req(p, k, n).sn = n
    BY DEF Req
  <2> HIDE DEF r, s
  <2>6. Req(p, k, n) \in T <=>
          Req(p, k, n) \in AsRequests(list) /\ ~(Promise!Concerns(r, Req(p, k, n)) /\ n < t.sn)
    BY <2>5
  <2> HIDE DEF T
  <2>7. CASE Req(p, k, n) \in AsRequests(list)
    <3>1. PICK i \in 1 .. Len(s) : s[i].state = "LIVE" /\ <<k, n>> = <<s[i].key, s[i].sn>>
      BY <2>3, <2>7
    <3>2. CASE Promise!Concerns(r, Req(p, k, n)) /\ n < t.sn
      BY <2>2, <2>4, <2>6, <3>2, Zenon
    <3>3. CASE ~(Promise!Concerns(r, Req(p, k, n)) /\ n < t.sn)
      BY <2>2, <2>4, <2>6, <2>7, <3>1, <3>3, Zenon
    <3>4. QED BY <3>2, <3>3
  <2>8. CASE Req(p, k, n) \notin AsRequests(list)
    BY <2>2, <2>3, <2>6, <2>8, Zenon
  <2>9. QED BY <2>7, <2>8
<1>2. \A x \in T : x = Req(x.queue, x.key, x.sn) /\ x.queue \in Peon \ {"RECHECK"}
  <2>1. \A x \in T : x = Req(x.queue, x.key, x.sn) /\ Req(x.queue, x.key, x.sn) \in AsRequests(list)
    BY RequestIn
  <2>2. QED BY <2>1, RequestIn
<1> HIDE DEF T, j
<1>3. AsRequests(j) = T
  BY <1>1, <1>2, RequestsAre
<1>4. QED BY <1>3 DEF T, j

(* What the judge decides, on requests: t waits for an older one that it   *)
(* concerns and that runs, and is dropped for a newer one.                 *)
LEMMA JudgeDecides ==
  ASSUME Ready, NEW pe \in Peon \ {"RECHECK"}, NEW t \in Task
  PROVE  LET r == Req(pe, t.key, t.sn)
         IN  /\ MustWait(t, TypeOf(pe)) <=>
                  \E x \in AsRequests(proc) : Promise!Concerns(r, x) /\ x.sn < t.sn
             /\ MustDiscard(t, TypeOf(pe)) <=>
                  \E x \in AsRequests(wait) \cup AsRequests(proc) :
                    Promise!Concerns(r, x) /\ x.sn > t.sn
<1> DEFINE r == Req(pe, t.key, t.sn)
           type == TypeOf(pe)
<1>1. t.sn \in Nat /\ \A p \in Peon : \A q \in ToSet(wait[p]) \cup ToSet(proc[p]) : q.sn \in Nat
  <2>1. \A q \in Task : q.sn \in Nat
    BY DEF Task
  <2>2. QED BY <2>1, ReadyTypes, ToSetInT
<1>2. \A q \in ToSet(wait["RECHECK"]) : q.sn = 0
  BY DEF Ready, PeonInv, KeysOK, Listed
<1>3. ToSet(proc["RECHECK"]) = {}
  BY DEF Ready, ExclusiveInv
<1>4. \A p, q : Req(p, q.key, q.sn).sn = q.sn
  BY DEF Req
<1>5. \A x : x \in AsRequests(wait) /\ Promise!Concerns(r, x) <=>
        \E p \in Peon \ {"RECHECK"} : \E q \in ToSet(wait[p]) :
          q.state = "LIVE" /\ x = Req(p, q.key, q.sn) /\ task_match(q, t, Compare(type, p))
  BY ReadyTypes, ConcernedTasks
<1>6. \A x : x \in AsRequests(proc) /\ Promise!Concerns(r, x) <=>
        \E p \in Peon \ {"RECHECK"} : \E q \in ToSet(proc[p]) :
          q.state = "LIVE" /\ x = Req(p, q.key, q.sn) /\ task_match(q, t, Compare(type, p))
  BY ReadyTypes, ConcernedTasks
<1> HIDE DEF r, type
<1>7. MustWait(t, type) <=> \E x \in AsRequests(proc) : Promise!Concerns(r, x) /\ x.sn < t.sn
  <2>1. ASSUME MustWait(t, type)
        PROVE  \E x \in AsRequests(proc) : Promise!Concerns(r, x) /\ x.sn < t.sn
    <3>0. PICK p \in Peon : \E q \in ToSet(proc[p]) : Outdated(q, p, t, type)
      BY <2>1 DEF MustWait
    <3>1. PICK q \in ToSet(proc[p]) : Outdated(q, p, t, type)
      BY <3>0
    <3>2. p # "RECHECK"
      BY <1>3, <3>1
    <3>3. Req(p, q.key, q.sn) \in AsRequests(proc) /\ Promise!Concerns(r, Req(p, q.key, q.sn))
      BY <1>6, <3>1, <3>2 DEF Outdated
    <3>4. QED BY <1>4, <3>1, <3>3 DEF Outdated
  <2>2. ASSUME NEW x \in AsRequests(proc), Promise!Concerns(r, x), x.sn < t.sn
        PROVE  MustWait(t, type)
    <3>0. PICK p \in Peon \ {"RECHECK"} : \E q \in ToSet(proc[p]) :
            q.state = "LIVE" /\ x = Req(p, q.key, q.sn) /\ task_match(q, t, Compare(type, p))
      BY <1>6, <2>2
    <3>1. PICK q \in ToSet(proc[p]) :
            q.state = "LIVE" /\ x = Req(p, q.key, q.sn) /\ task_match(q, t, Compare(type, p))
      BY <3>0
    <3>2. q.sn < t.sn
      BY <1>4, <2>2, <3>1
    <3>3. QED BY <3>1, <3>2 DEF MustWait, Outdated
  <2>3. QED BY <2>1, <2>2
<1>8. MustDiscard(t, type) <=> \E x \in AsRequests(wait) \cup AsRequests(proc) :
                                 Promise!Concerns(r, x) /\ x.sn > t.sn
  <2>1. ASSUME MustDiscard(t, type)
        PROVE  \E x \in AsRequests(wait) \cup AsRequests(proc) :
                 Promise!Concerns(r, x) /\ x.sn > t.sn
    <3>0. PICK p \in Peon : \E q \in Listed(p) : Newer(q, p, t, type)
      BY <2>1 DEF MustDiscard
    <3>1. PICK q \in Listed(p) : Newer(q, p, t, type)
      BY <3>0
    <3>2. q.sn \in Nat /\ t.sn < q.sn
      BY <1>1, <3>1 DEF Listed, Newer
    <3>3. p # "RECHECK"
      BY <1>1, <1>2, <1>3, <3>2 DEF Listed
    <3>4. /\ Req(p, q.key, q.sn) \in AsRequests(wait) \cup AsRequests(proc)
          /\ Promise!Concerns(r, Req(p, q.key, q.sn))
      BY <1>5, <1>6, <3>1, <3>3 DEF Newer, Listed
    <3>5. Req(p, q.key, q.sn).sn > t.sn
      BY <1>1, <1>4, <3>2
    <3>6. QED BY <3>4, <3>5
  <2>2. ASSUME NEW x \in AsRequests(wait) \cup AsRequests(proc), Promise!Concerns(r, x),
               x.sn > t.sn
        PROVE  MustDiscard(t, type)
    <3>0. PICK p \in Peon \ {"RECHECK"} : \E q \in Listed(p) :
            q.state = "LIVE" /\ x = Req(p, q.key, q.sn) /\ task_match(q, t, Compare(type, p))
      BY <1>5, <1>6, <2>2 DEF Listed
    <3>1. PICK q \in Listed(p) :
            q.state = "LIVE" /\ x = Req(p, q.key, q.sn) /\ task_match(q, t, Compare(type, p))
      BY <3>0
    <3>2. q.sn \in Nat /\ x.sn = q.sn
      BY <1>1, <1>4, <3>1 DEF Listed
    <3>3. t.sn < q.sn
      BY <1>1, <2>2, <3>2
    <3>4. QED BY <3>1, <3>3 DEF MustDiscard, Newer
  <2>3. QED BY <2>1, <2>2
<1>9. QED BY <1>7, <1>8 DEF r, type

(* The judge ends the watch of the device, if t is not a batch.            *)
LEMMA JudgedWatch ==
  ASSUME Ready, NEW pe \in Peon \ {"RECHECK"}, NEW t \in Task, t.sn # 0
  PROVE  LET m == MarkedList(wait["RECHECK"], "RECHECK", t, TypeOf(pe))
         IN  LiveIds(m) = IF pe = "DCBATCH" THEN LiveIds(wait["RECHECK"])
                          ELSE LiveIds(wait["RECHECK"]) \ {<<t.key, 0>>}
<1> DEFINE s == wait["RECHECK"]
           m == MarkedList(s, "RECHECK", t, TypeOf(pe))
<1>1. s \in Seq(Task)
  BY ReadyTypes
<1>2. \A i \in 1 .. Len(s) : s[i].sn = 0
  BY <1>1, InToSet DEF Ready, PeonInv, KeysOK, Listed
<1>3. \A id : id \in LiveIds(m) <=>
        \E i \in 1 .. Len(s) : /\ s[i].state = "LIVE" /\ id = <<s[i].key, s[i].sn>>
                               /\ ~Outdated(s[i], "RECHECK", t, TypeOf(pe))
  BY <1>1, MarkedLives
<1>4. \A id : id \in LiveIds(s) <=>
        \E i \in 1 .. Len(s) : s[i].state = "LIVE" /\ id = <<s[i].key, s[i].sn>>
  BY <1>1, LiveByIndex
<1>5. t.sn \in Nat /\ 0 < t.sn
  BY DEF Task
<1>6. Compare(TypeOf(pe), "RECHECK") = IF pe = "DCBATCH" THEN "no" ELSE "device"
  BY ConstantsAssumption DEF Compare, TypeOf, Peon, StaticPeon
<1>7. \A i \in 1 .. Len(s) : s[i].state = "LIVE" =>
        (Outdated(s[i], "RECHECK", t, TypeOf(pe)) <=> pe # "DCBATCH" /\ s[i].key = t.key)
  BY <1>2, <1>5, <1>6 DEF Outdated, task_match
<1> HIDE DEF m, s
<1>8. CASE pe = "DCBATCH"
  <2>1. \A id : id \in LiveIds(m) <=> id \in LiveIds(s)
    BY <1>3, <1>4, <1>7, <1>8
  <2>2. LiveIds(m) = LiveIds(s)
    BY <2>1
  <2>3. QED BY <1>8, <2>2 DEF m, s
<1>9. CASE pe # "DCBATCH"
  <2>1. \A i \in 1 .. Len(s) : s[i].state = "LIVE" =>
          (~Outdated(s[i], "RECHECK", t, TypeOf(pe)) <=> <<s[i].key, s[i].sn>> # <<t.key, 0>>)
    BY <1>2, <1>7, <1>9
  <2>2. \A id : id \in LiveIds(m) <=> id \in LiveIds(s) /\ id # <<t.key, 0>>
    BY <1>3, <1>4, <2>1
  <2>3. LiveIds(m) = LiveIds(s) \ {<<t.key, 0>>}
    BY <2>2
  <2>4. QED BY <1>9, <2>3 DEF m, s
<1>10. QED BY <1>8, <1>9

LEMMA FewerFewer ==
  ASSUME NEW a \in Seq(Task), NEW b \in Seq(Task), NEW c \in Seq(Task), Fewer(a, b), Fewer(b, c)
  PROVE  Fewer(a, c)
<1>1. \A i, j, k \in Nat : i <= j /\ j <= k => i <= k
  OBVIOUS
<1>2. Len(a) <= Len(c)
  BY <1>1, ListDomain DEF Fewer
<1>3. QED BY <1>2 DEF Fewer

(* The lists of a judged task t at the cursor, whatever becomes of it.     *)
LEMMA JudgedLists ==
  ASSUME Ready, NEW pe \in Peon \ {"RECHECK"}, Scanning(pe), wait[pe][lock.at].state = "LIVE"
  PROVE  LET t == wait[pe][lock.at]
             marked == Judged(wait, t, TypeOf(pe))
             running == Judged(proc, t, TypeOf(pe))
             cut == RemoveAt(marked[pe], lock.at)
         IN  /\ t \in Task /\ t \in ToSet(wait[pe]) /\ t.sn \in Nat /\ t.sn # 0
             /\ <<t.key, t.sn>> \in LiveIds(wait[pe])
             /\ \A p \in Peon : marked[p] \in Seq(Task) /\ running[p] \in Seq(Task)
             /\ \A p \in Peon : Fewer(marked[p], wait[p]) /\ Fewer(running[p], proc[p])
             /\ cut \in Seq(Task) /\ Fewer(cut, wait[pe]) /\ Len(cut) = Len(wait[pe]) - 1
             /\ \/ LiveIds(cut) = LiveIds(marked[pe]) \ {<<t.key, t.sn>>}
                \/ pe = "DISCONN" /\ LiveIds(cut) = LiveIds(marked[pe])
<1> DEFINE t == wait[pe][lock.at]
           type == TypeOf(pe)
           marked == Judged(wait, t, type)
           running == Judged(proc, t, type)
           at == lock.at
           cut == RemoveAt(marked[pe], at)
<1>1. /\ wait[pe] \in Seq(Task) /\ at \in 1 .. Len(wait[pe])
      /\ t \in Task /\ t \in ToSet(wait[pe]) /\ t.state = "LIVE" /\ t = wait[pe][at]
  BY CursorInList DEF Ready
<1> HIDE DEF t, at, type
<1>2. t.sn \in Nat /\ t.sn # 0
  <2>1. t.sn \in Nat /\ t.sn \in Sns(wait[pe])
    BY <1>1 DEF Sns, Task
  <2>2. QED BY <2>1 DEF Ready, PromiseInv, Numbered
<1>3. <<t.key, t.sn>> \in LiveIds(wait[pe])
  BY <1>1 DEF LiveIds, Live
<1>4. \A p \in Peon : marked[p] = MarkedList(wait[p], p, t, type)
                      /\ running[p] = MarkedList(proc[p], p, t, type)
  BY DEF Judged
<1> HIDE DEF marked, running
<1>5. ASSUME NEW p \in Peon
      PROVE  /\ marked[p] \in Seq(Task) /\ running[p] \in Seq(Task)
             /\ Fewer(marked[p], wait[p]) /\ Fewer(running[p], proc[p])
             /\ Len(marked[p]) = Len(wait[p])
             /\ \A i \in 1 .. Len(wait[p]) : marked[p][i] = Marked(wait[p][i], p, t, type)
  <2>1. wait[p] \in Seq(Task) /\ proc[p] \in Seq(Task)
    BY ReadyTypes
  <2>2. /\ marked[p] \in Seq(Task) /\ running[p] \in Seq(Task) /\ Len(marked[p]) = Len(wait[p])
        /\ \A i \in 1 .. Len(wait[p]) : marked[p][i] = Marked(wait[p][i], p, t, type)
    BY <1>4, <2>1, MarkedListProperties
  <2>3. Fewer(marked[p], wait[p]) /\ Fewer(running[p], proc[p])
    <3>1. Fewer(MarkedList(wait[p], p, t, type), wait[p])
      BY <1>1, <2>1, MarkedLives
    <3>2. Fewer(MarkedList(proc[p], p, t, type), proc[p])
      BY <1>1, <2>1, MarkedLives
    <3>3. QED BY <1>4, <3>1, <3>2
  <2>4. QED BY <2>2, <2>3
<1>6. marked[pe][at] = t
  <2>1. ~(t.sn < t.sn)
    BY <1>2
  <2>2. Marked(t, pe, t, type) = t
    BY <2>1 DEF Marked, Outdated
  <2>3. QED BY <1>1, <1>5, <2>2
<1>7. /\ cut \in Seq(Task) /\ Fewer(cut, marked[pe]) /\ Len(cut) = Len(wait[pe]) - 1
      /\ \/ LiveIds(cut) = LiveIds(marked[pe]) \ {<<t.key, t.sn>>}
         \/ pe = "DISCONN" /\ LiveIds(cut) = LiveIds(marked[pe])
  <2>1. pe # "DISCONN" => LivesApart(marked[pe])
    BY <1>5 DEF Fewer, Ready, PromiseInv, NoTwins
  <2>2. marked[pe] \in Seq(Task) /\ at \in 1 .. Len(marked[pe]) /\ Len(marked[pe]) = Len(wait[pe])
    BY <1>1, <1>5
  <2>3. cut \in Seq(Task)
    BY <2>2, RemoveAtIndices
  <2>4. QED BY <1>1, <1>6, <2>1, <2>2, <2>3, RemovedLives
<1> HIDE DEF cut
<1>8. Fewer(cut, wait[pe])
  BY <1>1, <1>5, <1>7, FewerFewer
<1>9. QED BY <1>1, <1>2, <1>3, <1>5, <1>7, <1>8 DEF t, marked, running, cut, at, type

(* What one iteration over a live task t does to the requests: r is taken  *)
(* to wait, dropped, or started.  Common to the three:                     *)
LEMMA JudgedState ==
  ASSUME Ready, NEW pe \in Peon \ {"RECHECK"}, Scanning(pe), wait[pe][lock.at].state = "LIVE"
  PROVE  LET t == wait[pe][lock.at]
             r == Req(pe, t.key, t.sn)
             marked == Judged(wait, t, TypeOf(pe))
             running == Judged(proc, t, TypeOf(pe))
         IN  /\ r \in AsRequests(wait) /\ r.queue = pe /\ r.key = t.key
             /\ AsRequests(marked) = AsRequests(wait) \ Promise!Older(r)
             /\ AsRequests(running) = AsRequests(proc) \ Promise!Older(r)
             /\ MustWait(t, TypeOf(pe)) <=> Promise!Older(r) \cap AsRequests(proc) # {}
             /\ MustDiscard(t, TypeOf(pe)) <=> Promise!Newer(r) # {}
             /\ wait'["RECHECK"] = marked["RECHECK"] => Promise!Unwatch(r)
             /\ pe # "DCBATCH" => <<t.key, 0>> \notin LiveIds(marked["RECHECK"])
<1> DEFINE t == wait[pe][lock.at]
           r == Req(pe, t.key, t.sn)
           type == TypeOf(pe)
           marked == Judged(wait, t, type)
           running == Judged(proc, t, type)
<1>1. t \in Task /\ t.sn \in Nat /\ t.sn # 0 /\ <<t.key, t.sn>> \in LiveIds(wait[pe])
  BY JudgedLists
<1> HIDE DEF t
<1>2. r \in AsRequests(wait) /\ r.queue = pe /\ r.key = t.key /\ r.sn = t.sn
  BY <1>1, RequestIn DEF Req
<1>3. \A x : x \in Promise!Older(r) <=>
        x \in AsRequests(wait) \cup AsRequests(proc) /\ Promise!Concerns(r, x) /\ x.sn < t.sn
  BY <1>2 DEF Promise!Older
<1>4. \A x : x \in Promise!Newer(r) <=>
        x \in AsRequests(wait) \cup AsRequests(proc) /\ Promise!Concerns(r, x) /\ x.sn > t.sn
  BY <1>2 DEF Promise!Newer
<1>0. /\ \A p \in Peon : wait[p] \in Seq(Task)
      /\ \A p \in Peon : proc[p] \in Seq(Task)
  BY ReadyTypes
<1>5. AsRequests(marked) = AsRequests(wait) \ Promise!Older(r)
  <2>1. AsRequests(marked) =
          {x \in AsRequests(wait) : ~(Promise!Concerns(r, x) /\ x.sn < t.sn)}
    BY <1>0, <1>1, JudgedRequests, ZenonT(40)
  <2> HIDE DEF r, marked
  <2>2. QED BY <1>3, <2>1
<1>6. AsRequests(running) = AsRequests(proc) \ Promise!Older(r)
  <2>1. AsRequests(running) =
          {x \in AsRequests(proc) : ~(Promise!Concerns(r, x) /\ x.sn < t.sn)}
    BY <1>0, <1>1, JudgedRequests, ZenonT(40)
  <2> HIDE DEF r, running
  <2>2. QED BY <1>3, <2>1
<1>7. /\ MustWait(t, type) <=> \E x \in AsRequests(proc) : Promise!Concerns(r, x) /\ x.sn < t.sn
      /\ MustDiscard(t, type) <=> \E x \in AsRequests(wait) \cup AsRequests(proc) :
                                    Promise!Concerns(r, x) /\ x.sn > t.sn
  BY <1>1, JudgeDecides
<1>8. LiveIds(marked["RECHECK"]) = IF pe = "DCBATCH" THEN LiveIds(wait["RECHECK"])
                                   ELSE LiveIds(wait["RECHECK"]) \ {<<t.key, 0>>}
  <2>1. marked["RECHECK"] = MarkedList(wait["RECHECK"], "RECHECK", t, type)
    BY ReadyTypes DEF Judged
  <2>2. QED BY <1>1, <2>1, JudgedWatch
<1> HIDE DEF r, marked, running, type
<1>9. ASSUME wait'["RECHECK"] = marked["RECHECK"] PROVE Promise!Unwatch(r)
  <2>1. \A k : k \in Watched(wait') <=> k \in Watched(wait) /\ (pe = "DCBATCH" \/ k # t.key)
    <3>1. \A k : k \in Watched(wait') <=> <<k, 0>> \in LiveIds(marked["RECHECK"])
      BY <1>9, WatchedChange
    <3>2. \A k : k \in Watched(wait) <=> <<k, 0>> \in LiveIds(wait["RECHECK"])
      BY WatchedChange
    <3>3. \A k : <<k, 0>> \in LiveIds(marked["RECHECK"]) <=>
            <<k, 0>> \in LiveIds(wait["RECHECK"]) /\ (pe = "DCBATCH" \/ k # t.key)
      BY <1>8
    <3>4. QED BY <3>1, <3>2, <3>3, Zenon
  <2>2. Watched(wait') = IF r.queue = "DCBATCH" THEN Watched(wait) ELSE Watched(wait) \ {r.key}
    BY <1>2, <2>1
  <2>3. QED BY <2>2 DEF Promise!Unwatch, Watched
<1>10. MustWait(t, type) <=> Promise!Older(r) \cap AsRequests(proc) # {}
  BY <1>3, <1>7
<1>11. MustDiscard(t, type) <=> Promise!Newer(r) # {}
  BY <1>4, <1>7
<1>12. QED BY <1>2, <1>5, <1>6, <1>8, <1>9, <1>10, <1>11 DEF t, r, marked, running, type

(* A dynamic peon that judges its task is not compared with; a static one  *)
(* that may start finds nothing running that it concerns.                  *)
LEMMA StartsAlone ==
  ASSUME Ready, NEW pe \in Peon \ ({"RECHECK"} \cup DynPeon), NEW t \in ToSet(wait[pe]),
         ~MustWait(t, pe), ~MustDiscard(t, pe),
         NEW x \in AsRequests(proc), Promise!Concerns(Req(pe, t.key, t.sn), x)
  PROVE  FALSE
<1>1. t \in Task /\ pe \in StaticPeon \ {"RECHECK"} /\ TypeOf(pe) = pe
  BY ReadyTypes, ToSetInT DEF Peon, TypeOf
<1>2. PICK p \in Peon \ {"RECHECK"} : \E q \in ToSet(proc[p]) :
        q.state = "LIVE" /\ task_match(q, t, Compare(pe, p))
  <2>1. \A p \in Peon : proc[p] \in Seq(Task)
    BY ReadyTypes
  <2>2. \E p \in Peon \ {"RECHECK"} : \E q \in ToSet(proc[p]) :
          q.state = "LIVE" /\ x = Req(p, q.key, q.sn) /\ task_match(q, t, Compare(TypeOf(pe), p))
    BY <1>1, <2>1, ConcernedTasks
  <2>3. QED BY <1>1, <2>2
<1>3. PICK q \in ToSet(proc[p]) : q.state = "LIVE" /\ task_match(q, t, Compare(pe, p))
  BY <1>2
<1>4. p \in StaticPeon
  <2>1. Compare(pe, p) # "no"
    BY <1>3 DEF task_match
  <2>2. QED BY <1>2, <2>1 DEF Compare, StaticPeon
<1>5. QED BY <1>1, <1>3, <1>4, JudgedAlone DEF Ready

(* A task is taken: the invariant.                                         *)
LEMMA TakenPromise ==
  ASSUME Ready, NoRequestAdded, NEW pe \in Peon \ {"RECHECK"},
         NEW t \in Task, t.state = "LIVE", t.sn # 0, <<t.key, t.sn>> \in LiveIds(wait[pe]),
         NEW cut \in Seq(Task), Fewer(cut, wait[pe]), Len(cut) = Len(wait[pe]) - 1,
         pe # "DISCONN" => <<t.key, t.sn>> \notin LiveIds(cut),
         NEW marked, \A p \in Peon : marked[p] \in Seq(Task) /\ Fewer(marked[p], wait[p]),
         NEW running, \A p \in Peon : running[p] \in Seq(Task) /\ Fewer(running[p], proc[p]),
         wait'[pe] = cut, \A p \in Peon : p # pe => wait'[p] = marked[p],
         proc'[pe] = Append(running[pe], t), \A p \in Peon : p # pe => proc'[p] = running[p],
         pe # "DCBATCH" => <<t.key, 0>> \notin LiveIds(marked["RECHECK"])
  PROVE  PromiseInv'
<1>1. \A p \in Peon : Fewer(wait'[p], wait[p])
  OBVIOUS
<1>2. \A p \in Peon : p # pe => Fewer(proc'[p], proc[p])
  OBVIOUS
<1>3. pe # "DISCONN" => <<t.key, t.sn>> \notin LiveIds(running[pe])
  BY DEF Ready, PromiseInv, NoTwins, Fewer
<1>4. /\ Len(proc'[pe]) = Len(running[pe]) + 1
      /\ Sns(proc'[pe]) = Sns(running[pe]) \cup {t.sn}
      /\ LiveIds(proc'[pe]) = LiveIds(running[pe]) \cup {<<t.key, t.sn>>}
      /\ pe # "DISCONN" => LivesApart(proc'[pe])
  <2>1. running[pe] \in Seq(Task) /\ (pe # "DISCONN" => LivesApart(running[pe]))
    BY DEF Ready, PromiseInv, NoTwins, Fewer
  <2>2. QED BY <1>3, <2>1, AppendedLives
<1>5. OneTask'
  <2> SUFFICES ASSUME NEW d \in DynPeon PROVE Len(wait'[d]) + Len(proc'[d]) <= 1
    BY DEF OneTask
  <2>1. d \in Peon /\ Len(wait[d]) + Len(proc[d]) <= 1
    BY DEF Ready, PromiseInv, OneTask, Peon
  <2>2. /\ Len(wait[d]) \in Nat /\ Len(proc[d]) \in Nat
        /\ Len(wait'[d]) \in Nat /\ Len(proc'[d]) \in Nat
        /\ Len(running[d]) \in Nat /\ Len(running[d]) <= Len(proc[d])
    <3>1. /\ wait[d] \in Seq(Task) /\ proc[d] \in Seq(Task)
          /\ wait'[d] \in Seq(Task) /\ proc'[d] \in Seq(Task)
      BY <2>1, ReadyTypes
    <3>2. QED BY <2>1, <3>1, ListDomain DEF Fewer
  <2>3. CASE d = pe
    <3>1. Len(wait'[d]) = Len(wait[d]) - 1 /\ Len(proc'[d]) = Len(running[d]) + 1
      BY <1>4, <2>3
    <3>2. \A a, b, c, i, j \in Nat :
            a + b <= 1 /\ c <= b /\ i = a - 1 /\ j = c + 1 => i + j <= 1
      OBVIOUS
    <3>3. QED BY <2>1, <2>2, <3>1, <3>2, Zenon
  <2>4. CASE d # pe
    <3>1. Len(wait'[d]) <= Len(wait[d]) /\ Len(proc'[d]) <= Len(proc[d])
      BY <1>1, <1>2, <2>1, <2>4 DEF Fewer
    <3>2. \A a, b, i, j \in Nat : i <= a /\ j <= b /\ a + b <= 1 => i + j <= 1
      OBVIOUS
    <3>3. QED BY <2>1, <2>2, <3>1, <3>2, Zenon
  <2>5. QED BY <2>3, <2>4
<1>6. Numbered'
  <2>1. ASSUME NEW q \in Peon \ {"RECHECK"} PROVE 0 \notin Sns(wait'[q]) \cup Sns(proc'[q])
    <3>1. 0 \notin Sns(wait[q]) \cup Sns(proc[q]) /\ Fewer(wait'[q], wait[q])
      BY <1>1 DEF Ready, PromiseInv, Numbered
    <3>2. CASE q = pe
      BY <1>4, <3>1, <3>2 DEF Fewer
    <3>3. CASE q # pe
      BY <1>2, <3>1, <3>3 DEF Fewer
    <3>4. QED BY <3>2, <3>3
  <2>2. QED BY <2>1 DEF Ready, PromiseInv, Numbered, NoRequestAdded
<1>7. NoTwins'
  <2> SUFFICES ASSUME NEW q \in Peon \ {"DISCONN"}
               PROVE  /\ LivesApart(wait'[q]) /\ LivesApart(proc'[q])
                      /\ LiveIds(wait'[q]) \cap LiveIds(proc'[q]) = {}
    BY DEF NoTwins
  <2>1. /\ LivesApart(wait[q]) /\ LivesApart(proc[q]) /\ LiveIds(wait[q]) \cap LiveIds(proc[q]) = {}
        /\ Fewer(wait'[q], wait[q])
    BY <1>1 DEF Ready, PromiseInv, NoTwins
  <2>2. CASE q = pe
    BY <1>4, <2>1, <2>2 DEF Fewer
  <2>3. CASE q # pe
    BY <1>2, <2>1, <2>3 DEF Fewer
  <2>4. QED BY <2>2, <2>3
<1>8. WatchedIdle'
  <2> SUFFICES ASSUME NEW id \in LiveIds(proc'["CONNECT"])
               PROVE  <<id[1], 0>> \notin LiveIds(wait'["RECHECK"])
    BY DEF WatchedIdle
  <2>1. /\ "CONNECT" \in Peon /\ "RECHECK" \in Peon /\ wait'["RECHECK"] = marked["RECHECK"]
        /\ LiveIds(wait'["RECHECK"]) \subseteq LiveIds(wait["RECHECK"])
    BY <1>1, ReadyTypes DEF Fewer
  <2>2. CASE id \in LiveIds(proc["CONNECT"])
    BY <2>1, <2>2 DEF Ready, PromiseInv, WatchedIdle
  <2>3. CASE id \notin LiveIds(proc["CONNECT"])
    <3>1. pe = "CONNECT"
      BY <1>2, <2>1, <2>3 DEF Fewer
    <3>2. id = <<t.key, t.sn>>
      BY <1>4, <2>1, <2>3, <3>1 DEF Fewer
    <3>3. QED BY <2>1, <3>1, <3>2
  <2>4. QED BY <2>2, <2>3
<1>9. QED BY <1>5, <1>6, <1>7, <1>8 DEF PromiseInv

(* One iteration of peon_task_get over a live task: its request waits, is  *)
(* discarded for a newer one, or starts.                                   *)
LEMMA ScanLivePromise ==
  ASSUME Ready, NEW pe \in Peon, scan_live(pe)
  PROVE  PromiseInv' /\ Promise!Next
<1> DEFINE t == wait[pe][lock.at]
           type == TypeOf(pe)
           marked == Judged(wait, t, type)
           running == Judged(proc, t, type)
           cut == RemoveAt(marked[pe], lock.at)
           r == Req(pe, t.key, t.sn)
<1>1. /\ UNCHANGED adding /\ Scanning(pe) /\ pe # "RECHECK" /\ t.state = "LIVE"
      /\ \/ /\ ~MustWait(t, type) /\ MustDiscard(t, type)
            /\ wait' = [marked EXCEPT ![pe] = cut] /\ proc' = running
         \/ /\ ~MustWait(t, type) /\ ~MustDiscard(t, type)
            /\ wait' = [marked EXCEPT ![pe] = cut]
            /\ proc' = [running EXCEPT ![pe] = Append(running[pe], t)]
         \/ wait' = marked /\ proc' = running
  BY DEF scan_live, FreeAtCursor, Judged
<1>2. pe \in Peon \ {"RECHECK"} /\ NoRequestAdded
      /\ DOMAIN marked = Peon /\ DOMAIN running = Peon
  BY <1>1 DEF NoRequestAdded, Judged
<1>3. /\ t \in Task /\ t \in ToSet(wait[pe]) /\ t.sn # 0
      /\ <<t.key, t.sn>> \in LiveIds(wait[pe])
      /\ cut \in Seq(Task) /\ Fewer(cut, wait[pe]) /\ Len(cut) = Len(wait[pe]) - 1
      /\ \/ LiveIds(cut) = LiveIds(marked[pe]) \ {<<t.key, t.sn>>}
         \/ pe = "DISCONN" /\ LiveIds(cut) = LiveIds(marked[pe])
  BY <1>1, <1>2, JudgedLists
<1>4. /\ \A p \in Peon : marked[p] \in Seq(Task) /\ running[p] \in Seq(Task)
      /\ \A p \in Peon : Fewer(marked[p], wait[p]) /\ Fewer(running[p], proc[p])
  BY <1>1, <1>2, JudgedLists
<1>5. /\ r \in AsRequests(wait) /\ r.queue = pe /\ r.key = t.key
      /\ AsRequests(marked) = AsRequests(wait) \ Promise!Older(r)
      /\ AsRequests(running) = AsRequests(proc) \ Promise!Older(r)
      /\ MustWait(t, type) <=> Promise!Older(r) \cap AsRequests(proc) # {}
      /\ MustDiscard(t, type) <=> Promise!Newer(r) # {}
      /\ wait'["RECHECK"] = marked["RECHECK"] => Promise!Unwatch(r)
      /\ pe # "DCBATCH" => <<t.key, 0>> \notin LiveIds(marked["RECHECK"])
  BY <1>1, <1>2, JudgedState
<1>6. Promise!Unwatch(r)
  <2>1. wait'["RECHECK"] = marked["RECHECK"]
    <3> HIDE DEF marked, running, cut, t, type
    <3>1. QED BY <1>1, <1>2, ReadyTypes
  <2>2. QED BY <1>5, <2>1
<1> HIDE DEF t, type, marked, running, cut
<1>7. PICK x : x = r
  OBVIOUS
<1>0. Promise!Unwatch(x) /\ Promise!Older(x) = Promise!Older(r) /\ Promise!Newer(x) = Promise!Newer(r)
  <2>1. Promise!Unwatch(x)
    <3> HIDE DEF r
    <3>1. QED BY <1>6, <1>7 DEF Promise!Unwatch
  <2> HIDE DEF r
  <2>2. QED BY <1>7, <2>1
<1>8. CASE wait' = marked /\ proc' = running
  <2>1. PromiseInv'
    BY <1>2, <1>4, <1>8, FewerPromise
  <2>2. Promise!Wait(x) /\ x \in AsRequests(wait)
    <3> HIDE DEF r
    <3>1. QED BY <1>0, <1>5, <1>7, <1>8 DEF Promise!Wait
  <2>3. Promise!Next
    BY <2>2 DEF Promise!Next
  <2>4. QED BY <2>1, <2>3
<1>9. ASSUME wait' = [marked EXCEPT ![pe] = cut]
      PROVE  /\ wait'[pe] = cut /\ \A p \in Peon : p # pe => wait'[p] = marked[p]
             /\ \/ AsRequests(wait') = AsRequests(wait) \ (Promise!Older(r) \cup {r})
                \/ pe = "DISCONN" /\ AsRequests(wait') = AsRequests(wait) \ Promise!Older(r)
  <2>1. wait'[pe] = cut /\ \A p \in Peon : p # pe => wait'[p] = marked[p]
    BY <1>2, <1>9
  <2>2. CASE LiveIds(cut) = LiveIds(marked[pe]) \ {<<t.key, t.sn>>}
    <3>1. Loses(wait', marked, pe, t.key, t.sn)
      BY <2>1, <2>2 DEF Loses
    <3>2. AsRequests(wait') = AsRequests(marked) \ {r}
      BY <1>2, <3>1, RequestLeaves
    <3> HIDE DEF r
    <3>3. QED BY <1>5, <2>1, <3>2
  <2>3. CASE pe = "DISCONN" /\ LiveIds(cut) = LiveIds(marked[pe])
    <3>1. AsRequests(wait') = AsRequests(marked)
      BY <2>1, <2>3, RequestsStay
    <3> HIDE DEF r
    <3>2. QED BY <1>5, <2>1, <2>3, <3>1
  <2>4. QED BY <1>3, <2>2, <2>3
<1>10. CASE /\ ~MustWait(t, type) /\ MustDiscard(t, type)
            /\ wait' = [marked EXCEPT ![pe] = cut] /\ proc' = running
  <2>1. \A p \in Peon : Fewer(wait'[p], wait[p]) /\ Fewer(proc'[p], proc[p])
    BY <1>3, <1>4, <1>9, <1>10
  <2>2. PromiseInv'
    BY <1>2, <2>1, FewerPromise
  <2>3. (Promise!Discard(x) \/ Promise!Wait(x)) /\ x \in AsRequests(wait)
    <3> HIDE DEF r
    <3>1. AsRequests(proc') = AsRequests(proc) /\ Promise!Newer(x) # {}
      BY <1>0, <1>5, <1>10
    <3>2. CASE AsRequests(wait') = AsRequests(wait) \ (Promise!Older(r) \cup {r})
      BY <1>0, <1>5, <1>7, <3>1, <3>2 DEF Promise!Discard
    <3>3. CASE AsRequests(wait') = AsRequests(wait) \ Promise!Older(r)
      BY <1>0, <1>5, <1>7, <1>10, <3>3 DEF Promise!Wait
    <3>4. QED BY <1>9, <1>10, <3>2, <3>3
  <2>4. Promise!Next
    BY <2>3 DEF Promise!Next
  <2>5. QED BY <2>2, <2>4
<1>11. CASE /\ ~MustWait(t, type) /\ ~MustDiscard(t, type)
            /\ wait' = [marked EXCEPT ![pe] = cut]
            /\ proc' = [running EXCEPT ![pe] = Append(running[pe], t)]
  <2>1. /\ proc'[pe] = Append(running[pe], t)
        /\ \A p \in Peon : p # pe => proc'[p] = running[p]
    BY <1>2, <1>11
  <2>2. PromiseInv'
    BY <1>1, <1>2, <1>3, <1>4, <1>5, <1>9, <1>11, <2>1, TakenPromise
  <2>3. AsRequests(proc') = AsRequests(proc) \cup {r}
    <3>1. LiveIds(proc'[pe]) = LiveIds(running[pe]) \cup {<<t.key, t.sn>>}
      BY <1>1, <1>2, <1>3, <1>4, <2>1, AppendedLives
    <3>2. Gains(proc', running, pe, t.key, t.sn)
      BY <2>1, <3>1 DEF Gains
    <3>3. AsRequests(proc') = AsRequests(running) \cup {r}
      BY <1>2, <3>2, RequestJoins
    <3> HIDE DEF r
    <3>4. QED BY <1>5, <1>11, <3>3
  <2>4. r.queue \notin DynPeon => \A q \in AsRequests(proc) : ~Promise!Concerns(r, q)
    <3> SUFFICES ASSUME pe \notin DynPeon, NEW q \in AsRequests(proc), Promise!Concerns(r, q)
                 PROVE  FALSE
      BY <1>5
    <3>1. type = pe
      BY DEF TypeOf, type
    <3>2. QED BY <1>2, <1>3, <1>11, <3>1, StartsAlone
  <2>5. Promise!Start(x) /\ x \in AsRequests(wait)
    <3> HIDE DEF r
    <3>1. QED BY <1>0, <1>5, <1>7, <1>9, <1>11, <2>3, <2>4 DEF Promise!Start
  <2>6. Promise!Next
    BY <2>5 DEF Promise!Next
  <2>7. QED BY <2>2, <2>6
<1>12. QED BY <1>1, <1>8, <1>10, <1>11
-----------------------------------------------------------------------------
LEMMA PromiseInit == Init => PromiseInv /\ Promise!Init
<1> SUFFICES ASSUME Init PROVE PromiseInv /\ Promise!Init
  OBVIOUS
<1>1. \A p \in Peon : wait[p] = <<>> /\ proc[p] = <<>>
  BY DEF Init
<1>2. /\ LiveIds(<<>>) = {} /\ Live(<<>>) = {} /\ Sns(<<>>) = {} /\ LivesApart(<<>>)
      /\ Len(<<>>) = 0
  BY DEF LiveIds, Live, Sns, ToSet, LivesApart
<1>3. \A d \in DynPeon : d \in Peon
  BY DEF Peon
<1>4. {"CONNECT", "RECHECK"} \subseteq Peon
  BY DEF Peon, StaticPeon
<1>5. OneTask
  <2>1. \A d \in DynPeon : wait[d] = <<>> /\ proc[d] = <<>>
    BY <1>1, <1>3
  <2>2. 0 + 0 <= 1
    OBVIOUS
  <2>3. \A d \in DynPeon : Len(wait[d]) + Len(proc[d]) <= 1
    BY <1>2, <2>1, <2>2, Zenon
  <2>4. QED BY <2>3 DEF OneTask
<1>6. Numbered
  BY <1>1, <1>2 DEF Init, Numbered
<1>7. NoTwins /\ WatchedIdle
  BY <1>1, <1>2, <1>4 DEF NoTwins, WatchedIdle
<1>8. AsRequests(wait) = {} /\ AsRequests(proc) = {}
  BY <1>1, <1>2 DEF AsRequests
<1>9. {t.key : t \in Live(wait["RECHECK"])} = {}
  BY <1>1, <1>2, <1>4
<1>10. QED BY <1>5, <1>6, <1>7, <1>8, <1>9 DEF PromiseInv, Promise!Init

LEMMA PromiseNext ==
  PeonInv /\ ExclusiveInv /\ PromiseInv /\ PeonInv' /\ [Next]_vars
    => PromiseInv' /\ [Promise!Next]_(Promise!rvars)
<1> SUFFICES ASSUME Ready, [Next]_vars
             PROVE  PromiseInv' /\ (Promise!Next \/ UNCHANGED Promise!rvars)
  BY DEF Ready
<1>1. CASE \E c \in Caller : peon_sn_generate(c) \/ peon_task_reject(c) \/ peon_task_add(c)
  BY <1>1, GeneratePromise, CallerPromise
<1>2. CASE \E i \in DOMAIN proc["DCBATCH"] : \E d \in Device : \E c \in Ctx :
             peon_add_disconn_task_inherit(i, d, c)
  BY <1>2, InheritPromise
<1>3. CASE \E pe \in Peon : scan_dead(pe) \/ scan_live(pe)
  BY <1>3, DeadPromise, ScanLivePromise
<1>4. CASE \E pe \in Peon : \E i \in DOMAIN proc[pe] : \E c \in Ctx :
             handle(pe, i, c) \/ \E failed \in CanFail(pe) : peon_task_complete(pe, i, failed, c)
  BY <1>4, HandlePromise, CompletePromise
<1>5. CASE \/ \E pe \in Peon : peon_task_get(pe) \/ scan_end(pe)
           \/ dynamic_exit \/ peon_run_recheck \/ recheck_present \/ UNCHANGED vars
  <2>1. UNCHANGED <<wait, proc, adding>>
    BY <1>5 DEF peon_task_get, scan_end, dynamic_exit, peon_run_recheck, recheck_present, vars,
       lists
  <2>2. NoRequestAdded
    BY <2>1 DEF NoRequestAdded
  <2>3. QED BY <2>1, <2>2, IdlePromise
<1>6. CASE (\E d \in DynPeon : peon_deconstruct(d)) \/ recheck_dead
  BY <1>6, DeconstructPromise, DeadPromise, ReadyTypes
<1>7. CASE \E c \in Ctx : recheck_gone(c)
  BY <1>7, RecheckGonePromise
<1>8. CASE Tick
  BY <1>8, TickPromise
<1>9. QED BY <1>1, <1>2, <1>3, <1>4, <1>5, <1>6, <1>7, <1>8 DEF Next

LEMMA PromiseInvariant == Spec => []PromiseInv
<1>1. QED BY PromiseInit, PromiseNext, EngineInvariant, ExclusiveInvariant, PTL DEF Spec

(* The engine keeps its promise: what it does to live tasks, whatever the  *)
(* number of workers and callers and however they interleave, is a         *)
(* behaviour of Requests.  A request that peon_task_get discards has a     *)
(* newer one on a list, one that a dynamic peon does not run is dropped,   *)
(* none is started beside a live one it is compared with; a connect that   *)
(* fails waits again, one that succeeds is watched until something newer   *)
(* comes.                                                                  *)
THEOREM EngineKeepsPromise == Spec => EnginePromise
<1>1. Init => Promise!Init
  BY PromiseInit
<1>2. PeonInv /\ ExclusiveInv /\ PromiseInv /\ PeonInv' /\ [Next]_vars
        => [Promise!Next]_(Promise!rvars)
  BY PromiseNext
<1>3. QED BY <1>1, <1>2, EngineInvariant, ExclusiveInvariant, PromiseInvariant, PTL
          DEF Spec, EnginePromise, Promise!Spec
=============================================================================
