----------------------------- MODULE PeonProofs -----------------------------
(***************************************************************************)
(* Proofs about the task engine, for all hosts, targets, worker numbers,   *)
(* restrain times and request bounds.                                      *)
(***************************************************************************)
EXTENDS Peon, ListFacts, FiniteSetTheorems

(* The inductive invariant.                                                *)

(* What kind of key the tasks of each list and of each pending request     *)
(* have, and that a recheck task has the smallest serial number.           *)
KeysOK ==
  /\ \A pe \in Peon : \A t \in Listed(pe) :
       IF pe = "DCBATCH" THEN t.key \in Batch ELSE t.key \in Device
  /\ \A t \in Listed("RECHECK") : t.sn = 0
  /\ \A c \in Caller : adding[c] # NoRequest =>
       /\ adding[c].task.state = "LIVE"
       /\ IF adding[c].peon = "DCBATCH" THEN adding[c].task.key \in Batch
                                        ELSE adding[c].task.key \in Device

(* A cursor is held by a peon and is positive; a dynamic peon that scans   *)
(* has not run yet, one that does not exist holds nothing, and it has one  *)
(* running task exactly while its handler runs.                            *)
LockOK ==
  /\ lock.owner = "free" => lock = Free
  /\ lock.owner \in Peon => lock.at >= 1
  /\ lock.owner \in DynPeon => dyn[lock.owner] = "start"
  /\ \A d \in DynPeon : dyn[d] = "none" => Len(wait[d]) = 0
  /\ \A d \in DynPeon : Len(proc[d]) = IF dyn[d] = "proc" THEN 1 ELSE 0

(* No list holds a request for a device newer than the newest one queued.  *)
NewestBounds ==
  /\ \A pe \in Peon \ {"DCBATCH"} : \A t \in Listed(pe) : t.sn <= latest[t.key].sn
  /\ \A t \in Listed("DCBATCH") : \A d \in Device :
       d.host = t.key.host => t.sn <= latest[d].sn

PeonInv ==
  /\ TypeOK
  /\ KeysOK
  /\ LockOK
  /\ NewestBounds
  /\ CountExact
  /\ NewestNotLost
  /\ DynWorkersBounded
-----------------------------------------------------------------------------
(* Marking outdated tasks keeps a list typed and as long as it is, changes *)
(* no key and no number, and leaves every task that is not outdated.       *)
LEMMA MarkedListProperties ==
  ASSUME NEW s \in Seq(Task), NEW pe, NEW t, NEW type
  PROVE  LET m == MarkedList(s, pe, t, type)
         IN  /\ m \in Seq(Task)
             /\ Len(m) = Len(s)
             /\ \A i \in 1 .. Len(s) : m[i] = Marked(s[i], pe, t, type)
             /\ \A u \in ToSet(m) : \E q \in ToSet(s) : u.key = q.key /\ u.sn = q.sn
             /\ \A q \in ToSet(s) : ~Outdated(q, pe, t, type) => q \in ToSet(m)
<1> DEFINE m == MarkedList(s, pe, t, type)
<1>0. DOMAIN s = 1 .. Len(s) /\ Len(s) \in Nat
  BY ListDomain
<1>1. ASSUME NEW q \in Task
      PROVE  /\ Marked(q, pe, t, type) \in Task
             /\ Marked(q, pe, t, type).key = q.key
             /\ Marked(q, pe, t, type).sn = q.sn
             /\ ~Outdated(q, pe, t, type) => Marked(q, pe, t, type) = q
  BY DEF Marked, Task
<1>2. m = [i \in 1 .. Len(s) |-> Marked(s[i], pe, t, type)]
  BY <1>0 DEF MarkedList
<1>3. \A i \in 1 .. Len(s) : s[i] \in Task /\ s[i] \in ToSet(s)
  BY InToSet
<1>4. m \in [1 .. Len(s) -> Task] /\ \A i \in 1 .. Len(s) : m[i] = Marked(s[i], pe, t, type)
  BY <1>1, <1>2, <1>3
<1> HIDE DEF m
<1>5. m \in Seq(Task) /\ Len(m) = Len(s) /\ ToSet(m) = {m[i] : i \in 1 .. Len(s)}
  BY <1>0, <1>4, MapProperties
<1>6. \A u \in ToSet(m) : \E q \in ToSet(s) : u.key = q.key /\ u.sn = q.sn
  BY <1>1, <1>3, <1>4, <1>5
<1>7. ASSUME NEW q \in ToSet(s), ~Outdated(q, pe, t, type)
      PROVE  q \in ToSet(m)
  <2>1. PICK i \in 1 .. Len(s) : q = s[i]
    BY <1>0 DEF ToSet
  <2>2. m[i] = q
    BY <2>1, <1>1, <1>3, <1>4, <1>7
  <2>3. QED BY <2>1, <2>2, <1>5
<1>8. QED BY <1>4, <1>5, <1>6, <1>7 DEF m

(* Time passing keeps a list typed and as long as it is, and every key,    *)
(* number and state in it.                                                 *)
LEMMA OlderListProperties ==
  ASSUME NEW s \in Seq(Task)
  PROVE  LET m == [i \in DOMAIN s |-> Older(s[i])]
         IN  /\ m \in Seq(Task)
             /\ Len(m) = Len(s)
             /\ \A u \in ToSet(m) : \E q \in ToSet(s) : u.key = q.key /\ u.sn = q.sn
             /\ \A q \in ToSet(s) : \E u \in ToSet(m) :
                  u.key = q.key /\ u.sn = q.sn /\ u.state = q.state
<1> DEFINE m == [i \in DOMAIN s |-> Older(s[i])]
<1>0. DOMAIN s = 1 .. Len(s) /\ Len(s) \in Nat
  BY ListDomain
<1>1. ASSUME NEW q \in Task
      PROVE  /\ Older(q) \in Task
             /\ Older(q).key = q.key /\ Older(q).sn = q.sn /\ Older(q).state = q.state
  <2>1. MaxAge \in Nat /\ PEON_FAIL_RETRY_INTERVAL \in Nat
    BY ConstantsAssumption DEF MaxAge
  <2>2. /\ (IF q.age < MaxAge THEN q.age + 1 ELSE q.age) \in 0 .. MaxAge
        /\ (IF q.backoff > 0 THEN q.backoff - 1 ELSE q.backoff) \in 0 .. PEON_FAIL_RETRY_INTERVAL
    BY <2>1 DEF Task
  <2>3. QED BY <2>2 DEF Older, Task
<1>2. \A i \in 1 .. Len(s) : s[i] \in Task /\ s[i] \in ToSet(s)
  BY InToSet
<1>3. m \in [1 .. Len(s) -> Task] /\ \A i \in 1 .. Len(s) : m[i] = Older(s[i])
  BY <1>0, <1>1, <1>2
<1> HIDE DEF m
<1>4. m \in Seq(Task) /\ Len(m) = Len(s) /\ ToSet(m) = {m[i] : i \in 1 .. Len(s)}
  BY <1>0, <1>3, MapProperties
<1>5. \A u \in ToSet(m) : \E q \in ToSet(s) : u.key = q.key /\ u.sn = q.sn
  BY <1>1, <1>2, <1>3, <1>4
<1>6. ASSUME NEW q \in ToSet(s)
      PROVE  \E u \in ToSet(m) : u.key = q.key /\ u.sn = q.sn /\ u.state = q.state
  <2>1. PICK i \in 1 .. Len(s) : q = s[i]
    BY <1>0 DEF ToSet
  <2>2. m[i] \in ToSet(m) /\ m[i] = Older(q) /\ q \in Task
    BY <2>1, <1>2, <1>3, <1>4
  <2>3. QED BY <2>2, <1>1
<1>7. QED BY <1>4, <1>5, <1>6 DEF m

(* A handler changes the context of one entry of a list.                   *)
LEMMA HandledListProperties ==
  ASSUME NEW s \in Seq(Task), NEW i \in 1 .. Len(s), NEW c \in Ctx
  PROVE  LET m == [s EXCEPT ![i].ctx = c]
         IN  /\ m \in Seq(Task)
             /\ Len(m) = Len(s)
             /\ \A u \in ToSet(m) : \E q \in ToSet(s) : u.key = q.key /\ u.sn = q.sn
             /\ \A q \in ToSet(s) : \E u \in ToSet(m) :
                  u.key = q.key /\ u.sn = q.sn /\ u.state = q.state
<1> DEFINE m == [s EXCEPT ![i].ctx = c]
<1>0. DOMAIN s = 1 .. Len(s) /\ Len(s) \in Nat
  BY ListDomain
<1>1. \A j \in 1 .. Len(s) : s[j] \in Task /\ s[j] \in ToSet(s)
  BY InToSet
<1>2. m \in [1 .. Len(s) -> Task]
      /\ \A j \in 1 .. Len(s) : m[j].key = s[j].key /\ m[j].sn = s[j].sn /\ m[j].state = s[j].state
  <2>1. m = [j \in 1 .. Len(s) |-> IF j = i THEN [s[i] EXCEPT !.ctx = c] ELSE s[j]]
    BY <1>0
  <2>2. /\ [s[i] EXCEPT !.ctx = c] \in Task
        /\ [s[i] EXCEPT !.ctx = c].key = s[i].key
        /\ [s[i] EXCEPT !.ctx = c].sn = s[i].sn
        /\ [s[i] EXCEPT !.ctx = c].state = s[i].state
    BY <1>1 DEF Task
  <2>3. QED BY <2>1, <2>2, <1>1
<1> HIDE DEF m
<1>3. m \in Seq(Task) /\ Len(m) = Len(s) /\ ToSet(m) = {m[j] : j \in 1 .. Len(s)}
  BY <1>0, <1>2, MapProperties, SMTT(30)
<1>4. \A u \in ToSet(m) : \E q \in ToSet(s) : u.key = q.key /\ u.sn = q.sn
  BY <1>1, <1>2, <1>3
<1>5. ASSUME NEW q \in ToSet(s)
      PROVE  \E u \in ToSet(m) : u.key = q.key /\ u.sn = q.sn /\ u.state = q.state
  <2>1. PICK j \in 1 .. Len(s) : q = s[j]
    BY <1>0 DEF ToSet
  <2>2. QED BY <2>1, <1>2, <1>3
<1>6. QED BY <1>3, <1>4, <1>5 DEF m
-----------------------------------------------------------------------------
(* How a step treats the lists when it makes no request.                   *)

(* Every task listed after the step was listed before it with the same key *)
(* and number, or is a connect that moved to the recheck list.             *)
NothingNew ==
  \A pe \in Peon : \A u \in Listed(pe)' :
    \/ \E q \in Listed(pe) : u.key = q.key /\ u.sn = q.sn
    \/ pe = "RECHECK" /\ u.sn = 0 /\ u.key \in Device

(* The live task that carries the newest request of its device stays where *)
(* it is, or the request is completed, or recorded as lost.                *)
NewestKept ==
  \A pe \in Peon \ {"RECHECK", "DCBATCH"} : \A t \in Listed(pe) :
    t.state = "LIVE" /\ t.sn = latest[t.key].sn
      => \/ \E u \in Listed(pe)' : u.key = t.key /\ u.sn = t.sn /\ u.state = "LIVE"
         \/ served'[t.key] >= t.sn
         \/ t.sn \in lost'

(* No caller gets a request to queue that it did not have.                 *)
NoRequestAdded ==
  \A c \in Caller : adding'[c] # NoRequest => adding'[c] = adding[c]

(* The entries of the lists of a typed state are tasks.                    *)
LEMMA ListedInTask ==
  ASSUME TypeOK
  PROVE  \A pe \in Peon : /\ Listed(pe) \subseteq Task
                          /\ wait[pe] \in Seq(Task) /\ proc[pe] \in Seq(Task)
BY ToSetInT DEF TypeOK, Listed

(* Such a step keeps the three parts of the invariant about requests.      *)
LEMMA RequestsKept ==
  ASSUME TypeOK, TypeOK', KeysOK, NewestBounds, NewestNotLost,
         latest' = latest, NoRequestAdded,
         \A k \in Device : served'[k] >= served[k],
         lost \subseteq lost', NothingNew, NewestKept
  PROVE  KeysOK' /\ NewestBounds' /\ NewestNotLost'
<1>0. /\ \A pe \in Peon : Listed(pe) \subseteq Task
      /\ \A pe \in Peon : Listed(pe)' \subseteq Task
  <2>1. \A pe \in Peon : Listed(pe) \subseteq Task
    BY ListedInTask
  <2>2. \A pe \in Peon : Listed(pe)' \subseteq Task
    BY ToSetInT DEF TypeOK, Listed
  <2>3. QED BY <2>1, <2>2
<1>1. KeysOK'
  <2>1. ASSUME NEW pe \in Peon, NEW u \in Listed(pe)'
        PROVE  IF pe = "DCBATCH" THEN u.key \in Batch ELSE u.key \in Device
    BY <2>1 DEF KeysOK, NothingNew
  <2>2. ASSUME NEW u \in Listed("RECHECK")'
        PROVE  u.sn = 0
    BY <2>2 DEF KeysOK, NothingNew, Peon, StaticPeon
  <2>3. QED BY <2>1, <2>2 DEF KeysOK, NoRequestAdded
<1>2. NewestBounds'
  <2>0. latest \in [Device -> [op : {"none", "connect", "disconnect", "batch"}, sn : Nat]]
    BY DEF TypeOK
  <2>1. ASSUME NEW pe \in Peon \ {"DCBATCH"}, NEW u \in Listed(pe)'
        PROVE  u.sn <= latest[u.key].sn
    <3>1. CASE \E q \in Listed(pe) : u.key = q.key /\ u.sn = q.sn
      BY <3>1 DEF NewestBounds
    <3>2. CASE u.sn = 0 /\ u.key \in Device
      BY <3>2, <2>0
    <3>3. QED BY <2>1, <3>1, <3>2 DEF NothingNew
  <2>2. ASSUME NEW u \in Listed("DCBATCH")', NEW d \in Device, d.host = u.key.host
        PROVE  u.sn <= latest[d].sn
    <3>1. PICK q \in Listed("DCBATCH") : u.key = q.key /\ u.sn = q.sn
      BY <2>2 DEF NothingNew, Peon, StaticPeon
    <3>2. QED BY <3>1, <2>2 DEF NewestBounds
  <2>3. QED BY <2>1, <2>2 DEF NewestBounds
<1>3. NewestNotLost'
  <2> SUFFICES ASSUME NEW d \in Device, latest[d].op \in {"connect", "disconnect"}
               PROVE  Pending(d)' \/ served'[d] >= latest[d].sn \/ latest[d].sn \in lost'
    BY DEF NewestNotLost
  <2>1. CASE Pending(d)
    <3>0. PICK pe \in Peon \ {"RECHECK", "DCBATCH"} : \E t \in Listed(pe) :
            t.key = d /\ t.sn = latest[d].sn /\ t.state = "LIVE" /\ OpOf(pe) = latest[d].op
      BY <2>1 DEF Pending
    <3>1. PICK t \in Listed(pe) :
            t.key = d /\ t.sn = latest[d].sn /\ t.state = "LIVE" /\ OpOf(pe) = latest[d].op
      BY <3>0
    <3>2. \/ \E u \in Listed(pe)' : u.key = d /\ u.sn = latest[d].sn /\ u.state = "LIVE"
          \/ served'[d] >= latest[d].sn
          \/ latest[d].sn \in lost'
      BY <3>1 DEF NewestKept
    <3>3. QED BY <3>1, <3>2 DEF Pending
  <2>2. CASE served[d] >= latest[d].sn
    BY <2>2 DEF TypeOK
  <2>3. CASE latest[d].sn \in lost
    BY <2>3
  <2>4. QED BY <2>1, <2>2, <2>3 DEF NewestNotLost
<1>4. QED BY <1>1, <1>2, <1>3

(* Making t, a task of peon pe (or a dynamic peon in its place), the       *)
(* newest request raises latest and nothing else.                          *)
LEMMA RequestedProperties ==
  ASSUME TypeOK, NEW pe \in StaticPeon, NEW t \in Task
  PROVE  /\ Requested(pe, t) \in [Device -> [op : {"none", "connect", "disconnect", "batch"}, sn : Nat]]
         /\ \A d \in Device : Requested(pe, t)[d].sn >= latest[d].sn
         /\ t.key \in Device => Requested(pe, t)[t.key].sn >= t.sn
         /\ pe = "DCBATCH" => \A d \in Device : d.host = t.key.host => Requested(pe, t)[d].sn >= t.sn
         /\ \A d \in Device :
              \/ Requested(pe, t)[d] = latest[d]
              \/ Requested(pe, t)[d] = [op |-> OpOf(pe), sn |-> t.sn]
                   /\ (d = t.key \/ pe = "DCBATCH")
<1>0. /\ latest \in [Device -> [op : {"none", "connect", "disconnect", "batch"}, sn : Nat]]
      /\ t.sn \in Nat /\ OpOf(pe) \in {"none", "connect", "disconnect", "batch"}
  BY DEF TypeOK, Task, OpOf, StaticPeon
<1>1. Requested(pe, t) =
        [d \in Device |->
           IF (d = t.key \/ (pe = "DCBATCH" /\ d.host = t.key.host)) /\ t.sn >= latest[d].sn
           THEN [op |-> OpOf(pe), sn |-> t.sn] ELSE latest[d]]
  BY DEF Requested
<1>2. QED BY <1>0, <1>1

(* How a step treats the lists when it queues task t on peon p.            *)
OnlyNew(p, t) ==
  \A q \in Peon : \A u \in Listed(q)' :
    \/ \E v \in Listed(q) : u.key = v.key /\ u.sn = v.sn
    \/ q = p /\ u = t
AllKept ==
  \A q \in Peon \ {"RECHECK"} : \A v \in Listed(q) :
    \E u \in Listed(q)' : u.key = v.key /\ u.sn = v.sn /\ u.state = v.state

(* The key fits the peon.                                                  *)
KeyFits(pe, key) == IF pe = "DCBATCH" THEN key \in Batch ELSE key \in Device

(* Queueing a request, on the peon asked for or on a dynamic one in its    *)
(* place, keeps the three parts of the invariant about requests.           *)
LEMMA RequestAdded ==
  ASSUME TypeOK, TypeOK', KeysOK, NewestBounds, NewestNotLost, NoRequestAdded,
         NEW pe \in {"CONNECT", "DISCONN", "DCBATCH"}, NEW t \in Task,
         t.state = "LIVE", KeyFits(pe, t.key),
         NEW p \in Peon, p = pe \/ (p \in DynPeon /\ pe = "DISCONN"),
         latest' = Requested(pe, t), served' = served, lost' = lost,
         t \in Listed(p)', OnlyNew(p, t), AllKept
  PROVE  KeysOK' /\ NewestBounds' /\ NewestNotLost'
<1>0. /\ pe \in StaticPeon
      /\ OpOf(p) = OpOf(pe)
      /\ p # "RECHECK"
      /\ p = "DCBATCH" <=> pe = "DCBATCH"
  BY ConstantsAssumption DEF StaticPeon, OpOf
<1>1. /\ \A d \in Device : latest'[d].sn >= latest[d].sn
      /\ t.key \in Device => latest'[t.key].sn >= t.sn
      /\ pe = "DCBATCH" => \A d \in Device : d.host = t.key.host => latest'[d].sn >= t.sn
      /\ \A d \in Device :
           \/ latest'[d] = latest[d]
           \/ latest'[d] = [op |-> OpOf(pe), sn |-> t.sn] /\ (d = t.key \/ pe = "DCBATCH")
  BY <1>0, RequestedProperties
<1>2. /\ \A d \in Device : latest[d].sn \in Nat /\ latest'[d].sn \in Nat
      /\ t.sn \in Nat
      /\ \A q \in Peon : \A v \in Listed(q) : v.sn \in Nat
  <2>1. \A q \in Peon : Listed(q) \subseteq Task
    BY ListedInTask
  <2>2. QED BY <2>1, ZenonT(40) DEF TypeOK, Task
<1>3. KeysOK'
  <2>1. ASSUME NEW q \in Peon, NEW u \in Listed(q)'
        PROVE  IF q = "DCBATCH" THEN u.key \in Batch ELSE u.key \in Device
    <3>1. CASE \E v \in Listed(q) : u.key = v.key /\ u.sn = v.sn
      BY <3>1 DEF KeysOK
    <3>2. CASE q = p /\ u = t
      BY <3>2, <1>0 DEF KeyFits
    <3>3. QED BY <3>1, <3>2 DEF OnlyNew
  <2>2. ASSUME NEW u \in Listed("RECHECK")'
        PROVE  u.sn = 0
    BY <2>2, <1>0 DEF KeysOK, OnlyNew, Peon, StaticPeon
  <2>3. QED BY <2>1, <2>2 DEF KeysOK, NoRequestAdded
<1>4. NewestBounds'
  <2>1. ASSUME NEW q \in Peon \ {"DCBATCH"}, NEW u \in Listed(q)'
        PROVE  u.sn <= latest'[u.key].sn
    <3>1. CASE \E v \in Listed(q) : u.key = v.key /\ u.sn = v.sn
      <4>1. PICK v \in Listed(q) : u.key = v.key /\ u.sn = v.sn
        BY <3>1
      <4>2. v.key \in Device /\ v.sn <= latest[v.key].sn /\ v.sn \in Nat
        BY <1>2 DEF KeysOK, NewestBounds
      <4>3. QED BY <4>1, <4>2, <1>1, <1>2
    <3>2. CASE q = p /\ u = t
      <4>1. t.key \in Device
        BY <3>2, <1>0, <2>1 DEF KeyFits
      <4>2. QED BY <4>1, <3>2, <1>1, <1>2
    <3>3. QED BY <3>1, <3>2 DEF OnlyNew
  <2>2. ASSUME NEW u \in Listed("DCBATCH")', NEW d \in Device, d.host = u.key.host
        PROVE  u.sn <= latest'[d].sn
    <3>0. "DCBATCH" \in Peon
      BY DEF Peon, StaticPeon
    <3>1. CASE \E v \in Listed("DCBATCH") : u.key = v.key /\ u.sn = v.sn
      <4>1. PICK v \in Listed("DCBATCH") : u.key = v.key /\ u.sn = v.sn
        BY <3>1
      <4>2. v.sn <= latest[d].sn /\ v.sn \in Nat
        BY <4>1, <2>2, <3>0, <1>2 DEF NewestBounds
      <4>3. QED BY <4>1, <4>2, <1>1, <1>2
    <3>2. CASE "DCBATCH" = p /\ u = t
      BY <3>2, <2>2, <1>0, <1>1, <1>2
    <3>3. QED BY <3>0, <3>1, <3>2 DEF OnlyNew
  <2>3. QED BY <2>1, <2>2 DEF NewestBounds
<1>5. NewestNotLost'
  <2> SUFFICES ASSUME NEW d \in Device, latest'[d].op \in {"connect", "disconnect"}
               PROVE  Pending(d)' \/ served'[d] >= latest'[d].sn \/ latest'[d].sn \in lost'
    BY DEF NewestNotLost
  <2>1. CASE latest'[d] = latest[d]
    <3>1. CASE Pending(d)
      <4>0. PICK q \in Peon \ {"RECHECK", "DCBATCH"} : \E v \in Listed(q) :
              v.key = d /\ v.sn = latest[d].sn /\ v.state = "LIVE" /\ OpOf(q) = latest[d].op
        BY <3>1 DEF Pending
      <4>1. PICK v \in Listed(q) :
              v.key = d /\ v.sn = latest[d].sn /\ v.state = "LIVE" /\ OpOf(q) = latest[d].op
        BY <4>0
      <4>2. \E u \in Listed(q)' : u.key = d /\ u.sn = latest[d].sn /\ u.state = "LIVE"
        BY <4>1 DEF AllKept
      <4>3. QED BY <4>1, <4>2, <2>1 DEF Pending
    <3>2. QED BY <3>1, <2>1 DEF NewestNotLost
  <2>2. CASE latest'[d] = [op |-> OpOf(pe), sn |-> t.sn] /\ (d = t.key \/ pe = "DCBATCH")
    <3>1. pe # "DCBATCH"
      BY <2>2 DEF OpOf
    <3>2. p \in Peon \ {"RECHECK", "DCBATCH"} /\ t.key = d /\ OpOf(p) = latest'[d].op
          /\ t.sn = latest'[d].sn
      BY <2>2, <3>1, <1>0
    <3>3. QED BY <3>2 DEF Pending
  <2>3. QED BY <2>1, <2>2, <1>1
<1>6. QED BY <1>3, <1>4, <1>5
-----------------------------------------------------------------------------
(* The lists stay as they are up to ages, delays and contexts.             *)
WaitKept ==
  /\ wait' \in [Peon -> Seq(Task)]
  /\ \A p \in Peon :
       /\ Len(wait'[p]) = Len(wait[p])
       /\ \A u \in ToSet(wait'[p]) : \E v \in ToSet(wait[p]) : u.key = v.key /\ u.sn = v.sn
       /\ \A v \in ToSet(wait[p]) : \E u \in ToSet(wait'[p]) :
            u.key = v.key /\ u.sn = v.sn /\ u.state = v.state
ProcKept ==
  /\ proc' \in [Peon -> Seq(Task)]
  /\ \A p \in Peon :
       /\ Len(proc'[p]) = Len(proc[p])
       /\ \A u \in ToSet(proc'[p]) : \E v \in ToSet(proc[p]) : u.key = v.key /\ u.sn = v.sn
       /\ \A v \in ToSet(proc[p]) : \E u \in ToSet(proc'[p]) :
            u.key = v.key /\ u.sn = v.sn /\ u.state = v.state

(* A step that only changes ages, delays and contexts makes no request and *)
(* loses none.                                                             *)
LEMMA AlikeKept ==
  ASSUME WaitKept, ProcKept
  PROVE  NothingNew /\ NewestKept
<1>1. ASSUME NEW pe \in Peon, NEW u \in Listed(pe)'
      PROVE  \E q \in Listed(pe) : u.key = q.key /\ u.sn = q.sn
  <2>1. CASE u \in ToSet(wait'[pe])
    BY <2>1 DEF WaitKept, Listed
  <2>2. CASE u \in ToSet(proc'[pe])
    BY <2>2 DEF ProcKept, Listed
  <2>3. QED BY <2>1, <2>2, <1>1 DEF Listed
<1>2. ASSUME NEW pe \in Peon, NEW t \in Listed(pe)
      PROVE  \E u \in Listed(pe)' : u.key = t.key /\ u.sn = t.sn /\ u.state = t.state
  <2>1. CASE t \in ToSet(wait[pe])
    BY <2>1 DEF WaitKept, Listed
  <2>2. CASE t \in ToSet(proc[pe])
    BY <2>2 DEF ProcKept, Listed
  <2>3. QED BY <2>1, <2>2, <1>2 DEF Listed
<1>3. NothingNew
  BY <1>1 DEF NothingNew
<1>4. NewestKept
  BY <1>2 DEF NewestKept
<1>5. QED BY <1>3, <1>4

(* Unchanged waiting tasks stay what they are.                             *)
LEMMA WaitUnchanged ==
  ASSUME TypeOK, wait' = wait
  PROVE  WaitKept
BY DEF TypeOK, WaitKept

(* Unchanged running tasks stay what they are.                             *)
LEMMA ProcUnchanged ==
  ASSUME TypeOK, proc' = proc
  PROVE  ProcKept
BY DEF TypeOK, ProcKept

(* So they do when the handler of one of them moves on.                    *)
LEMMA HandledKept ==
  ASSUME TypeOK, NEW pe \in Peon, NEW i \in DOMAIN proc[pe], NEW c \in Ctx,
         proc' = [proc EXCEPT ![pe][i].ctx = c]
  PROVE  ProcKept
<1> DEFINE m == [proc[pe] EXCEPT ![i].ctx = c]
<1>1. proc \in [Peon -> Seq(Task)] /\ proc[pe] \in Seq(Task) /\ i \in 1 .. Len(proc[pe])
  BY ListDomain DEF TypeOK
<1>2. /\ m \in Seq(Task)
      /\ Len(m) = Len(proc[pe])
      /\ \A u \in ToSet(m) : \E q \in ToSet(proc[pe]) : u.key = q.key /\ u.sn = q.sn
      /\ \A q \in ToSet(proc[pe]) : \E u \in ToSet(m) :
           u.key = q.key /\ u.sn = q.sn /\ u.state = q.state
  BY <1>1, HandledListProperties, ZenonT(30)
<1>3. proc' = [proc EXCEPT ![pe] = m]
  OBVIOUS
<1> HIDE DEF m
<1>4. proc'[pe] = m /\ (\A p \in Peon : p # pe => proc'[p] = proc[p])
      /\ proc' \in [Peon -> Seq(Task)]
  BY <1>1, <1>2, <1>3
<1>5. ASSUME NEW p \in Peon
      PROVE  /\ Len(proc'[p]) = Len(proc[p])
             /\ \A u \in ToSet(proc'[p]) : \E v \in ToSet(proc[p]) : u.key = v.key /\ u.sn = v.sn
             /\ \A v \in ToSet(proc[p]) : \E u \in ToSet(proc'[p]) :
                  u.key = v.key /\ u.sn = v.sn /\ u.state = v.state
  <2>1. CASE p = pe
    BY <2>1, <1>2, <1>4
  <2>2. CASE p # pe
    BY <2>2, <1>4
  <2>3. QED BY <2>1, <2>2
<1>6. QED BY <1>4, <1>5 DEF ProcKept

(* Queueing a live task with a fitting key keeps the invariant, on the     *)
(* static peon, on a new dynamic one, and when the thread cannot be made.  *)
LEMMA QueueInv ==
  ASSUME PeonInv, ProcKept, NoRequestAdded, adding' \in [Caller -> Request], sn' \in Nat,
         NEW pe \in {"CONNECT", "DISCONN", "DCBATCH"}, NEW t \in Task,
         t.state = "LIVE", KeyFits(pe, t.key), Queue(pe, t)
  PROVE  PeonInv'
<1>0. /\ TypeOK /\ KeysOK /\ LockOK /\ NewestBounds /\ CountExact /\ NewestNotLost
      /\ DynWorkersBounded /\ pe \in Peon /\ pe \in StaticPeon /\ lock = Free
  BY DEF PeonInv, Peon, StaticPeon, Queue
<1>1. CASE QueueStatic(pe, t)
  <2>1. /\ wait' = [wait EXCEPT ![pe] = Append(wait[pe], t)]
        /\ worker_all_count' = CountAfter(pe, 1)
        /\ latest' = Requested(pe, t)
        /\ UNCHANGED <<dyn, peon_dyn_worker_num, lock, served, lost>>
    BY <1>1 DEF QueueStatic, dyns
  <2>2. wait \in [Peon -> Seq(Task)] /\ wait[pe] \in Seq(Task)
    BY <1>0 DEF TypeOK
  <2>3. /\ Append(wait[pe], t) \in Seq(Task)
        /\ Len(Append(wait[pe], t)) = Len(wait[pe]) + 1
        /\ ToSet(Append(wait[pe], t)) = ToSet(wait[pe]) \cup {t}
    BY <2>2, AppendedProperties
  <2>4. /\ wait' \in [Peon -> Seq(Task)]
        /\ \A q \in Peon : q # pe => wait'[q] = wait[q]
        /\ ToSet(wait'[pe]) = ToSet(wait[pe]) \cup {t}
        /\ Len(wait'[pe]) = Len(wait[pe]) + 1
    <3>1. wait'[pe] = Append(wait[pe], t)
      BY <2>1, <2>2, <1>0
    <3>2. wait' \in [Peon -> Seq(Task)] /\ \A q \in Peon : q # pe => wait'[q] = wait[q]
      BY <2>1, <2>2, <2>3
    <3>3. QED BY <3>1, <3>2, <2>3
  <2>5. TypeOK'
    <3>1. latest' \in [Device -> [op : {"none", "connect", "disconnect", "batch"}, sn : Nat]]
      BY <2>1, <1>0, RequestedProperties
    <3>2. worker_all_count' \in Int
      BY <2>1, <1>0 DEF TypeOK, CountAfter
    <3>3. QED BY <3>1, <3>2, <2>1, <2>4, <1>0 DEF TypeOK, ProcKept
  <2>6. KeysOK' /\ NewestBounds' /\ NewestNotLost'
    <3>0. \A q \in Peon : ToSet(wait'[q]) = ToSet(wait[q]) \cup (IF q = pe THEN {t} ELSE {})
      BY <2>4
    <3>1. t \in Listed(pe)' /\ OnlyNew(pe, t) /\ AllKept
      <4>1. t \in Listed(pe)'
        BY <2>4 DEF Listed
      <4>2. OnlyNew(pe, t)
        BY <3>0, ZenonT(40) DEF Listed, OnlyNew, ProcKept
      <4>3. ASSUME NEW q \in Peon, NEW v \in Listed(q)
            PROVE  \E u \in Listed(q)' : u.key = v.key /\ u.sn = v.sn /\ u.state = v.state
        <5>1. CASE v \in ToSet(wait[q])
          BY <5>1, <3>0 DEF Listed
        <5>2. CASE v \in ToSet(proc[q])
          BY <5>2 DEF Listed, ProcKept
        <5>3. QED BY <5>1, <5>2 DEF Listed
      <4>4. QED BY <4>1, <4>2, <4>3 DEF AllKept
    <3>2. QED BY <3>1, <2>1, <2>5, <1>0, RequestAdded
  <2>7. LockOK'
    <3>1. "free" \notin Peon /\ DynPeon \subseteq Peon /\ pe \notin DynPeon
      BY <1>0, ConstantsAssumption DEF Peon, StaticPeon
    <3>2. \A d \in DynPeon : wait'[d] = wait[d] /\ Len(proc'[d]) = Len(proc[d])
      BY <3>1, <2>4 DEF ProcKept
    <3>3. QED BY <3>1, <3>2, <2>1, <1>0 DEF LockOK, Free
  <2>8. CountExact'
    <3>1. "DISCONN" \in Peon /\ Len(proc'["DISCONN"]) = Len(proc["DISCONN"])
      BY DEF Peon, StaticPeon, ProcKept
    <3>2. Len(wait["DISCONN"]) \in Nat /\ Len(proc["DISCONN"]) \in Nat
      BY <3>1, <1>0 DEF TypeOK
    <3>3. CASE pe = "DISCONN"
      <4>1. Len(wait'["DISCONN"]) = Len(wait["DISCONN"]) + 1
        BY <3>3, <2>4
      <4>2. worker_all_count' = worker_all_count + 1
        BY <3>3, <2>1 DEF CountAfter
      <4>3. worker_all_count = Len(wait["DISCONN"]) + Len(proc["DISCONN"])
        BY <1>0 DEF CountExact
      <4>4. worker_all_count' = Len(wait'["DISCONN"]) + Len(proc'["DISCONN"])
        BY <3>1, <4>1, <4>2, <4>3, <2>2, <2>4, <1>0 DEF TypeOK, ProcKept
      <4>5. QED BY <4>4 DEF CountExact
    <3>4. CASE pe # "DISCONN"
      BY <3>1, <3>2, <3>4, <2>1, <2>4, <1>0 DEF CountExact, CountAfter
    <3>5. QED BY <3>3, <3>4
  <2>9. DynWorkersBounded'
    BY <2>1, <1>0 DEF DynWorkersBounded
  <2>10. QED BY <2>5, <2>6, <2>7, <2>8, <2>9 DEF PeonInv
<1>2. CASE WantsDynamic(pe) /\ QueueDynamic(pe, t)
  <2>0. pe = "DISCONN" /\ peon_dyn_worker_num <= PEON_DYN_DISCONN_WORKER_LIMIT
    BY <1>2 DEF WantsDynamic
  <2>1. PICK d \in DynPeon :
        /\ dyn[d] = "none"
        /\ dyn' = [dyn EXCEPT ![d] = "start"]
        /\ peon_dyn_worker_num' = peon_dyn_worker_num + 1
        /\ wait' = [wait EXCEPT ![d] = <<t>>]
        /\ latest' = Requested(pe, t)
        /\ UNCHANGED <<worker_all_count, lock, served, lost>>
    BY <1>2 DEF QueueDynamic
  <2>2. d \in Peon /\ d # "DISCONN" /\ wait \in [Peon -> Seq(Task)]
        /\ wait[d] \in Seq(Task) /\ Len(wait[d]) = 0
    BY <1>0, <2>1, ConstantsAssumption DEF TypeOK, LockOK, Peon, StaticPeon
  <2>3. <<t>> \in Seq(Task) /\ Len(<<t>>) = 1 /\ ToSet(<<t>>) = {t}
    BY DEF ToSet
  <2>4. /\ wait' \in [Peon -> Seq(Task)]
        /\ \A q \in Peon : q # d => wait'[q] = wait[q]
        /\ ToSet(wait'[d]) = {t}
        /\ ToSet(wait[d]) = {}
    BY <2>1, <2>2, <2>3, EmptyList
  <2>5. TypeOK'
    <3>1. latest' \in [Device -> [op : {"none", "connect", "disconnect", "batch"}, sn : Nat]]
      BY <2>1, <1>0, RequestedProperties
    <3>2. dyn' \in [DynPeon -> {"none", "start", "proc", "ran"}] /\ peon_dyn_worker_num' \in Nat
      BY <2>1, <1>0 DEF TypeOK
    <3>3. QED BY <3>1, <3>2, <2>1, <2>4, <1>0 DEF TypeOK, ProcKept
  <2>6. KeysOK' /\ NewestBounds' /\ NewestNotLost'
    <3>0. \A q \in Peon : ToSet(wait'[q]) = ToSet(wait[q]) \cup (IF q = d THEN {t} ELSE {})
      BY <2>2, <2>4
    <3>1. t \in Listed(d)' /\ OnlyNew(d, t) /\ AllKept
      <4>1. t \in Listed(d)'
        BY <2>4 DEF Listed
      <4>2. OnlyNew(d, t)
        BY <3>0, ZenonT(40) DEF Listed, OnlyNew, ProcKept
      <4>3. ASSUME NEW q \in Peon, NEW v \in Listed(q)
            PROVE  \E u \in Listed(q)' : u.key = v.key /\ u.sn = v.sn /\ u.state = v.state
        <5>1. CASE v \in ToSet(wait[q])
          BY <5>1, <3>0 DEF Listed
        <5>2. CASE v \in ToSet(proc[q])
          BY <5>2 DEF Listed, ProcKept
        <5>3. QED BY <5>1, <5>2 DEF Listed
      <4>4. QED BY <4>1, <4>2, <4>3 DEF AllKept
    <3>2. QED BY <3>1, <2>0, <2>1, <2>2, <2>5, <1>0, RequestAdded
  <2>7. LockOK'
    <3>1. "free" \notin Peon /\ DynPeon \subseteq Peon
      BY ConstantsAssumption DEF Peon, StaticPeon
    <3>2. \A e \in DynPeon : Len(proc'[e]) = Len(proc[e])
      BY <3>1 DEF ProcKept
    <3>3. dyn'[d] = "start" /\ \A e \in DynPeon : e # d => dyn'[e] = dyn[e] /\ wait'[e] = wait[e]
      BY <3>1, <2>1, <2>4, <1>0 DEF TypeOK
    <3>4. QED BY <3>1, <3>2, <3>3, <2>1, <1>0 DEF LockOK, Free
  <2>8. CountExact'
    <3>1. "DISCONN" \in Peon /\ Len(proc'["DISCONN"]) = Len(proc["DISCONN"])
      BY DEF Peon, StaticPeon, ProcKept
    <3>2. QED BY <3>1, <2>1, <2>2, <2>4, <1>0 DEF CountExact
  <2>9. DynWorkersBounded'
    <3> DEFINE Up == {e \in DynPeon : dyn[e] # "none"}
    <3>1. IsFiniteSet(Up) /\ Up \subseteq DynPeon /\ d \notin Up
      BY <2>1, ConstantsAssumption, FS_Subset
    <3>2. {e \in DynPeon : dyn'[e] # "none"} = Up \cup {d}
      BY <2>1, <1>0 DEF TypeOK
    <3>3. Cardinality(Up \cup {d}) = Cardinality(Up) + 1 /\ Cardinality(Up) \in Nat
      BY <3>1, FS_AddElement, FS_CardinalityType
    <3>4. Cardinality(Up) <= peon_dyn_worker_num /\ peon_dyn_worker_num \in Nat
      BY <1>0 DEF DynWorkersBounded, TypeOK
    <3> HIDE DEF Up
    <3>5. Cardinality({e \in DynPeon : dyn'[e] # "none"}) <= peon_dyn_worker_num'
      BY <3>2, <3>3, <3>4, <2>1
    <3>6. peon_dyn_worker_num' <= PEON_DYN_DISCONN_WORKER_LIMIT + 1
      BY <3>4, <2>0, <2>1, ConstantsAssumption
    <3>7. QED BY <3>5, <3>6 DEF DynWorkersBounded
  <2>10. QED BY <2>5, <2>6, <2>7, <2>8, <2>9 DEF PeonInv
<1>3. CASE WantsDynamic(pe) /\ QueueStuck
  <2>1. /\ lock' = [owner |-> "stuck", at |-> 0]
        /\ UNCHANGED <<wait, worker_all_count, dyn, peon_dyn_worker_num, latest, served, lost>>
    BY <1>3 DEF QueueStuck, dyns, hist
  <2>2. TypeOK'
    BY <2>1, <1>0 DEF TypeOK, ProcKept
  <2>3. KeysOK' /\ NewestBounds' /\ NewestNotLost'
    <3>1. NothingNew /\ NewestKept
      BY <2>1, <1>0, WaitUnchanged, AlikeKept
    <3>2. \A k \in Device : served'[k] >= served[k]
      BY <2>1, <1>0 DEF TypeOK
    <3>3. QED BY <3>1, <3>2, <2>1, <2>2, <1>0, RequestsKept
  <2>4. LockOK'
    BY <2>1, <1>0, ConstantsAssumption, ZenonT(30) DEF LockOK, ProcKept, Peon, StaticPeon
  <2>5. CountExact' /\ DynWorkersBounded'
    BY <2>1, <1>0 DEF CountExact, DynWorkersBounded, ProcKept, Peon, StaticPeon
  <2>6. QED BY <2>2, <2>3, <2>4, <2>5 DEF PeonInv
<1>4. QED BY <1>1, <1>2, <1>3 DEF Queue
-----------------------------------------------------------------------------
(* The initial states satisfy the invariant.                               *)
LEMMA InitInv == Init => PeonInv
<1> SUFFICES ASSUME Init PROVE PeonInv
  OBVIOUS
<1>1. TypeOK
  BY DEF Init, TypeOK, Free, Request, NoRequest, Device, Batch
<1>2. \A pe \in Peon : Listed(pe) = {} /\ Len(wait[pe]) = 0 /\ Len(proc[pe]) = 0
  <2>1. ToSet(<<>>) = {}
    BY DEF ToSet
  <2>2. QED BY <2>1 DEF Init, Listed
<1>3. {"DISCONN", "DCBATCH", "RECHECK"} \subseteq Peon /\ DynPeon \subseteq Peon
  BY DEF Peon, StaticPeon
<1>4. KeysOK
  BY <1>2, <1>3 DEF Init, KeysOK
<1>5. LockOK
  <2>1. "free" \notin Peon
    BY ConstantsAssumption DEF Peon, StaticPeon
  <2>2. QED BY <2>1, <1>2, <1>3 DEF Init, LockOK, Free
<1>6. NewestBounds
  BY <1>2, <1>3 DEF NewestBounds
<1>7. CountExact
  BY <1>2, <1>3 DEF Init, CountExact
<1>8. NewestNotLost
  BY DEF Init, NewestNotLost
<1>9. DynWorkersBounded
  <2>1. {d \in DynPeon : dyn[d] # "none"} = {}
    BY DEF Init
  <2>2. Cardinality({d \in DynPeon : dyn[d] # "none"}) = 0
    BY <2>1, FS_EmptySet
  <2>3. QED BY <2>2, ConstantsAssumption DEF Init, DynWorkersBounded
<1>10. QED BY <1>1, <1>4, <1>5, <1>6, <1>7, <1>8, <1>9 DEF PeonInv

(* peon_sn_generate.                                                       *)
LEMMA GenerateInv ==
  ASSUME PeonInv, NEW c \in Caller, peon_sn_generate(c)
  PROVE  PeonInv'
<1>1. PICK r \in Requests(c) :
        adding' = [adding EXCEPT ![c] =
                     [peon |-> r.peon, task |-> NewTask(r.key, r.force, sn + 1)]]
  BY DEF peon_sn_generate
<1>2. /\ r.peon \in {"CONNECT", "DISCONN", "DCBATCH"} /\ r.force \in BOOLEAN
      /\ r.key \in Device \cup Batch /\ KeyFits(r.peon, r.key)
  BY ConstantsAssumption DEF Requests, KeyFits
<1>3. sn' = sn + 1 /\ sn \in Nat
      /\ UNCHANGED <<wait, proc, worker_all_count, dyn, peon_dyn_worker_num, lock, latest, served, lost>>
  BY DEF peon_sn_generate, lists, dyns, hist, PeonInv, TypeOK
<1>4. NewTask(r.key, r.force, sn + 1) \in Task
  <2>1. 0 \in 0 .. MaxAge /\ 0 \in 0 .. PEON_FAIL_RETRY_INTERVAL /\ CtxInit \in Ctx
    BY ConstantsAssumption DEF MaxAge
  <2>2. QED BY <2>1, <1>2, <1>3 DEF NewTask, Task
<1>5. [peon |-> r.peon, task |-> NewTask(r.key, r.force, sn + 1)] \in Request
  BY <1>2, <1>4 DEF Request, StaticPeon
<1>6. TypeOK'
  BY <1>1, <1>3, <1>5 DEF PeonInv, TypeOK
<1>7. KeysOK'
  <2>1. \A e \in Caller : adding'[e] =
          IF e = c THEN [peon |-> r.peon, task |-> NewTask(r.key, r.force, sn + 1)] ELSE adding[e]
    BY <1>1 DEF PeonInv, TypeOK
  <2>2. QED BY <2>1, <1>2, <1>3 DEF PeonInv, KeysOK, Listed, NewTask, KeyFits
<1>8. LockOK' /\ NewestBounds' /\ CountExact' /\ NewestNotLost' /\ DynWorkersBounded'
  BY <1>3 DEF PeonInv, LockOK, NewestBounds, CountExact, NewestNotLost, DynWorkersBounded,
              Pending, Listed
<1>9. QED BY <1>6, <1>7, <1>8 DEF PeonInv

(* peon_task_reject and peon_task_add.                                     *)
LEMMA CallerInv ==
  ASSUME PeonInv, NEW c \in Caller, peon_task_reject(c) \/ peon_task_add(c)
  PROVE  PeonInv'
<1>1. /\ adding[c] # NoRequest /\ sn' = sn /\ proc' = proc
      /\ adding' = [adding EXCEPT ![c] = NoRequest]
  BY DEF peon_task_reject, peon_task_add, lists
<1>2. /\ adding' \in [Caller -> Request]
      /\ NoRequestAdded
  BY <1>1 DEF PeonInv, TypeOK, NoRequestAdded, Request
<1>3. CASE peon_task_reject(c)
  <2>1. UNCHANGED <<wait, proc, worker_all_count, dyn, peon_dyn_worker_num, lock, latest, served, lost>>
    BY <1>3 DEF peon_task_reject, lists, dyns, hist
  <2>2. TypeOK' /\ LockOK' /\ NewestBounds' /\ CountExact' /\ NewestNotLost' /\ DynWorkersBounded'
    BY <1>1, <1>2, <2>1 DEF PeonInv, TypeOK, LockOK, NewestBounds, CountExact, NewestNotLost,
                            DynWorkersBounded, Pending, Listed
  <2>3. KeysOK'
    BY <1>2, <2>1 DEF PeonInv, KeysOK, Listed, NoRequestAdded
  <2>4. QED BY <2>2, <2>3 DEF PeonInv
<1>4. CASE peon_task_add(c)
  <2>1. /\ adding[c] \in [peon : StaticPeon \ {"RECHECK"}, task : Task]
        /\ adding[c].task.state = "LIVE"
        /\ KeyFits(adding[c].peon, adding[c].task.key)
    BY <1>1 DEF PeonInv, TypeOK, Request, KeysOK, KeyFits
  <2>2. adding[c].peon \in {"CONNECT", "DISCONN", "DCBATCH"} /\ adding[c].task \in Task
    BY <2>1 DEF StaticPeon
  <2>3. Queue(adding[c].peon, adding[c].task)
    BY <1>4 DEF peon_task_add
  <2>4. ProcKept /\ sn' \in Nat
    BY <1>1, ProcUnchanged DEF PeonInv, TypeOK
  <2>5. QED BY <2>1, <2>2, <2>3, <2>4, <1>2, QueueInv
<1>5. QED BY <1>3, <1>4

(* peon_add_disconn_task_inherit.                                          *)
LEMMA InheritInv ==
  ASSUME PeonInv, NEW i \in DOMAIN proc["DCBATCH"], NEW d \in Device, NEW c \in Ctx,
         peon_add_disconn_task_inherit(i, d, c)
  PROVE  PeonInv'
<1> DEFINE t == NewTask(d, FALSE, proc["DCBATCH"][i].sn)
<1>0. "DCBATCH" \in Peon /\ proc["DCBATCH"] \in Seq(Task)
  BY DEF Peon, StaticPeon, PeonInv, TypeOK
<1>1. proc["DCBATCH"][i].sn \in Nat
  <2>1. proc["DCBATCH"][i] \in Task
    BY <1>0, ListDomain, InToSet
  <2>2. QED BY <2>1 DEF Task
<1>2. t \in Task /\ t.state = "LIVE" /\ KeyFits("DISCONN", t.key)
  <2>1. 0 \in 0 .. MaxAge /\ 0 \in 0 .. PEON_FAIL_RETRY_INTERVAL /\ CtxInit \in Ctx
    BY ConstantsAssumption DEF MaxAge
  <2>2. QED BY <2>1, <1>1 DEF NewTask, Task, KeyFits
<1>3. Queue("DISCONN", t) /\ sn' = sn /\ adding' = adding
  BY DEF peon_add_disconn_task_inherit
<1> HIDE DEF t
<1>4. ProcKept
  BY <1>0, HandledKept DEF peon_add_disconn_task_inherit, PeonInv
<1>5. NoRequestAdded /\ adding' \in [Caller -> Request] /\ sn' \in Nat
  BY <1>3 DEF NoRequestAdded, PeonInv, TypeOK
<1>6. QED BY <1>2, <1>3, <1>4, <1>5, QueueInv
-----------------------------------------------------------------------------
(* Steps that move only the lock: taking it to scan a list, and passing a  *)
(* recheck task whose controller is there.                                 *)
LEMMA LockInv ==
  ASSUME PeonInv,
         (\E pe \in Peon : peon_task_get(pe)) \/ peon_run_recheck \/ recheck_present
  PROVE  PeonInv'
<1>0. TypeOK /\ LockOK /\ "RECHECK" \in Peon /\ "RECHECK" \notin DynPeon
  BY ConstantsAssumption DEF PeonInv, Peon, StaticPeon
<1>1. UNCHANGED <<sn, wait, proc, worker_all_count, dyn, peon_dyn_worker_num, adding, latest, served, lost>>
  BY DEF peon_task_get, peon_run_recheck, recheck_present, lists, dyns, hist
<1>2. lock' \in [owner : Peon, at : Nat] /\ lock'.at >= 1
      /\ (lock'.owner \in DynPeon => dyn[lock'.owner] = "start")
  <2>1. CASE \E pe \in Peon : peon_task_get(pe)
    BY <2>1 DEF peon_task_get
  <2>2. CASE peon_run_recheck
    BY <2>2, <1>0 DEF peon_run_recheck
  <2>3. CASE recheck_present
    <3>1. lock.owner = "RECHECK" /\ lock' = [lock EXCEPT !.at = @ + 1]
      BY <2>3 DEF recheck_present, Scanning
    <3>2. lock.at \in Nat /\ lock.at >= 1
      BY <3>1, <1>0 DEF TypeOK, LockOK
    <3>3. lock' = [owner |-> "RECHECK", at |-> lock.at + 1]
      BY <3>1, <1>0 DEF TypeOK
    <3>4. QED BY <3>2, <3>3, <1>0
  <2>4. QED BY <2>1, <2>2, <2>3
<1>3. TypeOK'
  BY <1>0, <1>1, <1>2 DEF TypeOK
<1>4. LockOK'
  <2>1. "free" \notin Peon
    BY ConstantsAssumption DEF Peon, StaticPeon
  <2>2. QED BY <2>1, <1>0, <1>1, <1>2 DEF LockOK
<1>5. KeysOK' /\ NewestBounds' /\ CountExact' /\ NewestNotLost' /\ DynWorkersBounded'
  BY <1>1 DEF PeonInv, KeysOK, NewestBounds, CountExact, NewestNotLost, DynWorkersBounded,
              Pending, Listed
<1>6. QED BY <1>3, <1>4, <1>5 DEF PeonInv

(* The end of a scan: a dynamic peon has then done what it was made for.   *)
LEMMA ScanEndInv ==
  ASSUME PeonInv, NEW pe \in Peon, scan_end(pe)
  PROVE  PeonInv'
<1>0. TypeOK /\ LockOK /\ DynWorkersBounded /\ lock.owner = pe
  BY DEF PeonInv, scan_end
<1>1. /\ UNCHANGED <<sn, wait, proc, worker_all_count, peon_dyn_worker_num, adding, latest, served, lost>>
      /\ lock' = Free
      /\ dyn' = [d \in DynPeon |-> IF d = pe THEN "ran" ELSE dyn[d]]
  BY DEF scan_end, lists, hist
<1>2. TypeOK'
  BY <1>0, <1>1 DEF TypeOK, Free
<1>3. LockOK'
  <2>1. "free" \notin Peon /\ DynPeon \subseteq Peon
    BY ConstantsAssumption DEF Peon, StaticPeon
  <2>2. \A d \in DynPeon : Len(wait[d]) \in Nat /\ Len(proc[d]) \in Nat
    BY <2>1, <1>0 DEF TypeOK
  <2>3. pe \in DynPeon => dyn[pe] = "start"
    BY <1>0 DEF LockOK
  <2>4. QED BY <2>1, <2>2, <2>3, <1>0, <1>1 DEF LockOK, Free
<1>4. DynWorkersBounded'
  <2>1. pe \in DynPeon => dyn[pe] = "start"
    BY <1>0 DEF LockOK
  <2>2. {d \in DynPeon : dyn'[d] # "none"} = {d \in DynPeon : dyn[d] # "none"}
    BY <2>1, <1>1
  <2>3. QED BY <2>2, <1>0, <1>1 DEF DynWorkersBounded
<1>5. KeysOK' /\ NewestBounds' /\ CountExact' /\ NewestNotLost'
  BY <1>1 DEF PeonInv, KeysOK, NewestBounds, CountExact, NewestNotLost, Pending, Listed
<1>6. QED BY <1>2, <1>3, <1>4, <1>5 DEF PeonInv

(* A handler moves on.                                                     *)
LEMMA HandleInv ==
  ASSUME PeonInv, NEW pe \in Peon, NEW i \in DOMAIN proc[pe], NEW c \in Ctx, handle(pe, i, c)
  PROVE  PeonInv'
<1>0. TypeOK /\ KeysOK /\ LockOK /\ NewestBounds /\ CountExact /\ NewestNotLost /\ DynWorkersBounded
  BY DEF PeonInv
<1>1. /\ UNCHANGED <<sn, wait, worker_all_count, dyn, peon_dyn_worker_num, lock, adding, latest, served, lost>>
      /\ proc' = [proc EXCEPT ![pe][i].ctx = c]
  BY DEF handle, dyns, hist
<1>2. ProcKept
  BY <1>0, <1>1, HandledKept
<1>3. TypeOK'
  BY <1>0, <1>1, <1>2 DEF TypeOK, ProcKept
<1>4. LockOK' /\ CountExact' /\ DynWorkersBounded'
  <2>1. "DISCONN" \in Peon /\ DynPeon \subseteq Peon
    BY DEF Peon, StaticPeon
  <2>2. \A p \in Peon : Len(proc'[p]) = Len(proc[p])
    BY <1>2 DEF ProcKept
  <2>3. QED BY <2>1, <2>2, <1>0, <1>1 DEF LockOK, CountExact, DynWorkersBounded
<1>5. KeysOK' /\ NewestBounds' /\ NewestNotLost'
  <2>1. NothingNew /\ NewestKept
    BY <1>0, <1>1, <1>2, WaitUnchanged, AlikeKept
  <2>2. NoRequestAdded /\ \A k \in Device : served'[k] >= served[k]
    BY <1>0, <1>1 DEF NoRequestAdded, TypeOK
  <2>3. QED BY <2>1, <2>2, <1>0, <1>1, <1>3, RequestsKept
<1>6. QED BY <1>3, <1>4, <1>5 DEF PeonInv

(* Time passes.                                                            *)
LEMMA TickInv ==
  ASSUME PeonInv, Tick
  PROVE  PeonInv'
<1>0. TypeOK /\ KeysOK /\ LockOK /\ NewestBounds /\ CountExact /\ NewestNotLost /\ DynWorkersBounded
  BY DEF PeonInv
<1>1. /\ UNCHANGED <<sn, proc, worker_all_count, dyn, peon_dyn_worker_num, lock, adding, latest, served, lost>>
      /\ wait' = [pe \in Peon |-> [i \in DOMAIN wait[pe] |-> Older(wait[pe][i])]]
  BY DEF Tick, dyns, hist
<1>2. ASSUME NEW pe \in Peon
      PROVE  /\ wait'[pe] \in Seq(Task)
             /\ Len(wait'[pe]) = Len(wait[pe])
             /\ \A u \in ToSet(wait'[pe]) : \E q \in ToSet(wait[pe]) : u.key = q.key /\ u.sn = q.sn
             /\ \A q \in ToSet(wait[pe]) : \E u \in ToSet(wait'[pe]) :
                  u.key = q.key /\ u.sn = q.sn /\ u.state = q.state
  <2>1. wait[pe] \in Seq(Task)
    BY <1>0 DEF TypeOK
  <2>2. wait'[pe] = [i \in DOMAIN wait[pe] |-> Older(wait[pe][i])]
    BY <1>1
  <2>3. QED BY <2>1, <2>2, OlderListProperties
<1>3. TypeOK'
  <2>1. wait' \in [Peon -> Seq(Task)]
    BY <1>1, <1>2
  <2>2. QED BY <2>1, <1>0, <1>1 DEF TypeOK
<1>4. LockOK' /\ CountExact' /\ DynWorkersBounded'
  <2>1. "DISCONN" \in Peon /\ DynPeon \subseteq Peon
    BY DEF Peon, StaticPeon
  <2>2. \A p \in Peon : Len(wait'[p]) = Len(wait[p])
    BY <1>2
  <2>3. QED BY <2>1, <2>2, <1>0, <1>1 DEF LockOK, CountExact, DynWorkersBounded
<1>5. KeysOK' /\ NewestBounds' /\ NewestNotLost'
  <2>1. WaitKept /\ ProcKept
    BY <1>0, <1>1, <1>2, ProcUnchanged DEF WaitKept
  <2>2. NothingNew /\ NewestKept
    BY <2>1, AlikeKept
  <2>3. NoRequestAdded /\ \A k \in Device : served'[k] >= served[k]
    BY <1>0, <1>1 DEF NoRequestAdded, TypeOK
  <2>4. QED BY <2>1, <2>2, <2>3, <1>0, <1>1, <1>3, RequestsKept
<1>6. QED BY <1>3, <1>4, <1>5 DEF PeonInv
-----------------------------------------------------------------------------
(* The cursor of a scan is inside the list.                                *)
LEMMA CursorInList ==
  ASSUME PeonInv, NEW pe \in Peon, Scanning(pe)
  PROVE  /\ wait[pe] \in Seq(Task)
         /\ lock.at \in 1 .. Len(wait[pe])
         /\ wait[pe][lock.at] \in Task /\ wait[pe][lock.at] \in ToSet(wait[pe])
         /\ pe \in DynPeon => dyn[pe] = "start"
<1>1. wait[pe] \in Seq(Task) /\ lock.at \in Nat /\ lock.owner = pe /\ lock.at <= Len(wait[pe])
  BY DEF PeonInv, TypeOK, Scanning
<1>2. lock.at \in 1 .. Len(wait[pe]) /\ (pe \in DynPeon => dyn[pe] = "start")
  BY <1>1 DEF PeonInv, LockOK
<1>3. QED BY <1>1, <1>2, InToSet

(* A dead task at the cursor is freed.                                     *)
LEMMA DeadInv ==
  ASSUME PeonInv, NEW pe \in Peon, scan_dead(pe) \/ (pe = "RECHECK" /\ recheck_dead)
  PROVE  PeonInv'
<1>0. TypeOK /\ KeysOK /\ LockOK /\ NewestBounds /\ CountExact /\ NewestNotLost /\ DynWorkersBounded
  BY DEF PeonInv
<1>1. /\ UNCHANGED <<sn, proc, dyn, peon_dyn_worker_num, lock, adding, latest, served, lost>>
      /\ Scanning(pe) /\ wait[pe][lock.at].state = "DEAD"
      /\ wait' = [wait EXCEPT ![pe] = RemoveAt(wait[pe], lock.at)]
      /\ worker_all_count' = IF pe = "DISCONN" THEN worker_all_count - 1 ELSE worker_all_count
  BY <1>0 DEF scan_dead, recheck_dead, FreeAtCursor, CountAfter, dyns, hist, TypeOK
<1>2. wait[pe] \in Seq(Task) /\ lock.at \in 1 .. Len(wait[pe]) /\ (pe \in DynPeon => dyn[pe] = "start")
  BY <1>1, CursorInList
<1>3. /\ RemoveAt(wait[pe], lock.at) \in Seq(Task)
      /\ Len(RemoveAt(wait[pe], lock.at)) = Len(wait[pe]) - 1
      /\ ToSet(RemoveAt(wait[pe], lock.at)) \subseteq ToSet(wait[pe])
      /\ \A t \in ToSet(wait[pe]) :
           t # wait[pe][lock.at] => t \in ToSet(RemoveAt(wait[pe], lock.at))
  BY <1>2, RemoveAtProperties
<1>4. /\ wait' \in [Peon -> Seq(Task)]
      /\ wait'[pe] = RemoveAt(wait[pe], lock.at)
      /\ \A q \in Peon : q # pe => wait'[q] = wait[q]
  BY <1>0, <1>1, <1>3 DEF TypeOK
<1>5. TypeOK'
  BY <1>0, <1>1, <1>4 DEF TypeOK
<1>6. LockOK' /\ DynWorkersBounded'
  <2>1. DynPeon \subseteq Peon
    BY DEF Peon
  <2>2. \A d \in DynPeon : dyn[d] = "none" => Len(wait'[d]) = 0
    BY <2>1, <1>0, <1>2, <1>4 DEF LockOK
  <2>3. QED BY <2>2, <1>0, <1>1 DEF LockOK, DynWorkersBounded
<1>7. CountExact'
  <2>1. "DISCONN" \in Peon
    BY DEF Peon, StaticPeon
  <2>2. CASE pe = "DISCONN"
    <3>1. Len(wait'["DISCONN"]) = Len(wait["DISCONN"]) - 1
      BY <2>2, <1>3, <1>4
    <3>2. worker_all_count' = worker_all_count - 1 /\ proc' = proc
      BY <2>2, <1>1
    <3>3. QED BY <3>1, <3>2, <2>1, <1>0, <1>4 DEF CountExact, TypeOK
  <2>3. CASE pe # "DISCONN"
    <3>1. wait'["DISCONN"] = wait["DISCONN"] /\ UNCHANGED <<proc, worker_all_count>>
      BY <2>1, <2>3, <1>1, <1>4
    <3>2. QED BY <3>1, <1>0 DEF CountExact
  <2>4. QED BY <2>2, <2>3
<1>8. KeysOK' /\ NewestBounds' /\ NewestNotLost'
  <2>1. NothingNew
    <3>1. \A q \in Peon : Listed(q)' \subseteq Listed(q)
      BY <1>1, <1>3, <1>4 DEF Listed
    <3>2. QED BY <3>1 DEF NothingNew
  <2>2. NewestKept
    <3>1. \A q \in Peon : \A t \in Listed(q) : t.state = "LIVE" => t \in Listed(q)'
      BY <1>1, <1>3, <1>4 DEF Listed
    <3>2. QED BY <3>1 DEF NewestKept
  <2>3. NoRequestAdded /\ \A k \in Device : served'[k] >= served[k]
    BY <1>0, <1>1 DEF NoRequestAdded, TypeOK
  <2>4. QED BY <2>1, <2>2, <2>3, <1>0, <1>1, <1>5, RequestsKept
<1>9. QED BY <1>5, <1>6, <1>7, <1>8 DEF PeonInv

(* A dynamic thread is counted out.                                        *)
LEMMA ExitInv ==
  ASSUME PeonInv, dynamic_exit
  PROVE  PeonInv'
<1> DEFINE up == Cardinality({d \in DynPeon : dyn[d] # "none"})
<1>0. TypeOK /\ DynWorkersBounded
  BY DEF PeonInv
<1>1. /\ UNCHANGED <<sn, wait, proc, worker_all_count, dyn, lock, adding, latest, served, lost>>
      /\ peon_dyn_worker_num > up /\ peon_dyn_worker_num' = peon_dyn_worker_num - 1
  BY DEF dynamic_exit, lists, hist
<1>2. up \in Nat
  <2>1. IsFiniteSet({d \in DynPeon : dyn[d] # "none"})
    BY ConstantsAssumption, FS_Subset
  <2>2. QED BY <2>1, FS_CardinalityType
<1> HIDE DEF up
<1>3. peon_dyn_worker_num' \in Nat /\ up <= peon_dyn_worker_num'
      /\ peon_dyn_worker_num' <= PEON_DYN_DISCONN_WORKER_LIMIT + 1
  BY <1>0, <1>1, <1>2, ConstantsAssumption DEF TypeOK, DynWorkersBounded
<1>4. TypeOK'
  BY <1>0, <1>1, <1>3 DEF TypeOK
<1>5. DynWorkersBounded'
  BY <1>1, <1>3 DEF DynWorkersBounded, up
<1>6. KeysOK' /\ LockOK' /\ NewestBounds' /\ CountExact' /\ NewestNotLost'
  BY <1>1 DEF PeonInv, KeysOK, LockOK, NewestBounds, CountExact, NewestNotLost, Pending, Listed
<1>7. QED BY <1>4, <1>5, <1>6 DEF PeonInv

(* A dynamic peon is taken down with what is left on its list.             *)
LEMMA DeconstructInv ==
  ASSUME PeonInv, NEW d \in DynPeon, peon_deconstruct(d)
  PROVE  PeonInv'
<1> DEFINE gone == {t.sn : t \in {u \in ToSet(wait[d]) : u.state = "LIVE"}}
<1>0. TypeOK /\ KeysOK /\ LockOK /\ NewestBounds /\ CountExact /\ NewestNotLost /\ DynWorkersBounded
      /\ d \in Peon /\ DynPeon \subseteq Peon /\ d # "DISCONN" /\ "DISCONN" \in Peon
  BY ConstantsAssumption DEF PeonInv, Peon, StaticPeon
<1>1. /\ UNCHANGED <<sn, proc, worker_all_count, peon_dyn_worker_num, lock, adding, latest, served>>
      /\ dyn[d] = "ran" /\ lock = Free
      /\ lost' = lost \cup gone
      /\ wait' = [wait EXCEPT ![d] = <<>>]
      /\ dyn' = [dyn EXCEPT ![d] = "none"]
  BY DEF peon_deconstruct
<1>2. gone \subseteq Nat
  BY <1>0, ListedInTask DEF Listed, Task
<1>3. /\ wait' \in [Peon -> Seq(Task)]
      /\ wait'[d] = <<>> /\ Len(wait'[d]) = 0 /\ ToSet(wait'[d]) = {}
      /\ \A q \in Peon : q # d => wait'[q] = wait[q]
  <2>1. <<>> \in Seq(Task) /\ Len(<<>>) = 0 /\ ToSet(<<>>) = {}
    BY DEF ToSet
  <2>2. QED BY <2>1, <1>0, <1>1 DEF TypeOK
<1>4. TypeOK'
  <2>1. lost' \subseteq Nat /\ dyn' \in [DynPeon -> {"none", "start", "proc", "ran"}]
    BY <1>0, <1>1, <1>2 DEF TypeOK
  <2> HIDE DEF gone
  <2>2. QED BY <2>1, <1>0, <1>1, <1>3 DEF TypeOK
<1>5. LockOK' /\ CountExact'
  <2>1. "free" \notin DynPeon
    BY ConstantsAssumption
  <2>2. QED BY <2>1, <1>0, <1>1, <1>3 DEF LockOK, CountExact, Free, TypeOK
<1>6. DynWorkersBounded'
  <2> DEFINE Up == {e \in DynPeon : dyn[e] # "none"}
             Up2 == {e \in DynPeon : dyn'[e] # "none"}
  <2>1. IsFiniteSet(Up) /\ Up2 \subseteq Up
    BY <1>0, <1>1, ConstantsAssumption, FS_Subset DEF TypeOK
  <2>2. Cardinality(Up2) <= Cardinality(Up) /\ Cardinality(Up) \in Nat /\ Cardinality(Up2) \in Nat
    BY <2>1, FS_Subset, FS_CardinalityType
  <2>3. Cardinality(Up) <= peon_dyn_worker_num
        /\ peon_dyn_worker_num <= PEON_DYN_DISCONN_WORKER_LIMIT + 1 /\ peon_dyn_worker_num \in Nat
    BY <1>0 DEF DynWorkersBounded, TypeOK
  <2> HIDE DEF Up, Up2
  <2>4. Cardinality(Up2) <= peon_dyn_worker_num
    BY <2>2, <2>3
  <2>5. QED BY <2>3, <2>4, <1>1 DEF DynWorkersBounded, Up2
<1>7. KeysOK' /\ NewestBounds' /\ NewestNotLost'
  <2>1. NothingNew
    <3>1. \A q \in Peon : Listed(q)' \subseteq Listed(q)
      BY <1>1, <1>3 DEF Listed
    <3>2. QED BY <3>1 DEF NothingNew
  <2>2. NewestKept
    <3>1. \A q \in Peon : \A t \in Listed(q) : t.state = "LIVE" => t \in Listed(q)' \/ t.sn \in lost'
      BY <1>1, <1>3 DEF Listed
    <3>2. QED BY <3>1 DEF NewestKept
  <2>3. NoRequestAdded /\ (\A k \in Device : served'[k] >= served[k]) /\ lost \subseteq lost'
    BY <1>0, <1>1 DEF NoRequestAdded, TypeOK
  <2>4. QED BY <2>1, <2>2, <2>3, <1>0, <1>1, <1>4, RequestsKept
<1>8. QED BY <1>4, <1>5, <1>6, <1>7 DEF PeonInv
-----------------------------------------------------------------------------
(* A newer task that peon_task_action_judge finds for the task at the      *)
(* cursor shows that the latter is not the newest request of its device.   *)
LEMMA DiscardedNotNewest ==
  ASSUME PeonInv, NEW pe \in Peon \ {"DCBATCH"}, NEW t \in Listed(pe),
         MustDiscard(t, TypeOf(pe))
  PROVE  t.sn < latest[t.key].sn
<1>1. PICK p \in Peon : \E q \in Listed(p) : Newer(q, p, t, TypeOf(pe))
  BY DEF MustDiscard
<1>2. PICK q \in Listed(p) : Newer(q, p, t, TypeOf(pe))
  BY <1>1
<1>3. /\ t.key \in Device
      /\ t \in Task /\ q \in Task
  BY ListedInTask DEF PeonInv, KeysOK
<1>4. t.sn < q.sn /\ task_match(q, t, Compare(TypeOf(pe), p))
  BY <1>2 DEF Newer
<1>5. t.sn \in Nat /\ q.sn \in Nat /\ latest[t.key].sn \in Nat
  BY <1>3 DEF Task, PeonInv, TypeOK
<1>6. CASE p = "DCBATCH"
  <2>1. t.key.host = q.key.host
    BY <1>4 DEF task_match
  <2>2. q.sn <= latest[t.key].sn
    BY <1>3, <1>6, <2>1 DEF PeonInv, NewestBounds
  <2>3. QED BY <2>2, <1>4, <1>5
<1>7. CASE p # "DCBATCH"
  <2>1. Compare(TypeOf(pe), p) \in {"device", "no"}
    <3>1. TypeOf(pe) # "DCBATCH"
      BY DEF TypeOf
    <3>2. QED BY <3>1, <1>7 DEF Compare
  <2>2. q.key = t.key
    BY <1>4, <2>1 DEF task_match
  <2>3. q.sn <= latest[t.key].sn
    BY <1>7, <2>2 DEF PeonInv, NewestBounds
  <2>4. QED BY <2>3, <1>4, <1>5
<1>8. QED BY <1>6, <1>7

(* A task it marks dead is not the newest request of its device either.    *)
LEMMA OutdatedNotNewest ==
  ASSUME PeonInv, NEW pe \in Peon, NEW t \in Listed(pe),
         NEW p \in Peon \ {"DCBATCH"}, NEW q \in Listed(p), Outdated(q, p, t, TypeOf(pe))
  PROVE  q.sn < latest[q.key].sn
<1>1. /\ q.key \in Device
      /\ t \in Task /\ q \in Task
  BY ListedInTask DEF PeonInv, KeysOK
<1>2. q.sn < t.sn /\ task_match(q, t, Compare(TypeOf(pe), p))
  BY DEF Outdated
<1>3. t.sn \in Nat /\ q.sn \in Nat /\ latest[q.key].sn \in Nat
  BY <1>1 DEF Task, PeonInv, TypeOK
<1>4. CASE pe = "DCBATCH"
  <2>1. t.key.host = q.key.host
    BY <1>2 DEF task_match
  <2>2. t.sn <= latest[q.key].sn
    BY <1>1, <1>4, <2>1 DEF PeonInv, NewestBounds
  <2>3. QED BY <2>2, <1>2, <1>3
<1>5. CASE pe # "DCBATCH"
  <2>1. Compare(TypeOf(pe), p) \in {"device", "no"}
    <3>1. TypeOf(pe) # "DCBATCH"
      BY <1>5 DEF TypeOf
    <3>2. QED BY <3>1 DEF Compare
  <2>2. q.key = t.key
    BY <1>2, <2>1 DEF task_match
  <2>3. t.sn <= latest[q.key].sn
    BY <1>5, <2>2 DEF PeonInv, NewestBounds
  <2>4. QED BY <2>3, <1>2, <1>3
<1>6. QED BY <1>4, <1>5
-----------------------------------------------------------------------------
(* One iteration of peon_task_get over a live task.                        *)
LEMMA ScanLiveInv ==
  ASSUME PeonInv, NEW pe \in Peon, scan_live(pe)
  PROVE  PeonInv'
<1> DEFINE t == wait[pe][lock.at]
           type == TypeOf(pe)
           marked == [p \in Peon |-> MarkedList(wait[p], p, t, type)]
           running == [p \in Peon |-> MarkedList(proc[p], p, t, type)]
           Discard == /\ MustDiscard(t, type)
                      /\ FreeAtCursor(pe, marked)
                      /\ proc' = running
                      /\ UNCHANGED <<lock, dyn>>
           Take == /\ wait' = [marked EXCEPT ![pe] = RemoveAt(marked[pe], lock.at)]
                   /\ proc' = [running EXCEPT ![pe] = Append(running[pe], t)]
                   /\ lock' = Free
                   /\ dyn' = [d \in DynPeon |-> IF d = pe THEN "proc" ELSE dyn[d]]
                   /\ UNCHANGED worker_all_count
           Stay == /\ wait' = marked
                   /\ proc' = running
                   /\ lock' = [lock EXCEPT !.at = @ + 1]
                   /\ UNCHANGED <<worker_all_count, dyn>>
<1>0. TypeOK /\ KeysOK /\ LockOK /\ NewestBounds /\ CountExact /\ NewestNotLost /\ DynWorkersBounded
      /\ "DISCONN" \in Peon /\ DynPeon \subseteq Peon /\ "DISCONN" \notin DynPeon
      /\ "free" \notin Peon
  BY ConstantsAssumption DEF PeonInv, Peon, StaticPeon
<1>1. /\ UNCHANGED <<sn, peon_dyn_worker_num, adding, latest, served, lost>>
      /\ Scanning(pe) /\ pe # "RECHECK" /\ t.state = "LIVE"
      /\ Discard \/ Take \/ Stay
  BY DEF scan_live, hist
<1>2. /\ wait[pe] \in Seq(Task) /\ lock.at \in 1 .. Len(wait[pe])
      /\ t \in Task /\ t \in ToSet(wait[pe]) /\ t \in Listed(pe)
      /\ pe \in DynPeon => dyn[pe] = "start"
  BY <1>1, CursorInList DEF Listed
<1>3. /\ marked \in [Peon -> Seq(Task)]
      /\ \A p \in Peon :
           /\ marked[p] \in Seq(Task) /\ Len(marked[p]) = Len(wait[p])
           /\ \A u \in ToSet(marked[p]) : \E q \in ToSet(wait[p]) : u.key = q.key /\ u.sn = q.sn
           /\ \A q \in ToSet(wait[p]) : ~Outdated(q, p, t, type) => q \in ToSet(marked[p])
      /\ marked[pe][lock.at] = t
  <2>1. ASSUME NEW p \in Peon
        PROVE  /\ marked[p] \in Seq(Task) /\ Len(marked[p]) = Len(wait[p])
               /\ \A i \in 1 .. Len(wait[p]) : marked[p][i] = Marked(wait[p][i], p, t, type)
               /\ \A u \in ToSet(marked[p]) : \E q \in ToSet(wait[p]) : u.key = q.key /\ u.sn = q.sn
               /\ \A q \in ToSet(wait[p]) : ~Outdated(q, p, t, type) => q \in ToSet(marked[p])
    <3>1. wait[p] \in Seq(Task)
      BY <1>0 DEF TypeOK
    <3>2. marked[p] = MarkedList(wait[p], p, t, type)
      OBVIOUS
    <3> HIDE DEF marked, t, type
    <3>3. QED BY <3>1, <3>2, MarkedListProperties
  <2>2. ~Outdated(t, pe, t, type)
    <3>1. t.sn \in Nat
      BY <1>2 DEF Task
    <3> HIDE DEF t
    <3>2. QED BY <3>1 DEF Outdated
  <2>3. Marked(t, pe, t, type) = t
    BY <2>2 DEF Marked
  <2>4. marked[pe][lock.at] = t
    BY <2>1, <2>3, <1>2
  <2>5. marked \in [Peon -> Seq(Task)]
    BY <2>1
  <2> HIDE DEF marked, t, type
  <2>6. QED BY <2>1, <2>4, <2>5
<1>4. /\ running \in [Peon -> Seq(Task)]
      /\ \A p \in Peon :
           /\ running[p] \in Seq(Task) /\ Len(running[p]) = Len(proc[p])
           /\ \A u \in ToSet(running[p]) : \E q \in ToSet(proc[p]) : u.key = q.key /\ u.sn = q.sn
           /\ \A q \in ToSet(proc[p]) : ~Outdated(q, p, t, type) => q \in ToSet(running[p])
  <2>1. ASSUME NEW p \in Peon
        PROVE  /\ running[p] \in Seq(Task) /\ Len(running[p]) = Len(proc[p])
               /\ \A u \in ToSet(running[p]) : \E q \in ToSet(proc[p]) : u.key = q.key /\ u.sn = q.sn
               /\ \A q \in ToSet(proc[p]) : ~Outdated(q, p, t, type) => q \in ToSet(running[p])
    <3>1. proc[p] \in Seq(Task)
      BY <1>0 DEF TypeOK
    <3>2. running[p] = MarkedList(proc[p], p, t, type)
      OBVIOUS
    <3> HIDE DEF running, t, type
    <3>3. QED BY <3>1, <3>2, MarkedListProperties
  <2>2. running \in [Peon -> Seq(Task)]
    BY <2>1
  <2> HIDE DEF running, t, type
  <2>3. QED BY <2>1, <2>2
<1>5. ASSUME NEW p \in Peon \ {"DCBATCH"}, NEW q \in Listed(p), q.sn = latest[q.key].sn
      PROVE  ~Outdated(q, p, t, type)
  <2>1. Outdated(q, p, t, type) => q.sn < latest[q.key].sn
    BY <1>2, OutdatedNotNewest
  <2>2. q.sn \in Nat
    BY <1>0, ListedInTask DEF Task
  <2> HIDE DEF t, type
  <2>3. QED BY <2>1, <2>2, <1>5
<1>6. NoRequestAdded /\ \A k \in Device : served'[k] >= served[k]
  BY <1>0, <1>1 DEF NoRequestAdded, TypeOK
<1>7. pe # "DCBATCH" /\ MustDiscard(t, type) => t.sn < latest[t.key].sn
  BY <1>2, DiscardedNotNewest
<1>8. t.sn \in Nat
  BY <1>2 DEF Task
<1> DEFINE cut == RemoveAt(marked[pe], lock.at)
<1>9. /\ cut \in Seq(Task) /\ Len(cut) = Len(wait[pe]) - 1
      /\ ToSet(cut) \subseteq ToSet(marked[pe])
      /\ \A q \in ToSet(marked[pe]) : q # t => q \in ToSet(cut)
  <2>1. marked[pe] \in Seq(Task) /\ lock.at \in 1 .. Len(marked[pe]) /\ marked[pe][lock.at] = t
    BY <1>2, <1>3
  <2> HIDE DEF marked, t
  <2>2. QED BY <2>1, <1>3, RemoveAtProperties
<1>10. Discard => FreeAtCursor(pe, marked)
  OBVIOUS
<1>11. FreeAtCursor(pe, marked) => /\ wait' = [marked EXCEPT ![pe] = cut]
                                   /\ worker_all_count' = CountAfter(pe, -1)
  BY DEF FreeAtCursor
<1> HIDE DEF marked, running, t, type, cut
<1>12. CASE Stay
  <2>1. wait' = marked /\ proc' = running /\ lock' = [lock EXCEPT !.at = @ + 1]
        /\ UNCHANGED <<worker_all_count, dyn>>
    BY <1>12
  <2>2. lock' = [owner |-> pe, at |-> lock.at + 1] /\ lock.at \in Nat
    BY <2>1, <1>0, <1>1 DEF TypeOK, Scanning
  <2>3. TypeOK'
    <3>1. lock' \in [owner : Peon \cup {"free", "stuck"}, at : Nat]
      BY <2>2
    <3>2. QED BY <3>1, <2>1, <1>0, <1>1, <1>3, <1>4 DEF TypeOK
  <2>4. LockOK'
    <3>1. lock'.owner = pe /\ lock'.at >= 1
      BY <2>2
    <3>2. \A p \in Peon : Len(wait'[p]) = Len(wait[p]) /\ Len(proc'[p]) = Len(proc[p])
      BY <2>1, <1>3, <1>4
    <3>3. QED BY <3>1, <3>2, <2>1, <1>0, <1>2 DEF LockOK
  <2>5. CountExact' /\ DynWorkersBounded'
    BY <2>1, <1>0, <1>1, <1>3, <1>4 DEF CountExact, DynWorkersBounded
  <2>6. NothingNew
    BY <2>1, <1>3, <1>4 DEF NothingNew, Listed
  <2>7. NewestKept
    <3>1. ASSUME NEW p \in Peon \ {"RECHECK", "DCBATCH"}, NEW q \in Listed(p),
                 q.sn = latest[q.key].sn
          PROVE  q \in Listed(p)'
      BY <3>1, <2>1, <1>3, <1>4, <1>5 DEF Listed
    <3>2. QED BY <3>1 DEF NewestKept
  <2>8. KeysOK' /\ NewestBounds' /\ NewestNotLost'
    BY <2>3, <2>6, <2>7, <1>0, <1>1, <1>6, RequestsKept
  <2>9. QED BY <2>3, <2>4, <2>5, <2>8 DEF PeonInv
<1>13. CASE Discard
  <2>1. /\ MustDiscard(t, type) /\ proc' = running /\ UNCHANGED <<lock, dyn>>
        /\ wait' = [marked EXCEPT ![pe] = cut]
        /\ worker_all_count' = CountAfter(pe, -1)
    BY <1>13, <1>10, <1>11
  <2>2. /\ wait' \in [Peon -> Seq(Task)] /\ wait'[pe] = cut
        /\ \A p \in Peon : p # pe => wait'[p] = marked[p]
    BY <2>1, <1>3, <1>9
  <2>3. TypeOK'
    <3>1. worker_all_count' \in Int
      BY <2>1, <1>0 DEF TypeOK, CountAfter
    <3>2. QED BY <3>1, <2>1, <2>2, <1>0, <1>1, <1>4 DEF TypeOK
  <2>4. LockOK'
    <3>1. \A d \in DynPeon : dyn[d] = "none" => Len(wait'[d]) = 0
      BY <2>2, <1>0, <1>2, <1>3 DEF LockOK
    <3>2. \A d \in DynPeon : Len(proc'[d]) = Len(proc[d])
      BY <2>1, <1>0, <1>4
    <3>3. QED BY <3>1, <3>2, <2>1, <1>0 DEF LockOK
  <2>5. CountExact'
    <3>1. Len(proc'["DISCONN"]) = Len(proc["DISCONN"])
      BY <2>1, <1>0, <1>4
    <3>2. CASE pe = "DISCONN"
      <4>1. Len(wait'["DISCONN"]) = Len(wait["DISCONN"]) - 1
        BY <3>2, <2>2, <1>9
      <4>2. worker_all_count' = worker_all_count - 1
        BY <3>2, <2>1, <1>0 DEF CountAfter, TypeOK
      <4>3. QED BY <3>1, <4>1, <4>2, <2>2, <1>0, <2>3 DEF CountExact, TypeOK
    <3>3. CASE pe # "DISCONN"
      <4>1. Len(wait'["DISCONN"]) = Len(wait["DISCONN"])
        BY <3>3, <2>2, <1>0, <1>3
      <4>2. worker_all_count' = worker_all_count
        BY <3>3, <2>1 DEF CountAfter
      <4>3. QED BY <3>1, <4>1, <4>2, <1>0 DEF CountExact
    <3>4. QED BY <3>2, <3>3
  <2>6. DynWorkersBounded'
    BY <2>1, <1>0, <1>1 DEF DynWorkersBounded
  <2>7. NothingNew
    <3>1. \A p \in Peon : ToSet(wait'[p]) \subseteq ToSet(marked[p])
      BY <2>2, <1>9
    <3>2. ASSUME NEW p \in Peon, NEW u \in ToSet(wait'[p])
          PROVE  \E q \in Listed(p) : u.key = q.key /\ u.sn = q.sn
      BY <3>1, <1>3, ZenonT(30) DEF Listed
    <3>3. ASSUME NEW p \in Peon, NEW u \in ToSet(proc'[p])
          PROVE  \E q \in Listed(p) : u.key = q.key /\ u.sn = q.sn
      BY <2>1, <1>4 DEF Listed
    <3>4. QED BY <3>2, <3>3 DEF NothingNew, Listed
  <2>8. NewestKept
    <3>1. ASSUME NEW p \in Peon \ {"RECHECK", "DCBATCH"}, NEW q \in Listed(p),
                 q.sn = latest[q.key].sn
          PROVE  q \in Listed(p)'
      <4>1. ~Outdated(q, p, t, type)
        BY <3>1, <1>5
      <4>2. CASE q \in ToSet(proc[p])
        BY <4>1, <4>2, <2>1, <1>4 DEF Listed
      <4>3. CASE q \in ToSet(wait[p]) /\ p # pe
        BY <4>1, <4>3, <2>2, <1>3 DEF Listed
      <4>4. CASE q \in ToSet(wait[p]) /\ p = pe
        <5>1. q # t
          BY <4>4, <3>1, <2>1, <1>7, <1>8
        <5>2. QED BY <5>1, <4>1, <4>4, <2>2, <1>3, <1>9 DEF Listed
      <4>5. QED BY <4>2, <4>3, <4>4, <3>1 DEF Listed
    <3>2. QED BY <3>1 DEF NewestKept
  <2>9. KeysOK' /\ NewestBounds' /\ NewestNotLost'
    BY <2>3, <2>7, <2>8, <1>0, <1>1, <1>6, RequestsKept
  <2>10. QED BY <2>3, <2>4, <2>5, <2>6, <2>9 DEF PeonInv
<1>14. CASE Take
  <2>1. /\ proc' = [running EXCEPT ![pe] = Append(running[pe], t)]
        /\ wait' = [marked EXCEPT ![pe] = cut]
        /\ lock' = Free
        /\ dyn' = [d \in DynPeon |-> IF d = pe THEN "proc" ELSE dyn[d]]
        /\ UNCHANGED worker_all_count
    BY <1>14 DEF cut
  <2>2. /\ wait' \in [Peon -> Seq(Task)] /\ wait'[pe] = cut
        /\ \A p \in Peon : p # pe => wait'[p] = marked[p]
    BY <2>1, <1>3, <1>9
  <2>3. /\ Append(running[pe], t) \in Seq(Task)
        /\ Len(Append(running[pe], t)) = Len(proc[pe]) + 1
        /\ ToSet(Append(running[pe], t)) = ToSet(running[pe]) \cup {t}
    BY <1>2, <1>4, AppendedProperties
  <2>4. /\ proc' \in [Peon -> Seq(Task)]
        /\ proc'[pe] = Append(running[pe], t)
        /\ \A p \in Peon : p # pe => proc'[p] = running[p]
    BY <2>1, <2>3, <1>4
  <2>5. TypeOK'
    <3>1. lock' \in [owner : Peon \cup {"free", "stuck"}, at : Nat]
          /\ dyn' \in [DynPeon -> {"none", "start", "proc", "ran"}]
      BY <2>1, <1>0 DEF TypeOK, Free
    <3>2. QED BY <3>1, <2>1, <2>2, <2>4, <1>0, <1>1 DEF TypeOK
  <2>6. LockOK'
    <3>1. \A d \in DynPeon : dyn'[d] = "none" => Len(wait'[d]) = 0
      BY <2>1, <2>2, <1>0, <1>2, <1>3 DEF LockOK
    <3>2. ASSUME NEW d \in DynPeon
          PROVE  Len(proc'[d]) = IF dyn'[d] = "proc" THEN 1 ELSE 0
      <4>1. CASE d = pe
        <5>1. Len(proc[d]) = 0
          BY <4>1, <1>0, <1>2 DEF LockOK
        <5>2. dyn'[d] = "proc" /\ Len(proc'[d]) = 1
          BY <5>1, <4>1, <2>1, <2>3, <2>4
        <5>3. QED BY <5>2
      <4>2. CASE d # pe
        <5>1. dyn'[d] = dyn[d] /\ Len(proc'[d]) = Len(proc[d])
          BY <4>2, <2>1, <2>4, <1>0, <1>4
        <5>2. QED BY <5>1, <1>0 DEF LockOK
      <4>3. QED BY <4>1, <4>2
    <3>3. QED BY <3>1, <3>2, <2>1, <1>0 DEF LockOK, Free
  <2>7. CountExact'
    <3>1. CASE pe = "DISCONN"
      <4>1. Len(wait'["DISCONN"]) = Len(wait["DISCONN"]) - 1
            /\ Len(proc'["DISCONN"]) = Len(proc["DISCONN"]) + 1
        BY <3>1, <2>2, <2>3, <2>4, <1>9
      <4>2. QED BY <4>1, <2>1, <2>5, <1>0 DEF CountExact, TypeOK
    <3>2. CASE pe # "DISCONN"
      <4>1. Len(wait'["DISCONN"]) = Len(wait["DISCONN"])
            /\ Len(proc'["DISCONN"]) = Len(proc["DISCONN"])
        BY <3>2, <2>2, <2>4, <1>0, <1>3, <1>4
      <4>2. QED BY <4>1, <2>1, <1>0 DEF CountExact
    <3>3. QED BY <3>1, <3>2
  <2>8. DynWorkersBounded'
    <3>1. {d \in DynPeon : dyn'[d] # "none"} = {d \in DynPeon : dyn[d] # "none"}
      BY <2>1, <1>2
    <3>2. QED BY <3>1, <1>0, <1>1 DEF DynWorkersBounded
  <2>9. NothingNew
    <3>1. ASSUME NEW p \in Peon, NEW u \in ToSet(wait'[p])
          PROVE  \E q \in Listed(p) : u.key = q.key /\ u.sn = q.sn
      <4>1. u \in ToSet(marked[p])
        BY <2>2, <1>9
      <4>2. QED BY <4>1, <1>3 DEF Listed
    <3>2. ASSUME NEW p \in Peon, NEW u \in ToSet(proc'[p])
          PROVE  \E q \in Listed(p) : u.key = q.key /\ u.sn = q.sn
      <4>1. u \in ToSet(running[p]) \/ (p = pe /\ u = t)
        BY <2>3, <2>4
      <4>2. CASE u \in ToSet(running[p])
        BY <4>2, <1>4 DEF Listed
      <4>3. QED BY <4>1, <4>2, <1>2
    <3>3. QED BY <3>1, <3>2 DEF NothingNew, Listed
  <2>10. NewestKept
    <3>1. ASSUME NEW p \in Peon \ {"RECHECK", "DCBATCH"}, NEW q \in Listed(p),
                 q.sn = latest[q.key].sn
          PROVE  q \in Listed(p)'
      <4>1. ~Outdated(q, p, t, type)
        BY <3>1, <1>5
      <4>2. CASE q \in ToSet(proc[p])
        BY <4>1, <4>2, <2>3, <2>4, <1>4 DEF Listed
      <4>3. CASE q \in ToSet(wait[p]) /\ p # pe
        BY <4>1, <4>3, <2>2, <1>3 DEF Listed
      <4>4. CASE q \in ToSet(wait[p]) /\ p = pe
        <5>1. CASE q = t
          BY <5>1, <4>4, <2>3, <2>4 DEF Listed
        <5>2. CASE q # t
          BY <5>2, <4>1, <4>4, <2>2, <1>3, <1>9 DEF Listed
        <5>3. QED BY <5>1, <5>2
      <4>5. QED BY <4>2, <4>3, <4>4, <3>1 DEF Listed
    <3>2. QED BY <3>1 DEF NewestKept
  <2>11. KeysOK' /\ NewestBounds' /\ NewestNotLost'
    BY <2>5, <2>9, <2>10, <1>0, <1>1, <1>6, RequestsKept
  <2>12. QED BY <2>5, <2>6, <2>7, <2>8, <2>11 DEF PeonInv
<1>15. QED BY <1>1, <1>12, <1>13, <1>14
-----------------------------------------------------------------------------
(* peon_task_complete.  Only a connect can fail.                           *)
LEMMA CompleteInv ==
  ASSUME PeonInv, NEW pe \in Peon, NEW i \in DOMAIN proc[pe], NEW c \in Ctx,
         NEW failed \in CanFail(pe), peon_task_complete(pe, i, failed, c)
  PROVE  PeonInv'
<1> DEFINE t == proc[pe][i]
           cut == RemoveAt(proc[pe], i)
           again == [t EXCEPT !.backoff = PEON_FAIL_RETRY_INTERVAL, !.ctx = c]
           watch == [t EXCEPT !.sn = 0, !.ctx = c]
           Requeue == /\ t.state = "LIVE" /\ failed
                      /\ wait' = [wait EXCEPT ![pe] = Append(wait[pe], again)]
           Recheck == /\ t.state = "LIVE" /\ ~failed /\ pe = "CONNECT"
                      /\ wait' = [wait EXCEPT !["RECHECK"] = Append(wait["RECHECK"], watch)]
           Drop == /\ t.state = "DEAD" \/ (~failed /\ pe # "CONNECT")
                   /\ wait' = wait
<1>0. TypeOK /\ KeysOK /\ LockOK /\ NewestBounds /\ CountExact /\ NewestNotLost /\ DynWorkersBounded
      /\ {"DISCONN", "CONNECT", "RECHECK"} \subseteq Peon /\ DynPeon \subseteq Peon
      /\ {"DISCONN", "CONNECT", "RECHECK"} \cap DynPeon = {}
      /\ "free" \notin Peon
  BY ConstantsAssumption DEF PeonInv, Peon, StaticPeon
<1>1. /\ UNCHANGED <<sn, peon_dyn_worker_num, lock, adding, latest, lost>>
      /\ lock = Free
      /\ proc' = [proc EXCEPT ![pe] = cut]
      /\ worker_all_count' = CountAfter(pe, -1)
      /\ Requeue \/ Recheck \/ Drop
      /\ served' = [served EXCEPT ![t.key] = IF ~failed /\ t.sn > @ THEN t.sn ELSE @]
      /\ dyn' = [d \in DynPeon |-> IF d = pe THEN "ran" ELSE dyn[d]]
  BY DEF peon_task_complete, peon_move_task_to_recheck
<1>2. failed \in BOOLEAN /\ (failed => pe = "CONNECT")
  BY DEF CanFail
<1>3. /\ proc[pe] \in Seq(Task) /\ i \in 1 .. Len(proc[pe])
      /\ t \in Task /\ t \in ToSet(proc[pe]) /\ t \in Listed(pe)
  <2>1. proc[pe] \in Seq(Task) /\ i \in 1 .. Len(proc[pe])
    BY <1>0, ListDomain DEF TypeOK
  <2>2. QED BY <2>1, InToSet DEF Listed
<1>4. /\ cut \in Seq(Task) /\ Len(cut) = Len(proc[pe]) - 1
      /\ ToSet(cut) \subseteq ToSet(proc[pe])
      /\ \A q \in ToSet(proc[pe]) : q # t => q \in ToSet(cut)
  BY <1>3, RemoveAtProperties
<1>5. /\ again \in Task /\ again.key = t.key /\ again.sn = t.sn /\ again.state = t.state
      /\ watch \in Task /\ watch.key = t.key /\ watch.sn = 0
  <2>1. PEON_FAIL_RETRY_INTERVAL \in 0 .. PEON_FAIL_RETRY_INTERVAL
    BY ConstantsAssumption
  <2> HIDE DEF t
  <2>2. QED BY <2>1, <1>3 DEF Task
<1>6. t.key \in Device \cup Batch /\ t.sn \in Nat /\ t.state \in {"LIVE", "DEAD"}
  BY <1>3 DEF Task
<1> HIDE DEF t, cut, again, watch
<1>7. /\ proc' \in [Peon -> Seq(Task)] /\ proc'[pe] = cut
      /\ \A p \in Peon : p # pe => proc'[p] = proc[p]
  BY <1>0, <1>1, <1>4 DEF TypeOK
<1>8. /\ served' \in [Device \cup Batch -> Nat]
      /\ \A k \in Device \cup Batch : served'[k] >= served[k]
      /\ ~failed => served'[t.key] >= t.sn
  <2> DEFINE best == IF ~failed /\ t.sn > served[t.key] THEN t.sn ELSE served[t.key]
  <2>1. served \in [Device \cup Batch -> Nat] /\ served[t.key] \in Nat
    BY <1>0, <1>6 DEF TypeOK
  <2>2. best \in Nat /\ best >= served[t.key] /\ (~failed => best >= t.sn)
    BY <2>1, <1>6
  <2>3. served' = [served EXCEPT ![t.key] = best]
    BY <1>1
  <2> HIDE DEF best
  <2>4. QED BY <2>1, <2>2, <2>3, <1>6
<1>9. /\ wait' \in [Peon -> Seq(Task)]
      /\ \A p \in Peon : p \notin {"CONNECT", "RECHECK"} => wait'[p] = wait[p]
      /\ \A p \in Peon : ToSet(wait[p]) \subseteq ToSet(wait'[p])
      /\ \A p \in Peon : \A u \in ToSet(wait'[p]) :
           \/ u \in ToSet(wait[p])
           \/ p = pe /\ u = again
           \/ p = "RECHECK" /\ pe = "CONNECT" /\ u = watch
      /\ t.state = "LIVE" /\ failed => again \in ToSet(wait'[pe])
  <2>0. wait \in [Peon -> Seq(Task)]
    BY <1>0 DEF TypeOK
  <2>1. CASE Requeue
    <3>1. /\ Append(wait[pe], again) \in Seq(Task)
          /\ ToSet(Append(wait[pe], again)) = ToSet(wait[pe]) \cup {again}
      BY <2>0, <1>5, AppendedProperties
    <3>2. wait' \in [Peon -> Seq(Task)] /\ wait'[pe] = Append(wait[pe], again)
          /\ pe = "CONNECT" /\ \A p \in Peon : p # pe => wait'[p] = wait[p]
      BY <2>0, <2>1, <3>1, <1>2
    <3>3. QED BY <3>1, <3>2
  <2>2. CASE Recheck
    <3>1. /\ Append(wait["RECHECK"], watch) \in Seq(Task)
          /\ ToSet(Append(wait["RECHECK"], watch)) = ToSet(wait["RECHECK"]) \cup {watch}
      BY <2>0, <1>0, <1>5, AppendedProperties
    <3>2. wait' \in [Peon -> Seq(Task)] /\ wait'["RECHECK"] = Append(wait["RECHECK"], watch)
          /\ pe = "CONNECT" /\ ~failed /\ \A p \in Peon : p # "RECHECK" => wait'[p] = wait[p]
      BY <2>0, <2>2, <3>1, <1>0
    <3>3. QED BY <3>1, <3>2
  <2>3. CASE Drop
    BY <2>0, <2>3, <1>2, <1>6
  <2>4. QED BY <2>1, <2>2, <2>3, <1>1
<1>10. TypeOK'
  <2>1. worker_all_count' \in Int /\ dyn' \in [DynPeon -> {"none", "start", "proc", "ran"}]
    BY <1>0, <1>1 DEF TypeOK, CountAfter
  <2>2. QED BY <2>1, <1>0, <1>1, <1>7, <1>8, <1>9 DEF TypeOK
<1>11. LockOK'
  <2>1. pe \in DynPeon => dyn[pe] = "proc" /\ Len(proc[pe]) = 1
    <3>1. Len(proc[pe]) # 0
      BY <1>3
    <3>2. QED BY <3>1, <1>0 DEF LockOK
  <2>2. ASSUME NEW d \in DynPeon
        PROVE  Len(proc'[d]) = IF dyn'[d] = "proc" THEN 1 ELSE 0
    <3>1. CASE d = pe
      <4>1. dyn'[d] = "ran"
        BY <3>1, <1>1
      <4>2. Len(proc'[d]) = 0
        <5>1. Len(cut) = 0
          BY <3>1, <2>1, <1>4
        <5>2. proc'[d] = cut
          BY <3>1, <1>7
        <5>3. QED BY <5>1, <5>2
      <4>3. QED BY <4>1, <4>2
    <3>2. CASE d # pe
      <4>1. dyn'[d] = dyn[d] /\ proc'[d] = proc[d]
        BY <3>2, <1>0, <1>1, <1>7
      <4>2. QED BY <4>1, <1>0 DEF LockOK
    <3>3. QED BY <3>1, <3>2
  <2>3. \A d \in DynPeon : dyn'[d] = "none" => Len(wait'[d]) = 0
    BY <2>1, <1>0, <1>1, <1>9 DEF LockOK
  <2>4. QED BY <2>2, <2>3, <1>0, <1>1 DEF LockOK, Free
<1>12. CountExact'
  <2>1. wait'["DISCONN"] = wait["DISCONN"]
    BY <1>0, <1>9
  <2>2. CASE pe = "DISCONN"
    <3>1. Len(proc'["DISCONN"]) = Len(proc["DISCONN"]) - 1
      BY <2>2, <1>4, <1>7
    <3>2. worker_all_count' = worker_all_count - 1
      BY <2>2, <1>0, <1>1 DEF CountAfter, TypeOK
    <3>3. QED BY <2>1, <3>1, <3>2, <1>0, <1>7 DEF CountExact, TypeOK
  <2>3. CASE pe # "DISCONN"
    <3>1. proc'["DISCONN"] = proc["DISCONN"] /\ worker_all_count' = worker_all_count
      BY <2>3, <1>0, <1>1, <1>7 DEF CountAfter
    <3>2. QED BY <2>1, <3>1, <1>0 DEF CountExact
  <2>4. QED BY <2>2, <2>3
<1>13. DynWorkersBounded'
  <2>1. pe \in DynPeon => dyn[pe] # "none"
    <3>1. Len(proc[pe]) # 0
      BY <1>3
    <3>2. QED BY <3>1, <1>0 DEF LockOK
  <2>2. {d \in DynPeon : dyn'[d] # "none"} = {d \in DynPeon : dyn[d] # "none"}
    BY <2>1, <1>1
  <2>3. QED BY <2>2, <1>0, <1>1 DEF DynWorkersBounded
<1>14. NothingNew
  <2>1. ASSUME NEW p \in Peon, NEW u \in ToSet(proc'[p])
        PROVE  u \in Listed(p)
    BY <1>4, <1>7 DEF Listed
  <2>2. ASSUME NEW p \in Peon, NEW u \in ToSet(wait'[p])
        PROVE  \/ \E q \in Listed(p) : u.key = q.key /\ u.sn = q.sn
               \/ p = "RECHECK" /\ u.sn = 0 /\ u.key \in Device
    <3>1. CASE u \in ToSet(wait[p])
      BY <3>1 DEF Listed
    <3>2. CASE p = pe /\ u = again
      BY <3>2, <1>3, <1>5
    <3>3. CASE p = "RECHECK" /\ pe = "CONNECT" /\ u = watch
      <4>1. t.key \in Device
        BY <3>3, <1>0, <1>3 DEF KeysOK
      <4>2. QED BY <3>3, <4>1, <1>5
    <3>4. QED BY <3>1, <3>2, <3>3, <1>9
  <2>3. QED BY <2>1, <2>2 DEF NothingNew, Listed
<1>15. NewestKept
  <2>1. ASSUME NEW p \in Peon \ {"RECHECK", "DCBATCH"}, NEW q \in Listed(p), q.state = "LIVE"
        PROVE  \/ \E u \in Listed(p)' : u.key = q.key /\ u.sn = q.sn /\ u.state = "LIVE"
               \/ served'[q.key] >= q.sn
    <3>1. CASE q \in ToSet(wait[p])
      BY <3>1, <2>1, <1>9 DEF Listed
    <3>2. CASE q \in ToSet(proc[p]) /\ ~(p = pe /\ q = t)
      BY <3>2, <2>1, <1>4, <1>7 DEF Listed
    <3>3. CASE p = pe /\ q = t /\ failed
      <4>1. again \in Listed(p)'
        BY <3>3, <2>1, <1>9 DEF Listed
      <4>2. QED BY <4>1, <3>3, <2>1, <1>5
    <3>4. CASE p = pe /\ q = t /\ ~failed
      BY <3>4, <1>8
    <3>5. QED BY <3>1, <3>2, <3>3, <3>4, <2>1, <1>2 DEF Listed
  <2>2. QED BY <2>1 DEF NewestKept
<1>16. KeysOK' /\ NewestBounds' /\ NewestNotLost'
  <2>1. NoRequestAdded /\ lost \subseteq lost' /\ \A k \in Device : served'[k] >= served[k]
    BY <1>1, <1>8 DEF NoRequestAdded
  <2>2. QED BY <2>1, <1>0, <1>1, <1>10, <1>14, <1>15, RequestsKept
<1>17. QED BY <1>10, <1>11, <1>12, <1>13, <1>16 DEF PeonInv

(* peon_run_recheck finds a controller gone: its connect lives again.      *)
LEMMA RecheckGoneInv ==
  ASSUME PeonInv, NEW c \in Ctx, recheck_gone(c)
  PROVE  PeonInv'
<1> DEFINE old == wait["RECHECK"][lock.at]
           new == [old EXCEPT !.sn = sn + 1, !.age = 0, !.backoff = 0, !.ctx = c]
           cut == RemoveAt(wait["RECHECK"], lock.at)
<1>0. TypeOK /\ KeysOK /\ LockOK /\ NewestBounds /\ CountExact /\ NewestNotLost /\ DynWorkersBounded
      /\ {"DISCONN", "CONNECT", "RECHECK"} \subseteq Peon /\ DynPeon \subseteq Peon
      /\ {"DISCONN", "CONNECT", "RECHECK"} \cap DynPeon = {} /\ sn \in Nat
  BY ConstantsAssumption DEF PeonInv, Peon, StaticPeon, TypeOK
<1>1. /\ UNCHANGED <<proc, worker_all_count, dyn, peon_dyn_worker_num, lock, adding, served, lost>>
      /\ Scanning("RECHECK") /\ old.state = "LIVE" /\ sn' = sn + 1
      /\ wait' = [wait EXCEPT !["RECHECK"] = cut, !["CONNECT"] = Append(wait["CONNECT"], new)]
      /\ latest' = Requested("CONNECT", new)
  BY <1>0 DEF recheck_gone, dyns, TypeOK
<1>2. /\ wait["RECHECK"] \in Seq(Task) /\ lock.at \in 1 .. Len(wait["RECHECK"])
      /\ old \in Task /\ old \in Listed("RECHECK")
  BY <1>0, <1>1, CursorInList DEF Listed
<1>3. new \in Task /\ new.key = old.key /\ new.state = "LIVE" /\ new.key \in Device
  <2>1. 0 \in 0 .. MaxAge /\ 0 \in 0 .. PEON_FAIL_RETRY_INTERVAL
    BY ConstantsAssumption DEF MaxAge
  <2>2. old.key \in Device
    BY <1>0, <1>2 DEF KeysOK
  <2>3. old.state = "LIVE" /\ old \in Task /\ sn + 1 \in Nat
    BY <1>0, <1>1, <1>2
  <2> HIDE DEF old
  <2>4. QED BY <2>1, <2>2, <2>3 DEF Task
<1>4. cut \in Seq(Task) /\ ToSet(cut) \subseteq ToSet(wait["RECHECK"])
  BY <1>2, RemoveAtProperties
<1> HIDE DEF old, new, cut
<1>5. /\ Append(wait["CONNECT"], new) \in Seq(Task)
      /\ ToSet(Append(wait["CONNECT"], new)) = ToSet(wait["CONNECT"]) \cup {new}
  <2>1. wait["CONNECT"] \in Seq(Task)
    BY <1>0 DEF TypeOK
  <2>2. QED BY <2>1, <1>3, AppendedProperties
<1>6. /\ wait' \in [Peon -> Seq(Task)]
      /\ wait'["RECHECK"] = cut /\ wait'["CONNECT"] = Append(wait["CONNECT"], new)
      /\ \A p \in Peon : p \notin {"CONNECT", "RECHECK"} => wait'[p] = wait[p]
  BY <1>0, <1>1, <1>4, <1>5 DEF TypeOK
<1>7. TypeOK'
  <2>1. latest' \in [Device -> [op : {"none", "connect", "disconnect", "batch"}, sn : Nat]]
    BY <1>0, <1>1, <1>3, RequestedProperties DEF StaticPeon
  <2>2. sn' \in Nat
    BY <1>0, <1>1
  <2>3. QED BY <2>1, <2>2, <1>0, <1>1, <1>6 DEF TypeOK
<1>8. LockOK' /\ CountExact' /\ DynWorkersBounded'
  <2>1. wait'["DISCONN"] = wait["DISCONN"] /\ \A d \in DynPeon : wait'[d] = wait[d]
    BY <1>0, <1>6
  <2>2. QED BY <2>1, <1>0, <1>1 DEF LockOK, CountExact, DynWorkersBounded
<1>9. KeysOK' /\ NewestBounds' /\ NewestNotLost'
  <2>1. new \in Listed("CONNECT")'
    BY <1>5, <1>6 DEF Listed
  <2>2. OnlyNew("CONNECT", new)
    <3>1. ASSUME NEW q \in Peon, NEW u \in Listed(q)'
          PROVE  u \in Listed(q) \/ (q = "CONNECT" /\ u = new)
      BY <1>1, <1>4, <1>5, <1>6 DEF Listed
    <3>2. QED BY <3>1 DEF OnlyNew
  <2>3. AllKept
    <3>1. ASSUME NEW q \in Peon \ {"RECHECK"}, NEW v \in Listed(q)
          PROVE  v \in Listed(q)'
      BY <1>1, <1>5, <1>6 DEF Listed
    <3>2. QED BY <3>1 DEF AllKept
  <2>4. NoRequestAdded /\ KeyFits("CONNECT", new.key) /\ "CONNECT" \in Peon
    BY <1>0, <1>1, <1>3 DEF NoRequestAdded, KeyFits
  <2>5. QED BY <2>1, <2>2, <2>3, <2>4, <1>0, <1>1, <1>3, <1>7, RequestAdded
<1>10. QED BY <1>7, <1>8, <1>9 DEF PeonInv
-----------------------------------------------------------------------------
(* Every step of the engine keeps the invariant.                           *)
LEMMA NextInv == PeonInv /\ [Next]_vars => PeonInv'
<1> SUFFICES ASSUME PeonInv, [Next]_vars PROVE PeonInv'
  OBVIOUS
<1>1. CASE \E c \in Caller : peon_sn_generate(c) \/ peon_task_reject(c) \/ peon_task_add(c)
  BY <1>1, GenerateInv, CallerInv
<1>2. CASE \E i \in DOMAIN proc["DCBATCH"] : \E d \in Device : \E c \in Ctx :
             peon_add_disconn_task_inherit(i, d, c)
  BY <1>2, InheritInv
<1>3. CASE \E pe \in Peon : peon_task_get(pe) \/ scan_dead(pe) \/ scan_live(pe) \/ scan_end(pe)
  BY <1>3, LockInv, DeadInv, ScanLiveInv, ScanEndInv
<1>4. CASE \E pe \in Peon : \E i \in DOMAIN proc[pe] : \E c \in Ctx :
             \/ handle(pe, i, c)
             \/ \E failed \in CanFail(pe) : peon_task_complete(pe, i, failed, c)
  BY <1>4, HandleInv, CompleteInv
<1>5. CASE (\E d \in DynPeon : peon_deconstruct(d)) \/ dynamic_exit
  BY <1>5, DeconstructInv, ExitInv
<1>6. CASE peon_run_recheck \/ recheck_dead \/ recheck_present \/ \E c \in Ctx : recheck_gone(c)
  <2>1. "RECHECK" \in Peon
    BY DEF Peon, StaticPeon
  <2>2. QED BY <1>6, <2>1, LockInv, DeadInv, RecheckGoneInv
<1>7. CASE Tick
  BY <1>7, TickInv
<1>8. CASE UNCHANGED vars
  BY <1>8 DEF vars, lists, dyns, hist, PeonInv, TypeOK, KeysOK, LockOK, NewestBounds, CountExact,
              NewestNotLost, DynWorkersBounded, Pending, Listed
<1>9. QED BY <1>1, <1>2, <1>3, <1>4, <1>5, <1>6, <1>7, <1>8 DEF Next

(* The invariant holds in every reachable state of the engine.             *)
THEOREM EngineInvariant == Spec => []PeonInv
BY InitInv, NextInv, PTL DEF Spec

(* All state of the engine keeps its type.                                 *)
THEOREM TypeCorrect == Spec => []TypeOK
<1>1. PeonInv => TypeOK
  BY DEF PeonInv
<1>2. QED BY <1>1, EngineInvariant, PTL

(* The counter that decides about dynamic peons is exact: whatever is      *)
(* queued, discarded, found dead, taken or completed, worker_all_count of  *)
(* the static disconnect peon is the number of tasks on its two lists.     *)
THEOREM CounterExact == Spec => []CountExact
<1>1. PeonInv => CountExact
  BY DEF PeonInv
<1>2. QED BY <1>1, EngineInvariant, PTL

(* Filtering never drops the newest request of a device: it is listed      *)
(* alive, was completed, or was freed with its dynamic peon.               *)
THEOREM NewestRequestKept == Spec => []NewestNotLost
<1>1. PeonInv => NewestNotLost
  BY DEF PeonInv
<1>2. QED BY <1>1, EngineInvariant, PTL

(* At most PEON_DYN_DISCONN_WORKER_LIMIT + 1 dynamic threads exist, and    *)
(* each dynamic peon in use has one.                                       *)
THEOREM DynamicBounded == Spec => []DynWorkersBounded
<1>1. PeonInv => DynWorkersBounded
  BY DEF PeonInv
<1>2. QED BY <1>1, EngineInvariant, PTL
=============================================================================
