--------------------------- MODULE ConnectProofs ---------------------------
(***************************************************************************)
(* Proofs about the handlers on top of the task engine: they use the       *)
(* engine only as Peon allows, so that what is proved of the engine holds  *)
(* with them, and with the one connect worker of the program they never    *)
(* create two controllers with one address.                                *)
(***************************************************************************)
EXTENDS Connect, PromiseProofs

(* A task waits, or is about to be queued, at the start of its handler.    *)
StartOK ==
  /\ \A pe \in Peon : \A t \in ToSet(wait[pe]) : t.ctx.at = "start"
  /\ \A c \in Caller : adding[c] # NoRequest => adding[c].task.ctx.at = "start"

(* No more tasks run than a peon has workers; the worker that holds the    *)
(* lock to look for a task has none.                                       *)
WorkersOK ==
  \A pe \in Peon :
    /\ Len(proc[pe]) <= WorkerNum(pe)
    /\ lock.owner = pe /\ pe # "RECHECK" => Len(proc[pe]) < WorkerNum(pe)

(* Every controller is the one of a device, and only a connect fails.      *)
CtrlOK == ctrl \in [Name -> [state : {"live", "fault"}, key : Device] \cup {NoCtrl}]
FailOK == \A pe \in Peon \ {"CONNECT"} : \A t \in ToSet(proc[pe]) : t.ctx.at # "fail"

ConnectInv == StartOK /\ WorkersOK /\ CtrlOK /\ FailOK

(* A running task after a step of the engine has just been started, or ran *)
(* before, at the same place.                                              *)
RunsOn ==
  \A pe \in Peon : \A u \in ToSet(proc'[pe]) :
    u.ctx.at = "start" \/ \E t \in ToSet(proc[pe]) : u.key = t.key /\ u.ctx = t.ctx

(* A connect that is about to create a controller found none.              *)
CreateOK ==
  \A t \in ToSet(proc["CONNECT"]) : t.ctx.at = "create" => CtrlAt(t.key) = {}
-----------------------------------------------------------------------------
(* WorkersOK by the peon, for the steps that start no task.                *)
LEMMA WorkersStay ==
  ASSUME PeonInv, WorkersOK, PeonInv',
         \A pe \in Peon : Len(proc'[pe]) <= Len(proc[pe]),
         lock'.owner = lock.owner \/ lock'.owner \notin Peon
  PROVE  WorkersOK'
<1>1. \A pe \in Peon : /\ Len(proc[pe]) \in Nat /\ Len(proc'[pe]) \in Nat
                       /\ WorkerNum(pe) \in Nat
  <2>1. \A pe \in Peon : proc[pe] \in Seq(Task) /\ proc'[pe] \in Seq(Task)
    BY DEF PeonInv, TypeOK
  <2>2. \A pe \in Peon : WorkerNum(pe) \in Nat
    BY ConstantsAssumption DEF WorkerNum
  <2>3. QED BY <2>1, <2>2, ListDomain
<1>2. \A pe \in Peon : WorkerNum(pe)' = WorkerNum(pe)
  BY DEF WorkerNum
<1>3. QED BY <1>1, <1>2 DEF WorkersOK

(* A step that touches no list.                                            *)
LEMMA UntouchedStep ==
  ASSUME PeonInv, StartOK, UNCHANGED <<wait, proc>>,
         \A c \in Caller : adding'[c] # NoRequest => adding'[c].task.ctx.at = "start"
  PROVE  StartOK' /\ RunsOn
BY DEF StartOK, RunsOn

(* peon_sn_generate and peon_task_reject.                                  *)
LEMMA RequestStep ==
  ASSUME PeonInv, StartOK, NEW c \in Caller, peon_sn_generate(c) \/ peon_task_reject(c)
  PROVE  StartOK' /\ RunsOn /\ UNCHANGED <<proc, lock>>
<1>1. UNCHANGED <<wait, proc, lock>> /\ adding \in [Caller -> Request]
  BY DEF peon_sn_generate, peon_task_reject, lists, PeonInv, TypeOK
<1>2. CASE peon_task_reject(c)
  <2>1. \A e \in Caller : adding'[e] # NoRequest => adding'[e] = adding[e]
    BY <1>1, <1>2 DEF peon_task_reject
  <2>2. QED BY <1>1, <2>1, UntouchedStep DEF StartOK
<1>3. CASE peon_sn_generate(c)
  <2>1. PICK r \in Requests(c) : adding' = [adding EXCEPT ![c] =
                    [peon |-> r.peon, task |-> NewTask(r.key, r.force, sn + 1)]]
    BY <1>3 DEF peon_sn_generate
  <2>2. NewTask(r.key, r.force, sn + 1).ctx.at = "start"
    BY ContextAssumption DEF NewTask, ConnCtxInit
  <2>3. \A e \in Caller : adding'[e] # NoRequest => adding'[e].task.ctx.at = "start"
    BY <1>1, <2>1, <2>2 DEF StartOK
  <2>4. QED BY <1>1, <2>3, UntouchedStep
<1>4. QED BY <1>2, <1>3

(* peon_task_add queues a task at the end of some wait list.               *)
LEMMA QueueStep ==
  ASSUME PeonInv, StartOK, NEW pe \in Peon, NEW t \in Task, t.ctx.at = "start", Queue(pe, t)
  PROVE  /\ \A p \in Peon : \A u \in ToSet(wait'[p]) : u.ctx.at = "start"
         /\ lock'.owner = lock.owner \/ lock'.owner \notin Peon
<1>0. wait \in [Peon -> Seq(Task)]
  BY DEF PeonInv, TypeOK
<1>1. CASE QueueStatic(pe, t)
  <2>1. wait' = [wait EXCEPT ![pe] = Append(wait[pe], t)] /\ lock' = lock
    BY <1>1 DEF QueueStatic
  <2>2. ToSet(wait'[pe]) = ToSet(wait[pe]) \cup {t}
    BY <1>0, <2>1, AppendedProperties
  <2>3. QED BY <1>0, <2>1, <2>2 DEF StartOK
<1>2. CASE QueueDynamic(pe, t)
  <2>1. PICK d \in DynPeon : wait' = [wait EXCEPT ![d] = <<t>>] /\ lock' = lock
    BY <1>2 DEF QueueDynamic
  <2>2. ToSet(<<t>>) = {t}
    BY DEF ToSet
  <2>3. QED BY <1>0, <2>1, <2>2 DEF StartOK, Peon
<1>3. CASE QueueStuck
  <2>1. wait' = wait /\ lock'.owner = "stuck"
    BY <1>3 DEF QueueStuck
  <2>2. "stuck" \notin Peon
    BY ConstantsAssumption DEF Peon, StaticPeon
  <2>3. QED BY <2>1, <2>2 DEF StartOK
<1>4. QED BY <1>1, <1>2, <1>3 DEF Queue

LEMMA AddStep ==
  ASSUME PeonInv, StartOK, NEW c \in Caller, peon_task_add(c)
  PROVE  /\ StartOK' /\ RunsOn /\ UNCHANGED proc
         /\ lock'.owner = lock.owner \/ lock'.owner \notin Peon
<1>1. /\ adding[c].peon \in Peon /\ adding[c].task \in Task
      /\ adding[c].task.ctx.at = "start"
  BY DEF PeonInv, TypeOK, Request, peon_task_add, StartOK, Peon
<1>2. Queue(adding[c].peon, adding[c].task) /\ UNCHANGED proc
  BY DEF peon_task_add
<1>3. \A e \in Caller : adding'[e] # NoRequest => adding'[e] = adding[e]
  BY DEF peon_task_add, PeonInv, TypeOK
<1>4. QED BY <1>1, <1>2, <1>3, QueueStep DEF StartOK, RunsOn

(* The steps that only take or release the lock, or count a thread out.    *)
LEMMA LockStep ==
  ASSUME PeonInv, StartOK,
         \/ \E pe \in Peon : peon_task_get(pe) \/ scan_end(pe)
         \/ dynamic_exit \/ peon_run_recheck
  PROVE  StartOK' /\ RunsOn /\ UNCHANGED proc
<1>1. UNCHANGED <<wait, proc, adding>>
  BY DEF peon_task_get, scan_end, dynamic_exit, peon_run_recheck, lists
<1>2. QED BY <1>1, UntouchedStep DEF StartOK

(* A worker that takes the lock has no task.                               *)
LEMMA LockWorkers ==
  ASSUME PeonInv, PeonInv', WorkersOK,
         \/ \E pe \in Peon : peon_task_get(pe) \/ scan_end(pe)
         \/ dynamic_exit \/ peon_run_recheck
  PROVE  WorkersOK'
<1>0. "free" \notin Peon
  BY ConstantsAssumption DEF Peon, StaticPeon
<1>1. UNCHANGED proc /\ \A p \in Peon : proc[p] \in Seq(Task) /\ Len(proc[p]) \in Nat
  BY ListDomain DEF peon_task_get, scan_end, dynamic_exit, peon_run_recheck, lists, PeonInv, TypeOK
<1>2. CASE \E pe \in Peon : peon_task_get(pe)
  <2>1. PICK pe \in Peon : Len(proc[pe]) < WorkerNum(pe) /\ lock'.owner = pe
    BY <1>2 DEF peon_task_get
  <2>2. \A p \in Peon : WorkerNum(p)' = WorkerNum(p)
    BY DEF WorkerNum
  <2>3. QED BY <1>1, <2>1, <2>2 DEF WorkersOK
<1>3. CASE \E pe \in Peon : scan_end(pe)
  <2>1. lock'.owner = "free"
    BY <1>3 DEF scan_end, Free
  <2>2. QED BY <1>0, <1>1, <2>1, WorkersStay
<1>4. CASE dynamic_exit
  <2>1. lock' = lock
    BY <1>4 DEF dynamic_exit
  <2>2. QED BY <1>1, <2>1, WorkersStay
<1>5. CASE peon_run_recheck
  <2>1. lock'.owner = "RECHECK"
    BY <1>5 DEF peon_run_recheck
  <2>2. \A p \in Peon : WorkerNum(p)' = WorkerNum(p)
    BY DEF WorkerNum
  <2>3. QED BY <1>1, <2>1, <2>2 DEF WorkersOK
<1>6. QED BY <1>2, <1>3, <1>4, <1>5

(* Tasks are freed from a wait list.                                       *)
LEMMA FreeStep ==
  ASSUME PeonInv, StartOK,
         \/ \E pe \in Peon : scan_dead(pe)
         \/ recheck_dead
         \/ \E d \in DynPeon : peon_deconstruct(d)
  PROVE  StartOK' /\ RunsOn /\ UNCHANGED <<proc, lock>>
<1>0. wait \in [Peon -> Seq(Task)] /\ "RECHECK" \in Peon /\ DynPeon \subseteq Peon
  BY DEF PeonInv, TypeOK, Peon, StaticPeon
<1>1. UNCHANGED <<proc, lock, adding>>
  BY DEF scan_dead, recheck_dead, peon_deconstruct
<1>2. ASSUME NEW pe \in Peon, Scanning(pe), wait' = [wait EXCEPT ![pe] = RemoveAt(@, lock.at)]
      PROVE  \A p \in Peon : ToSet(wait'[p]) \subseteq ToSet(wait[p])
  <2>1. wait[pe] \in Seq(Task) /\ lock.at \in 1 .. Len(wait[pe])
    BY <1>2, CursorInList
  <2>2. ToSet(RemoveAt(wait[pe], lock.at)) \subseteq ToSet(wait[pe])
    BY <2>1, RemoveAtProperties
  <2>3. QED BY <1>0, <1>2, <2>2
<1>3. ASSUME NEW d \in DynPeon, peon_deconstruct(d)
      PROVE  \A p \in Peon : ToSet(wait'[p]) \subseteq ToSet(wait[p])
  <2>1. wait' = [wait EXCEPT ![d] = <<>>]
    BY <1>3 DEF peon_deconstruct
  <2>2. ToSet(<<>>) = {}
    BY DEF ToSet
  <2>3. QED BY <1>0, <2>1, <2>2
<1>4. \A p \in Peon : ToSet(wait'[p]) \subseteq ToSet(wait[p])
  <2>1. CASE \E pe \in Peon : scan_dead(pe)
    BY <2>1, <1>2 DEF scan_dead, FreeAtCursor
  <2>2. CASE recheck_dead
    BY <2>2, <1>0, <1>2 DEF recheck_dead
  <2>3. QED BY <2>1, <2>2, <1>3
<1>5. QED BY <1>1, <1>4 DEF StartOK, RunsOn

(* Time passes.                                                            *)
LEMMA TickStep ==
  ASSUME PeonInv, StartOK, Tick
  PROVE  StartOK' /\ RunsOn /\ UNCHANGED <<proc, lock>>
<1>1. /\ UNCHANGED <<proc, lock, adding>>
      /\ wait' = [pe \in Peon |-> [i \in DOMAIN wait[pe] |-> Older(wait[pe][i])]]
  BY DEF Tick
<1>2. ASSUME NEW pe \in Peon, NEW u \in ToSet(wait'[pe])
      PROVE  u.ctx.at = "start"
  <2>1. wait[pe] \in Seq(Task)
    BY DEF PeonInv, TypeOK
  <2>2. DOMAIN wait[pe] = 1 .. Len(wait[pe])
    BY <2>1, ListDomain
  <2>3. PICK i \in 1 .. Len(wait[pe]) : u = Older(wait[pe][i])
    BY <1>1, <1>2, <2>2 DEF ToSet
  <2>4. wait[pe][i] \in Task /\ wait[pe][i] \in ToSet(wait[pe])
    BY <2>1, InToSet
  <2>5. u.ctx = wait[pe][i].ctx
    BY <2>3, <2>4 DEF Older, Task
  <2>6. QED BY <2>4, <2>5 DEF StartOK
<1>3. QED BY <1>1, <1>2 DEF StartOK, RunsOn

(* Marking a list changes no context.                                      *)
LEMMA MarkedCtx ==
  ASSUME NEW s \in Seq(Task), NEW pe, NEW t, NEW type,
         NEW u \in ToSet(MarkedList(s, pe, t, type))
  PROVE  \E q \in ToSet(s) : u.key = q.key /\ u.ctx = q.ctx
<1> DEFINE m == MarkedList(s, pe, t, type)
<1>1. m \in Seq(Task) /\ Len(m) = Len(s) /\ \A i \in 1 .. Len(s) : m[i] = Marked(s[i], pe, t, type)
  BY MarkedListProperties
<1> HIDE DEF m
<1>2. DOMAIN m = 1 .. Len(s)
  BY <1>1, ListDomain
<1>3. PICK i \in 1 .. Len(s) : u = m[i]
  BY <1>2 DEF ToSet, m
<1>4. s[i] \in Task /\ s[i] \in ToSet(s)
  BY InToSet
<1>5. u.key = s[i].key /\ u.ctx = s[i].ctx
  BY <1>1, <1>3, <1>4 DEF Marked, Task
<1>6. QED BY <1>4, <1>5

(* One iteration of peon_task_get: tasks are marked, at most one is freed  *)
(* or taken, and it is taken by the worker that holds the lock.            *)
LEMMA ScanLiveStep ==
  ASSUME PeonInv, PeonInv', StartOK, WorkersOK, NEW pe \in Peon, scan_live(pe)
  PROVE  StartOK' /\ RunsOn /\ WorkersOK'
<1> DEFINE t == wait[pe][lock.at]
           type == TypeOf(pe)
           marked == [p \in Peon |-> MarkedList(wait[p], p, t, type)]
           running == [p \in Peon |-> MarkedList(proc[p], p, t, type)]
           cut == RemoveAt(marked[pe], lock.at)
<1>0. TypeOK /\ "free" \notin Peon
  BY ConstantsAssumption DEF PeonInv, Peon, StaticPeon
<1>1. /\ UNCHANGED adding /\ Scanning(pe) /\ pe # "RECHECK"
      /\ wait' = marked \/ wait' = [marked EXCEPT ![pe] = cut]
      /\ \/ proc' = running /\ lock'.owner = lock.owner
         \/ proc' = [running EXCEPT ![pe] = Append(running[pe], t)] /\ lock'.owner = "free"
  <2>1. Free.owner = "free" /\ [lock EXCEPT !.at = @ + 1].owner = lock.owner
    BY <1>0 DEF Free, TypeOK
  <2>2. QED BY <2>1 DEF scan_live, FreeAtCursor
<1>2. /\ lock.at \in 1 .. Len(wait[pe]) /\ t \in Task /\ t \in ToSet(wait[pe])
      /\ lock.owner = pe
  BY <1>1, CursorInList DEF Scanning
<1>3. t.ctx.at = "start"
  BY <1>2 DEF StartOK
<1>4. ASSUME NEW p \in Peon
      PROVE  /\ marked[p] \in Seq(Task) /\ Len(marked[p]) = Len(wait[p])
             /\ \A u \in ToSet(marked[p]) : u.ctx.at = "start"
             /\ running[p] \in Seq(Task) /\ Len(running[p]) = Len(proc[p])
             /\ \A u \in ToSet(running[p]) :
                  \E q \in ToSet(proc[p]) : u.key = q.key /\ u.ctx = q.ctx
  <2>1. /\ wait[p] \in Seq(Task) /\ marked[p] = MarkedList(wait[p], p, t, type)
        /\ proc[p] \in Seq(Task) /\ running[p] = MarkedList(proc[p], p, t, type)
    BY <1>0 DEF TypeOK
  <2> HIDE DEF marked, running, t, type
  <2>2. /\ marked[p] \in Seq(Task) /\ Len(marked[p]) = Len(wait[p])
        /\ running[p] \in Seq(Task) /\ Len(running[p]) = Len(proc[p])
    BY <2>1, MarkedListProperties
  <2>3. \A u \in ToSet(marked[p]) : \E q \in ToSet(wait[p]) : u.key = q.key /\ u.ctx = q.ctx
    BY <2>1, MarkedCtx
  <2>4. \A u \in ToSet(running[p]) : \E q \in ToSet(proc[p]) : u.key = q.key /\ u.ctx = q.ctx
    BY <2>1, MarkedCtx
  <2>5. QED BY <2>2, <2>3, <2>4 DEF StartOK
<1>5. ToSet(cut) \subseteq ToSet(marked[pe])
  <2>1. marked[pe] \in Seq(Task) /\ lock.at \in 1 .. Len(marked[pe])
    BY <1>2, <1>4
  <2> HIDE DEF marked
  <2>2. QED BY <2>1, RemoveAtProperties
<1>6. DOMAIN marked = Peon /\ DOMAIN running = Peon
  OBVIOUS
<1> HIDE DEF marked, running, cut, t, type
<1>7. StartOK'
  BY <1>1, <1>4, <1>5, <1>6 DEF StartOK
<1>8. CASE proc' = running /\ lock'.owner = lock.owner
  <2>1. RunsOn
    BY <1>4, <1>8 DEF RunsOn
  <2>2. \A p \in Peon : Len(proc'[p]) <= Len(proc[p])
    <3>1. \A p \in Peon : Len(proc'[p]) = Len(proc[p]) /\ Len(proc[p]) \in Nat
      BY <1>0, <1>4, <1>8, ListDomain DEF TypeOK
    <3>2. QED BY <3>1
  <2>3. QED BY <1>7, <1>8, <2>1, <2>2, WorkersStay
<1>9. CASE proc' = [running EXCEPT ![pe] = Append(running[pe], t)] /\ lock'.owner = "free"
  <2>1. /\ proc'[pe] = Append(running[pe], t)
        /\ \A p \in Peon : p # pe => proc'[p] = running[p]
    BY <1>6, <1>9
  <2>2. /\ ToSet(proc'[pe]) = ToSet(running[pe]) \cup {t}
        /\ Len(proc'[pe]) = Len(proc[pe]) + 1
    BY <1>2, <1>4, <2>1, AppendedProperties
  <2>3. RunsOn
    BY <1>3, <1>4, <2>1, <2>2, ZenonT(30) DEF RunsOn
  <2>4. \A p \in Peon : Len(proc[p]) \in Nat /\ WorkerNum(p) \in Nat /\ WorkerNum(p)' = WorkerNum(p)
    BY <1>0, ListDomain, ConstantsAssumption DEF TypeOK, WorkerNum
  <2>5. Len(proc[pe]) < WorkerNum(pe)
    BY <1>1, <1>2 DEF WorkersOK
  <2>6. \A p \in Peon : Len(proc'[p]) <= WorkerNum(p)
    <3>1. Len(proc[pe]) + 1 <= WorkerNum(pe)
      BY <2>4, <2>5
    <3>2. QED BY <1>4, <2>1, <2>2, <3>1 DEF WorkersOK
  <2>7. WorkersOK'
    BY <1>0, <1>9, <2>4, <2>6 DEF WorkersOK
  <2>8. QED BY <1>7, <2>3, <2>7
<1>10. QED BY <1>1, <1>8, <1>9

(* A step of the engine.                                                   *)
LEMMA EngineStep ==
  ASSUME PeonInv, PeonInv', StartOK, WorkersOK, Worker \/ \E c \in Caller : CallerStep(c)
  PROVE  StartOK' /\ RunsOn /\ WorkersOK'
<1>0. \A p \in Peon : proc'[p] = proc[p] => Len(proc'[p]) <= Len(proc[p])
  <2>1. \A p \in Peon : Len(proc[p]) \in Nat
    BY ListDomain DEF PeonInv, TypeOK
  <2>2. QED BY <2>1
<1>1. CASE \E c \in Caller : CallerStep(c)
  <2>1. PICK c \in Caller : peon_sn_generate(c) \/ peon_task_reject(c) \/ peon_task_add(c)
    BY <1>1 DEF CallerStep
  <2>2. /\ StartOK' /\ RunsOn /\ UNCHANGED proc
        /\ lock'.owner = lock.owner \/ lock'.owner \notin Peon
    BY <2>1, RequestStep, AddStep
  <2>3. QED BY <1>0, <2>2, WorkersStay
<1>2. CASE \E pe \in Peon : scan_live(pe)
  BY <1>2, ScanLiveStep
<1>3. CASE \/ \E pe \in Peon : peon_task_get(pe) \/ scan_end(pe)
           \/ dynamic_exit \/ peon_run_recheck
  BY <1>3, LockStep, LockWorkers
<1>4. CASE \/ \E pe \in Peon : scan_dead(pe)
           \/ recheck_dead
           \/ \E d \in DynPeon : peon_deconstruct(d)
  <2>1. StartOK' /\ RunsOn /\ UNCHANGED <<proc, lock>>
    BY <1>4, FreeStep
  <2>2. QED BY <1>0, <2>1, WorkersStay
<1>5. CASE Tick
  <2>1. StartOK' /\ RunsOn /\ UNCHANGED <<proc, lock>>
    BY <1>5, TickStep
  <2>2. QED BY <1>0, <2>1, WorkersStay
<1>6. QED BY <1>1, <1>2, <1>3, <1>4, <1>5 DEF Worker
-----------------------------------------------------------------------------
(* The places of a handler.                                                *)
Place == {"start", "find", "create", "verify", "alive", "alive_ok",
          "alive_err", "remove", "retry", "list", "done", "fail"}

LEMMA CtxFields ==
  ASSUME NEW x \in Ctx
  PROVE  /\ x.at \in Place /\ x.todo \subseteq Name
         /\ \A a \in Place : /\ [x EXCEPT !.at = a] \in Ctx
                             /\ [x EXCEPT !.at = a].at = a
BY ContextAssumption DEF ConnCtx, Place

(* The first of some names is one of them.                                 *)
LEMMA FirstIn ==
  ASSUME NEW S \in SUBSET Name, S # {}
  PROVE  First(S) \in S
<1>1. S \in SUBSET Nat
  BY ConnectAssumption
<1>2. First(S) = Min(S)
  BY DEF First, Min
<1>3. QED BY <1>1, <1>2, MinInSet

(* The context of a running task.                                          *)
LEMMA CurTyped ==
  ASSUME PeonInv, NEW pe \in Peon, NEW i \in DOMAIN proc[pe]
  PROVE  /\ proc[pe] \in Seq(Task) /\ i \in 1 .. Len(proc[pe])
         /\ proc[pe][i] \in Task /\ proc[pe][i] \in ToSet(proc[pe])
         /\ Cur(pe, i) \in Ctx
<1>1. proc[pe] \in Seq(Task) /\ i \in 1 .. Len(proc[pe])
  BY ListDomain DEF PeonInv, TypeOK
<1>2. proc[pe][i] \in Task /\ proc[pe][i] \in ToSet(proc[pe])
  BY <1>1, InToSet
<1>3. QED BY <1>1, <1>2 DEF Task, Cur

(* What the engine's lists are after a handler moved on.                   *)
LEMMA HandledRuns ==
  ASSUME PeonInv, NEW pe \in Peon, NEW i \in DOMAIN proc[pe], NEW c \in Ctx,
         proc' = [proc EXCEPT ![pe][i].ctx = c]
  PROVE  /\ \A p \in Peon : Len(proc'[p]) <= Len(proc[p])
         /\ \A p \in Peon : p # pe => proc'[p] = proc[p]
         /\ \A u \in ToSet(proc'[pe]) :
              \/ \E j \in 1 .. Len(proc[pe]) : j # i /\ u = proc[pe][j]
              \/ u.key = proc[pe][i].key /\ u.ctx = c
<1> DEFINE s == proc[pe]
           e == [s[i] EXCEPT !.ctx = c]
           m == [s EXCEPT ![i] = e]
<1>0. proc \in [Peon -> Seq(Task)] /\ \A p \in Peon : Len(proc[p]) \in Nat
  BY ListDomain DEF PeonInv, TypeOK
<1>1. /\ s \in Seq(Task) /\ i \in 1 .. Len(s) /\ DOMAIN s = 1 .. Len(s) /\ Len(s) \in Nat
      /\ s[i] \in Task
  BY CurTyped, ListDomain
<1>2. e \in Task /\ e.key = s[i].key /\ e.ctx = c
  BY <1>1 DEF Task
<1>3. proc' = [proc EXCEPT ![pe] = m]
  OBVIOUS
<1> HIDE DEF e
<1>4. /\ m \in Seq(Task) /\ Len(m) = Len(s)
      /\ \A j \in 1 .. Len(s) : m[j] = IF j = i THEN e ELSE s[j]
  BY <1>1, <1>2
<1> HIDE DEF m
<1>5. proc'[pe] = m /\ \A p \in Peon : p # pe => proc'[p] = proc[p]
  BY <1>0, <1>3
<1>6. \A p \in Peon : Len(proc'[p]) <= Len(proc[p])
  BY <1>0, <1>4, <1>5
<1>7. \A u \in ToSet(m) : \E j \in 1 .. Len(s) : u = m[j]
  BY <1>4, ListDomain DEF ToSet
<1>8. ASSUME NEW u \in ToSet(proc'[pe])
      PROVE  \/ \E j \in 1 .. Len(s) : j # i /\ u = s[j]
             \/ u.key = s[i].key /\ u.ctx = c
  <2>1. PICK j \in 1 .. Len(s) : u = m[j]
    BY <1>5, <1>7, <1>8
  <2>2. CASE j = i
    BY <1>2, <1>4, <2>1, <2>2
  <2>3. CASE j # i
    BY <1>4, <2>1, <2>3
  <2>4. QED BY <2>2, <2>3
<1>9. QED BY <1>5, <1>6, <1>8

(* The move of a handler: it fails only in a connect, and goes on to       *)
(* create a controller only when there was none.                           *)
Moves(pe, i) ==
  \E c \in Ctx :
    /\ handle(pe, i, c)
    /\ c.at = "fail" => pe = "CONNECT"
    /\ c.at = "create" => CtrlAt(proc[pe][i].key) = {}

(* No step but connect_create adds a controller.                           *)
NoneCreated ==
  \A n \in Name : ctrl'[n] # NoCtrl => ctrl[n] # NoCtrl /\ ctrl'[n].key = ctrl[n].key

LEMMA GotoMoves ==
  ASSUME PeonInv, NEW pe \in Peon, NEW i \in DOMAIN proc[pe], NEW a \in Place,
         Goto(pe, i, a), a = "fail" => pe = "CONNECT",
         a = "create" => CtrlAt(proc[pe][i].key) = {}
  PROVE  Moves(pe, i)
<1>1. Cur(pe, i) \in Ctx
  BY CurTyped
<1>2. [Cur(pe, i) EXCEPT !.at = a] \in Ctx /\ [Cur(pe, i) EXCEPT !.at = a].at = a
  BY <1>1, CtxFields
<1>3. handle(pe, i, [Cur(pe, i) EXCEPT !.at = a])
  BY DEF Goto
<1>4. QED BY <1>2, <1>3 DEF Moves

(* A handler records the name of the controller that it found.             *)
LEMMA FoundMoves ==
  ASSUME PeonInv, NEW pe \in Peon, NEW i \in DOMAIN proc[pe], NEW a \in {"done", "alive"},
         CtrlAt(proc[pe][i].key) # {},
         handle(pe, i, [Cur(pe, i) EXCEPT !.at = a, !.dname = First(CtrlAt(proc[pe][i].key))])
  PROVE  Moves(pe, i)
<1> DEFINE n == First(CtrlAt(proc[pe][i].key))
           c == [Cur(pe, i) EXCEPT !.at = a, !.dname = n]
<1>1. Cur(pe, i) \in Ctx
  BY CurTyped
<1>2. n \in Name
  BY FirstIn DEF CtrlAt
<1> HIDE DEF n
<1>3. c \in Ctx /\ c.at = a
  BY <1>1, <1>2, ContextAssumption DEF ConnCtx
<1>4. handle(pe, i, c)
  BY DEF n
<1> HIDE DEF c
<1>5. QED BY <1>3, <1>4 DEF Moves

(* A controller that is found live is there.                               *)
LEMMA FoundThere ==
  ASSUME NEW key
  PROVE  /\ ctrl_find(key) = "live" => CtrlAt(key) # {}
         /\ CtrlOK /\ ctrl_find(key) = "not_exist" => CtrlAt(key) = {}
<1>1. ctrl_find(key) = "live" => CtrlAt(key) # {}
  BY DEF ctrl_find
<1>2. ASSUME CtrlOK, ctrl_find(key) = "not_exist", CtrlAt(key) # {} PROVE FALSE
  <2>1. First(CtrlAt(key)) \in CtrlAt(key) /\ CtrlAt(key) \subseteq Name
    BY <1>2, FirstIn DEF CtrlAt
  <2>2. ctrl[First(CtrlAt(key))] \in [state : {"live", "fault"}, key : Device]
    BY <1>2, <2>1 DEF CtrlAt, CtrlOK
  <2>3. ctrl[First(CtrlAt(key))].state = "not_exist"
    BY <1>2 DEF ctrl_find
  <2>4. QED BY <2>2, <2>3
<1>3. QED BY <1>1, <1>2
-----------------------------------------------------------------------------
(* The handlers, one by one: snsd_nvme_connect ...                         *)
LEMMA ConnectMoves ==
  ASSUME PeonInv, CtrlOK, NEW i \in DOMAIN proc["CONNECT"],
         disc_get_subsysnqn(i) \/ connect_find(i) \/ connect_verify(i)
  PROVE  Moves("CONNECT", i) /\ UNCHANGED ctrl
<1> DEFINE key == proc["CONNECT"][i].key
<1>0. "CONNECT" \in Peon /\ Cur("CONNECT", i) \in Ctx
  BY CurTyped DEF Peon, StaticPeon
<1>1. UNCHANGED ctrl
  BY DEF disc_get_subsysnqn, connect_find, connect_verify, kernel
<1> SUFFICES Moves("CONNECT", i)
  BY <1>1
<1>2. ASSUME NEW a \in Place, Goto("CONNECT", i, a), a = "create" => CtrlAt(key) = {}
      PROVE  Moves("CONNECT", i)
  BY <1>0, <1>2, GotoMoves
<1>3. ASSUME Connected(i, key), ctrl_find(key) = "live" PROVE Moves("CONNECT", i)
  <2>1. CtrlAt(key) # {}
    BY <1>3, FoundThere
  <2>2. QED BY <1>0, <1>3, <2>1, FoundMoves DEF Connected
<1>4. CASE disc_get_subsysnqn(i)
  <2>1. CASE handle("CONNECT", i, [Cur("CONNECT", i) EXCEPT !.at = "find", !.nqn = TRUE])
    <3> DEFINE c == [Cur("CONNECT", i) EXCEPT !.at = "find", !.nqn = TRUE]
    <3>1. c \in Ctx /\ c.at = "find"
      BY <1>0, ContextAssumption DEF ConnCtx
    <3>2. handle("CONNECT", i, c)
      BY <2>1
    <3> HIDE DEF c
    <3>3. QED BY <3>1, <3>2 DEF Moves
  <2>2. CASE Goto("CONNECT", i, "fail")
    BY <1>2, <2>2 DEF Place
  <2>3. QED BY <1>4, <2>1, <2>2 DEF disc_get_subsysnqn
<1>5. CASE connect_find(i)
  <2>1. CASE ctrl_find(key) = "not_exist" /\ Goto("CONNECT", i, "create")
    <3>1. CtrlAt(key) = {}
      BY <2>1, FoundThere
    <3>2. QED BY <1>2, <2>1, <3>1 DEF Place
  <2>2. CASE Goto("CONNECT", i, "fail")
    BY <1>2, <2>2 DEF Place
  <2>3. QED BY <1>3, <1>5, <2>1, <2>2 DEF connect_find
<1>6. CASE connect_verify(i)
  <2>1. CASE Goto("CONNECT", i, "fail")
    BY <1>2, <2>1 DEF Place
  <2>2. QED BY <1>3, <1>6, <2>1 DEF connect_verify
<1>7. QED BY <1>4, <1>5, <1>6

(* ... which alone creates a controller, and then goes on to look for it,  *)
(* or fails.                                                               *)
Created(i) ==
  LET free == {n \in Name : ctrl[n] = NoCtrl}
  IN  /\ Cur("CONNECT", i).at = "create"
      /\ free # {}
      /\ ctrl' = [ctrl EXCEPT ![First(free)] =
                    [state |-> "live", key |-> Address(proc["CONNECT"][i].key)]]

LEMMA CreateMoves ==
  ASSUME PeonInv, NEW i \in DOMAIN proc["CONNECT"], connect_create(i)
  PROVE  \/ Moves("CONNECT", i) /\ UNCHANGED ctrl
         \/ /\ Created(i)
            /\ \E c \in Ctx : handle("CONNECT", i, c) /\ c.at \in {"verify", "fail"}
<1>0. "CONNECT" \in Peon /\ Cur("CONNECT", i) \in Ctx
  BY CurTyped DEF Peon, StaticPeon
<1>1. CASE Goto("CONNECT", i, "fail") /\ UNCHANGED ctrl
  BY <1>0, <1>1, GotoMoves DEF Place
<1>2. ASSUME NEW a \in {"verify", "fail"}, Created(i), Goto("CONNECT", i, a)
      PROVE  /\ Created(i)
             /\ \E c \in Ctx : handle("CONNECT", i, c) /\ c.at \in {"verify", "fail"}
  <2> DEFINE c == [Cur("CONNECT", i) EXCEPT !.at = a]
  <2>0. a \in Place
    BY DEF Place
  <2>1. c \in Ctx /\ c.at = a
    BY <1>0, <2>0, CtxFields
  <2>2. handle("CONNECT", i, c)
    BY <1>2 DEF Goto
  <2> HIDE DEF c
  <2>3. QED BY <1>2, <2>1, <2>2
<1>3. QED BY <1>1, <1>2 DEF connect_create, Created

(* A keep alive that fails takes the controller it went to down.           *)
LEMMA KeepAliveKeeps ==
  ASSUME CtrlOK, NEW n, ctrl[n].state = "live", KeepAliveFails(n)
  PROVE  CtrlOK' /\ NoneCreated
<1>1. ctrl' = [ctrl EXCEPT ![n].state = "fault"]
  BY DEF KeepAliveFails
<1>2. CASE n \notin Name
  <2>1. ctrl' = ctrl
    BY <1>1, <1>2 DEF CtrlOK
  <2>2. QED BY <2>1 DEF CtrlOK, NoneCreated
<1>3. CASE n \in Name
  <2>1. ctrl[n] \in [state : {"live", "fault"}, key : Device] /\ ctrl[n] # NoCtrl
    BY <1>3 DEF CtrlOK, NoCtrl
  <2> DEFINE r == [ctrl[n] EXCEPT !.state = "fault"]
  <2>2. r \in [state : {"live", "fault"}, key : Device] /\ r.key = ctrl[n].key
    BY <2>1
  <2>3. ctrl' = [ctrl EXCEPT ![n] = r]
    BY <1>1
  <2> HIDE DEF r
  <2>4. ctrl'[n] = r /\ \A m \in Name : m # n => ctrl'[m] = ctrl[m]
    BY <1>3, <2>3 DEF CtrlOK
  <2>5. QED BY <2>1, <2>2, <2>3, <2>4 DEF CtrlOK, NoneCreated
<1>4. QED BY <1>2, <1>3

(* A controller is removed.                                                *)
LEMMA RemoveKeeps ==
  ASSUME CtrlOK, NEW n, ctrl' = [ctrl EXCEPT ![n] = NoCtrl]
  PROVE  CtrlOK' /\ NoneCreated
BY DEF CtrlOK, NoneCreated

LEMMA SameKeeps ==
  ASSUME CtrlOK, UNCHANGED ctrl
  PROVE  CtrlOK' /\ NoneCreated
BY DEF CtrlOK, NoneCreated

(* snsd_nvme_disconnect.                                                   *)
LEMMA DisconnectMoves ==
  ASSUME PeonInv, CtrlOK, NEW pe \in {"DISCONN"} \cup DynPeon, NEW i \in DOMAIN proc[pe],
         \/ disconnect_find(pe, i) \/ keep_alive(pe, i) \/ disconnect_check(pe, i)
         \/ ctrl_remove(pe, i) \/ retry_keep_alive(pe, i)
  PROVE  Moves(pe, i) /\ CtrlOK' /\ NoneCreated
<1>0. pe \in Peon /\ Cur(pe, i) \in Ctx
  BY CurTyped DEF Peon, StaticPeon
<1>1. ASSUME NEW a \in Place \ {"fail", "create"}, Goto(pe, i, a) PROVE Moves(pe, i)
  BY <1>0, <1>1, GotoMoves
<1>2. CASE disconnect_find(pe, i)
  <2> DEFINE key == proc[pe][i].key
             c == [Cur(pe, i) EXCEPT !.at = "alive", !.dname = First(CtrlAt(key))]
  <2>1. UNCHANGED ctrl /\ ((ctrl_find(key) = "live" /\ handle(pe, i, c)) \/ Goto(pe, i, "done"))
    BY <1>2 DEF disconnect_find
  <2>2. CASE ctrl_find(key) = "live" /\ handle(pe, i, c)
    <3>1. CtrlAt(key) # {}
      BY <2>2, FoundThere
    <3>2. Moves(pe, i)
      BY <1>0, <2>2, <3>1, FoundMoves
    <3>3. QED BY <2>1, <3>2, SameKeeps
  <2>3. CASE Goto(pe, i, "done")
    <3>1. Moves(pe, i)
      BY <1>1, <2>3 DEF Place
    <3>2. QED BY <2>1, <3>1, SameKeeps
  <2>4. QED BY <2>1, <2>2, <2>3
<1>3. CASE keep_alive(pe, i)
  <2>1. Goto(pe, i, "alive_ok") \/ Goto(pe, i, "alive_err")
    BY <1>3 DEF keep_alive
  <2>2. Moves(pe, i)
    BY <1>1, <2>1 DEF Place
  <2>3. UNCHANGED ctrl \/ (ctrl[Cur(pe, i).dname].state = "live" /\ KeepAliveFails(Cur(pe, i).dname))
    BY <1>3 DEF keep_alive, kernel
  <2>4. QED BY <2>2, <2>3, SameKeeps, KeepAliveKeeps
<1>4. CASE disconnect_check(pe, i)
  <2>1. UNCHANGED ctrl /\ (Goto(pe, i, "remove") \/ Goto(pe, i, "retry") \/ Goto(pe, i, "done"))
    BY <1>4 DEF disconnect_check, Spared
  <2>2. Moves(pe, i)
    BY <1>1, <2>1 DEF Place
  <2>3. QED BY <2>1, <2>2, SameKeeps
<1>5. CASE ctrl_remove(pe, i)
  <2>1. Goto(pe, i, "done")
    BY <1>5 DEF ctrl_remove
  <2>2. Moves(pe, i)
    BY <1>1, <2>1 DEF Place
  <2>3. ctrl' = [ctrl EXCEPT ![Cur(pe, i).dname] = NoCtrl] \/ UNCHANGED ctrl
    BY <1>5 DEF ctrl_remove
  <2>4. QED BY <2>2, <2>3, RemoveKeeps, SameKeeps
<1>6. CASE retry_keep_alive(pe, i)
  <2>1. Goto(pe, i, "done")
    BY <1>6 DEF retry_keep_alive
  <2>2. Moves(pe, i)
    BY <1>1, <2>1 DEF Place
  <2>3. UNCHANGED ctrl \/ (ctrl[Cur(pe, i).dname].state = "live" /\ KeepAliveFails(Cur(pe, i).dname))
    BY <1>6 DEF retry_keep_alive, kernel
  <2>4. QED BY <2>2, <2>3, SameKeeps, KeepAliveKeeps
<1>7. QED BY <1>2, <1>3, <1>4, <1>5, <1>6

(* snsd_nvme_disconnect_batch, which fails never and creates nothing.      *)
LEMMA BatchMoves ==
  ASSUME PeonInv, NEW i \in DOMAIN proc["DCBATCH"],
         batch_scandir(i) \/ batch_skip(i) \/ batch_end(i)
  PROVE  Moves("DCBATCH", i) /\ UNCHANGED ctrl
<1>0. "DCBATCH" \in Peon /\ Cur("DCBATCH", i) \in Ctx
  BY CurTyped DEF Peon, StaticPeon
<1>1. UNCHANGED ctrl
  BY DEF batch_scandir, batch_skip, batch_end, kernel
<1> SUFFICES Moves("DCBATCH", i)
  BY <1>1
<1>2. CASE Goto("DCBATCH", i, "done")
  BY <1>0, <1>2, GotoMoves DEF Place
<1>3. CASE batch_scandir(i)
  <2>1. CASE handle("DCBATCH", i, [Cur("DCBATCH", i) EXCEPT
                     !.at = "list", !.todo = {n \in Name : ctrl[n] # NoCtrl}])
    <3> DEFINE T == {n \in Name : ctrl[n] # NoCtrl}
               c == [Cur("DCBATCH", i) EXCEPT !.at = "list", !.todo = T]
    <3>1. T \in SUBSET Name
      OBVIOUS
    <3>2. handle("DCBATCH", i, c)
      BY <2>1
    <3> HIDE DEF T
    <3>3. c \in Ctx /\ c.at = "list"
      BY <1>0, <3>1, ContextAssumption DEF ConnCtx
    <3> HIDE DEF c
    <3>4. QED BY <3>2, <3>3 DEF Moves
  <2>2. QED BY <1>2, <1>3, <2>1 DEF batch_scandir
<1>4. CASE batch_skip(i)
  <2>1. handle("DCBATCH", i, Visited(i)) /\ Cur("DCBATCH", i).at = "list"
    BY <1>4 DEF batch_skip
  <2>2. Visited(i) \in Ctx /\ Visited(i).at = Cur("DCBATCH", i).at
    BY <1>0, ContextAssumption DEF Visited, ConnCtx
  <2>3. QED BY <2>1, <2>2 DEF Moves
<1>5. QED BY <1>2, <1>3, <1>4 DEF batch_end

(* All of them.                                                            *)
LEMMA HandlerMoves ==
  ASSUME PeonInv, CtrlOK, HandlerStep
  PROVE  \/ \E pe \in Peon : \E i \in DOMAIN proc[pe] : Moves(pe, i) /\ CtrlOK' /\ NoneCreated
         \/ \E i \in DOMAIN proc["CONNECT"] :
              Created(i) /\ \E c \in Ctx : handle("CONNECT", i, c) /\ c.at \in {"verify", "fail"}
<1>0. {"CONNECT", "DISCONN", "DCBATCH"} \cup DynPeon \subseteq Peon
  BY DEF Peon, StaticPeon
<1>1. CASE \E i \in DOMAIN proc["CONNECT"] :
              disc_get_subsysnqn(i) \/ connect_find(i) \/ connect_verify(i)
  <2>1. PICK i \in DOMAIN proc["CONNECT"] : Moves("CONNECT", i) /\ UNCHANGED ctrl
    BY <1>1, ConnectMoves
  <2>2. QED BY <1>0, <2>1, SameKeeps
<1>2. CASE \E i \in DOMAIN proc["CONNECT"] : connect_create(i)
  <2>1. PICK i \in DOMAIN proc["CONNECT"] :
          \/ Moves("CONNECT", i) /\ UNCHANGED ctrl
          \/ Created(i) /\ \E c \in Ctx : handle("CONNECT", i, c) /\ c.at \in {"verify", "fail"}
    BY <1>2, CreateMoves
  <2>2. QED BY <1>0, <2>1, SameKeeps
<1>3. CASE \E pe \in {"DISCONN"} \cup DynPeon : \E i \in DOMAIN proc[pe] :
       \/ disconnect_find(pe, i) \/ keep_alive(pe, i) \/ disconnect_check(pe, i)
       \/ ctrl_remove(pe, i) \/ retry_keep_alive(pe, i)
  <2>1. PICK pe \in {"DISCONN"} \cup DynPeon : \E i \in DOMAIN proc[pe] :
          \/ disconnect_find(pe, i) \/ keep_alive(pe, i) \/ disconnect_check(pe, i)
          \/ ctrl_remove(pe, i) \/ retry_keep_alive(pe, i)
    BY <1>3
  <2>2. \E i \in DOMAIN proc[pe] : Moves(pe, i) /\ CtrlOK' /\ NoneCreated
    BY <2>1, DisconnectMoves
  <2>3. QED BY <1>0, <2>2
<1>4. CASE \E i \in DOMAIN proc["DCBATCH"] : batch_scandir(i) \/ batch_skip(i) \/ batch_end(i)
  <2>1. PICK i \in DOMAIN proc["DCBATCH"] : Moves("DCBATCH", i) /\ UNCHANGED ctrl
    BY <1>4, BatchMoves
  <2>2. QED BY <1>0, <2>1, SameKeeps
<1>5. QED BY <1>1, <1>2, <1>3, <1>4 DEF HandlerStep
-----------------------------------------------------------------------------
(* The address of a device is that of a device.                            *)
LEMMA AddressTyped ==
  ASSUME NEW d \in Device
  PROVE  Address(d) \in Device
<1>1. SNSD_NVME_RDMA_TRSVCID \in Portid
  BY ConnectAssumption
<1>2. QED BY <1>1 DEF Address, Device

(* The controller that is made has a free name and the task's address.     *)
LEMMA CreatedKeeps ==
  ASSUME PeonInv, CtrlOK, NEW i \in DOMAIN proc["CONNECT"], Created(i)
  PROVE  /\ CtrlOK'
         /\ \E n \in Name :
              /\ ctrl[n] = NoCtrl /\ ctrl'[n] # NoCtrl
              /\ ctrl'[n].key = Address(proc["CONNECT"][i].key)
              /\ \A m \in Name : m # n => ctrl'[m] = ctrl[m]
<1> DEFINE key == proc["CONNECT"][i].key
           free == {n \in Name : ctrl[n] = NoCtrl}
           new == [state |-> "live", key |-> Address(key)]
<1>1. key \in Device
  <2>1. "CONNECT" \in Peon /\ proc["CONNECT"][i] \in Listed("CONNECT")
    BY CurTyped DEF Peon, StaticPeon, Listed
  <2>2. QED BY <2>1 DEF PeonInv, KeysOK
<1>2. free # {} /\ ctrl' = [ctrl EXCEPT ![First(free)] = new]
  BY DEF Created
<1>3. First(free) \in Name /\ ctrl[First(free)] = NoCtrl
  <2>1. First(free) \in free
    BY <1>2, FirstIn
  <2>2. QED BY <2>1
<1>4. new \in [state : {"live", "fault"}, key : Device] /\ new.key = Address(key) /\ new # NoCtrl
  BY <1>1, AddressTyped DEF NoCtrl
<1> HIDE DEF new, key
<1>5. PICK n \in Name : n = First(free) /\ ctrl[n] = NoCtrl
  BY <1>3
<1>6. ctrl' = [ctrl EXCEPT ![n] = new]
  BY <1>2, <1>5
<1>7. CtrlOK'
  BY <1>4, <1>6 DEF CtrlOK
<1>8. ctrl'[n] = new /\ \A m \in Name : m # n => ctrl'[m] = ctrl[m]
  BY <1>6 DEF CtrlOK
<1>9. QED BY <1>4, <1>5, <1>7, <1>8 DEF key

(* The steps of the handlers other than their own moves.                   *)

(* A batch inherits a disconnect of the device behind the name it visits.  *)
LEMMA InheritForm ==
  ASSUME PeonInv, CtrlOK, NEW i \in DOMAIN proc["DCBATCH"], batch_inherit(i)
  PROVE  \E d \in Device : \E c \in Ctx :
           peon_add_disconn_task_inherit(i, d, c) /\ c.at = "list"
<1>0. "DCBATCH" \in Peon /\ Cur("DCBATCH", i) \in Ctx
  BY CurTyped DEF Peon, StaticPeon
<1>1. /\ Cur("DCBATCH", i).todo # {} /\ ctrl[NextName(i)] # NoCtrl
      /\ Cur("DCBATCH", i).at = "list"
      /\ peon_add_disconn_task_inherit(i, ctrl[NextName(i)].key, Visited(i))
  BY DEF batch_inherit
<1>2. NextName(i) \in Name
  <2>1. Cur("DCBATCH", i).todo \in SUBSET Name
    BY <1>0, CtxFields
  <2>2. QED BY <1>1, <2>1, FirstIn DEF NextName
<1>3. ctrl[NextName(i)].key \in Device
  BY <1>1, <1>2 DEF CtrlOK
<1>4. Visited(i) \in Ctx /\ Visited(i).at = Cur("DCBATCH", i).at
  BY <1>0, ContextAssumption DEF Visited, ConnCtx
<1>5. QED BY <1>1, <1>3, <1>4

(* A handler that returned is completed, and may have failed in a connect. *)
LEMMA CompleteForm ==
  ASSUME PeonInv, FailOK, NEW pe \in Peon, NEW i \in DOMAIN proc[pe], complete(pe, i)
  PROVE  \E c \in Ctx : \E failed \in CanFail(pe) :
           peon_task_complete(pe, i, failed, c) /\ c.at = "start"
<1> DEFINE c == [Cur(pe, i) EXCEPT !.at = "start"]
           failed == Cur(pe, i).at = "fail"
<1>1. Cur(pe, i) \in Ctx /\ proc[pe][i] \in ToSet(proc[pe])
  BY CurTyped
<1>2. c \in Ctx /\ c.at = "start"
  BY <1>1, ContextAssumption DEF ConnCtx
<1>3. failed \in CanFail(pe)
  <2>1. CASE pe = "CONNECT"
    BY <2>1 DEF CanFail
  <2>2. CASE pe # "CONNECT"
    <3>1. failed = FALSE
      BY <1>1, <2>2 DEF FailOK, Cur
    <3>2. QED BY <2>2, <3>1 DEF CanFail
  <2>3. QED BY <2>1, <2>2
<1>4. peon_task_complete(pe, i, failed, c)
  BY DEF complete
<1> HIDE DEF c, failed
<1>5. QED BY <1>2, <1>3, <1>4

(* The recheck finds the controller, or gives up its name.                 *)
LEMMA RecheckForm ==
  ASSUME PeonInv, StartOK, nvme_recheck
  PROVE  recheck_present \/ \E c \in Ctx : recheck_gone(c) /\ c.at = "start"
<1> DEFINE c == [Rechecked.ctx EXCEPT !.dname = 0]
<1>1. Scanning("RECHECK") /\ (recheck_present \/ recheck_gone(c))
  BY DEF nvme_recheck
<1>2. Rechecked \in Task /\ Rechecked \in ToSet(wait["RECHECK"])
  BY <1>1, CursorInList DEF Rechecked, Peon, StaticPeon
<1>3. Rechecked.ctx \in Ctx /\ Rechecked.ctx.at = "start"
  BY <1>2 DEF Task, StartOK, Peon, StaticPeon
<1>4. c \in Ctx /\ c.at = "start"
  BY <1>3, ContextAssumption DEF ConnCtx
<1> HIDE DEF c
<1>5. QED BY <1>1, <1>4
-----------------------------------------------------------------------------
(* A connect about to create after a step was so before, or found nothing. *)
CreateFrom ==
  \A u \in ToSet(proc'["CONNECT"]) : u.ctx.at = "create" =>
    \/ CtrlAt(u.key) = {}
    \/ \E t \in ToSet(proc["CONNECT"]) : t.key = u.key /\ t.ctx.at = "create"

LEMMA RunsOnKeeps ==
  ASSUME FailOK, RunsOn
  PROVE  FailOK' /\ CreateFrom
BY DEF FailOK, RunsOn, CreateFrom, Peon, StaticPeon

(* A handler's move, as the lists see it.                                  *)
LEMMA MoveKeeps ==
  ASSUME PeonInv, PeonInv', ConnectInv, NEW pe \in Peon, NEW i \in DOMAIN proc[pe],
         NEW c \in Ctx, handle(pe, i, c), c.at = "fail" => pe = "CONNECT",
         c.at = "create" => CtrlAt(proc[pe][i].key) = {}
  PROVE  StartOK' /\ WorkersOK' /\ FailOK' /\ CreateFrom
<1>1. proc' = [proc EXCEPT ![pe][i].ctx = c] /\ UNCHANGED <<wait, lock, adding>>
  BY DEF handle
<1>2. /\ \A p \in Peon : Len(proc'[p]) <= Len(proc[p])
      /\ \A p \in Peon : p # pe => proc'[p] = proc[p]
      /\ \A u \in ToSet(proc'[pe]) :
           \/ \E j \in 1 .. Len(proc[pe]) : j # i /\ u = proc[pe][j]
           \/ u.key = proc[pe][i].key /\ u.ctx = c
  BY <1>1, HandledRuns, ZenonT(30)
<1>3. StartOK' /\ WorkersOK'
  BY <1>1, <1>2, WorkersStay DEF ConnectInv, StartOK
<1>4. \A u \in ToSet(proc'[pe]) :
        u \in ToSet(proc[pe]) \/ (u.key = proc[pe][i].key /\ u.ctx = c)
  <2>1. proc[pe] \in Seq(Task)
    BY CurTyped
  <2>2. \A j \in 1 .. Len(proc[pe]) : proc[pe][j] \in ToSet(proc[pe])
    BY <2>1, InToSet
  <2>3. QED BY <1>2, <2>2
<1>5. FailOK'
  BY <1>2, <1>4 DEF ConnectInv, FailOK
<1>6. CreateFrom
  BY <1>2, <1>4 DEF CreateFrom, Peon, StaticPeon
<1>7. QED BY <1>3, <1>5, <1>6

(* A batch queues a disconnect and goes on.                                *)
LEMMA InheritKeeps ==
  ASSUME PeonInv, PeonInv', ConnectInv, NEW i \in DOMAIN proc["DCBATCH"],
         NEW d \in Device, NEW c \in Ctx, c.at = "list", peon_add_disconn_task_inherit(i, d, c)
  PROVE  StartOK' /\ WorkersOK' /\ FailOK' /\ CreateFrom
<1> DEFINE t == NewTask(d, FALSE, proc["DCBATCH"][i].sn)
<1>0. {"CONNECT", "DISCONN", "DCBATCH"} \subseteq Peon /\ StartOK /\ FailOK /\ WorkersOK
  BY DEF Peon, StaticPeon, ConnectInv
<1>1. /\ Queue("DISCONN", t) /\ proc' = [proc EXCEPT !["DCBATCH"][i].ctx = c]
      /\ UNCHANGED adding
  BY DEF peon_add_disconn_task_inherit
<1>2. t \in Task /\ t.ctx.at = "start"
  <2>1. proc["DCBATCH"][i].sn \in Nat
    BY <1>0, CurTyped DEF Task
  <2>2. CtxInit \in Ctx /\ CtxInit.at = "start"
    BY ConstantsAssumption, ContextAssumption DEF ConnCtxInit
  <2>3. 0 \in 0 .. MaxAge /\ 0 \in 0 .. PEON_FAIL_RETRY_INTERVAL
    BY ConstantsAssumption DEF MaxAge
  <2>4. QED BY <2>1, <2>2, <2>3 DEF NewTask, Task
<1> HIDE DEF t
<1>3. /\ \A p \in Peon : \A u \in ToSet(wait'[p]) : u.ctx.at = "start"
      /\ lock'.owner = lock.owner \/ lock'.owner \notin Peon
  BY <1>0, <1>1, <1>2, QueueStep
<1>4. /\ \A p \in Peon : Len(proc'[p]) <= Len(proc[p])
      /\ \A p \in Peon : p # "DCBATCH" => proc'[p] = proc[p]
      /\ \A u \in ToSet(proc'["DCBATCH"]) :
           \/ \E j \in 1 .. Len(proc["DCBATCH"]) : j # i /\ u = proc["DCBATCH"][j]
           \/ u.key = proc["DCBATCH"][i].key /\ u.ctx = c
  BY <1>0, <1>1, HandledRuns, ZenonT(30)
<1>5. StartOK' /\ WorkersOK'
  BY <1>0, <1>1, <1>3, <1>4, WorkersStay DEF StartOK
<1>6. \A u \in ToSet(proc'["DCBATCH"]) : u.ctx.at # "fail"
  <2>1. \A j \in 1 .. Len(proc["DCBATCH"]) : proc["DCBATCH"][j] \in ToSet(proc["DCBATCH"])
    BY <1>0, CurTyped, InToSet
  <2>2. QED BY <1>0, <1>4, <2>1 DEF FailOK
<1>7. FailOK' /\ CreateFrom
  BY <1>0, <1>4, <1>6 DEF FailOK, CreateFrom
<1>8. QED BY <1>5, <1>7

(* A handler's task is freed, or kept at its start.                        *)
LEMMA CompleteKeeps ==
  ASSUME PeonInv, PeonInv', ConnectInv, NEW pe \in Peon, NEW i \in DOMAIN proc[pe],
         NEW c \in Ctx, c.at = "start", NEW failed, peon_task_complete(pe, i, failed, c)
  PROVE  StartOK' /\ WorkersOK' /\ FailOK' /\ CreateFrom
<1> DEFINE t == proc[pe][i]
           again == [t EXCEPT !.backoff = PEON_FAIL_RETRY_INTERVAL, !.ctx = c]
           watch == [t EXCEPT !.sn = 0, !.ctx = c]
<1>0. /\ wait \in [Peon -> Seq(Task)] /\ proc \in [Peon -> Seq(Task)]
      /\ StartOK /\ FailOK /\ WorkersOK /\ "RECHECK" \in Peon
  BY DEF PeonInv, TypeOK, ConnectInv, Peon, StaticPeon
<1>1. /\ proc' = [proc EXCEPT ![pe] = RemoveAt(proc[pe], i)] /\ UNCHANGED <<lock, adding>>
      /\ \/ wait' = [wait EXCEPT ![pe] = Append(wait[pe], again)]
         \/ wait' = [wait EXCEPT !["RECHECK"] = Append(wait["RECHECK"], watch)]
         \/ wait' = wait
  BY DEF peon_task_complete, peon_move_task_to_recheck
<1>2. proc[pe] \in Seq(Task) /\ i \in 1 .. Len(proc[pe]) /\ t \in Task
  BY CurTyped
<1>3. /\ again \in Task /\ again.ctx = c
      /\ watch \in Task /\ watch.ctx = c
  <2>1. PEON_FAIL_RETRY_INTERVAL \in 0 .. PEON_FAIL_RETRY_INTERVAL
    BY ConstantsAssumption
  <2> HIDE DEF t
  <2>2. QED BY <1>2, <2>1 DEF Task
<1> HIDE DEF t, again, watch
<1>4. /\ ToSet(RemoveAt(proc[pe], i)) \subseteq ToSet(proc[pe])
      /\ Len(RemoveAt(proc[pe], i)) = Len(proc[pe]) - 1
  BY <1>2, RemoveAtProperties
<1>5. /\ \A p \in Peon : ToSet(proc'[p]) \subseteq ToSet(proc[p])
      /\ \A p \in Peon : Len(proc'[p]) <= Len(proc[p])
  <2>1. \A p \in Peon : Len(proc[p]) \in Nat
    BY <1>0, ListDomain
  <2>2. QED BY <1>0, <1>1, <1>4, <2>1
<1>6. \A p \in Peon : \A u \in ToSet(wait'[p]) : u.ctx.at = "start"
  <2>1. /\ ToSet(Append(wait[pe], again)) = ToSet(wait[pe]) \cup {again}
        /\ ToSet(Append(wait["RECHECK"], watch)) = ToSet(wait["RECHECK"]) \cup {watch}
    BY <1>0, <1>3, AppendedProperties
  <2>2. QED BY <1>0, <1>1, <1>3, <2>1 DEF StartOK
<1>7. StartOK' /\ WorkersOK'
  BY <1>0, <1>1, <1>5, <1>6, WorkersStay DEF StartOK
<1>8. RunsOn
  BY <1>5 DEF RunsOn
<1>9. QED BY <1>0, <1>7, <1>8, RunsOnKeeps

(* A task is revived, or stays where it is.                                *)
LEMMA RecheckKeeps ==
  ASSUME PeonInv, PeonInv', ConnectInv,
         recheck_present \/ \E c \in Ctx : recheck_gone(c) /\ c.at = "start"
  PROVE  StartOK' /\ WorkersOK' /\ FailOK' /\ CreateFrom
<1>0. /\ wait \in [Peon -> Seq(Task)] /\ lock \in [owner : Peon \cup {"free", "stuck"}, at : Nat]
      /\ \A p \in Peon : Len(proc[p]) \in Nat
      /\ StartOK /\ FailOK /\ WorkersOK /\ "RECHECK" \in Peon /\ "CONNECT" \in Peon
  BY ListDomain DEF PeonInv, TypeOK, ConnectInv, Peon, StaticPeon
<1>1. proc' = proc /\ adding' = adding /\ lock'.owner = lock.owner
  BY <1>0 DEF recheck_present, recheck_gone, lists
<1>2. WorkersOK' /\ RunsOn
  BY <1>0, <1>1, WorkersStay DEF RunsOn
<1>3. CASE recheck_present
  <2>1. wait' = wait
    BY <1>3 DEF recheck_present, lists
  <2>2. QED BY <1>0, <1>1, <1>2, <2>1, RunsOnKeeps DEF StartOK
<1>4. CASE \E c \in Ctx : recheck_gone(c) /\ c.at = "start"
  <2>1. PICK c \in Ctx : recheck_gone(c) /\ c.at = "start"
    BY <1>4
  <2> DEFINE old == wait["RECHECK"][lock.at]
             new == [old EXCEPT !.sn = sn + 1, !.age = 0, !.backoff = 0, !.ctx = c]
  <2>2. /\ Scanning("RECHECK")
        /\ wait' = [wait EXCEPT !["RECHECK"] = RemoveAt(wait["RECHECK"], lock.at),
                                !["CONNECT"] = Append(wait["CONNECT"], new)]
    <3>1. [wait EXCEPT !["RECHECK"] = RemoveAt(@, lock.at), !["CONNECT"] = Append(@, new)]
          = [wait EXCEPT !["RECHECK"] = RemoveAt(wait["RECHECK"], lock.at),
                         !["CONNECT"] = Append(wait["CONNECT"], new)]
      BY <1>0
    <3>2. QED BY <2>1, <3>1 DEF recheck_gone
  <2>3. lock.at \in 1 .. Len(wait["RECHECK"]) /\ old \in Task
    BY <1>0, <2>2, CursorInList
  <2>4. new \in Task /\ new.ctx = c
    <3>1. 0 \in 0 .. MaxAge /\ 0 \in 0 .. PEON_FAIL_RETRY_INTERVAL
      BY ConstantsAssumption DEF MaxAge
    <3>2. sn + 1 \in Nat
      BY DEF PeonInv, TypeOK
    <3> HIDE DEF old
    <3>3. QED BY <2>3, <3>1, <3>2 DEF Task
  <2> HIDE DEF new, old
  <2>5. /\ ToSet(Append(wait["CONNECT"], new)) = ToSet(wait["CONNECT"]) \cup {new}
        /\ ToSet(RemoveAt(wait["RECHECK"], lock.at)) \subseteq ToSet(wait["RECHECK"])
    BY <1>0, <2>3, <2>4, AppendedProperties, RemoveAtProperties
  <2>6. StartOK'
    BY <1>0, <1>1, <2>1, <2>2, <2>4, <2>5 DEF StartOK
  <2>7. QED BY <1>0, <1>2, <2>6, RunsOnKeeps
<1>5. QED BY <1>3, <1>4
-----------------------------------------------------------------------------
(* A step of the engine, of a handler or of the kernel; an engine step may *)
(* count as a failure.                                                     *)
Step ==
  \/ (Worker \/ \E c \in Caller : CallerStep(c)) /\ UNCHANGED ctrl
  \/ Handlers \/ Kernel

(* Every step, with the engine's variables alone in view, is one of Peon.  *)
LEMMA EngineUsed ==
  ASSUME PeonInv, ConnectInv, Step
  PROVE  [Next]_vars
<1>0. {"CONNECT", "DISCONN", "DCBATCH"} \cup DynPeon \subseteq Peon /\ CtrlOK /\ FailOK /\ StartOK
  BY DEF Peon, StaticPeon, ConnectInv
<1>1. CASE Worker \/ \E c \in Caller : CallerStep(c)
  BY <1>1 DEF Worker, CallerStep, Next
<1>2. CASE HandlerStep
  <2>1. \E pe \in Peon : \E i \in DOMAIN proc[pe] : \E c \in Ctx : handle(pe, i, c)
    BY <1>0, <1>2, HandlerMoves DEF Moves
  <2>2. QED BY <2>1 DEF Next
<1>3. CASE \E i \in DOMAIN proc["DCBATCH"] : batch_inherit(i)
  BY <1>0, <1>3, InheritForm DEF Next
<1>4. CASE \E pe \in Peon : \E i \in DOMAIN proc[pe] : complete(pe, i)
  BY <1>0, <1>4, CompleteForm DEF Next
<1>5. CASE nvme_recheck
  BY <1>0, <1>5, RecheckForm DEF Next
<1>6. CASE Kernel
  BY <1>6 DEF Kernel, path_lost, path_back, ctrl_loss
<1>7. QED BY <1>1, <1>2, <1>3, <1>4, <1>5, <1>6 DEF Step, Handlers

(* The kernel loses, recovers or removes a controller.                     *)
LEMMA KernelKeeps ==
  ASSUME CtrlOK, Kernel
  PROVE  CtrlOK' /\ NoneCreated /\ UNCHANGED vars
<1>1. PICK n \in Name : path_lost(n) \/ path_back(n) \/ ctrl_loss(n)
  BY DEF Kernel
<1>2. UNCHANGED vars
  BY <1>1 DEF path_lost, path_back, ctrl_loss
<1>3. CASE path_lost(n)
  BY <1>2, <1>3, KeepAliveKeeps DEF path_lost
<1>4. CASE path_back(n)
  <2> DEFINE r == [ctrl[n] EXCEPT !.state = "live"]
  <2>1. ctrl' = [ctrl EXCEPT ![n] = r] /\ ctrl[n].state = "fault"
    BY <1>4 DEF path_back
  <2>2. ctrl[n] \in [state : {"live", "fault"}, key : Device] /\ ctrl[n] # NoCtrl
    BY <2>1 DEF CtrlOK, NoCtrl
  <2>3. r \in [state : {"live", "fault"}, key : Device] /\ r.key = ctrl[n].key
    BY <2>2
  <2> HIDE DEF r
  <2>4. ctrl'[n] = r /\ \A m \in Name : m # n => ctrl'[m] = ctrl[m]
    BY <2>1 DEF CtrlOK
  <2>5. QED BY <1>2, <2>1, <2>2, <2>3, <2>4 DEF CtrlOK, NoneCreated
<1>5. CASE ctrl_loss(n)
  BY <1>2, <1>5, RemoveKeeps DEF ctrl_loss
<1>6. QED BY <1>1, <1>3, <1>4, <1>5

(* Every step keeps the invariant, and creates a controller only where a   *)
(* connect is about to.                                                    *)
LEMMA StepKeeps ==
  ASSUME PeonInv, PeonInv', ConnectInv, Step
  PROVE  /\ ConnectInv'
         /\ \/ CreateFrom /\ NoneCreated
            \/ \E i \in DOMAIN proc["CONNECT"] :
                 Created(i) /\ \E c \in Ctx : handle("CONNECT", i, c) /\ c.at \in {"verify", "fail"}
<1>0. StartOK /\ WorkersOK /\ CtrlOK /\ FailOK /\ "CONNECT" \in Peon
  BY DEF ConnectInv, Peon, StaticPeon
<1>1. ASSUME StartOK', WorkersOK', FailOK', CreateFrom, CtrlOK', NoneCreated
      PROVE  ConnectInv' /\ CreateFrom /\ NoneCreated
  BY <1>1 DEF ConnectInv
<1>2. CASE (Worker \/ \E c \in Caller : CallerStep(c)) /\ UNCHANGED ctrl
  BY <1>0, <1>1, <1>2, EngineStep, RunsOnKeeps, SameKeeps
<1>3. CASE HandlerStep
  <2>1. CASE \E pe \in Peon : \E i \in DOMAIN proc[pe] : Moves(pe, i) /\ CtrlOK' /\ NoneCreated
    <3>1. PICK pe \in Peon : \E i \in DOMAIN proc[pe] : Moves(pe, i) /\ CtrlOK' /\ NoneCreated
      BY <2>1
    <3>2. PICK i \in DOMAIN proc[pe] : Moves(pe, i) /\ CtrlOK' /\ NoneCreated
      BY <3>1
    <3>3. PICK c \in Ctx : /\ handle(pe, i, c) /\ (c.at = "fail" => pe = "CONNECT")
                           /\ c.at = "create" => CtrlAt(proc[pe][i].key) = {}
      BY <3>2 DEF Moves
    <3>4. QED BY <1>1, <3>2, <3>3, MoveKeeps
  <2>2. CASE \E i \in DOMAIN proc["CONNECT"] :
              Created(i) /\ \E c \in Ctx : handle("CONNECT", i, c) /\ c.at \in {"verify", "fail"}
    <3>1. PICK i \in DOMAIN proc["CONNECT"] :
            Created(i) /\ \E c \in Ctx : handle("CONNECT", i, c) /\ c.at \in {"verify", "fail"}
      BY <2>2
    <3>2. PICK c \in Ctx : handle("CONNECT", i, c) /\ c.at \in {"verify", "fail"}
      BY <3>1
    <3>3. StartOK' /\ WorkersOK' /\ FailOK'
      BY <1>0, <3>2, MoveKeeps
    <3>4. CtrlOK'
      BY <1>0, <3>1, CreatedKeeps
    <3>5. QED BY <2>2, <3>3, <3>4 DEF ConnectInv
  <2>3. QED BY <1>0, <1>3, <2>1, <2>2, HandlerMoves
<1>4. CASE \E i \in DOMAIN proc["DCBATCH"] : batch_inherit(i)
  <2>1. PICK i \in DOMAIN proc["DCBATCH"] : batch_inherit(i)
    BY <1>4
  <2>2. UNCHANGED ctrl
    BY <2>1 DEF batch_inherit, kernel
  <2>3. StartOK' /\ WorkersOK' /\ FailOK' /\ CreateFrom
    BY <1>0, <2>1, InheritForm, InheritKeeps
  <2>4. QED BY <1>0, <1>1, <2>2, <2>3, SameKeeps
<1>5. CASE \E pe \in Peon : \E i \in DOMAIN proc[pe] : complete(pe, i)
  <2>1. PICK pe \in Peon : \E i \in DOMAIN proc[pe] : complete(pe, i)
    BY <1>5
  <2>2. PICK i \in DOMAIN proc[pe] : complete(pe, i)
    BY <2>1
  <2>3. UNCHANGED ctrl
    BY <2>2 DEF complete, kernel
  <2>4. StartOK' /\ WorkersOK' /\ FailOK' /\ CreateFrom
    BY <1>0, <2>2, CompleteForm, CompleteKeeps
  <2>5. QED BY <1>0, <1>1, <2>3, <2>4, SameKeeps
<1>6. CASE nvme_recheck
  <2>1. UNCHANGED ctrl
    BY <1>6 DEF nvme_recheck, kernel
  <2>2. StartOK' /\ WorkersOK' /\ FailOK' /\ CreateFrom
    BY <1>0, <1>6, RecheckForm, RecheckKeeps
  <2>3. QED BY <1>0, <1>1, <2>1, <2>2, SameKeeps
<1>7. CASE Kernel
  <2>1. CtrlOK' /\ NoneCreated /\ UNCHANGED <<wait, proc, lock, adding>>
    BY <1>0, <1>7, KernelKeeps DEF vars, lists
  <2>2. StartOK' /\ WorkersOK' /\ FailOK' /\ CreateFrom
    BY <1>0, <2>1 DEF StartOK, WorkersOK, WorkerNum, FailOK, CreateFrom
  <2>3. QED BY <1>1, <2>1, <2>2
<1>8. QED BY <1>2, <1>3, <1>4, <1>5, <1>6, <1>7 DEF Step, Handlers

LEMMA StutterKeeps ==
  ASSUME ConnectInv, UNCHANGED <<vars, ctrl>>
  PROVE  ConnectInv'
BY DEF ConnectInv, StartOK, WorkersOK, WorkerNum, CtrlOK, FailOK, vars, lists

LEMMA ConnectInit == CInit => Init /\ PeonInv /\ ConnectInv
<1> SUFFICES ASSUME CInit PROVE Init /\ PeonInv /\ ConnectInv
  OBVIOUS
<1>1. Init /\ PeonInv
  BY InitInv DEF CInit
<1>2. ToSet(<<>>) = {}
  BY DEF ToSet
<1>3. StartOK /\ FailOK
  BY <1>1, <1>2 DEF Init, StartOK, FailOK
<1>4. WorkersOK
  <2>1. \A pe \in Peon : WorkerNum(pe) \in Nat /\ proc[pe] = <<>>
    BY <1>1, ConstantsAssumption DEF WorkerNum, Init
  <2>2. lock.owner \notin Peon
    BY <1>1, ConstantsAssumption DEF Init, Free, Peon, StaticPeon
  <2>3. QED BY <2>1, <2>2 DEF WorkersOK
<1>5. CtrlOK
  BY DEF CInit, CtrlOK
<1>6. QED BY <1>1, <1>3, <1>4, <1>5 DEF ConnectInv

(* A step of the specification is a step, or changes neither the engine    *)
(* nor a controller.                                                       *)
LEMMA ConnectNext ==
  ASSUME PeonInv, ConnectInv, Step \/ UNCHANGED <<vars, ctrl>>
  PROVE  [Next]_vars /\ PeonInv' /\ ConnectInv'
<1>1. [Next]_vars
  BY EngineUsed
<1>2. PeonInv'
  BY <1>1, NextInv
<1>3. QED BY <1>1, <1>2, StepKeeps, StutterKeeps

LEMMA CNextSteps == [CNext]_cvars => Step \/ UNCHANGED <<vars, ctrl>>
BY DEF CNext, Engine, Step, cvars, kernel

LEMMA ConnectInvariant == CSpec => [](PeonInv /\ ConnectInv)
<1>1. PeonInv /\ ConnectInv /\ [CNext]_cvars => (PeonInv /\ ConnectInv)'
  BY CNextSteps, ConnectNext
<1>2. QED BY <1>1, ConnectInit, PTL DEF CSpec

(* The handlers of snsd_conn_nvme.c use the engine only as Peon lets them, *)
(* in every instance: what is proved of the engine's counter, of the       *)
(* newest request and of live tasks holds with the real handlers.          *)
THEOREM HandlersUseEngine == CSpec => PeonSpec
<1>1. PeonInv /\ ConnectInv /\ [CNext]_cvars => [Next]_vars
  BY CNextSteps, ConnectNext
<1>2. CInit => Init
  BY ConnectInit
<1>3. QED BY <1>1, <1>2, ConnectInvariant, PTL DEF CSpec, PeonSpec, Spec

(* With the real handlers the engine keeps its promise: a request that a   *)
(* caller of the connect interface makes is replaced by newer ones only,   *)
(* or freed by its dynamic peon, and else it is carried out.               *)
THEOREM HandlersKeepPromise == CSpec => EnginePromise
BY HandlersUseEngine, EngineKeepsPromise, PTL DEF PeonSpec
-----------------------------------------------------------------------------
(* Two controllers with one address.  With one connect worker the search   *)
(* of a connect is still good when it creates: nobody else creates.        *)
DuplicateInv == CreateOK /\ NoDuplicateController

LEMMA NoneCreatedKeeps ==
  ASSUME DuplicateInv, NoneCreated, CreateFrom
  PROVE  DuplicateInv'
<1>1. NoDuplicateController'
  BY DEF DuplicateInv, NoDuplicateController, NoneCreated
<1>2. ASSUME NEW u \in ToSet(proc'["CONNECT"]), u.ctx.at = "create"
      PROVE  CtrlAt(u.key)' = {}
  <2>1. CtrlAt(u.key) = {}
    BY <1>2 DEF CreateFrom, DuplicateInv, CreateOK
  <2>2. \A n \in Name : ctrl'[n] # NoCtrl => ctrl'[n].key # Address(u.key)
    BY <2>1 DEF CtrlAt, NoneCreated
  <2>3. QED BY <2>2 DEF CtrlAt, Address
<1>3. QED BY <1>1, <1>2 DEF DuplicateInv, CreateOK

LEMMA CreatedOnce ==
  ASSUME PEON_CONNECT_WORKER_NUM = 1, PeonInv, ConnectInv, DuplicateInv,
         NEW i \in DOMAIN proc["CONNECT"], Created(i),
         NEW c \in Ctx, handle("CONNECT", i, c), c.at \in {"verify", "fail"}
  PROVE  DuplicateInv'
<1> DEFINE key == proc["CONNECT"][i].key
<1>0. "CONNECT" \in Peon /\ CtrlOK
  BY DEF Peon, StaticPeon, ConnectInv
<1>1. PICK n \in Name : /\ ctrl[n] = NoCtrl /\ ctrl'[n] # NoCtrl /\ ctrl'[n].key = Address(key)
                        /\ \A m \in Name : m # n => ctrl'[m] = ctrl[m]
  BY <1>0, CreatedKeeps
<1>2. i \in 1 .. Len(proc["CONNECT"]) /\ Len(proc["CONNECT"]) \in Nat
      /\ proc["CONNECT"][i] \in ToSet(proc["CONNECT"])
  BY <1>0, CurTyped, ListDomain
<1>3. CtrlAt(key) = {}
  BY <1>2 DEF Created, Cur, DuplicateInv, CreateOK
<1>4. \A m \in Name : ctrl[m] # NoCtrl => ctrl[m].key # Address(key)
  BY <1>3 DEF CtrlAt
<1> HIDE DEF key
<1>5. NoDuplicateController'
  <2>1. \A m \in Name : ctrl'[m] # NoCtrl /\ ctrl'[m].key = Address(key) => m = n
    BY <1>1, <1>4
  <2>2. QED BY <1>1, <2>1 DEF DuplicateInv, NoDuplicateController
<1>6. \A u \in ToSet(proc'["CONNECT"]) : u.ctx = c
  <2>1. proc' = [proc EXCEPT !["CONNECT"][i].ctx = c]
    BY DEF handle
  <2>2. \A u \in ToSet(proc'["CONNECT"]) :
          (\E j \in 1 .. Len(proc["CONNECT"]) : j # i /\ u = proc["CONNECT"][j]) \/ u.ctx = c
    BY <1>0, <2>1, HandledRuns, ZenonT(30)
  <2>3. Len(proc["CONNECT"]) <= 1
    BY <1>0 DEF ConnectInv, WorkersOK, WorkerNum
  <2>4. \A j \in 1 .. Len(proc["CONNECT"]) : j = i
    BY <1>2, <2>3
  <2>5. QED BY <2>2, <2>4
<1>7. CreateOK'
  BY <1>6 DEF CreateOK
<1>8. QED BY <1>5, <1>7 DEF DuplicateInv

LEMMA DuplicateNext ==
  ASSUME PEON_CONNECT_WORKER_NUM = 1, PeonInv, ConnectInv, DuplicateInv,
         Step \/ UNCHANGED <<vars, ctrl>>
  PROVE  DuplicateInv'
<1>1. CASE Step
  <2>1. PeonInv'
    BY ConnectNext
  <2>2. \/ CreateFrom /\ NoneCreated
        \/ \E i \in DOMAIN proc["CONNECT"] :
             Created(i) /\ \E c \in Ctx : handle("CONNECT", i, c) /\ c.at \in {"verify", "fail"}
    BY <1>1, <2>1, StepKeeps
  <2>3. QED BY <2>2, NoneCreatedKeeps, CreatedOnce
<1>2. CASE UNCHANGED <<vars, ctrl>>
  BY <1>2 DEF DuplicateInv, CreateOK, NoDuplicateController, CtrlAt, Address, vars, lists
<1>3. QED BY <1>1, <1>2

LEMMA DuplicateInit == CInit => DuplicateInv
<1>1. ToSet(<<>>) = {}
  BY DEF ToSet
<1>2. QED BY <1>1 DEF CInit, Init, DuplicateInv, CreateOK, NoDuplicateController, Peon, StaticPeon

(* Never two controllers with one address, however the handlers interleave *)
(* with one another, with failures and with the kernel: snsd_conn_peon.h   *)
(* gives CONNECT one worker, so that what snsd_nvme_ctrl_find found is     *)
(* still so when snsd_nvme_create writes to /dev/nvme-fabrics.             *)
THEOREM OneController ==
  ASSUME PEON_CONNECT_WORKER_NUM = 1
  PROVE  CSpec => []NoDuplicateController
<1>1. PeonInv /\ ConnectInv /\ DuplicateInv /\ [CNext]_cvars => DuplicateInv'
  BY CNextSteps, DuplicateNext
<1>2. DuplicateInv => NoDuplicateController
  BY DEF DuplicateInv
<1>3. QED BY <1>1, <1>2, DuplicateInit, ConnectInvariant, PTL DEF CSpec
=============================================================================
