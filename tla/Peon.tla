------------------------------- MODULE Peon -------------------------------
(***************************************************************************)
(* The task engine of nvme-snsd (snsd_conn_peon.c): four static "peons"    *)
(* (CONNECT, DISCONN, DCBATCH, RECHECK), each with a wait list, a process  *)
(* list and worker threads, and dynamic peons that are created for a       *)
(* disconnect when the static workers are saturated.                       *)
(*                                                                         *)
(* All lists are protected by one mutex (peon_list_lock).  The two loops   *)
(* that run under it (peon_task_get and peon_run_recheck) are modelled one *)
(* iteration per action, with the holder and its position in `lock'; the   *)
(* short critical sections (queueing, completion) are single actions.      *)
(*                                                                         *)
(* What a task does (its toolbox) is opaque here: a task carries a context *)
(* that its handler may change, and the handler's result is chosen by the  *)
(* environment.  Module Connect gives the handlers.                        *)
(***************************************************************************)
EXTENDS Integers, Sequences, FiniteSets, SequencesExt

CONSTANTS
  SwHost,          \* host addresses of the switched network
  DcHost,          \* host addresses of the directly connected network
  Target,          \* target addresses
  NoTarget,        \* the zero traddr of a batch request
  Portid,          \* portid values of a task, 0 when it gives none
  NotifyPortid,    \* those of them a notification carries
  ForceFlag,       \* values of SNSD_DISCONNECT_FORCEDLY in a disconnect
  Ctx, CtxInit,    \* handler contexts, and the one ctx_init returns
  DynPeon,         \* dynamic peons (memory a peon_dyn_create may return)
  PEON_CONNECT_WORKER_NUM, PEON_DISCONN_WORKER_NUM, PEON_DCBATCH_WORKER_NUM,
  PEON_DYN_DISCONN_WORKER_LIMIT,
  RestrainTime,    \* base_cfg.restrain_time
  PEON_DEFAULT_RESTRAIN_TIME, PEON_FAIL_RETRY_INTERVAL,
  ThreadCreateMayFail, \* whether pthread_create may fail (BOOLEAN)
  MaxSn,           \* bound: serial numbers the environment may consume
  MaxInherit       \* bound: disconnects under way when a batch adds one

StaticPeon == {"CONNECT", "DISCONN", "DCBATCH", "RECHECK"}
Host == SwHost \cup DcHost

ASSUME ConstantsAssumption ==
  /\ DynPeon \cap StaticPeon = {}
  /\ "free" \notin DynPeon /\ "stuck" \notin DynPeon
  /\ NoTarget \notin Target
  /\ Portid \subseteq Nat /\ 0 \in Portid /\ NotifyPortid \subseteq Portid
  /\ ForceFlag \subseteq BOOLEAN /\ FALSE \in ForceFlag
  /\ CtxInit \in Ctx
  /\ PEON_CONNECT_WORKER_NUM \in Nat
  /\ PEON_DISCONN_WORKER_NUM \in Nat
  /\ PEON_DCBATCH_WORKER_NUM \in Nat
  /\ PEON_DYN_DISCONN_WORKER_LIMIT \in Nat
  /\ IsFiniteSet(DynPeon)
  /\ Cardinality(DynPeon) = PEON_DYN_DISCONN_WORKER_LIMIT + 1
  /\ RestrainTime \in Nat
  /\ PEON_DEFAULT_RESTRAIN_TIME \in Nat
  /\ PEON_FAIL_RETRY_INTERVAL \in Nat
  /\ ThreadCreateMayFail \in BOOLEAN
  /\ MaxSn \in Nat /\ MaxInherit \in Nat

Peon == StaticPeon \cup DynPeon

(* The device a request is about; only RoCE has a template and one address *)
(* family is in use, so protocol and family are the same in all requests.  *)
Device == [host : Host, traddr : Target, portid : Portid]
Batch  == [host : Host, traddr : {NoTarget}, portid : {0}]

(* A task (struct peon_task).  age is now - tm up to MaxAge, the           *)
(* restrain time in use; backoff is next_run - now while that is positive. *)
MaxAge == IF RestrainTime > 0 THEN RestrainTime ELSE PEON_DEFAULT_RESTRAIN_TIME
Task == [key : Device \cup Batch, force : BOOLEAN, sn : Nat,
         state : {"LIVE", "DEAD"}, age : 0 .. MaxAge,
         backoff : 0 .. PEON_FAIL_RETRY_INTERVAL, ctx : Ctx]

NewTask(key, force, s) ==
  [key |-> key, force |-> force, sn |-> s, state |-> "LIVE", age |-> 0,
   backoff |-> 0, ctx |-> CtxInit]

Caller == {"main", "server"}

VARIABLES
  sn,                  \* peon_task_sn_generator.sn
  wait,                \* wait_list of every peon
  proc,                \* proc_list of every peon
  worker_all_count,    \* worker_all_count of peon DISCONN; no code reads
                       \* the counter of another peon
  dyn,                 \* life of every dynamic peon
  peon_dyn_worker_num, \* dynamic threads not yet accounted as gone
  lock,                \* peon_list_lock: who holds it and where it is
  adding,              \* request a caller has numbered but not yet queued
  latest,              \* history: newest queued request for every device
  served,              \* history: newest request completed for every key
  lost                 \* history: requests freed by a dynamic peon unrun

lists == <<wait, proc, worker_all_count>>
dyns  == <<dyn, peon_dyn_worker_num>>
hist  == <<latest, served, lost>>
vars  == <<sn, lists, dyns, lock, adding, hist>>

NoRequest == [peon |-> "none"]
Free      == [owner |-> "free", at |-> 0]
-----------------------------------------------------------------------------
TypeOf(pe) == IF pe \in DynPeon THEN "DISCONN" ELSE pe

WorkerNum(pe) == CASE pe = "CONNECT" -> PEON_CONNECT_WORKER_NUM
                   [] pe = "DISCONN" -> PEON_DISCONN_WORKER_NUM
                   [] pe = "DCBATCH" -> PEON_DCBATCH_WORKER_NUM
                   [] OTHER -> 1

(* peon_set_disconn_restrain_time: one of the two phases is restrained.    *)
Restrain(pe) == CASE TypeOf(pe) = "DISCONN" -> RestrainTime
                  [] pe = "CONNECT" /\ RestrainTime = 0 -> PEON_DEFAULT_RESTRAIN_TIME
                  [] OTHER -> 0

restrain_timeout(t, pe) == t.age >= Restrain(pe) /\ t.backoff = 0

Listed(pe) == ToSet(wait[pe]) \cup ToSet(proc[pe])

(* Fault: a connect overlooks the disconnect lists.                        *)
Compare_NoDisconn(type, pe) ==
  CASE type = "CONNECT" /\ pe \in {"CONNECT", "RECHECK"}            -> "device"
    [] type = "CONNECT" /\ pe = "DCBATCH"                           -> "host"
    [] type = "DISCONN" /\ pe \in {"CONNECT", "RECHECK"}            -> "device"
    [] type = "DCBATCH" /\ pe = "CONNECT"                           -> "host"
    [] OTHER                                                        -> "no"

(* How peon_task_action_judge compares a task of peon type `type' with the *)
(* tasks of peon pe: not at all, as the same device, or as the same host.  *)
(* The lists of dynamic peons are never scanned.                           *)
Compare(type, pe) ==
  CASE type = "CONNECT" /\ pe \in {"DISCONN", "CONNECT", "RECHECK"} -> "device"
    [] type = "CONNECT" /\ pe = "DCBATCH"                           -> "host"
    [] type = "DISCONN" /\ pe \in {"CONNECT", "RECHECK"}            -> "device"
    [] type = "DCBATCH" /\ pe = "CONNECT"                           -> "host"
    [] OTHER                                                        -> "no"

task_match(t1, t2, how) ==
  /\ how # "no"
  /\ t1.key.host = t2.key.host
  /\ how = "device" => t1.key = t2.key

(* q, a task of peon pe, is made obsolete by (makes obsolete) task t.      *)
Outdated(q, pe, t, type) ==
  q.state = "LIVE" /\ task_match(q, t, Compare(type, pe)) /\ q.sn < t.sn

(* Fault: a task counts as newer than itself.                              *)
Newer_NotStrict(q, pe, t, type) ==
  q.state = "LIVE" /\ task_match(q, t, Compare(type, pe)) /\ t.sn <= q.sn

Newer(q, pe, t, type) ==
  q.state = "LIVE" /\ task_match(q, t, Compare(type, pe)) /\ t.sn < q.sn

Marked(q, pe, t, type) ==
  IF Outdated(q, pe, t, type) THEN [q EXCEPT !.state = "DEAD"] ELSE q
MarkedList(s, pe, t, type) == [i \in DOMAIN s |-> Marked(s[i], pe, t, type)]

MustWait(t, type) ==
  \E pe \in Peon : \E q \in ToSet(proc[pe]) : Outdated(q, pe, t, type)
MustDiscard(t, type) ==
  \E pe \in Peon : \E q \in Listed(pe) : Newer(q, pe, t, type)
-----------------------------------------------------------------------------
Init ==
  /\ sn = 0
  /\ wait = [pe \in Peon |-> <<>>]
  /\ proc = [pe \in Peon |-> <<>>]
  /\ worker_all_count = 0
  /\ dyn = [d \in DynPeon |-> "none"]
  /\ peon_dyn_worker_num = 0
  /\ lock = Free
  /\ adding = [c \in Caller |-> NoRequest]
  /\ latest = [d \in Device |-> [op |-> "none", sn |-> 0]]
  /\ served = [k \in Device \cup Batch |-> 0]
  /\ lost = {}

(* The requests the two callers make: the server thread forwards the       *)
(* notifications of switched hosts, the main thread disconnects all of a   *)
(* switched host or handles one directly connected device.                 *)
Requests(c) ==
  IF c = "server"
  THEN {r \in [peon : {"CONNECT", "DISCONN"}, key : Device, force : ForceFlag] :
           /\ r.key.host \in SwHost /\ r.key.portid \in NotifyPortid
           /\ r.peon = "CONNECT" => ~r.force}
  ELSE [peon : {"DCBATCH"}, key : {b \in Batch : b.host \in SwHost}, force : {FALSE}]
         \cup [peon : {"CONNECT", "DISCONN"},
               key : {d \in Device : d.host \in DcHost /\ d.portid = 0},
               force : {FALSE}]

(* peon_add_task_inner up to the lock: the serial number is drawn before   *)
(* the task is queued, and other threads may run in between.               *)
peon_sn_generate(c) ==
  /\ adding[c] = NoRequest
  /\ sn < MaxSn
  /\ sn' = sn + 1
  /\ \E r \in Requests(c) :
       adding' = [adding EXCEPT ![c] =
                    [peon |-> r.peon, task |-> NewTask(r.key, r.force, sn + 1)]]
  /\ UNCHANGED <<lists, dyns, lock, hist>>

(* calloc or ctx_init failed: the caller gets an error, nothing is queued. *)
peon_task_reject(c) ==
  /\ adding[c] # NoRequest
  /\ adding' = [adding EXCEPT ![c] = NoRequest]
  /\ UNCHANGED <<sn, lists, dyns, lock, hist>>

OpOf(pe) == CASE pe = "CONNECT" -> "connect"
              [] pe = "DCBATCH" -> "batch"
              [] OTHER          -> "disconnect"

(* History: t, queued on pe, is the newest request of the devices it names.*)
Requested(pe, t) ==
  [d \in Device |->
     IF /\ \/ d = t.key
           \/ pe = "DCBATCH" /\ d.host = t.key.host
        /\ t.sn >= latest[d].sn
     THEN [op |-> OpOf(pe), sn |-> t.sn]
     ELSE latest[d]]

(* Fault: no limit on dynamic threads.                                     *)
WantsDynamic_NoLimit(pe) ==
  pe = "DISCONN" /\ worker_all_count >= PEON_DISCONN_WORKER_NUM

WantsDynamic(pe) ==
  /\ pe = "DISCONN"
  /\ worker_all_count >= PEON_DISCONN_WORKER_NUM
  /\ peon_dyn_worker_num <= PEON_DYN_DISCONN_WORKER_LIMIT

CountAfter(pe, n) == IF pe = "DISCONN" THEN worker_all_count + n ELSE worker_all_count

QueueStatic(pe, t) ==
  /\ wait' = [wait EXCEPT ![pe] = Append(@, t)]
  /\ worker_all_count' = CountAfter(pe, 1)
  /\ latest' = Requested(pe, t)
  /\ UNCHANGED <<dyns, lock, served, lost>>

(* peon_dyn_create succeeded: the task has a peon and a thread of its own. *)
QueueDynamic(pe, t) ==
  \E d \in DynPeon :
    /\ dyn[d] = "none"
    /\ dyn' = [dyn EXCEPT ![d] = "start"]
    /\ peon_dyn_worker_num' = peon_dyn_worker_num + 1
    /\ wait' = [wait EXCEPT ![d] = <<t>>]
    /\ latest' = Requested(pe, t)
    /\ UNCHANGED <<worker_all_count, lock, served, lost>>

(* pthread_create failed in peon_dyn_create: peon_deconstruct joins a      *)
(* thread that does not exist and takes the lock its caller already holds. *)
QueueStuck ==
  /\ ThreadCreateMayFail
  /\ lock' = [owner |-> "stuck", at |-> 0]
  /\ UNCHANGED <<wait, worker_all_count, dyns, hist>>

(* peon_task_add from the lock on.  When a dynamic peon is wanted its      *)
(* allocation may still fail, and the static peon takes the task.          *)
Queue(pe, t) ==
  /\ lock = Free
  /\ \/ QueueStatic(pe, t)
     \/ WantsDynamic(pe) /\ QueueDynamic(pe, t)
     \/ WantsDynamic(pe) /\ QueueStuck

peon_task_add(c) ==
  /\ adding[c] # NoRequest
  /\ Queue(adding[c].peon, adding[c].task)
  /\ adding' = [adding EXCEPT ![c] = NoRequest]
  /\ UNCHANGED <<sn, proc>>

(* peon_add_disconn_task_inherit, called by the handler of a batch task:   *)
(* a disconnect of one device of the host that keeps the batch's number.   *)
(* A batch that meets the device again, under another name, adds the same  *)
(* disconnect again.  c is the context the batch goes on with.             *)
peon_add_disconn_task_inherit(i, d, c) ==
  /\ i \in DOMAIN proc["DCBATCH"]
  /\ d.host = proc["DCBATCH"][i].key.host
  /\ worker_all_count + peon_dyn_worker_num < MaxInherit
  /\ Queue("DISCONN", NewTask(d, FALSE, proc["DCBATCH"][i].sn))
  /\ proc' = [proc EXCEPT !["DCBATCH"][i].ctx = c]
  /\ UNCHANGED <<sn, adding>>
-----------------------------------------------------------------------------
(* peon_task_get: an idle worker of pe takes the lock.  (A scan of an      *)
(* empty list changes nothing and is left out.)                            *)
peon_task_get(pe) ==
  /\ lock = Free
  /\ pe # "RECHECK"
  /\ pe \in DynPeon => dyn[pe] = "start"
  /\ wait[pe] # <<>>
  /\ Len(proc[pe]) < WorkerNum(pe)
  /\ lock' = [owner |-> pe, at |-> 1]
  /\ UNCHANGED <<sn, lists, dyns, adding, hist>>

Scanning(pe) == lock.owner = pe /\ lock.at <= Len(wait[pe])

(* Fault: a task freed by a scan is still counted.                         *)
FreeAtCursor_NoCount(pe, w) ==
  /\ wait' = [w EXCEPT ![pe] = RemoveAt(@, lock.at)]
  /\ UNCHANGED worker_all_count

(* The task at the cursor is unlinked and freed.                           *)
FreeAtCursor(pe, w) ==
  /\ wait' = [w EXCEPT ![pe] = RemoveAt(@, lock.at)]
  /\ worker_all_count' = CountAfter(pe, -1)

scan_dead(pe) ==
  /\ Scanning(pe) /\ pe # "RECHECK"
  /\ wait[pe][lock.at].state = "DEAD"
  /\ FreeAtCursor(pe, wait)
  /\ UNCHANGED <<sn, proc, dyns, lock, adding, hist>>

(* One iteration of peon_task_get over a live task: the judge marks every  *)
(* outdated task dead in the lists it compares with; then the task stays,  *)
(* is discarded, or is taken.                                              *)
scan_live(pe) ==
  LET t      == wait[pe][lock.at]
      type   == TypeOf(pe)
      marked == [p \in Peon |-> MarkedList(wait[p], p, t, type)]
      running == [p \in Peon |-> MarkedList(proc[p], p, t, type)]
  IN  /\ Scanning(pe) /\ pe # "RECHECK"
      /\ t.state = "LIVE"
      /\ \/ /\ ~MustWait(t, type) /\ MustDiscard(t, type)
            /\ FreeAtCursor(pe, marked)
            /\ proc' = running
            /\ UNCHANGED <<lock, dyn>>
         \/ /\ ~MustWait(t, type) /\ ~MustDiscard(t, type)
            /\ restrain_timeout(t, pe)
            /\ wait' = [marked EXCEPT ![pe] = RemoveAt(@, lock.at)]
            /\ proc' = [running EXCEPT ![pe] = Append(@, t)]
            /\ lock' = Free
            /\ dyn' = [d \in DynPeon |-> IF d = pe THEN "proc" ELSE dyn[d]]
            /\ UNCHANGED worker_all_count
         \/ /\ \/ MustWait(t, type)
               \/ ~MustDiscard(t, type) /\ ~restrain_timeout(t, pe)
            /\ wait' = marked
            /\ proc' = running
            /\ lock' = [lock EXCEPT !.at = @ + 1]
            /\ UNCHANGED <<worker_all_count, dyn>>
      /\ UNCHANGED <<sn, peon_dyn_worker_num, adding, hist>>

(* Fault: a scan that takes no task returns without unlocking.             *)
scan_end_NoUnlock(pe) ==
  /\ lock.owner = pe
  /\ lock.at > Len(wait[pe])
  /\ lock' = [owner |-> "stuck", at |-> 0]
  /\ dyn' = [d \in DynPeon |-> IF d = pe THEN "ran" ELSE dyn[d]]
  /\ UNCHANGED <<sn, lists, peon_dyn_worker_num, adding, hist>>

(* The end of either loop: no task taken, unlock.                          *)
scan_end(pe) ==
  /\ lock.owner = pe
  /\ lock.at > Len(wait[pe])
  /\ lock' = Free
  /\ dyn' = [d \in DynPeon |-> IF d = pe THEN "ran" ELSE dyn[d]]
  /\ UNCHANGED <<sn, lists, peon_dyn_worker_num, adding, hist>>
-----------------------------------------------------------------------------
(* The handler of the i-th running task of pe moves on: its context is c.  *)
handle(pe, i, c) ==
  /\ i \in DOMAIN proc[pe]
  /\ proc' = [proc EXCEPT ![pe][i].ctx = c]
  /\ UNCHANGED <<sn, wait, worker_all_count, dyns, lock, adding, hist>>

(* Fault: the number that marks a task as not queued is below all numbers. *)
move_to_recheck_Below(t, c) == [t EXCEPT !.sn = -1, !.ctx = c]

(* "Reset @sn to a invalid and smallest value."                            *)
peon_move_task_to_recheck(t, c) == [t EXCEPT !.sn = 0, !.ctx = c]

(* peon_task_complete: a live task that failed is queued again for a       *)
(* later retry, a live connect that succeeded moves to the recheck list    *)
(* with the smallest number, anything else is freed.  The count goes down  *)
(* in every case.  A task that is kept takes along its context, c.         *)
peon_task_complete(pe, i, failed, c) ==
  LET t == proc[pe][i]
  IN  /\ lock = Free
      /\ i \in DOMAIN proc[pe]
      /\ proc' = [proc EXCEPT ![pe] = RemoveAt(@, i)]
      /\ worker_all_count' = CountAfter(pe, -1)
      /\ \/ /\ t.state = "LIVE" /\ failed
            /\ wait' = [wait EXCEPT ![pe] =
                          Append(@, [t EXCEPT !.backoff = PEON_FAIL_RETRY_INTERVAL,
                                              !.ctx = c])]
         \/ /\ t.state = "LIVE" /\ ~failed /\ pe = "CONNECT"
            /\ wait' = [wait EXCEPT !["RECHECK"] =
                          Append(@, peon_move_task_to_recheck(t, c))]
         \/ /\ t.state = "DEAD" \/ (~failed /\ pe # "CONNECT")
            /\ UNCHANGED wait
      /\ served' = [served EXCEPT ![t.key] =
                      IF ~failed /\ t.sn > @ THEN t.sn ELSE @]
      /\ dyn' = [d \in DynPeon |-> IF d = pe THEN "ran" ELSE dyn[d]]
      /\ UNCHANGED <<sn, peon_dyn_worker_num, lock, adding, latest, lost>>

(* The tail of peon_dynamic_disconn_thread: peon_deconstruct frees what is *)
(* still on the wait list, run or not, then the thread is counted out.     *)
peon_deconstruct(d) ==
  /\ lock = Free
  /\ dyn[d] = "ran"
  /\ lost' = lost \cup {t.sn : t \in {u \in ToSet(wait[d]) : u.state = "LIVE"}}
  /\ wait' = [wait EXCEPT ![d] = <<>>]
  /\ dyn' = [dyn EXCEPT ![d] = "none"]
  /\ UNCHANGED <<sn, proc, worker_all_count, peon_dyn_worker_num, lock, adding, latest, served>>

dynamic_exit ==
  /\ lock = Free
  /\ peon_dyn_worker_num > Cardinality({d \in DynPeon : dyn[d] # "none"})
  /\ peon_dyn_worker_num' = peon_dyn_worker_num - 1
  /\ UNCHANGED <<sn, lists, dyn, lock, adding, hist>>
-----------------------------------------------------------------------------
(* peon_run_recheck, under the lock for the whole list.                    *)
peon_run_recheck ==
  /\ lock = Free
  /\ wait["RECHECK"] # <<>>
  /\ sn + Len(wait["RECHECK"]) <= MaxSn
  /\ lock' = [owner |-> "RECHECK", at |-> 1]
  /\ UNCHANGED <<sn, lists, dyns, adding, hist>>

recheck_dead ==
  /\ Scanning("RECHECK")
  /\ wait["RECHECK"][lock.at].state = "DEAD"
  /\ wait' = [wait EXCEPT !["RECHECK"] = RemoveAt(@, lock.at)]
  /\ UNCHANGED <<sn, proc, worker_all_count, dyns, lock, adding, hist>>

(* The recheck callback found the controller of the task.                  *)
recheck_present ==
  /\ Scanning("RECHECK")
  /\ wait["RECHECK"][lock.at].state = "LIVE"
  /\ lock' = [lock EXCEPT !.at = @ + 1]
  /\ UNCHANGED <<sn, lists, dyns, adding, hist>>

(* The controller is gone: the connect task lives again, with a new number *)
(* (and, unlike a task that is added, without counting it for CONNECT).    *)
recheck_gone(c) ==
  LET old == wait["RECHECK"][lock.at]
      new == [old EXCEPT !.sn = sn + 1, !.age = 0, !.backoff = 0, !.ctx = c]
  IN  /\ Scanning("RECHECK")
      /\ old.state = "LIVE"
      /\ sn' = sn + 1
      /\ wait' = [wait EXCEPT !["RECHECK"] = RemoveAt(@, lock.at),
                              !["CONNECT"] = Append(@, new)]
      /\ latest' = Requested("CONNECT", new)
      /\ UNCHANGED <<proc, worker_all_count, dyns, lock, adding, served, lost>>
-----------------------------------------------------------------------------
Older(t) == [t EXCEPT !.age = IF @ < MaxAge THEN @ + 1 ELSE @,
                      !.backoff = IF @ > 0 THEN @ - 1 ELSE @]

(* One second passes; a scan takes no time on this scale.                  *)
Tick ==
  /\ lock.owner \in {"free", "stuck"}
  /\ wait' = [pe \in Peon |-> [i \in DOMAIN wait[pe] |-> Older(wait[pe][i])]]
  /\ wait' # wait
  /\ UNCHANGED <<sn, proc, worker_all_count, dyns, lock, adding, hist>>

CanFail(pe) == IF pe = "CONNECT" THEN BOOLEAN ELSE {FALSE}

Next ==
  \/ \E c \in Caller : peon_sn_generate(c) \/ peon_task_reject(c) \/ peon_task_add(c)
  \/ \E i \in DOMAIN proc["DCBATCH"] : \E d \in Device : \E c \in Ctx :
       peon_add_disconn_task_inherit(i, d, c)
  \/ \E pe \in Peon : peon_task_get(pe) \/ scan_dead(pe) \/ scan_live(pe) \/ scan_end(pe)
  \/ \E pe \in Peon : \E i \in DOMAIN proc[pe] : \E c \in Ctx :
       \/ handle(pe, i, c)
       \/ \E failed \in CanFail(pe) : peon_task_complete(pe, i, failed, c)
  \/ \E d \in DynPeon : peon_deconstruct(d)
  \/ dynamic_exit
  \/ peon_run_recheck \/ recheck_dead \/ recheck_present
  \/ \E c \in Ctx : recheck_gone(c)
  \/ Tick

Spec == Init /\ [][Next]_vars

(* The thread that holds the lock runs on.                                 *)
HolderStep ==
  \/ \E pe \in Peon : scan_dead(pe) \/ scan_live(pe) \/ scan_end(pe)
  \/ recheck_dead \/ recheck_present
  \/ \E c \in Ctx : recheck_gone(c)
FairSpec == Spec /\ WF_vars(HolderStep)
-----------------------------------------------------------------------------
Request == [peon : StaticPeon \ {"RECHECK"}, task : Task] \cup {NoRequest}

(* Types of all state; a mistyped cursor or counter would show here.       *)
TypeOK ==
  /\ sn \in Nat
  /\ wait \in [Peon -> Seq(Task)]
  /\ proc \in [Peon -> Seq(Task)]
  /\ worker_all_count \in Int
  /\ dyn \in [DynPeon -> {"none", "start", "proc", "ran"}]
  /\ peon_dyn_worker_num \in Nat
  /\ lock \in [owner : Peon \cup {"free", "stuck"}, at : Nat]
  /\ adding \in [Caller -> Request]
  /\ latest \in [Device -> [op : {"none", "connect", "disconnect", "batch"}, sn : Nat]]
  /\ served \in [Device \cup Batch -> Nat]
  /\ lost \subseteq Nat

(* worker_all_count of the static disconnect peon is exactly the number of *)
(* tasks it holds, through every queue, scan and completion: peon_task_add *)
(* decides by it whether a disconnect gets a thread of its own.            *)
CountExact == worker_all_count = Len(wait["DISCONN"]) + Len(proc["DISCONN"])

Pending(d) ==
  \E pe \in Peon \ {"RECHECK", "DCBATCH"} : \E t \in Listed(pe) :
     t.key = d /\ t.sn = latest[d].sn /\ t.state = "LIVE" /\ OpOf(pe) = latest[d].op

(* The newest request queued for a device is not filtered out: it is still *)
(* queued or running alive, it has been completed, or a dynamic peon freed *)
(* it.  peon_task_get discards and peon_task_scan_list kills only what     *)
(* something newer replaces.                                               *)
NewestNotLost ==
  \A d \in Device :
    latest[d].op \in {"connect", "disconnect"}
      => Pending(d) \/ served[d] >= latest[d].sn \/ latest[d].sn \in lost

(* Two tasks that the static peons compare with each other never both run  *)
(* alive: starting one has marked the other dead.                          *)
LiveRunExclusive ==
  \A p, q \in StaticPeon : \A i \in DOMAIN proc[p] : \A j \in DOMAIN proc[q] :
    /\ proc[p][i].state = "LIVE" /\ proc[q][j].state = "LIVE"
    /\ task_match(proc[q][j], proc[p][i], Compare(p, q))
    => p = q /\ i = j

(* The number of dynamic threads stays within one of the limit (the test   *)
(* in peon_task_add is <=), and every dynamic peon has a counted thread.   *)
DynWorkersBounded ==
  /\ peon_dyn_worker_num <= PEON_DYN_DISCONN_WORKER_LIMIT + 1
  /\ Cardinality({d \in DynPeon : dyn[d] # "none"}) <= peon_dyn_worker_num

(* The list lock is always released again: every scan and every recheck    *)
(* reaches the end of its list, whatever it removes on its way.  It is so  *)
(* while every thread can be created; peon_dyn_create never comes back     *)
(* from a pthread_create that fails (QueueStuck).                          *)
LockReleased == []<>(lock = Free)

(* README: restrain-time is "the delay for disconnecting a device when the *)
(* network link is disconnected".  A disconnect is delayed, never dropped: *)
(* no dynamic peon frees a disconnect that still waits to be run.          *)
NoDisconnectLost == lost = {}

(* What the engine promises (Requests): the live tasks on the lists are    *)
(* the requests, those of the recheck list the watched devices.  A task    *)
(* that peon_task_get discards or kills had something newer to give way    *)
(* to, and one it takes runs beside no live task it is compared with.      *)
Live(s) == {t \in ToSet(s) : t.state = "LIVE"}
AsRequests(list) ==
  UNION {{[queue |-> pe, key |-> t.key, sn |-> t.sn] : t \in Live(list[pe])} :
           pe \in Peon \ {"RECHECK"}}

Promise == INSTANCE Requests WITH
  Urgent <- DynPeon,
  waiting <- AsRequests(wait), running <- AsRequests(proc),
  watched <- {t.key : t \in Live(wait["RECHECK"])}

EnginePromise == Promise!Spec

BatchOf(d) == [host |-> d.host, traddr |-> NoTarget, portid |-> 0]

(* peon_task_action_judge filters "the outdated disconnect or connect      *)
(* task", and a disconnect is outdated by what is asked for after it, not  *)
(* by a connect that peon_move_task_to_connect gives a new number.  While  *)
(* a disconnect of a device is pending, only a request of a caller makes   *)
(* a connect the newest request of the device.                             *)
DisconnectNotOvertaken ==
  [][\A d \in Device :
       latest[d].op = "disconnect" /\ Pending(d) /\ latest'[d].op = "connect"
         => \E c \in Caller :
              adding[c] # NoRequest /\ adding[c].task.sn = latest'[d].sn]_vars

(* A batch disconnect is filtered only by a newer request for the device:  *)
(* peon_task_action_judge speaks of tasks "of the same device".            *)
BatchNotFiltered ==
  \A d \in Device :
    latest[d].op = "batch" =>
      \/ served[BatchOf(d)] >= latest[d].sn
      \/ \E t \in Listed("DCBATCH") :
           t.key = BatchOf(d) /\ t.sn = latest[d].sn /\ t.state = "LIVE"
=============================================================================
