------------------------------ MODULE Connect ------------------------------
(***************************************************************************)
(* The task engine with the handlers of the RoCE template                  *)
(* (snsd_conn_nvme.c) and the NVMe controllers of the kernel.              *)
(*                                                                         *)
(* A handler runs without the engine's lock.  Each of its system calls     *)
(* (scanning /sys/class/nvme, writing /dev/nvme-fabrics, the keep alive    *)
(* ioctl, writing delete_controller) is one action, so the engine, other   *)
(* handlers and the kernel interleave between them.  The program counter   *)
(* of a handler is the field `at' of its task's context.                   *)
(***************************************************************************)
EXTENDS Peon

CONSTANTS
  Name,                    \* nvme<n> instance numbers the kernel gives out
  SNSD_NVME_RDMA_TRSVCID,  \* service id used when portid is 0 (4420)
  MaxUpset                 \* bound: failures of network and system calls

ASSUME ConnectAssumption ==
  /\ Name \subseteq Nat \ {0}
  /\ SNSD_NVME_RDMA_TRSVCID \in Portid \ {0}
  /\ MaxUpset \in Nat

(* struct snsd_nvme_ctx: progress of the handler, whether the subsystem    *)
(* NQN is known, the device name recorded, the names a batch has to visit. *)
ConnCtx == [at : {"start", "find", "create", "verify", "alive", "alive_ok",
                  "alive_err", "remove", "retry", "list", "done", "fail"},
            nqn : BOOLEAN, dname : Name \cup {0}, todo : SUBSET Name]
ConnCtxInit == [at |-> "start", nqn |-> FALSE, dname |-> 0, todo |-> {}]

(* The engine's tasks carry these contexts.                                *)
ASSUME ContextAssumption == Ctx = ConnCtx /\ CtxInit = ConnCtxInit

VARIABLES
  ctrl,     \* /sys/class/nvme: the controller behind every name
  upsets    \* failures so far

kernel == <<ctrl, upsets>>
cvars  == <<vars, kernel>>

(* The address a request resolves to: a RoCE portid of 0 means 4420.       *)
Address(key) ==
  [key EXCEPT !.portid = IF @ = 0 THEN SNSD_NVME_RDMA_TRSVCID ELSE @]

NoCtrl == [state |-> "none"]
CtrlAt(key) == {n \in Name : ctrl[n] # NoCtrl /\ ctrl[n].key = Address(key)}

First(S) == CHOOSE n \in S : \A m \in S : n <= m

(* Fault: a controller that is not live counts as not existing.            *)
ctrl_find_LiveOnly(key) ==
  IF \E n \in CtrlAt(key) : ctrl[n].state = "live" THEN "live" ELSE "not_exist"

(* snsd_nvme_ctrl_find: the first controller, in name order, with the      *)
(* address of the task.  Its callers allow for a result UNKNOWN, when the  *)
(* directory or a controller cannot be read, with a disjunct of their own. *)
ctrl_find(key) ==
  IF CtrlAt(key) = {} THEN "not_exist" ELSE ctrl[First(CtrlAt(key))].state

Upset == upsets < MaxUpset /\ upsets' = upsets + 1
Calm  == UNCHANGED upsets

(* The context of the i-th running task of pe, and a step of its handler.  *)
Cur(pe, i) == proc[pe][i].ctx
Goto(pe, i, at) == handle(pe, i, [Cur(pe, i) EXCEPT !.at = at])
-----------------------------------------------------------------------------
(* snsd_nvme_connect.  The NQN is discovered once per task.                *)
disc_get_subsysnqn(i) ==
  /\ Cur("CONNECT", i).at = "start" /\ ~Cur("CONNECT", i).nqn
  /\ \/ /\ handle("CONNECT", i, [Cur("CONNECT", i) EXCEPT !.at = "find", !.nqn = TRUE])
        /\ Calm
     \/ Goto("CONNECT", i, "fail") /\ Upset
  /\ UNCHANGED ctrl

Connected(i, key) ==
  handle("CONNECT", i, [Cur("CONNECT", i) EXCEPT !.at = "done",
                                                 !.dname = First(CtrlAt(key))])

connect_find(i) ==
  LET key == proc["CONNECT"][i].key
  IN  /\ \/ Cur("CONNECT", i).at = "find"
         \/ Cur("CONNECT", i).at = "start" /\ Cur("CONNECT", i).nqn
      /\ \/ ctrl_find(key) = "live"      /\ Connected(i, key)           /\ Calm
         \/ ctrl_find(key) = "not_exist" /\ Goto("CONNECT", i, "create") /\ Calm
         \/ ctrl_find(key) = "fault"     /\ Goto("CONNECT", i, "fail")   /\ Calm
         \/ Goto("CONNECT", i, "fail") /\ Upset
      /\ UNCHANGED ctrl

(* snsd_nvme_create: the kernel connects and gives out the lowest name.    *)
(* When the kernel's answer cannot be read the controller exists, but the  *)
(* task fails.                                                             *)
connect_create(i) ==
  LET key  == proc["CONNECT"][i].key
      free == {n \in Name : ctrl[n] = NoCtrl}
  IN  /\ Cur("CONNECT", i).at = "create"
      /\ \/ /\ free # {}
            /\ ctrl' = [ctrl EXCEPT ![First(free)] = [state |-> "live", key |-> Address(key)]]
            /\ \/ Goto("CONNECT", i, "verify") /\ Calm
               \/ Goto("CONNECT", i, "fail") /\ Upset
         \/ /\ Goto("CONNECT", i, "fail")
            /\ IF free = {} THEN Calm ELSE Upset
            /\ UNCHANGED ctrl

connect_verify(i) ==
  LET key == proc["CONNECT"][i].key
  IN  /\ Cur("CONNECT", i).at = "verify"
      /\ \/ ctrl_find(key) = "live" /\ Connected(i, key)         /\ Calm
         \/ ctrl_find(key) # "live" /\ Goto("CONNECT", i, "fail") /\ Calm
         \/ Goto("CONNECT", i, "fail") /\ Upset
      /\ UNCHANGED ctrl
-----------------------------------------------------------------------------
(* snsd_nvme_disconnect, on the static or a dynamic disconnect peon.       *)
disconnect_find(pe, i) ==
  LET key == proc[pe][i].key
  IN  /\ Cur(pe, i).at = "start"
      /\ \/ /\ ctrl_find(key) = "live"
            /\ handle(pe, i, [Cur(pe, i) EXCEPT !.at = "alive", !.dname = First(CtrlAt(key))])
            /\ Calm
         \/ ctrl_find(key) # "live" /\ Goto(pe, i, "done") /\ Calm
         \/ Goto(pe, i, "done") /\ Upset
      /\ UNCHANGED ctrl

(* The keep alive command goes to /dev/<dname>.  On an abnormal network it *)
(* times out and the kernel resets the controller.  It fails too when the  *)
(* device cannot be opened.                                                *)
KeepAliveFails(n) ==
  /\ Upset
  /\ ctrl' = [ctrl EXCEPT ![n].state = "fault"]

keep_alive(pe, i) ==
  LET n == Cur(pe, i).dname
  IN  /\ Cur(pe, i).at = "alive"
      /\ \/ ctrl[n].state = "live" /\ Goto(pe, i, "alive_ok") /\ UNCHANGED kernel
         \/ ctrl[n].state = "live" /\ Goto(pe, i, "alive_err") /\ KeepAliveFails(n)
         \/ ctrl[n].state # "live" /\ Goto(pe, i, "alive_err") /\ UNCHANGED kernel
         \/ Goto(pe, i, "alive_err") /\ Upset /\ UNCHANGED ctrl

(* The controller that answered, if it is not removed, is watched on.      *)
Spared(t) == IF t.ctx.at = "alive_ok" THEN "retry" ELSE "done"

disconnect_check(pe, i) ==
  LET t == proc[pe][i]
      removes == t.force /\ ctrl_find(t.key) = "live"
  IN  /\ t.ctx.at \in {"alive_ok", "alive_err"}
      /\ \/ removes  /\ Goto(pe, i, "remove")  /\ Calm
         \/ ~removes /\ Goto(pe, i, Spared(t)) /\ Calm
         \/ Goto(pe, i, Spared(t)) /\ Upset
      /\ UNCHANGED ctrl

(* snsd_nvme_ctrl_remove writes to the recorded name, whatever it now is.  *)
(* A failure is only logged.                                               *)
ctrl_remove(pe, i) ==
  /\ Cur(pe, i).at = "remove"
  /\ Goto(pe, i, "done")
  /\ \/ ctrl' = [ctrl EXCEPT ![Cur(pe, i).dname] = NoCtrl] /\ Calm
     \/ Upset /\ UNCHANGED ctrl

(* snsd_nvme_retry_keep_alive: at most 100 more keep alives, until one     *)
(* fails; those that succeed change nothing.                               *)
retry_keep_alive(pe, i) ==
  LET n == Cur(pe, i).dname
  IN  /\ Cur(pe, i).at = "retry"
      /\ Goto(pe, i, "done")
      /\ \/ UNCHANGED kernel
         \/ ctrl[n].state = "live" /\ KeepAliveFails(n)
-----------------------------------------------------------------------------
(* Fault: a failed directory scan is reported to the engine as a failure.  *)
batch_scandir_Fails(i) ==
  /\ Cur("DCBATCH", i).at = "start"
  /\ \/ /\ handle("DCBATCH", i, [Cur("DCBATCH", i) EXCEPT
                     !.at = "list", !.todo = {n \in Name : ctrl[n] # NoCtrl}])
        /\ Calm
     \/ Goto("DCBATCH", i, "fail") /\ Upset
  /\ UNCHANGED ctrl

(* snsd_nvme_disconnect_batch: one directory scan, then each name in turn. *)
batch_scandir(i) ==
  /\ Cur("DCBATCH", i).at = "start"
  /\ \/ /\ handle("DCBATCH", i, [Cur("DCBATCH", i) EXCEPT
                     !.at = "list", !.todo = {n \in Name : ctrl[n] # NoCtrl}])
        /\ Calm
     \/ Goto("DCBATCH", i, "done") /\ Upset
  /\ UNCHANGED ctrl

NextName(i) == First(Cur("DCBATCH", i).todo)
Visited(i)  == [Cur("DCBATCH", i) EXCEPT !.todo = @ \ {NextName(i)}]

(* The controller is gone, belongs to another host, or cannot be queued.   *)
batch_skip(i) ==
  LET c == ctrl[NextName(i)]
  IN  /\ Cur("DCBATCH", i).at = "list" /\ Cur("DCBATCH", i).todo # {}
      /\ handle("DCBATCH", i, Visited(i))
      /\ IF c = NoCtrl \/ (c # NoCtrl /\ c.key.host # proc["DCBATCH"][i].key.host)
         THEN Calm ELSE Upset
      /\ UNCHANGED ctrl

(* snsd_nvme_add_disconnect: portid is the service id read from sysfs.     *)
batch_inherit(i) ==
  LET c == ctrl[NextName(i)]
  IN  /\ Cur("DCBATCH", i).at = "list" /\ Cur("DCBATCH", i).todo # {}
      /\ c # NoCtrl
      /\ peon_add_disconn_task_inherit(i, c.key, Visited(i))
      /\ UNCHANGED kernel

batch_end(i) ==
  /\ Cur("DCBATCH", i).at = "list" /\ Cur("DCBATCH", i).todo = {}
  /\ Goto("DCBATCH", i, "done")
  /\ UNCHANGED kernel
-----------------------------------------------------------------------------
(* The handler returned; the engine completes the task.                    *)
complete(pe, i) ==
  /\ Cur(pe, i).at \in {"done", "fail"}
  /\ peon_task_complete(pe, i, Cur(pe, i).at = "fail", [Cur(pe, i) EXCEPT !.at = "start"])
  /\ UNCHANGED kernel

Rechecked == wait["RECHECK"][lock.at]

(* Fault: the recheck never finds a controller gone.                       *)
nvme_recheck_Present == Scanning("RECHECK") /\ recheck_present /\ UNCHANGED kernel

(* snsd_nvme_recheck: does /sys/class/nvme/<dname> exist?                  *)
nvme_recheck ==
  /\ Scanning("RECHECK")
  /\ \/ ctrl[Rechecked.ctx.dname] # NoCtrl /\ recheck_present
     \/ ctrl[Rechecked.ctx.dname] = NoCtrl /\ recheck_gone([Rechecked.ctx EXCEPT !.dname = 0])
  /\ UNCHANGED kernel

(* The kernel on its own: a controller loses its path, reconnects, or is   *)
(* removed when ctrl_loss_tmo runs out.                                    *)
path_lost(n) ==
  /\ ctrl[n].state = "live"
  /\ KeepAliveFails(n)
  /\ UNCHANGED vars
path_back(n) ==
  /\ ctrl[n].state = "fault"
  /\ ctrl' = [ctrl EXCEPT ![n].state = "live"]
  /\ UNCHANGED <<vars, upsets>>
ctrl_loss(n) ==
  /\ ctrl[n].state = "fault"
  /\ ctrl' = [ctrl EXCEPT ![n] = NoCtrl]
  /\ UNCHANGED <<vars, upsets>>
-----------------------------------------------------------------------------
CInit == Init /\ ctrl = [n \in Name |-> NoCtrl] /\ upsets = 0

CallerStep(c) == peon_sn_generate(c) \/ peon_task_reject(c) \/ peon_task_add(c)

Worker ==
  \/ \E pe \in Peon : peon_task_get(pe) \/ scan_dead(pe) \/ scan_live(pe) \/ scan_end(pe)
  \/ \E d \in DynPeon : peon_deconstruct(d)
  \/ dynamic_exit
  \/ peon_run_recheck \/ recheck_dead
  \/ Tick

Engine == (Worker \/ \E c \in Caller : CallerStep(c)) /\ UNCHANGED kernel

HandlerStep ==
  \/ \E i \in DOMAIN proc["CONNECT"] :
       disc_get_subsysnqn(i) \/ connect_find(i) \/ connect_create(i) \/ connect_verify(i)
  \/ \E pe \in {"DISCONN"} \cup DynPeon : \E i \in DOMAIN proc[pe] :
       \/ disconnect_find(pe, i) \/ keep_alive(pe, i) \/ disconnect_check(pe, i)
       \/ ctrl_remove(pe, i) \/ retry_keep_alive(pe, i)
  \/ \E i \in DOMAIN proc["DCBATCH"] : batch_scandir(i) \/ batch_skip(i) \/ batch_end(i)

Handlers ==
  \/ HandlerStep
  \/ \E i \in DOMAIN proc["DCBATCH"] : batch_inherit(i)
  \/ \E pe \in Peon : \E i \in DOMAIN proc[pe] : complete(pe, i)
  \/ nvme_recheck

Kernel == \E n \in Name : path_lost(n) \/ path_back(n) \/ ctrl_loss(n)

CNext == Engine \/ Handlers \/ Kernel
CSpec == CInit /\ [][CNext]_cvars

(* The thread that holds the lock runs on, and so does a handler between   *)
(* two system calls.  A thread that wants the lock gets it in the end: no  *)
(* holder keeps it, and every other user sleeps between its turns.  Time   *)
(* passes, and workers and the recheck thread wake up periodically.  The   *)
(* kernel does not leave a controller without a path: it reconnects or     *)
(* gives up.                                                               *)
Engaged(A) == A /\ UNCHANGED kernel
HolderRuns ==
  \/ \E pe \in Peon : Engaged(scan_dead(pe) \/ scan_live(pe) \/ scan_end(pe))
  \/ nvme_recheck \/ Engaged(recheck_dead)
LockGranted ==
  \/ \E c \in Caller : Engaged(peon_task_add(c))
  \/ \E pe \in Peon : \E i \in DOMAIN proc[pe] : complete(pe, i)
  \/ \E i \in DOMAIN proc["DCBATCH"] : batch_inherit(i)
  \/ \E d \in DynPeon : Engaged(peon_deconstruct(d))
  \/ Engaged(Tick)
Fairness ==
  /\ WF_cvars(HolderRuns)
  /\ WF_cvars(HandlerStep)
  /\ SF_cvars(LockGranted)
  /\ \A pe \in Peon \ {"RECHECK"} : SF_cvars(Engaged(peon_task_get(pe)))
  /\ SF_cvars(Engaged(peon_run_recheck))
  /\ WF_cvars(\E n \in Name : path_back(n) \/ ctrl_loss(n))
FairCSpec == CSpec /\ Fairness
-----------------------------------------------------------------------------
(* The handlers use the engine only as Peon lets them: everything Peon     *)
(* guarantees holds with the real handlers.                                *)
PeonSpec == Spec

(* No two controllers with one address: snsd_nvme_connect looks for a      *)
(* controller before it creates one, and although looking and creating     *)
(* are two system calls no other connect gets in between.                  *)
NoDuplicateController ==
  \A n, m \in Name :
    ctrl[n] # NoCtrl /\ ctrl[m] # NoCtrl /\ ctrl[n].key = ctrl[m].key => n = m

SnSpent == sn + Len(wait["RECHECK"]) > MaxSn

(* A device whose newest request is a connect gets a live controller, and  *)
(* gets it again when it is lost, by the retries of peon_task_complete and *)
(* the revivals of peon_run_recheck; unless something newer is requested.  *)
ConnectConverges ==
  \A d \in Device :
    (latest[d].op = "connect")
      ~> (ctrl_find(d) = "live" \/ latest[d].op # "connect" \/ SnSpent)

(* peon_task_complete: "add to the recheck task list to periodically check *)
(* the device": the name a recheck task looks for is its own device's.     *)
RecheckWatchesDevice ==
  \A t \in ToSet(wait["RECHECK"]) :
    t.state = "LIVE" /\ ctrl[t.ctx.dname] # NoCtrl
      => ctrl[t.ctx.dname].key = Address(t.key)

SameAddress(d) == {e \in Device : Address(e) = Address(d)}

(* The newest request for the address of d is a disconnect that has run.   *)
Disconnected(d) ==
  \E e \in SameAddress(d) :
    /\ latest[e].op = "disconnect" /\ served[e] = latest[e].sn
    /\ \A f \in SameAddress(d) : latest[f].sn <= latest[e].sn

(* peon_task_action_judge, for a disconnect task: "check whether a connect *)
(* task of the same device exists to filter the outdated disconnect or     *)
(* connect task".  An outdated connect that is filtered while it runs has  *)
(* no effect after the disconnect: no controller is created for a device   *)
(* after its newest request, a disconnect, has run.                        *)
NoConnectAfterDisconnect ==
  [][\A d \in Device : Disconnected(d) /\ CtrlAt(d) = {} => (CtrlAt(d) = {})']_cvars

(* A disconnect filters the recheck task of the same device.               *)
DisconnectFiltersRecheck ==
  \A t \in ToSet(wait["RECHECK"]) : Disconnected(t.key) => t.state = "DEAD"
=============================================================================
