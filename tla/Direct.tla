------------------------------- MODULE Direct -------------------------------
(***************************************************************************)
(* The directly connected ports (snsd_direct.c) on top of the task engine  *)
(* and its handlers.  The main thread polls the interfaces; for each port  *)
(* whose address has a [DC] line it asks for a connection to the target of *)
(* that line while the link is up, and for its end when the link is down   *)
(* or the interface is gone.  A request the engine refuses is made again   *)
(* at a later poll, except the last one for an interface that is gone.     *)
(*                                                                         *)
(* A poll reads each interface once.  A port is out of sight also when it  *)
(* has no valid VLAN or fails the protocol check: snsd_cfg_net_info leaves *)
(* its count behind in these cases too.  A poll that fails (-EPERM) is     *)
(* dropped before any port is looked at, and is a stuttering step.         *)
(***************************************************************************)
EXTENDS Connect

CONSTANTS
  TargetOf,     \* target of the [DC] line of every directly connected host
  MaxFlap       \* bound: changes of links

ASSUME DirectAssumption ==
  /\ TargetOf \in [DcHost -> Target]
  /\ "idle" \notin DcHost /\ "next" \notin DcHost
  /\ MaxFlap \in Nat

VARIABLES
  link,    \* the interface of every host address, as the kernel sees it
  port,    \* the main thread's list of ports (struct snsd_net_info)
  poll,    \* the main thread: ports it has still to handle, and the one
           \* whose request is under way
  told,    \* history: the request last queued for every port
  flaps    \* changes of links so far

ports == <<link, port, poll, told, flaps>>
dvars == <<cvars, ports>>

NoPort == [state |-> "none"]
Idle   == [todo |-> {}, at |-> "idle"]

DirectKey(h) == [host |-> h, traddr |-> TargetOf[h], portid |-> 0]

DInit ==
  /\ CInit
  /\ link \in [DcHost -> {"gone", "down", "up"}]
  /\ port = [h \in DcHost |-> NoPort]
  /\ poll = Idle
  /\ told = [h \in DcHost |-> "none"]
  /\ flaps = 0
-----------------------------------------------------------------------------
(* An interface appears, goes away, or its link changes.                   *)
link_change(h) ==
  /\ flaps < MaxFlap /\ flaps' = flaps + 1
  /\ \E l \in {"gone", "down", "up"} \ {link[h]} : link' = [link EXCEPT ![h] = l]
  /\ UNCHANGED <<cvars, port, poll, told>>

(* Fault: the state of a new port is not set.                              *)
InSight_Unset(h) ==
  IF link[h] # "gone"
  THEN [state |-> port[h].state, running |-> link[h] = "up", seen |-> TRUE]
  ELSE IF port[h] = NoPort THEN NoPort ELSE [port[h] EXCEPT !.seen = FALSE]

(* snsd_cfg_net_info: a port in sight gets the flags of its interface and  *)
(* the poll's count, a new one starts as SNSD_CONNECT_INI.                 *)
InSight(h) ==
  IF link[h] # "gone"
  THEN [state |-> IF port[h] = NoPort THEN "INI" ELSE port[h].state,
        running |-> link[h] = "up", seen |-> TRUE]
  ELSE IF port[h] = NoPort THEN NoPort ELSE [port[h] EXCEPT !.seen = FALSE]

cfg_net_info ==
  /\ poll = Idle
  /\ port' = [h \in DcHost |-> InSight(h)]
  /\ poll' = [todo |-> {h \in DcHost : port'[h] # NoPort}, at |-> "next"]
  /\ UNCHANGED <<cvars, link, told, flaps>>

poll_end ==
  /\ poll.at = "next" /\ poll.todo = {}
  /\ poll' = Idle
  /\ UNCHANGED <<cvars, link, port, told, flaps>>

(* Fault: a port that was disconnected once is not connected again.        *)
WantsConnect_Once(h) == port[h].seen /\ port[h].state = "INI" /\ port[h].running

(* direct_connect_handle: what the state and the flags of a port call for. *)
WantsConnect(h) ==
  port[h].seen /\ port[h].state \in {"INI", "DISCONNECTED"} /\ port[h].running

WantsDisconnect(h) ==
  port[h].state = "CONNECTED" /\ (~port[h].seen \/ ~port[h].running)

(* snsd_connect and snsd_disconnect of the main thread, up to the lock.    *)
Ask(h, pe) ==
  /\ peon_sn_generate("main")
  /\ adding'["main"].peon = pe /\ adding'["main"].task.key = DirectKey(h)
  /\ poll' = [poll EXCEPT !.at = h]
  /\ UNCHANGED <<kernel, link, port, told, flaps>>

direct_connect_handle(h) ==
  /\ poll.at = "next" /\ h \in poll.todo
  /\ \/ WantsConnect(h) /\ Ask(h, "CONNECT")
     \/ WantsDisconnect(h) /\ Ask(h, "DISCONN")

(* A port that needs nothing, or is gone and was not connected.            *)
direct_port_skip(h) ==
  /\ poll.at = "next" /\ h \in poll.todo
  /\ ~WantsConnect(h) /\ ~WantsDisconnect(h)
  /\ port' = IF port[h].seen THEN port ELSE [port EXCEPT ![h] = NoPort]
  /\ poll' = [poll EXCEPT !.todo = @ \ {h}]
  /\ UNCHANGED <<cvars, link, told, flaps>>

(* The request under way is for the port poll.at.                          *)
Asked(pe) ==
  /\ poll.at \in DcHost
  /\ adding["main"].peon = pe
  /\ poll' = [todo |-> poll.todo \ {poll.at}, at |-> "next"]

(* The port after its request: a port out of sight is deleted, whether the *)
(* disconnect was queued or not.                                           *)
After(h, state) ==
  IF port[h].seen THEN [port EXCEPT ![h].state = state] ELSE [port EXCEPT ![h] = NoPort]

Queued(pe) ==
  /\ Asked(pe)
  /\ peon_task_add("main")
  /\ port' = After(poll.at, IF pe = "CONNECT" THEN "CONNECTED" ELSE "DISCONNECTED")
  /\ told' = [told EXCEPT ![poll.at] = pe]
  /\ UNCHANGED <<kernel, link, flaps>>

(* Fault: the result of the request is not looked at.                      *)
Refused_Ignored(pe) ==
  /\ Asked(pe)
  /\ peon_task_reject("main") /\ Upset
  /\ port' = After(poll.at, IF pe = "CONNECT" THEN "CONNECTED" ELSE "DISCONNECTED")
  /\ UNCHANGED <<ctrl, link, told, flaps>>

Refused(pe) ==
  /\ Asked(pe)
  /\ peon_task_reject("main") /\ Upset
  /\ port' = After(poll.at, port[poll.at].state)
  /\ UNCHANGED <<ctrl, link, told, flaps>>
-----------------------------------------------------------------------------
MainStep ==
  \/ cfg_net_info \/ poll_end
  \/ \E h \in DcHost : direct_connect_handle(h) \/ direct_port_skip(h)
Answer == \E pe \in {"CONNECT", "DISCONN"} : Queued(pe)

DNext ==
  \/ MainStep \/ Answer
  \/ \E pe \in {"CONNECT", "DISCONN"} : Refused(pe)
  \/ \E h \in DcHost : link_change(h)
  \/ /\ \/ (Worker \/ CallerStep("server")) /\ UNCHANGED kernel
        \/ Handlers \/ Kernel
     /\ UNCHANGED ports
DSpec == DInit /\ [][DNext]_dvars

(* The engine and its handlers run as in Connect; the main thread polls    *)
(* forever and gets the lock in the end.  Of the workers, those of the two *)
(* peons that ports use need to wake up: no batch is requested here, and a *)
(* connect does not need the turn of a dynamic thread.                     *)
OnPorts(A) == A /\ UNCHANGED ports
LockWanted ==
  \/ \E pe \in Peon : \E i \in DOMAIN proc[pe] : complete(pe, i)
  \/ \E d \in DynPeon : Engaged(peon_deconstruct(d))
  \/ Engaged(Tick)
DFairness ==
  /\ WF_dvars(MainStep)
  /\ SF_dvars(Answer)
  /\ WF_dvars(OnPorts(HolderRuns))
  /\ WF_dvars(OnPorts(HandlerStep))
  /\ SF_dvars(OnPorts(LockWanted))
  /\ \A pe \in {"CONNECT", "DISCONN"} : SF_dvars(OnPorts(Engaged(peon_task_get(pe))))
  /\ SF_dvars(OnPorts(Engaged(peon_run_recheck)))
  /\ WF_dvars(OnPorts(\E n \in Name : path_back(n) \/ ctrl_loss(n)))
FairDSpec == DSpec /\ DFairness
-----------------------------------------------------------------------------
(* No more numbers to draw: the bound of the instance is reached.          *)
Spent == sn >= MaxSn \/ SnSpent

(* Types of the ports and of the poll.                                     *)
DTypeOK ==
  /\ link \in [DcHost -> {"gone", "down", "up"}]
  /\ \A h \in DcHost :
       port[h] \in [state : {"INI", "CONNECTED", "DISCONNECTED"}, running : BOOLEAN,
                    seen : BOOLEAN] \cup {NoPort}
  /\ poll.todo \subseteq DcHost /\ poll.at \in DcHost \cup {"idle", "next"}

(* direct_info.state is SNSD_CONNECTED only while a connect is what was    *)
(* last asked for the target, so that a port is never taken for connected  *)
(* when its request was refused.                                           *)
ConnectedIsRequested ==
  \A h \in DcHost : port[h].state = "CONNECTED" => latest[DirectKey(h)].op = "connect"

(* A port whose link stays up gets a live controller to its target, also   *)
(* after links that went down, requests that were refused and connections  *)
(* that failed.                                                            *)
LinkUpConnects ==
  \A h \in DcHost :
    link[h] = "up" ~> (ctrl_find(DirectKey(h)) = "live" \/ link[h] # "up" \/ Spent)

(* A connected port whose link stays down gets its disconnect queued,      *)
(* however often that was refused, unless a poll found its interface gone. *)
LinkDownDisconnects ==
  \A h \in DcHost :
    (link[h] = "down" /\ port[h].state = "CONNECTED")
      ~> (told[h] = "DISCONN" \/ link[h] # "down" \/ port[h] = NoPort \/ Spent)

(* A connected port that is gone from the list had its disconnect queued.  *)
VanishedDisconnected ==
  [][\A h \in DcHost :
       port[h].state = "CONNECTED" /\ port'[h] = NoPort
         => told'[h] = "DISCONN"]_dvars
=============================================================================
