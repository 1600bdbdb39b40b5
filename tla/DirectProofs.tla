---------------------------- MODULE DirectProofs ----------------------------
(***************************************************************************)
(* Proofs about the directly connected ports on top of the engine and its  *)
(* handlers: what the main thread believes of a port agrees with what it   *)
(* asked the engine for, for all hosts, targets, workers and failures.     *)
(***************************************************************************)
EXTENDS Direct, ConnectProofs

Entry == [state : {"INI", "CONNECTED", "DISCONNECTED"}, running : BOOLEAN, seen : BOOLEAN]

(* The ports of a poll are listed, the one that is handled among them.     *)
PortsOK ==
  /\ link \in [DcHost -> {"gone", "down", "up"}]
  /\ port \in [DcHost -> Entry \cup {NoPort}]
  /\ poll \in [todo : SUBSET DcHost, at : DcHost \cup {"idle", "next"}]
  /\ \A h \in poll.todo : port[h] # NoPort
  /\ poll.at \in DcHost => poll.at \in poll.todo

(* The server's request is for a device of a switched host.                *)
ServerOK ==
  adding["server"] # NoRequest => /\ adding["server"].task.key.host \in SwHost
                                  /\ adding["server"].peon \in {"CONNECT", "DISCONN"}

(* Here nobody asks for a batch.                                           *)
NoBatch == Listed("DCBATCH") = {}

(* The main thread has a request under way exactly while it handles a      *)
(* port, and that is for the port's target.                                *)
MainOK ==
  /\ adding["main"] # NoRequest => poll.at \in DcHost
  /\ poll.at \in DcHost => /\ adding["main"] # NoRequest
                           /\ adding["main"].task.key = DirectKey(poll.at)
                           /\ adding["main"].peon \in {"CONNECT", "DISCONN"}

(* Nothing is newer than the last number drawn.                            *)
LatestDrawn == \A d \in Device : latest[d].sn <= sn

(* While a request for a target is under way, only a connect that was      *)
(* revived may have overtaken it.                                          *)
NewerIsConnect ==
  poll.at \in DcHost
    => LET l == latest[DirectKey(poll.at)]
       IN  l.sn > adding["main"].task.sn => l.op = "connect"

DirectInv ==
  /\ PortsOK /\ MainOK /\ ServerOK /\ NoBatch
  /\ LatestDrawn /\ NewerIsConnect /\ ConnectedIsRequested

EngineInv == PeonInv /\ ExclusiveInv /\ ConnectInv
-----------------------------------------------------------------------------
(* The tasks of a list after a step have keys that it had before.          *)
KeysKept(pe) == \A u \in Listed(pe)' : \E t \in Listed(pe) : u.key = t.key

(* Taking or releasing the lock, freeing tasks, and time passing.          *)
LEMMA QuietKeys ==
  ASSUME PeonInv, NEW p \in Peon,
         \/ \E pe \in Peon : peon_task_get(pe) \/ scan_end(pe) \/ scan_dead(pe)
         \/ dynamic_exit \/ peon_run_recheck \/ recheck_dead \/ recheck_present
         \/ \E d \in DynPeon : peon_deconstruct(d)
  PROVE  KeysKept(p) /\ UNCHANGED <<sn, adding, latest>>
<1>0. wait \in [Peon -> Seq(Task)] /\ "RECHECK" \in Peon /\ DynPeon \subseteq Peon
  BY DEF PeonInv, TypeOK, Peon, StaticPeon
<1>1. UNCHANGED <<sn, proc, adding, latest>>
  BY DEF peon_task_get, scan_end, scan_dead, dynamic_exit, peon_run_recheck, recheck_dead,
         recheck_present, peon_deconstruct, lists, hist
<1>2. ASSUME NEW pe \in Peon, Scanning(pe), wait' = [wait EXCEPT ![pe] = RemoveAt(@, lock.at)]
      PROVE  ToSet(wait'[p]) \subseteq ToSet(wait[p])
  <2>1. wait[pe] \in Seq(Task) /\ lock.at \in 1 .. Len(wait[pe])
    BY <1>2, CursorInList
  <2>2. ToSet(RemoveAt(wait[pe], lock.at)) \subseteq ToSet(wait[pe])
    BY <2>1, RemoveAtProperties
  <2>3. QED BY <1>0, <1>2, <2>2
<1>3. ASSUME NEW d \in DynPeon, peon_deconstruct(d)
      PROVE  ToSet(wait'[p]) \subseteq ToSet(wait[p])
  <2>1. wait' = [wait EXCEPT ![d] = <<>>]
    BY <1>3 DEF peon_deconstruct
  <2>2. ToSet(<<>>) = {}
    BY DEF ToSet
  <2>3. QED BY <1>0, <2>1, <2>2
<1>4. ToSet(wait'[p]) \subseteq ToSet(wait[p])
  <2>1. CASE \E pe \in Peon : scan_dead(pe)
    BY <2>1, <1>2 DEF scan_dead, FreeAtCursor
  <2>2. CASE recheck_dead
    BY <2>2, <1>0, <1>2 DEF recheck_dead
  <2>3. CASE \/ \E pe \in Peon : peon_task_get(pe) \/ scan_end(pe)
             \/ dynamic_exit \/ peon_run_recheck \/ recheck_present
    <3>1. wait' = wait
      BY <2>3 DEF peon_task_get, scan_end, dynamic_exit, peon_run_recheck, recheck_present, lists
    <3>2. QED BY <3>1
  <2>4. QED BY <2>1, <2>2, <2>3, <1>3
<1>5. QED BY <1>1, <1>4 DEF KeysKept, Listed

LEMMA TickKeys ==
  ASSUME PeonInv, NEW p \in Peon, Tick
  PROVE  KeysKept(p) /\ UNCHANGED <<sn, adding, latest>>
<1> DEFINE m == [i \in DOMAIN wait[p] |-> Older(wait[p][i])]
<1>1. UNCHANGED <<sn, proc, adding, latest>> /\ wait'[p] = m
  BY DEF Tick, hist
<1>2. wait[p] \in Seq(Task)
  BY DEF PeonInv, TypeOK
<1>3. \A u \in ToSet(m) : \E q \in ToSet(wait[p]) : u.key = q.key
  BY <1>2, OlderListProperties
<1> HIDE DEF m
<1>4. QED BY <1>1, <1>3 DEF KeysKept, Listed

LEMMA ScanLiveKeys ==
  ASSUME PeonInv, NEW p \in Peon, NEW pe \in Peon, scan_live(pe)
  PROVE  KeysKept(p) /\ UNCHANGED <<sn, adding, latest>>
<1> DEFINE t == wait[pe][lock.at]
           type == TypeOf(pe)
           marked == [q \in Peon |-> MarkedList(wait[q], q, t, type)]
           running == [q \in Peon |-> MarkedList(proc[q], q, t, type)]
           cut == RemoveAt(marked[pe], lock.at)
<1>1. /\ UNCHANGED <<sn, adding, latest>> /\ Scanning(pe)
      /\ wait' = marked \/ wait' = [marked EXCEPT ![pe] = cut]
      /\ proc' = running \/ proc' = [running EXCEPT ![pe] = Append(running[pe], t)]
  BY DEF scan_live, FreeAtCursor, hist
<1>2. lock.at \in 1 .. Len(wait[pe]) /\ t \in Task /\ t \in ToSet(wait[pe])
  BY <1>1, CursorInList
<1>3. ASSUME NEW q \in Peon
      PROVE  /\ marked[q] \in Seq(Task) /\ Len(marked[q]) = Len(wait[q])
             /\ \A u \in ToSet(marked[q]) : \E v \in ToSet(wait[q]) : u.key = v.key
             /\ running[q] \in Seq(Task)
             /\ \A u \in ToSet(running[q]) : \E v \in ToSet(proc[q]) : u.key = v.key
  <2>1. /\ wait[q] \in Seq(Task) /\ marked[q] = MarkedList(wait[q], q, t, type)
        /\ proc[q] \in Seq(Task) /\ running[q] = MarkedList(proc[q], q, t, type)
    BY DEF PeonInv, TypeOK
  <2> HIDE DEF marked, running, t, type
  <2>2. QED BY <2>1, MarkedListProperties
<1>4. ToSet(cut) \subseteq ToSet(marked[pe]) /\ ToSet(Append(running[pe], t)) = ToSet(running[pe]) \cup {t}
  <2>1. /\ marked[pe] \in Seq(Task) /\ lock.at \in 1 .. Len(marked[pe])
        /\ running[pe] \in Seq(Task)
    BY <1>2, <1>3
  <2> HIDE DEF marked, running, t
  <2>2. QED BY <1>2, <2>1, RemoveAtProperties, AppendedProperties
<1>5. DOMAIN marked = Peon /\ DOMAIN running = Peon
  OBVIOUS
<1> HIDE DEF marked, running, cut, t, type
<1>6. ToSet(wait'[p]) \subseteq ToSet(marked[p])
  BY <1>1, <1>4, <1>5
<1>7. ToSet(proc'[p]) \subseteq ToSet(running[p]) \/ (p = pe /\ ToSet(proc'[p]) = ToSet(running[p]) \cup {t})
  BY <1>1, <1>4, <1>5
<1>8. QED BY <1>1, <1>2, <1>3, <1>6, <1>7 DEF KeysKept, Listed
-----------------------------------------------------------------------------
(* The ports and the poll.                                                 *)

(* A request for port h is answered: the port gets a state, or goes.       *)
LEMMA AnsweredPorts ==
  ASSUME PortsOK, NEW h \in poll.todo, NEW state \in {"INI", "CONNECTED", "DISCONNECTED"},
         port' = After(h, state), link' = link,
         poll' = [todo |-> poll.todo \ {h}, at |-> "next"]
  PROVE  /\ PortsOK'
         /\ \A g \in DcHost : g # h => port'[g] = port[g]
         /\ port'[h].state = state \/ port'[h] = NoPort
<1> DEFINE e == [port[h] EXCEPT !.state = state]
<1>0. h \in DcHost /\ port[h] \in Entry
  BY DEF PortsOK
<1>1. e \in Entry /\ e.state = state
  BY <1>0 DEF Entry
<1>2. port' = [port EXCEPT ![h] = e] \/ port' = [port EXCEPT ![h] = NoPort]
  BY DEF After
<1> HIDE DEF e
<1>3. /\ port' \in [DcHost -> Entry \cup {NoPort}]
      /\ \A g \in DcHost : g # h => port'[g] = port[g]
      /\ port'[h] = e \/ port'[h] = NoPort
  BY <1>0, <1>1, <1>2 DEF PortsOK
<1>4. poll'.todo = poll.todo \ {h} /\ poll'.at = "next"
      /\ poll' \in [todo : SUBSET DcHost, at : DcHost \cup {"idle", "next"}]
  BY DEF PortsOK
<1>5. \A g \in poll'.todo : port'[g] # NoPort
  BY <1>3, <1>4 DEF PortsOK
<1>6. poll'.at \notin DcHost
  BY <1>4, DirectAssumption
<1>7. QED BY <1>1, <1>3, <1>4, <1>5, <1>6 DEF PortsOK

(* No port becomes connected.                                              *)
NoneConnected ==
  \A h \in DcHost : port'[h].state = "CONNECTED" => port[h].state = "CONNECTED"

(* What a poll sees of a port keeps its state.                             *)
LEMMA SightPorts ==
  ASSUME PortsOK, NEW h \in DcHost
  PROVE  /\ InSight(h) \in Entry \cup {NoPort}
         /\ InSight(h).state = "CONNECTED" => port[h].state = "CONNECTED"
<1>0. port[h] \in Entry \cup {NoPort}
  BY DEF PortsOK
<1>1. NoPort.state # "CONNECTED"
  BY DEF NoPort
<1>2. CASE link[h] # "gone" /\ port[h] = NoPort
  <2>1. (link[h] = "up") \in BOOLEAN
    OBVIOUS
  <2>2. InSight(h) = [state |-> "INI", running |-> link[h] = "up", seen |-> TRUE]
    BY <1>2 DEF InSight
  <2>3. QED BY <2>1, <2>2 DEF Entry
<1>3. CASE link[h] # "gone" /\ port[h] # NoPort
  <2>1. (link[h] = "up") \in BOOLEAN /\ port[h].state \in {"INI", "CONNECTED", "DISCONNECTED"}
    BY <1>0, <1>3 DEF Entry
  <2>2. InSight(h) = [state |-> port[h].state, running |-> link[h] = "up", seen |-> TRUE]
    BY <1>3 DEF InSight
  <2>3. QED BY <2>1, <2>2 DEF Entry
<1>4. CASE link[h] = "gone" /\ port[h] # NoPort
  <2>1. port[h] \in Entry /\ InSight(h) = [port[h] EXCEPT !.seen = FALSE]
    BY <1>0, <1>4 DEF InSight
  <2>2. QED BY <2>1 DEF Entry
<1>5. CASE link[h] = "gone" /\ port[h] = NoPort
  BY <1>1, <1>5 DEF InSight
<1>6. QED BY <1>2, <1>3, <1>4, <1>5

(* The steps of the main thread that need no request.                      *)
LEMMA PollPorts ==
  ASSUME PortsOK,
         \/ cfg_net_info \/ poll_end
         \/ \E h \in DcHost : direct_port_skip(h)
         \/ \E h \in DcHost : link_change(h)
  PROVE  /\ PortsOK' /\ NoneConnected /\ UNCHANGED cvars
         /\ poll'.at = poll.at \/ {poll.at, poll'.at} \cap DcHost = {}
<1>0. "idle" \notin DcHost /\ "next" \notin DcHost /\ Idle.todo = {} /\ Idle.at = "idle"
  BY DirectAssumption DEF Idle
<1>1. CASE cfg_net_info
  <2>1. /\ port' = [h \in DcHost |-> InSight(h)] /\ poll = Idle
        /\ poll' = [todo |-> {h \in DcHost : port'[h] # NoPort}, at |-> "next"]
        /\ UNCHANGED cvars /\ link' = link
    BY <1>1 DEF cfg_net_info
  <2>2. port' \in [DcHost -> Entry \cup {NoPort}] /\ NoneConnected
    BY <2>1, SightPorts DEF NoneConnected
  <2>3. /\ poll'.todo = {h \in DcHost : port'[h] # NoPort} /\ poll'.at = "next"
        /\ poll' \in [todo : SUBSET DcHost, at : DcHost \cup {"idle", "next"}]
    BY <2>1
  <2>4. QED BY <1>0, <2>1, <2>2, <2>3 DEF PortsOK
<1>2. CASE poll_end
  <2>1. poll' = Idle /\ UNCHANGED <<cvars, link, port>> /\ poll.at = "next"
    BY <1>2 DEF poll_end
  <2>2. poll' \in [todo : SUBSET DcHost, at : DcHost \cup {"idle", "next"}]
    BY <2>1 DEF Idle
  <2>3. QED BY <1>0, <2>1, <2>2 DEF PortsOK, NoneConnected
<1>3. CASE \E h \in DcHost : direct_port_skip(h)
  <2>1. PICK h \in DcHost : direct_port_skip(h)
    BY <1>3
  <2>2. /\ poll' = [poll EXCEPT !.todo = poll.todo \ {h}] /\ poll.at = "next"
        /\ UNCHANGED <<cvars, link>>
        /\ port' = port \/ port' = [port EXCEPT ![h] = NoPort]
    BY <2>1 DEF direct_port_skip
  <2>3. /\ poll' \in [todo : SUBSET DcHost, at : DcHost \cup {"idle", "next"}]
        /\ poll'.todo = poll.todo \ {h} /\ poll'.at = "next"
    BY <2>2 DEF PortsOK
  <2>4. /\ port' \in [DcHost -> Entry \cup {NoPort}]
        /\ \A g \in DcHost : g # h => port'[g] = port[g]
        /\ port'[h] = port[h] \/ port'[h] = NoPort
    BY <2>2 DEF PortsOK
  <2>5. NoneConnected
    BY <2>4 DEF NoneConnected, NoPort
  <2>6. QED BY <1>0, <2>2, <2>3, <2>4, <2>5 DEF PortsOK
<1>4. CASE \E h \in DcHost : link_change(h)
  <2>1. PICK h \in DcHost : link_change(h)
    BY <1>4
  <2>2. UNCHANGED <<cvars, port, poll>>
    BY <2>1 DEF link_change
  <2>3. link' \in [DcHost -> {"gone", "down", "up"}]
    BY <2>1 DEF link_change, PortsOK
  <2>4. QED BY <2>2, <2>3 DEF PortsOK, NoneConnected
<1>5. QED BY <1>1, <1>2, <1>3, <1>4

(* The main thread asks for something, and the answer.                     *)
LEMMA AskPorts ==
  ASSUME PortsOK, NEW h \in DcHost, direct_connect_handle(h)
  PROVE  /\ PortsOK' /\ poll'.at = h /\ poll.at \notin DcHost /\ UNCHANGED port
         /\ \E pe \in {"CONNECT", "DISCONN"} : Ask(h, pe)
<1>1. PICK pe \in {"CONNECT", "DISCONN"} : Ask(h, pe)
  BY DEF direct_connect_handle
<1>2. /\ poll' = [poll EXCEPT !.at = h] /\ UNCHANGED <<link, port>>
      /\ poll.at = "next" /\ h \in poll.todo
  BY <1>1 DEF direct_connect_handle, Ask
<1>3. /\ poll' \in [todo : SUBSET DcHost, at : DcHost \cup {"idle", "next"}]
      /\ poll'.todo = poll.todo /\ poll'.at = h
  BY <1>2 DEF PortsOK
<1>4. QED BY <1>1, <1>2, <1>3, DirectAssumption DEF PortsOK

LEMMA AnswerPorts ==
  ASSUME PortsOK, NEW pe \in {"CONNECT", "DISCONN"}, Queued(pe) \/ Refused(pe)
  PROVE  /\ PortsOK' /\ poll'.at \notin DcHost /\ poll.at \in DcHost
         /\ adding["main"].peon = pe
         /\ NoneConnected \/ (Queued(pe) /\ pe = "CONNECT")
         /\ \A h \in DcHost : h # poll.at => port'[h] = port[h]
         /\ Queued("DISCONN") => port'[poll.at].state # "CONNECTED"
<1> DEFINE h == poll.at
<1>1. /\ h \in DcHost /\ adding["main"].peon = pe /\ UNCHANGED link
      /\ poll' = [todo |-> poll.todo \ {h}, at |-> "next"]
  BY DEF Queued, Refused, Asked
<1>2. h \in poll.todo /\ port[h] \in Entry
  BY <1>1 DEF PortsOK
<1>3. poll'.at \notin DcHost
  BY <1>1, DirectAssumption
<1>4. ~(Queued("CONNECT") /\ pe = "DISCONN") /\ ~(Queued("DISCONN") /\ pe = "CONNECT")
  BY <1>1 DEF Queued, Asked
<1>5. CASE Queued(pe)
  <2> DEFINE st == IF pe = "CONNECT" THEN "CONNECTED" ELSE "DISCONNECTED"
  <2>1. port' = After(h, st)
    BY <1>5 DEF Queued
  <2>2. st \in {"INI", "CONNECTED", "DISCONNECTED"} /\ (pe = "DISCONN" => st # "CONNECTED")
    OBVIOUS
  <2> HIDE DEF st, h
  <2>3. /\ PortsOK' /\ \A g \in DcHost : g # h => port'[g] = port[g]
        /\ port'[h].state = st \/ port'[h] = NoPort
    BY <1>1, <1>2, <2>1, <2>2, AnsweredPorts
  <2>4. pe = "DISCONN" => NoneConnected /\ port'[h].state # "CONNECTED"
    BY <1>1, <2>2, <2>3 DEF NoneConnected, NoPort
  <2>5. QED BY <1>1, <1>3, <1>4, <1>5, <2>3, <2>4 DEF h
<1>6. CASE Refused(pe) /\ ~Queued(pe)
  <2> DEFINE st == port[h].state
  <2>1. port' = After(h, st)
    BY <1>6 DEF Refused
  <2>2. st \in {"INI", "CONNECTED", "DISCONNECTED"}
    BY <1>2 DEF Entry
  <2> HIDE DEF h
  <2>3. /\ PortsOK' /\ \A g \in DcHost : g # h => port'[g] = port[g]
        /\ port'[h].state = st \/ port'[h] = NoPort
    BY <1>1, <1>2, <2>1, <2>2, AnsweredPorts
  <2>4. NoneConnected
    BY <1>1, <2>2, <2>3 DEF NoneConnected, NoPort
  <2>5. ~Queued("DISCONN")
    BY <1>4, <1>6
  <2>6. QED BY <1>1, <1>3, <2>3, <2>4, <2>5 DEF h
<1>7. QED BY <1>5, <1>6

LEMMA PortsInit == DInit => PortsOK
<1>1. Idle \in [todo : SUBSET DcHost, at : DcHost \cup {"idle", "next"}]
      /\ Idle.todo = {} /\ Idle.at \notin DcHost
  BY DirectAssumption DEF Idle
<1>2. QED BY <1>1 DEF DInit, PortsOK

LEMMA PortsNext == PortsOK /\ [DNext]_dvars => PortsOK'
<1> SUFFICES ASSUME PortsOK, [DNext]_dvars PROVE PortsOK'
  OBVIOUS
<1>1. CASE \/ cfg_net_info \/ poll_end \/ \E h \in DcHost : direct_port_skip(h)
           \/ \E h \in DcHost : link_change(h)
  BY <1>1, PollPorts
<1>2. CASE \E h \in DcHost : direct_connect_handle(h)
  BY <1>2, AskPorts
<1>3. CASE \E pe \in {"CONNECT", "DISCONN"} : Queued(pe) \/ Refused(pe)
  BY <1>3, AnswerPorts
<1>4. CASE UNCHANGED ports
  BY <1>4 DEF ports, PortsOK
<1>5. QED BY <1>1, <1>2, <1>3, <1>4 DEF DNext, MainStep, Answer, dvars

(* What the main thread keeps about the interfaces has its type: a port in *)
(* the list always has a state that direct_connect_handle knows, and a     *)
(* poll handles only ports that are listed.                                *)
THEOREM DirectTypeCorrect == DSpec => []DTypeOK
<1>1. PortsOK => DTypeOK
  BY DEF PortsOK, DTypeOK, Entry
<1>2. QED BY <1>1, PortsInit, PortsNext, PTL DEF DSpec
-----------------------------------------------------------------------------
(* The engine and the handlers below the ports.                            *)

LEMMA DNextSteps == [DNext]_dvars => Step \/ UNCHANGED <<vars, ctrl>>
<1> SUFFICES ASSUME [DNext]_dvars PROVE Step \/ UNCHANGED <<vars, ctrl>>
  OBVIOUS
<1>0. {"main", "server"} = Caller
  BY DEF Caller
<1>1. CASE \/ cfg_net_info \/ poll_end \/ \E h \in DcHost : direct_port_skip(h)
           \/ \E h \in DcHost : link_change(h)
  BY <1>1 DEF cfg_net_info, poll_end, direct_port_skip, link_change, cvars, kernel
<1>2. CASE \E h \in DcHost : direct_connect_handle(h)
  BY <1>0, <1>2 DEF direct_connect_handle, Ask, CallerStep, Step, kernel
<1>3. CASE \E pe \in {"CONNECT", "DISCONN"} : Queued(pe) \/ Refused(pe)
  BY <1>0, <1>3 DEF Queued, Refused, CallerStep, Step, kernel
<1>4. CASE (Worker \/ CallerStep("server")) /\ UNCHANGED kernel
  BY <1>0, <1>4 DEF Step, kernel
<1>5. CASE Handlers \/ Kernel
  BY <1>5 DEF Step
<1>6. CASE UNCHANGED dvars
  BY <1>6 DEF dvars, cvars, kernel
<1>7. QED BY <1>1, <1>2, <1>3, <1>4, <1>5, <1>6 DEF DNext, MainStep, Answer

LEMMA EngineNext == EngineInv /\ [DNext]_dvars => EngineInv' /\ [Next]_vars
<1> SUFFICES ASSUME EngineInv, [DNext]_dvars PROVE EngineInv' /\ [Next]_vars
  OBVIOUS
<1>1. [Next]_vars /\ PeonInv' /\ ConnectInv'
  BY DNextSteps, ConnectNext DEF EngineInv
<1>2. QED BY <1>1, ExclusiveNext DEF EngineInv

LEMMA EngineKept == DSpec => []EngineInv
<1>1. DInit => EngineInv
  BY ConnectInit, ExclusiveInit DEF DInit, EngineInv
<1>2. QED BY <1>1, EngineNext, PTL DEF DSpec

(* The main thread and its ports use the engine only as Peon lets them.    *)
THEOREM PortsUseEngine == DSpec => PeonSpec
<1>1. DInit => Init
  BY ConnectInit DEF DInit
<1>2. QED BY <1>1, EngineNext, EngineKept, PTL DEF DSpec, PeonSpec, Spec

(* The requests of the ports too are subject to the engine's promise.      *)
THEOREM PortsKeepPromise == DSpec => EnginePromise
BY PortsUseEngine, EngineKeepsPromise, PTL DEF PeonSpec

(* However the ports flap, no two controllers with one address.            *)
THEOREM OneControllerPerPort ==
  ASSUME PEON_CONNECT_WORKER_NUM = 1
  PROVE  DSpec => []NoDuplicateController
<1>1. EngineInv /\ DuplicateInv /\ [DNext]_dvars => DuplicateInv'
  BY DNextSteps, DuplicateNext DEF EngineInv
<1>2. DInit => DuplicateInv
  BY DuplicateInit DEF DInit
<1>3. DuplicateInv => NoDuplicateController
  BY DEF DuplicateInv
<1>4. QED BY <1>1, <1>2, <1>3, EngineKept, PTL DEF DSpec
-----------------------------------------------------------------------------
(* What each step does to the newest requests.                             *)

(* Queueing a request of a caller.                                         *)
LEMMA QueueLatest ==
  ASSUME PeonInv, NEW pe \in {"CONNECT", "DISCONN", "DCBATCH"}, NEW t, Queue(pe, t)
  PROVE  /\ latest' = Requested(pe, t) \/ (latest' = latest /\ pe = "DISCONN")
         /\ pe # "DCBATCH" => wait'["DCBATCH"] = wait["DCBATCH"]
<1>0. wait \in [Peon -> Seq(Task)] /\ "DCBATCH" \in Peon /\ "DCBATCH" \notin DynPeon
  BY ConstantsAssumption DEF PeonInv, TypeOK, Peon, StaticPeon
<1>1. CASE QueueStatic(pe, t)
  BY <1>0, <1>1 DEF QueueStatic
<1>2. CASE QueueDynamic(pe, t)
  BY <1>0, <1>2 DEF QueueDynamic
<1>3. CASE WantsDynamic(pe) /\ QueueStuck
  BY <1>3 DEF WantsDynamic, QueueStuck, hist
<1>4. QED BY <1>1, <1>2, <1>3 DEF Queue

(* No newest request is newer than the last number drawn.                  *)
LEMMA LatestKept ==
  ASSUME PeonInv, LatestDrawn, sn' \in Nat, sn <= sn',
         \/ latest' = latest
         \/ \E pe \in StaticPeon : \E t \in Task : latest' = Requested(pe, t) /\ t.sn <= sn'
  PROVE  LatestDrawn'
<1>0. /\ latest \in [Device -> [op : {"none", "connect", "disconnect", "batch"}, sn : Nat]]
      /\ sn \in Nat /\ TypeOK
  BY DEF PeonInv, TypeOK
<1>1. CASE latest' = latest
  BY <1>0, <1>1 DEF LatestDrawn
<1>2. CASE \E pe \in StaticPeon : \E t \in Task : latest' = Requested(pe, t) /\ t.sn <= sn'
  <2>1. PICK pe \in StaticPeon : \E t \in Task : latest' = Requested(pe, t) /\ t.sn <= sn'
    BY <1>2
  <2>2. PICK t \in Task : latest' = Requested(pe, t) /\ t.sn <= sn'
    BY <2>1
  <2>3. \A d \in Device : latest'[d] = latest[d] \/ latest'[d] = [op |-> OpOf(pe), sn |-> t.sn]
    BY <1>0, <2>2, RequestedProperties
  <2>4. QED BY <1>0, <2>2, <2>3 DEF LatestDrawn
<1>3. QED BY <1>1, <1>2

LEMMA LatestNext == PeonInv /\ ExclusiveInv /\ LatestDrawn /\ [Next]_vars => LatestDrawn'
<1> SUFFICES ASSUME PeonInv, ExclusiveInv, LatestDrawn, [Next]_vars PROVE LatestDrawn'
  OBVIOUS
<1>0. /\ sn \in Nat /\ adding \in [Caller -> Request] /\ {"CONNECT", "DISCONN", "DCBATCH"} \subseteq StaticPeon
      /\ StaticPeon \subseteq Peon
  BY DEF PeonInv, TypeOK, StaticPeon, Peon
<1>1. CASE \E c \in Caller : peon_task_add(c)
  <2>1. PICK c \in Caller : peon_task_add(c)
    BY <1>1
  <2>2. /\ adding[c] # NoRequest /\ Queue(adding[c].peon, adding[c].task) /\ sn' = sn
    BY <2>1 DEF peon_task_add
  <2>3. adding[c].peon \in {"CONNECT", "DISCONN", "DCBATCH"} /\ adding[c].task \in Task
    BY <1>0, <2>2 DEF Request, StaticPeon
  <2>4. adding[c].task.sn <= sn
    BY <2>2 DEF ExclusiveInv, SnsDrawn
  <2>5. QED BY <1>0, <2>2, <2>3, <2>4, QueueLatest, LatestKept
<1>2. CASE \E i \in DOMAIN proc["DCBATCH"] : \E d \in Device : \E c \in Ctx :
             peon_add_disconn_task_inherit(i, d, c)
  <2>1. PICK i \in DOMAIN proc["DCBATCH"] : \E d \in Device : \E c \in Ctx :
             peon_add_disconn_task_inherit(i, d, c)
    BY <1>2
  <2>2. PICK d \in Device : \E c \in Ctx : peon_add_disconn_task_inherit(i, d, c)
    BY <2>1
  <2> DEFINE t == NewTask(d, FALSE, proc["DCBATCH"][i].sn)
  <2>3. Queue("DISCONN", t) /\ sn' = sn
    BY <2>2 DEF peon_add_disconn_task_inherit
  <2>4. /\ proc["DCBATCH"] \in Seq(Task) /\ proc["DCBATCH"][i] \in Task
        /\ proc["DCBATCH"][i] \in ToSet(proc["DCBATCH"])
    <3>1. proc["DCBATCH"] \in Seq(Task)
      BY <1>0 DEF PeonInv, TypeOK
    <3>2. i \in 1 .. Len(proc["DCBATCH"])
      BY <3>1, ListDomain
    <3>3. QED BY <3>1, <3>2, InToSet
  <2>5. proc["DCBATCH"][i].sn \in Nat /\ proc["DCBATCH"][i].sn <= sn
    BY <2>4 DEF ExclusiveInv, SnsApart, DisconnectSns, Sns, Task
  <2>6. t \in Task /\ t.sn = proc["DCBATCH"][i].sn
    <3>1. 0 \in 0 .. MaxAge /\ 0 \in 0 .. PEON_FAIL_RETRY_INTERVAL /\ CtxInit \in Ctx
      BY ConstantsAssumption DEF MaxAge
    <3>2. QED BY <2>5, <3>1 DEF NewTask, Task
  <2> HIDE DEF t
  <2>7. QED BY <1>0, <2>3, <2>5, <2>6, QueueLatest, LatestKept
<1>3. CASE \E c \in Ctx : recheck_gone(c)
  <2>1. PICK c \in Ctx : recheck_gone(c)
    BY <1>3
  <2> DEFINE old == wait["RECHECK"][lock.at]
             new == [old EXCEPT !.sn = sn + 1, !.age = 0, !.backoff = 0, !.ctx = c]
  <2>2. sn' = sn + 1 /\ latest' = Requested("CONNECT", new) /\ Scanning("RECHECK")
    BY <2>1 DEF recheck_gone
  <2>3. old \in Task
    BY <2>2, CursorInList DEF Peon, StaticPeon
  <2>4. new \in Task /\ new.sn = sn + 1
    <3>1. 0 \in 0 .. MaxAge /\ 0 \in 0 .. PEON_FAIL_RETRY_INTERVAL /\ sn + 1 \in Nat
      BY <1>0, ConstantsAssumption DEF MaxAge
    <3> HIDE DEF old
    <3>2. QED BY <2>3, <3>1 DEF Task
  <2> HIDE DEF new, old
  <2>5. sn' \in Nat /\ sn <= sn' /\ new.sn <= sn'
    BY <1>0, <2>2, <2>4
  <2>6. QED BY <1>0, <2>2, <2>4, <2>5, LatestKept
<1>4. CASE \E c \in Caller : peon_sn_generate(c)
  <2>1. sn' = sn + 1 /\ latest' = latest
    BY <1>4 DEF peon_sn_generate, hist
  <2>2. QED BY <1>0, <2>1, LatestKept
<1>5. CASE sn' = sn /\ latest' = latest
  BY <1>0, <1>5, LatestKept
<1>6. CASE \/ \E c \in Caller : peon_task_reject(c)
           \/ \E pe \in Peon : peon_task_get(pe) \/ scan_dead(pe) \/ scan_live(pe) \/ scan_end(pe)
           \/ \E pe \in Peon : \E i \in DOMAIN proc[pe] : \E c \in Ctx :
                \/ handle(pe, i, c)
                \/ \E failed \in CanFail(pe) : peon_task_complete(pe, i, failed, c)
           \/ \E d \in DynPeon : peon_deconstruct(d)
           \/ dynamic_exit
           \/ peon_run_recheck \/ recheck_dead \/ recheck_present \/ Tick
  <2>1. sn' = sn /\ latest' = latest
    <3>1. CASE \/ \E c \in Caller : peon_task_reject(c)
               \/ \E pe \in Peon : peon_task_get(pe) \/ scan_dead(pe) \/ scan_end(pe)
      BY <3>1 DEF peon_task_reject, peon_task_get, scan_dead, scan_end, hist
    <3>2. CASE \E pe \in Peon : scan_live(pe)
      BY <3>2, ScanLiveKeys
    <3>3. CASE \E pe \in Peon : \E i \in DOMAIN proc[pe] : \E c \in Ctx :
                 handle(pe, i, c) \/ \E failed \in CanFail(pe) : peon_task_complete(pe, i, failed, c)
      BY <3>3 DEF handle, peon_task_complete, hist
    <3>4. CASE \/ \E d \in DynPeon : peon_deconstruct(d)
               \/ dynamic_exit \/ peon_run_recheck \/ recheck_dead \/ recheck_present \/ Tick
      BY <3>4 DEF peon_deconstruct, dynamic_exit, peon_run_recheck, recheck_dead, recheck_present,
         Tick, hist
    <3>5. QED BY <1>6, <3>1, <3>2, <3>3, <3>4
  <2>2. QED BY <1>5, <2>1
<1>7. CASE UNCHANGED vars
  BY <1>5, <1>7 DEF vars, hist
<1>8. QED BY <1>1, <1>2, <1>3, <1>4, <1>6, <1>7 DEF Next

(* A step changes the newest request of a device only to a connect.        *)
OnlyConnects ==
  \A d \in Device : latest'[d] = latest[d] \/ latest'[d].op = "connect"

LEMMA WorkerQuiet ==
  ASSUME PeonInv, NoBatch, Worker
  PROVE  NoBatch' /\ UNCHANGED <<sn, adding, latest>>
<1>1. "DCBATCH" \in Peon
  BY DEF Peon, StaticPeon
<1>2. KeysKept("DCBATCH") /\ UNCHANGED <<sn, adding, latest>>
  <2>1. CASE \E pe \in Peon : scan_live(pe)
    BY <1>1, <2>1, ScanLiveKeys
  <2>2. CASE Tick
    BY <1>1, <2>2, TickKeys
  <2>3. CASE \/ \E pe \in Peon : peon_task_get(pe) \/ scan_end(pe) \/ scan_dead(pe)
             \/ dynamic_exit \/ peon_run_recheck \/ recheck_dead
             \/ \E d \in DynPeon : peon_deconstruct(d)
    BY <1>1, <2>3, QuietKeys
  <2>4. QED BY <2>1, <2>2, <2>3 DEF Worker
<1>3. QED BY <1>2 DEF NoBatch, KeysKept

LEMMA HandlersQuiet ==
  ASSUME PeonInv, ConnectInv, NoBatch, Handlers
  PROVE  NoBatch' /\ UNCHANGED adding /\ OnlyConnects
<1>0. /\ {"CONNECT", "DCBATCH", "RECHECK"} \subseteq Peon
      /\ wait \in [Peon -> Seq(Task)] /\ proc \in [Peon -> Seq(Task)]
      /\ CtrlOK /\ FailOK /\ StartOK
  BY DEF PeonInv, TypeOK, Peon, StaticPeon, ConnectInv
<1>1. \A pe \in Peon : \A i \in DOMAIN proc[pe] : pe # "DCBATCH"
  BY CurTyped DEF NoBatch, Listed
<1>2. CASE HandlerStep
  <2>1. \E pe \in Peon : \E i \in DOMAIN proc[pe] : \E c \in Ctx : handle(pe, i, c)
    BY <1>0, <1>2, HandlerMoves DEF Moves
  <2>2. PICK pe \in Peon : \E i \in DOMAIN proc[pe] : \E c \in Ctx : handle(pe, i, c)
    BY <2>1
  <2>3. PICK i \in DOMAIN proc[pe] : \E c \in Ctx : handle(pe, i, c)
    BY <2>2
  <2>4. UNCHANGED <<wait, adding, latest>> /\ \E c \in Ctx : proc' = [proc EXCEPT ![pe][i].ctx = c]
    BY <2>3 DEF handle, hist
  <2>5. pe # "DCBATCH"
    BY <1>1, <2>3
  <2>6. proc'["DCBATCH"] = proc["DCBATCH"]
    BY <1>0, <2>4, <2>5, HandledRuns
  <2>7. QED BY <2>4, <2>6 DEF NoBatch, Listed, OnlyConnects
<1>3. CASE \E pe \in Peon : \E i \in DOMAIN proc[pe] : complete(pe, i)
  <2>1. PICK pe \in Peon : \E i \in DOMAIN proc[pe] : complete(pe, i)
    BY <1>3
  <2>2. PICK i \in DOMAIN proc[pe] : complete(pe, i)
    BY <2>1
  <2>3. PICK c \in Ctx : \E failed \in CanFail(pe) : peon_task_complete(pe, i, failed, c)
    BY <1>0, <2>2, CompleteForm
  <2>4. /\ UNCHANGED <<adding, latest>>
        /\ proc' = [proc EXCEPT ![pe] = RemoveAt(proc[pe], i)]
        /\ \/ \E w : wait' = [wait EXCEPT ![pe] = w]
           \/ \E w : wait' = [wait EXCEPT !["RECHECK"] = w]
           \/ wait' = wait
    BY <2>3 DEF peon_task_complete
  <2>5. pe # "DCBATCH"
    BY <1>1, <2>2
  <2>6. wait'["DCBATCH"] = wait["DCBATCH"] /\ proc'["DCBATCH"] = proc["DCBATCH"]
    BY <1>0, <2>4, <2>5
  <2>7. QED BY <2>4, <2>6 DEF NoBatch, Listed, OnlyConnects
<1>4. CASE nvme_recheck
  <2>1. recheck_present \/ \E c \in Ctx : recheck_gone(c)
    BY <1>0, <1>4, RecheckForm
  <2>2. CASE recheck_present
    BY <2>2 DEF recheck_present, lists, hist, NoBatch, Listed, OnlyConnects
  <2>3. CASE \E c \in Ctx : recheck_gone(c)
    <3>1. PICK c \in Ctx : recheck_gone(c)
      BY <2>3
    <3>2. /\ UNCHANGED <<proc, adding>> /\ \E t : latest' = Requested("CONNECT", t)
          /\ \E v, w : wait' = [wait EXCEPT !["RECHECK"] = v, !["CONNECT"] = w]
      BY <3>1 DEF recheck_gone
    <3>3. OnlyConnects
      BY <3>2 DEF OnlyConnects, Requested, OpOf
    <3>4. wait'["DCBATCH"] = wait["DCBATCH"]
      BY <1>0, <3>2
    <3>5. QED BY <3>2, <3>3, <3>4 DEF NoBatch, Listed
  <2>4. QED BY <2>1, <2>2, <2>3
<1>5. QED BY <1>0, <1>1, <1>2, <1>3, <1>4 DEF Handlers

(* The server thread touches devices of switched hosts only.               *)
LEMMA ServerQuiet ==
  ASSUME PeonInv, ServerOK, NoBatch, CallerStep("server")
  PROVE  /\ ServerOK' /\ NoBatch' /\ adding'["main"] = adding["main"]
         /\ \A d \in Device : latest'[d] = latest[d] \/ d.host \in SwHost
<1>0. /\ "DCBATCH" \in Peon /\ {"main", "server"} = Caller /\ adding \in [Caller -> Request]
  BY DEF Peon, StaticPeon, Caller, PeonInv, TypeOK
<1>1. CASE peon_sn_generate("server")
  <2>1. PICK r \in Requests("server") :
          adding' = [adding EXCEPT !["server"] =
                      [peon |-> r.peon, task |-> NewTask(r.key, r.force, sn + 1)]]
    BY <1>1 DEF peon_sn_generate
  <2>2. r.key.host \in SwHost /\ r.peon \in {"CONNECT", "DISCONN"}
    BY DEF Requests
  <2>3. ServerOK' /\ adding'["main"] = adding["main"]
    BY <1>0, <2>1, <2>2 DEF ServerOK, NewTask
  <2>4. UNCHANGED <<wait, proc, latest>>
    BY <1>1 DEF peon_sn_generate, lists, hist
  <2>5. QED BY <2>3, <2>4 DEF NoBatch, Listed
<1>2. CASE peon_task_reject("server")
  <2>1. UNCHANGED <<wait, proc, latest>> /\ adding' = [adding EXCEPT !["server"] = NoRequest]
    BY <1>2 DEF peon_task_reject, lists, hist
  <2>2. QED BY <1>0, <2>1 DEF ServerOK, NoBatch, Listed
<1>3. CASE peon_task_add("server")
  <2>1. /\ adding["server"] # NoRequest /\ Queue(adding["server"].peon, adding["server"].task)
        /\ adding' = [adding EXCEPT !["server"] = NoRequest] /\ proc' = proc
    BY <1>3 DEF peon_task_add
  <2>2. /\ adding["server"].peon \in {"CONNECT", "DISCONN"}
        /\ adding["server"].task.key.host \in SwHost
    BY <2>1 DEF ServerOK
  <2>3. /\ \/ latest' = Requested(adding["server"].peon, adding["server"].task)
           \/ latest' = latest
        /\ wait'["DCBATCH"] = wait["DCBATCH"]
    BY <2>1, <2>2, QueueLatest
  <2>4. \A d \in Device : latest'[d] = latest[d] \/ d.host \in SwHost
    BY <2>2, <2>3 DEF Requested
  <2>5. QED BY <1>0, <2>1, <2>3, <2>4 DEF ServerOK, NoBatch, Listed
<1>4. QED BY <1>1, <1>2, <1>3 DEF CallerStep

LEMMA KeysTyped ==
  ASSUME NEW h \in DcHost
  PROVE  DirectKey(h) \in Device /\ DirectKey(h).host = h
BY DirectAssumption, ConstantsAssumption DEF DirectKey, Device, Host

(* A step beside the main thread, as far as its ports are concerned.       *)
Beside ==
  /\ adding'["main"] = adding["main"] /\ poll'.at = poll.at /\ NoneConnected
  /\ \A h \in DcHost : \/ latest'[DirectKey(h)] = latest[DirectKey(h)]
                       \/ latest'[DirectKey(h)].op = "connect"

LEMMA BesideKeeps ==
  ASSUME MainOK, NewerIsConnect, ConnectedIsRequested, Beside
  PROVE  MainOK' /\ NewerIsConnect' /\ ConnectedIsRequested'
<1>1. MainOK'
  BY DEF MainOK, Beside, DirectKey
<1>2. NewerIsConnect'
  BY DEF NewerIsConnect, Beside, DirectKey
<1>3. ConnectedIsRequested'
  BY DEF ConnectedIsRequested, Beside, NoneConnected, DirectKey
<1>4. QED BY <1>1, <1>2, <1>3

(* The main thread draws a number for the request of a port.               *)
LEMMA AskKeeps ==
  ASSUME PeonInv, DirectInv, NEW h \in DcHost, direct_connect_handle(h)
  PROVE  /\ MainOK' /\ ServerOK' /\ NoBatch' /\ NewerIsConnect' /\ ConnectedIsRequested'
<1>0. /\ {"main", "server"} = Caller /\ adding \in [Caller -> Request] /\ sn \in Nat
      /\ latest \in [Device -> [op : {"none", "connect", "disconnect", "batch"}, sn : Nat]]
  BY DEF Caller, PeonInv, TypeOK
<1>1. poll'.at = h /\ port' = port /\ \E pe \in {"CONNECT", "DISCONN"} : Ask(h, pe)
  BY AskPorts DEF DirectInv
<1>2. PICK pe \in {"CONNECT", "DISCONN"} : Ask(h, pe)
  BY <1>1
<1>3. /\ peon_sn_generate("main")
      /\ adding'["main"].peon = pe /\ adding'["main"].task.key = DirectKey(h)
  BY <1>2 DEF Ask
<1>4. PICK r \in Requests("main") :
        adding' = [adding EXCEPT !["main"] =
                    [peon |-> r.peon, task |-> NewTask(r.key, r.force, sn + 1)]]
  BY <1>3 DEF peon_sn_generate
<1>5. /\ adding'["server"] = adding["server"] /\ adding'["main"] # NoRequest
      /\ adding'["main"].task.sn = sn + 1
  <2>1. adding'["main"] = [peon |-> r.peon, task |-> NewTask(r.key, r.force, sn + 1)]
    BY <1>0, <1>4
  <2>2. r.peon # "none"
    BY DEF Requests
  <2>3. QED BY <1>0, <1>4, <2>1, <2>2 DEF NoRequest, NewTask
<1>6. UNCHANGED <<wait, proc, latest>>
  BY <1>3 DEF peon_sn_generate, lists, hist
<1>7. ServerOK' /\ NoBatch'
  BY <1>5, <1>6 DEF DirectInv, ServerOK, NoBatch, Listed
<1>8. MainOK'
  BY <1>1, <1>3, <1>5 DEF MainOK, DirectKey
<1>9. NewerIsConnect'
  <2>1. latest[DirectKey(h)].sn \in Nat /\ latest[DirectKey(h)].sn <= sn
    BY <1>0, KeysTyped DEF DirectInv, LatestDrawn
  <2>2. ~(latest[DirectKey(h)].sn > sn + 1)
    BY <1>0, <2>1
  <2>3. QED BY <1>1, <1>5, <1>6, <2>2 DEF NewerIsConnect, DirectKey
<1>10. ConnectedIsRequested'
  BY <1>1, <1>6 DEF DirectInv, ConnectedIsRequested, DirectKey
<1>11. QED BY <1>7, <1>8, <1>9, <1>10

(* A connect of a port is queued: it is the newest request for the target, *)
(* or a connect that was revived in the meantime is.                       *)
LEMMA ConnectQueued ==
  ASSUME PeonInv, DirectInv, poll.at \in DcHost, adding["main"].peon = "CONNECT",
         latest' = Requested("CONNECT", adding["main"].task)
  PROVE  latest'[DirectKey(poll.at)].op = "connect"
<1> DEFINE key == DirectKey(poll.at)
           t == adding["main"].task
<1>1. key \in Device /\ t.key = key
  BY KeysTyped DEF DirectInv, MainOK
<1>2. latest[key].sn \in Nat /\ t.sn \in Nat
  <2>1. adding["main"] \in Request /\ adding["main"] # NoRequest
    BY DEF DirectInv, MainOK, PeonInv, TypeOK, Caller
  <2>2. t \in Task
    BY <2>1 DEF Request
  <2>3. QED BY <1>1, <2>2 DEF PeonInv, TypeOK, Task
<1>3. latest[key].sn > t.sn => latest[key].op = "connect"
  BY DEF DirectInv, NewerIsConnect
<1>4. latest'[key] = IF t.sn >= latest[key].sn THEN [op |-> "connect", sn |-> t.sn] ELSE latest[key]
  BY <1>1 DEF Requested, OpOf
<1> HIDE DEF key, t
<1>5. latest'[key].op = "connect"
  BY <1>2, <1>3, <1>4
<1>6. QED BY <1>5 DEF key

(* The answer to the request of a port.                                    *)
LEMMA AnswerKeeps ==
  ASSUME PeonInv, DirectInv, NEW pe \in {"CONNECT", "DISCONN"}, Queued(pe) \/ Refused(pe)
  PROVE  /\ MainOK' /\ ServerOK' /\ NoBatch' /\ NewerIsConnect' /\ ConnectedIsRequested'
<1> DEFINE h == poll.at
<1>0. {"main", "server"} = Caller /\ adding \in [Caller -> Request]
  BY DEF Caller, PeonInv, TypeOK
<1>1. /\ poll'.at \notin DcHost /\ h \in DcHost /\ adding["main"].peon = pe
      /\ NoneConnected \/ (Queued(pe) /\ pe = "CONNECT")
      /\ \A g \in DcHost : g # h => port'[g] = port[g]
      /\ Queued("DISCONN") => port'[h].state # "CONNECTED"
  BY AnswerPorts DEF DirectInv
<1>2. adding' = [adding EXCEPT !["main"] = NoRequest] /\ proc' = proc
  BY DEF Queued, Refused, peon_task_add, peon_task_reject, lists
<1>3. adding'["main"] = NoRequest /\ adding'["server"] = adding["server"]
  BY <1>0, <1>2
<1>4. MainOK' /\ ServerOK' /\ NewerIsConnect'
  BY <1>1, <1>3 DEF DirectInv, MainOK, ServerOK, NewerIsConnect
<1>5. CASE Queued(pe)
  <2>1. Queue(pe, adding["main"].task) /\ adding["main"].task.key = DirectKey(h)
    BY <1>1, <1>5 DEF Queued, peon_task_add, DirectInv, MainOK
  <2>2. /\ latest' = Requested(pe, adding["main"].task) \/ (latest' = latest /\ pe = "DISCONN")
        /\ wait'["DCBATCH"] = wait["DCBATCH"]
    BY <2>1, QueueLatest
  <2>3. ASSUME NEW g \in DcHost, g # h
        PROVE  latest'[DirectKey(g)] = latest[DirectKey(g)] /\ port'[g] = port[g]
    <3>1. DirectKey(g) \in Device /\ DirectKey(g) # DirectKey(h)
      BY <1>1, <2>3, KeysTyped
    <3>2. QED BY <1>1, <2>1, <2>2, <2>3, <3>1 DEF Requested
  <2>4. port'[h].state = "CONNECTED" => latest'[DirectKey(h)].op = "connect"
    <3>1. CASE pe = "CONNECT"
      BY <1>1, <2>2, <3>1, ConnectQueued
    <3>2. CASE pe = "DISCONN"
      BY <1>1, <1>5, <3>2
    <3>3. QED BY <3>1, <3>2
  <2>5. ConnectedIsRequested'
    BY <2>3, <2>4 DEF DirectInv, ConnectedIsRequested, DirectKey
  <2>6. QED BY <1>2, <1>4, <2>2, <2>5 DEF DirectInv, NoBatch, Listed
<1>6. CASE Refused(pe) /\ ~Queued(pe)
  <2>1. UNCHANGED <<wait, proc, latest>>
    BY <1>6 DEF Refused, peon_task_reject, lists, hist
  <2>2. NoneConnected
    BY <1>1, <1>6
  <2>3. QED BY <1>4, <2>1, <2>2 DEF DirectInv, NoBatch, Listed, ConnectedIsRequested,
                                 NoneConnected, DirectKey
<1>7. QED BY <1>5, <1>6

LEMMA DirectInit == DInit => DirectInv
<1> SUFFICES ASSUME DInit PROVE DirectInv
  OBVIOUS
<1>1. Init /\ PortsOK /\ PeonInv
  BY PortsInit, ConnectInit DEF DInit
<1>2. poll.at \notin DcHost /\ \A h \in DcHost : port[h].state = "none"
  BY DirectAssumption DEF DInit, Idle, NoPort
<1>3. \A c \in Caller : adding[c] = NoRequest
  BY <1>1 DEF Init
<1>4. NoBatch
  <2>1. ToSet(<<>>) = {}
    BY DEF ToSet
  <2>2. QED BY <1>1, <2>1 DEF Init, NoBatch, Listed, Peon, StaticPeon
<1>5. LatestDrawn
  BY <1>1 DEF Init, LatestDrawn
<1>6. MainOK /\ ServerOK /\ NewerIsConnect /\ ConnectedIsRequested
  BY <1>2, <1>3 DEF MainOK, ServerOK, NewerIsConnect, ConnectedIsRequested, Caller
<1>7. QED BY <1>1, <1>4, <1>5, <1>6 DEF DirectInv

LEMMA DirectNext ==
  ASSUME SwHost \cap DcHost = {}, EngineInv, DirectInv, [DNext]_dvars
  PROVE  DirectInv'
<1>0. /\ PeonInv /\ ConnectInv /\ ExclusiveInv /\ MainOK /\ ServerOK /\ NoBatch
      /\ NewerIsConnect /\ ConnectedIsRequested
      /\ \A h \in DcHost : DirectKey(h) \in Device /\ DirectKey(h).host \notin SwHost
  BY KeysTyped DEF EngineInv, DirectInv
<1>1. PortsOK' /\ LatestDrawn'
  BY <1>0, PortsNext, EngineNext, LatestNext DEF DirectInv
<1>2. SUFFICES MainOK' /\ ServerOK' /\ NoBatch' /\ NewerIsConnect' /\ ConnectedIsRequested'
  BY <1>1 DEF DirectInv
<1>3. CASE \/ cfg_net_info \/ poll_end \/ \E h \in DcHost : direct_port_skip(h)
           \/ \E h \in DcHost : link_change(h)
  <2>1. /\ NoneConnected /\ UNCHANGED <<wait, proc, adding, latest>>
        /\ poll'.at = poll.at \/ {poll.at, poll'.at} \cap DcHost = {}
    BY <1>3, PollPorts DEF DirectInv, cvars, vars, lists, hist
  <2>2. MainOK' /\ NewerIsConnect'
    BY <1>0, <2>1 DEF MainOK, NewerIsConnect, DirectKey
  <2>3. QED BY <1>0, <2>1, <2>2 DEF ServerOK, NoBatch, Listed, ConnectedIsRequested,
                                 NoneConnected, DirectKey
<1>4. CASE \E h \in DcHost : direct_connect_handle(h)
  BY <1>0, <1>4, AskKeeps
<1>5. CASE \E pe \in {"CONNECT", "DISCONN"} : Queued(pe) \/ Refused(pe)
  BY <1>0, <1>5, AnswerKeeps
<1>6. ASSUME UNCHANGED ports, ServerOK', NoBatch', adding'["main"] = adding["main"],
             \A h \in DcHost : \/ latest'[DirectKey(h)] = latest[DirectKey(h)]
                              \/ latest'[DirectKey(h)].op = "connect"
      PROVE  MainOK' /\ ServerOK' /\ NoBatch' /\ NewerIsConnect' /\ ConnectedIsRequested'
  <2>1. Beside
    BY <1>6 DEF Beside, NoneConnected, ports
  <2>2. QED BY <1>0, <1>6, <2>1, BesideKeeps
<1>7. CASE UNCHANGED ports /\ Worker
  BY <1>0, <1>6, <1>7, WorkerQuiet DEF ServerOK
<1>8. CASE UNCHANGED ports /\ CallerStep("server")
  BY <1>0, <1>6, <1>8, ServerQuiet
<1>9. CASE UNCHANGED ports /\ Handlers
  BY <1>0, <1>6, <1>9, HandlersQuiet DEF ServerOK, OnlyConnects
<1>10. CASE UNCHANGED ports /\ (Kernel \/ UNCHANGED vars)
  <2>1. UNCHANGED vars
    BY <1>10 DEF Kernel, path_lost, path_back, ctrl_loss
  <2>2. UNCHANGED <<wait, proc, adding, latest>>
    BY <2>1 DEF vars, lists, hist
  <2>3. QED BY <1>0, <1>6, <1>10, <2>2 DEF ServerOK, NoBatch, Listed
<1>11. QED
  BY <1>3, <1>4, <1>5, <1>7, <1>8, <1>9, <1>10 DEF DNext, MainStep, Answer, dvars, cvars

(* The main thread takes a port for connected only while a connect is what *)
(* was last asked for its target, for all ports, links, refused requests,  *)
(* failures and revived connections, when no host address is both switched *)
(* and directly connected.                                                 *)
THEOREM ConnectedWasRequested ==
  ASSUME SwHost \cap DcHost = {}
  PROVE  DSpec => []ConnectedIsRequested
<1>1. EngineInv /\ DirectInv /\ [DNext]_dvars => DirectInv'
  BY DirectNext
<1>2. DirectInv => ConnectedIsRequested
  BY DEF DirectInv
<1>3. QED BY <1>1, <1>2, DirectInit, EngineKept, PTL DEF DSpec
=============================================================================
