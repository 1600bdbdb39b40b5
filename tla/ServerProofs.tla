---------------------------- MODULE ServerProofs ----------------------------
(***************************************************************************)
(* Proofs about the notification server, for all sets of interfaces,       *)
(* descriptors and notifications, all sizes of the pool and of the         *)
(* listener table, and any number of failures.                             *)
(***************************************************************************)
EXTENDS Server, ListFacts, SequenceTheorems, FiniteSetTheorems

(* The place of a descriptor in the listener table, or 0.                  *)
LEMMA SlotOfProperties ==
  ASSUME NEW l, NEW f
  PROVE  /\ SlotOf(l, f) \in ListenerSlot \cup {0}
         /\ SlotOf(l, f) # 0 => l[SlotOf(l, f)].fd = f
         /\ SlotOf(l, f) = 0 => \A i \in ListenerSlot : l[i].fd # f
<1> DEFINE found == {i \in ListenerSlot : l[i].fd = f}
<1>1. found \in SUBSET (Nat \ {0})
  BY ListenerAssumption DEF ListenerSlot
<1>2. SlotOf(l, f) = IF found = {} THEN 0 ELSE Min(found)
  BY DEF SlotOf
<1>3. SlotOf(l, f) \in found \cup {0} /\ (SlotOf(l, f) = 0 <=> found = {})
  BY <1>1, <1>2, FirstOrZero, Zenon
<1>4. 0 \notin ListenerSlot
  BY ListenerAssumption DEF ListenerSlot
<1>5. QED BY <1>3, <1>4

(* The threads between two of their steps: what each has in hand.          *)
MainState == {Quiet} \cup [step : {"add_server", "add_ip", "remove", "close"}, fd : Fd]

RcvState ==
  {Quiet} \cup [step : {"find"}, fd : Fd]
          \cup [step : {"recv"}, fd : Fd, slot : ListenerSlot]
          \cup [step : {"roots"}, fd : Fd, slot : ListenerSlot,
                rest : Seq(Notification), ack : SUBSET Notification]

(* The main thread works on a socket that is open.                         *)
MainOK ==
  /\ main \in MainState
  /\ main.step # "idle" => sock[main.fd] # NoInterface

(* What is on its way to a buffer was raised: the frames of the sockets,   *)
(* the notifications in hand, and the buffers themselves.                  *)
OnlyRaised ==
  /\ frame \in [Interface -> Seq(Seq(raised))]
  /\ rcv.step = "roots" => rcv.rest \in Seq(raised)
  /\ active_list \in Seq(raised)
  /\ handled \subseteq raised
  /\ IsFiniteSet(raised)

Taken(n) == n \in ToSet(active_list) \/ n \in handled \/ n.role = "CLIENT"

(* What the receiving thread will acknowledge has been taken over.  This   *)
(* is what the steps between snsd_post_one_msg and snsd_send_ack rest on:  *)
(* the handling thread may run in between, any number of times.            *)
AcksTaken == rcv.step = "roots" => \A n \in rcv.ack : Taken(n)


-----------------------------------------------------------------------------
(* What the receiving thread has in hand in each of its steps.             *)
LEMMA RcvShape ==
  ASSUME rcv \in RcvState
  PROVE  /\ rcv.step \in {"idle", "find", "recv", "roots"}
         /\ rcv.step = "find" => rcv \in [step : {"find"}, fd : Fd]
         /\ rcv.step = "recv" => rcv \in [step : {"recv"}, fd : Fd, slot : ListenerSlot]
         /\ rcv.step = "roots" => rcv \in [step : {"roots"}, fd : Fd, slot : ListenerSlot,
                                           rest : Seq(Notification), ack : SUBSET Notification]
BY DEF RcvState, Quiet

(* The slots of the listener table.  A slot that discards has not passed   *)
(* its recovery cycles: this keeps the interval in its range.              *)
SlotFields ==
  [fd : Fd \cup {NoFd}, ifindex : Interface \cup {NoInterface}, host_ip : SUBSET Interface,
   fresh : 0 .. SNSD_SERVER_FLOOD_ATTACK_THRESHOLD, drop : BOOLEAN,
   drop_interval : 0 .. SNSD_SERVER_RECOVERY_CYCLES + 1]

Slot  == {l \in SlotFields : l.drop => l.drop_interval <= SNSD_SERVER_RECOVERY_CYCLES}
Table == [ListenerSlot -> Slot]

(* The operations of the table keep it a table.                            *)
LEMMA FdWrittenType ==
  ASSUME NEW l \in Table, NEW f \in Fd, HasRoom(l)
  PROVE  [l EXCEPT ![SlotOf(l, NoFd)].fd = f] \in Table
<1> DEFINE s == SlotOf(l, NoFd)
           e == [l[s] EXCEPT !.fd = f]
<1>1. s \in ListenerSlot
  BY SlotOfProperties DEF HasRoom
<1>2. l[s] \in Slot
  BY <1>1 DEF Table
<1>3. e \in Slot
  BY <1>2 DEF Slot, SlotFields
<1>4. [l EXCEPT ![s].fd = f] = [l EXCEPT ![s] = e]
  OBVIOUS
<1>5. QED BY <1>1, <1>3, <1>4 DEF Table

LEMMA IfindexWrittenType ==
  ASSUME NEW l \in Table, NEW f \in Fd, NEW i \in Interface
  PROVE  [l EXCEPT ![SlotOf(l, f)].ifindex = i] \in Table
<1> DEFINE s == SlotOf(l, f)
           e == [l[s] EXCEPT !.ifindex = i]
<1>1. CASE s = 0
  <2>1. 0 \notin ListenerSlot
    BY ListenerAssumption DEF ListenerSlot
  <2>2. [l EXCEPT ![0].ifindex = i] = l
    BY <2>1 DEF Table
  <2>3. QED BY <1>1, <2>2
<1>2. CASE s # 0
  <2>1. s \in ListenerSlot /\ l[s] \in Slot
    BY <1>2, SlotOfProperties DEF Table
  <2>2. e \in Slot
    BY <2>1 DEF Slot, SlotFields
  <2>3. [l EXCEPT ![s].ifindex = i] = [l EXCEPT ![s] = e]
    OBVIOUS
  <2>4. QED BY <2>1, <2>2, <2>3 DEF Table
<1>3. QED BY <1>1, <1>2

LEMMA HostIpType ==
  ASSUME NEW l \in Table, NEW s \in ListenerSlot, NEW ips \in SUBSET Interface
  PROVE  [l EXCEPT ![s].host_ip = ips] \in Table
<1>1. l[s] \in Slot
  BY DEF Table
<1>2. [l[s] EXCEPT !.host_ip = ips] \in Slot
  BY <1>1 DEF Slot, SlotFields
<1>3. QED BY <1>2 DEF Table

LEMMA AddServerIpType ==
  ASSUME NEW l \in Table, NEW f \in Fd, NEW i \in Interface
  PROVE  AddServerIp(l, f, i) \in Table
<1>1. CASE SlotOf(l, f) = 0
  <2>1. 0 \notin ListenerSlot
    BY ListenerAssumption DEF ListenerSlot
  <2>2. AddServerIp(l, f, i) = l
    BY <1>1, <2>1 DEF AddServerIp, Table
  <2>3. QED BY <2>2
<1>2. CASE SlotOf(l, f) # 0
  <2> DEFINE s == SlotOf(l, f)
  <2>1. s \in ListenerSlot
    BY <1>2, SlotOfProperties
  <2>2. l[s].host_ip \cup {i} \in SUBSET Interface
    BY <2>1 DEF Table, Slot, SlotFields
  <2>3. QED BY <2>1, <2>2, HostIpType DEF AddServerIp
<1>3. QED BY <1>1, <1>2

LEMMA RemoveServerType ==
  ASSUME NEW l \in Table, NEW f \in Fd
  PROVE  RemoveServer(l, f) \in Table
<1> DEFINE s == SlotOf(l, f)
           e == [l[s] EXCEPT !.fd = NoFd]
<1>1. CASE s = 0
  BY <1>1 DEF RemoveServer
<1>2. CASE s # 0
  <2>1. s \in ListenerSlot /\ l[s] \in Slot
    BY <1>2, SlotOfProperties DEF Table
  <2>2. e \in Slot
    BY <2>1 DEF Slot, SlotFields
  <2>3. QED BY <1>2, <2>1, <2>2 DEF RemoveServer, Table
<1>3. QED BY <1>1, <1>2

LEMMA RemoveServerIpType ==
  ASSUME NEW l \in Table, NEW f \in Fd, NEW i \in Interface
  PROVE  RemoveServerIp(l, f, i) \in Table
<1> DEFINE s == SlotOf(l, f)
<1>1. CASE s = 0
  BY <1>1 DEF RemoveServerIp
<1>2. CASE s # 0
  <2>1. s \in ListenerSlot
    BY <1>2, SlotOfProperties
  <2>2. l[s].host_ip \ {i} \in SUBSET Interface
    BY <2>1 DEF Table, Slot, SlotFields
  <2>3. QED BY <1>2, <2>1, <2>2, HostIpType DEF RemoveServerIp
<1>3. QED BY <1>1, <1>2

(* A sample: the interval is counted while the slot discards, and the slot *)
(* recovers when it passes the recovery cycles.                            *)
LEMMA SampledType ==
  ASSUME NEW l \in Slot
  PROVE  Sampled(l) \in Slot
<1> DEFINE s == [l EXCEPT !.fresh = 0]
           d == l.drop_interval + 1
<1>1. l \in SlotFields /\ s \in SlotFields /\ s.drop = l.drop
      /\ s.drop_interval = l.drop_interval
  BY ServerAssumption DEF Slot, SlotFields
<1>2. CASE Flooded(l) /\ ~l.drop
  <2> DEFINE r == [s EXCEPT !.drop = TRUE, !.drop_interval = 0]
  <2>1. Sampled(l) = r
    BY <1>2 DEF Sampled
  <2>2. 0 \in 0 .. SNSD_SERVER_RECOVERY_CYCLES + 1 /\ 0 <= SNSD_SERVER_RECOVERY_CYCLES
    BY ServerAssumption
  <2>3. r \in SlotFields /\ r.drop_interval = 0
    BY <1>1, <2>2 DEF SlotFields
  <2>4. QED BY <2>1, <2>2, <2>3 DEF Slot
<1>3. CASE ~Flooded(l) /\ l.drop
  <2>1. Sampled(l) = [s EXCEPT !.drop_interval = d,
                               !.drop = d <= SNSD_SERVER_RECOVERY_CYCLES]
    BY <1>3, <1>1 DEF Sampled
  <2>2. d \in 0 .. SNSD_SERVER_RECOVERY_CYCLES + 1
    BY <1>3, ServerAssumption DEF Slot, SlotFields
  <2>3. CASE d <= SNSD_SERVER_RECOVERY_CYCLES
    <3> DEFINE r == [s EXCEPT !.drop_interval = d, !.drop = TRUE]
    <3>1. (d <= SNSD_SERVER_RECOVERY_CYCLES) = TRUE
      BY <2>3
    <3>2. Sampled(l) = r
      BY <2>1, <3>1
    <3>3. r \in SlotFields /\ r.drop_interval = d
      BY <2>2, <1>1 DEF SlotFields
    <3>4. QED BY <2>3, <3>2, <3>3 DEF Slot
  <2>4. CASE ~(d <= SNSD_SERVER_RECOVERY_CYCLES)
    <3> DEFINE r == [s EXCEPT !.drop_interval = d, !.drop = FALSE]
    <3>1. (d <= SNSD_SERVER_RECOVERY_CYCLES) = FALSE
      BY <2>4
    <3>2. Sampled(l) = r
      BY <2>1, <3>1
    <3>3. r \in SlotFields /\ r.drop = FALSE
      BY <2>2, <1>1 DEF SlotFields
    <3>4. QED BY <3>2, <3>3 DEF Slot
  <2>5. QED BY <2>3, <2>4
<1>4. CASE ~(Flooded(l) /\ ~l.drop) /\ ~(~Flooded(l) /\ l.drop)
  <2>1. Sampled(l) = s
    BY <1>4 DEF Sampled
  <2>2. QED BY <2>1, <1>1 DEF Slot
<1>5. QED BY <1>2, <1>3, <1>4

LEMMA CountedType ==
  ASSUME NEW n \in 0 .. SNSD_SERVER_FLOOD_ATTACK_THRESHOLD
  PROVE  Counted(n) \in 0 .. SNSD_SERVER_FLOOD_ATTACK_THRESHOLD
BY ServerAssumption DEF Counted
-----------------------------------------------------------------------------
(* The inductive invariant.                                                *)
ServerInv ==
  /\ TypeOK /\ BuffersConserved /\ NothingLost
  /\ listener \in Table /\ MainOK /\ rcv \in RcvState /\ OnlyRaised /\ AcksTaken

LEMMA InvInit == Init => ServerInv
<1> SUFFICES ASSUME Init PROVE ServerInv
  OBVIOUS
<1>1. listener \in Table
  <2> DEFINE e == [fd |-> NoFd, ifindex |-> NoInterface, host_ip |-> {},
                   fresh |-> 0, drop |-> FALSE, drop_interval |-> 0]
  <2>1. 0 \in 0 .. SNSD_SERVER_RECOVERY_CYCLES + 1
        /\ 0 \in 0 .. SNSD_SERVER_FLOOD_ATTACK_THRESHOLD
    BY ServerAssumption
  <2>2. e \in SlotFields /\ e.drop = FALSE
    BY <2>1 DEF SlotFields
  <2>3. e \in Slot
    BY <2>2 DEF Slot
  <2>4. QED BY <2>3 DEF Init, Table
<1>2. SNSD_MAX_MSG_NUM \in Nat
  BY ServerAssumption
<1>3. active_list \in Seq({}) /\ ToSet(active_list) = {} /\ Len(active_list) = 0
  BY DEF Init, ToSet
<1>4. TypeOK
  BY <1>1, <1>2, <1>3 DEF Init, TypeOK, Table, Slot, SlotFields, Quiet
<1>5. BuffersConserved
  BY <1>2, <1>3 DEF Init, BuffersConserved
<1>6. MainOK /\ rcv \in RcvState /\ AcksTaken /\ NothingLost
  BY DEF Init, MainOK, MainState, RcvState, AcksTaken, NothingLost, Quiet
<1>7. OnlyRaised
  BY <1>3, FS_EmptySet DEF Init, OnlyRaised, Quiet
<1>8. QED BY <1>1, <1>4, <1>5, <1>6, <1>7 DEF ServerInv

(* The listener table has the type TypeOK gives it.                        *)
LEMMA TableType ==
  ASSUME NEW l \in Table
  PROVE  l \in [ListenerSlot -> SlotFields]
BY DEF Table, Slot

(* A step that changes the listener table, the main thread and the sockets *)
(* only, and leaves all notifications where they are.                      *)
LEMMA MainPreserves ==
  ASSUME ServerInv,
         UNCHANGED <<fabric, rcv, pool, handled>>,
         listener' \in Table, MainOK',
         sock' \in [Fd -> Interface \cup {NoInterface}],
         frame' \in [Interface -> Seq(Seq(raised))]
  PROVE  ServerInv'
<1>1. TypeOK'
  BY TableType DEF ServerInv, TypeOK, MainOK, MainState, fabric, pool, SlotFields, Quiet
<1>2. BuffersConserved' /\ NothingLost'
  BY DEF ServerInv, BuffersConserved, NothingLost, fabric, pool
<1>3. rcv' \in RcvState /\ OnlyRaised' /\ AcksTaken'
  BY DEF ServerInv, RcvState, OnlyRaised, AcksTaken, Taken, fabric, pool
<1>4. QED BY <1>1, <1>2, <1>3 DEF ServerInv

LEMMA LookupListenerPreserves ==
  ASSUME ServerInv, NEW i \in Interface, NEW f \in Fd, snsd_lookup_listener_id(i, f)
  PROVE  ServerInv'
<1>1. listener' \in Table
  BY FdWrittenType DEF ServerInv, snsd_lookup_listener_id
<1>2. sock' \in [Fd -> Interface \cup {NoInterface}] /\ sock'[f] = i
  BY DEF ServerInv, TypeOK, snsd_lookup_listener_id
<1>3. MainOK'
  BY <1>2, ServerAssumption DEF snsd_lookup_listener_id, MainOK, MainState
<1>4. frame' \in [Interface -> Seq(Seq(raised))]
      /\ UNCHANGED <<fabric, rcv, pool, handled>>
  BY DEF ServerInv, OnlyRaised, snsd_lookup_listener_id, hist
<1>5. QED BY <1>1, <1>2, <1>3, <1>4, MainPreserves

(* The descriptor the main thread is working on.                           *)
LEMMA MainFd ==
  ASSUME ServerInv, main.step # "idle"
  PROVE  main.fd \in Fd /\ sock[main.fd] \in Interface
BY DEF ServerInv, MainOK, MainState, TypeOK, Quiet

LEMMA MainGoesOnPreserves ==
  ASSUME ServerInv, MainGoesOn
  PROVE  ServerInv'
<1>1. CASE snsd_add_server_ip
  <2>1. main.fd \in Fd /\ sock[main.fd] \in Interface
    BY <1>1, MainFd DEF snsd_add_server_ip
  <2>2. listener' \in Table
    BY <1>1, <2>1, AddServerIpType DEF ServerInv, snsd_add_server_ip
  <2>3. /\ MainOK' /\ sock' \in [Fd -> Interface \cup {NoInterface}]
        /\ frame' \in [Interface -> Seq(Seq(raised))]
        /\ UNCHANGED <<fabric, rcv, pool, handled>>
    BY <1>1 DEF ServerInv, TypeOK, OnlyRaised, snsd_add_server_ip, MainOK, MainState, Quiet,
       kernel, hist
  <2>4. QED BY <2>2, <2>3, MainPreserves
<1>2. CASE snsd_remove_server
  <2>1. main.fd \in Fd /\ sock[main.fd] \in Interface
    BY <1>2, MainFd DEF snsd_remove_server
  <2>2. listener' \in Table
    BY <1>2, <2>1, RemoveServerType DEF ServerInv, snsd_remove_server
  <2>3. MainOK'
    BY <1>2, <2>1 DEF ServerInv, MainOK, MainState, snsd_remove_server, kernel
  <2>4. /\ sock' \in [Fd -> Interface \cup {NoInterface}]
        /\ frame' \in [Interface -> Seq(Seq(raised))]
        /\ UNCHANGED <<fabric, rcv, pool, handled>>
    BY <1>2 DEF ServerInv, TypeOK, OnlyRaised, snsd_remove_server, kernel, hist
  <2>5. QED BY <2>2, <2>3, <2>4, MainPreserves
<1>3. CASE close
  <2>1. main.fd \in Fd /\ sock[main.fd] \in Interface
    BY <1>3, MainFd DEF close
  <2>2. MainOK' /\ listener' \in Table
    BY <1>3 DEF ServerInv, close, MainOK, MainState, Quiet
  <2>3. sock' \in [Fd -> Interface \cup {NoInterface}]
    BY <1>3, <2>1 DEF ServerInv, TypeOK, close
  <2>4. frame' \in [Interface -> Seq(Seq(raised))]
    BY <1>3, <2>1 DEF ServerInv, OnlyRaised, close
  <2>5. UNCHANGED <<fabric, rcv, pool, handled>>
    BY <1>3 DEF close, hist
  <2>6. QED BY <2>2, <2>3, <2>4, <2>5, MainPreserves
<1>4. CASE snsd_add_server
  <2>1. main.fd \in Fd /\ sock[main.fd] \in Interface
    BY <1>4, MainFd DEF snsd_add_server
  <2>2. listener' \in Table
    BY <1>4, <2>1, IfindexWrittenType DEF ServerInv, snsd_add_server
  <2>3. MainOK'
    BY <1>4, <2>1 DEF ServerInv, MainOK, MainState, snsd_add_server, kernel
  <2>4. /\ sock' \in [Fd -> Interface \cup {NoInterface}]
        /\ frame' \in [Interface -> Seq(Seq(raised))]
        /\ UNCHANGED <<fabric, rcv, pool, handled>>
    BY <1>4 DEF ServerInv, TypeOK, OnlyRaised, snsd_add_server, kernel, hist
  <2>5. QED BY <2>2, <2>3, <2>4, MainPreserves
<1>5. QED BY <1>1, <1>2, <1>3, <1>4 DEF MainGoesOn

LEMMA RemoveServerIpPreserves ==
  ASSUME ServerInv, NEW f \in Fd, snsd_remove_server_ip(f)
  PROVE  ServerInv'
<1>1. sock[f] \in Interface
  BY DEF ServerInv, TypeOK, snsd_remove_server_ip
<1>2. listener' \in Table
  BY <1>1, RemoveServerIpType DEF ServerInv, snsd_remove_server_ip
<1>3. MainOK'
  BY <1>1 DEF snsd_remove_server_ip, MainOK, MainState, kernel
<1>4. /\ sock' \in [Fd -> Interface \cup {NoInterface}]
      /\ frame' \in [Interface -> Seq(Seq(raised))]
      /\ UNCHANGED <<fabric, rcv, pool, handled>>
  BY DEF ServerInv, TypeOK, OnlyRaised, snsd_remove_server_ip, kernel, hist
<1>5. QED BY <1>2, <1>3, <1>4, MainPreserves
-----------------------------------------------------------------------------
(* The fabric switch: what it has to tell only grows.                      *)
LEMMA NotifyPreserves ==
  ASSUME ServerInv, NEW n \in Notification, notify(n)
  PROVE  ServerInv'
<1> DEFINE r == raised \cup {n}
<1>1. /\ raised' = r /\ owed' = owed \cup {n} /\ raised \subseteq r
      /\ UNCHANGED <<listener, main, sock, frame, rcv, recv_list, active_list, handled>>
  BY DEF notify, kernel, pool, hist
<1>2. TypeOK'
  BY <1>1 DEF ServerInv, TypeOK
<1>3. BuffersConserved' /\ NothingLost'
  BY <1>1 DEF ServerInv, BuffersConserved, NothingLost
<1>4. listener' \in Table /\ MainOK' /\ rcv' \in RcvState /\ AcksTaken'
  BY <1>1 DEF ServerInv, MainOK, AcksTaken, Taken, RcvState
<1>5. OnlyRaised'
  <2>1. ASSUME NEW q \in Seq(raised) PROVE q \in Seq(r)
    BY <2>1, SeqWider
  <2>2. Seq(raised) \subseteq Seq(r)
    BY <2>1
  <2>3. ASSUME NEW i \in Interface PROVE frame[i] \in Seq(Seq(r))
    BY <2>2, SeqWider DEF ServerInv, OnlyRaised
  <2>4. frame \in [Interface -> Seq(Seq(r))]
    BY <2>3 DEF ServerInv, OnlyRaised
  <2>5. IsFiniteSet(r)
    BY FS_AddElement DEF ServerInv, OnlyRaised
  <2>6. QED BY <1>1, <2>1, <2>4, <2>5 DEF ServerInv, OnlyRaised
<1>6. QED BY <1>2, <1>3, <1>4, <1>5 DEF ServerInv

(* A step that puts frames on the sockets and changes nothing else that    *)
(* matters here.                                                           *)
LEMMA FramePreserves ==
  ASSUME ServerInv, frame' \in [Interface -> Seq(Seq(raised))],
         UNCHANGED <<listener, main, sock, owed, raised, rcv, pool, handled>>
  PROVE  ServerInv'
<1>1. TypeOK' /\ BuffersConserved' /\ NothingLost'
  BY DEF ServerInv, TypeOK, BuffersConserved, NothingLost, pool
<1>2. listener' \in Table /\ MainOK' /\ rcv' \in RcvState /\ AcksTaken'
  BY DEF ServerInv, MainOK, AcksTaken, Taken, RcvState, pool
<1>3. OnlyRaised'
  BY DEF ServerInv, OnlyRaised, pool
<1>4. QED BY <1>1, <1>2, <1>3 DEF ServerInv

LEMMA TransmitPreserves ==
  ASSUME ServerInv, NEW i \in Interface, transmit(i)
  PROVE  ServerInv'
<1>1. IsFiniteSet(Owed(i)) /\ Owed(i) \subseteq raised
  BY FS_Subset DEF ServerInv, TypeOK, OnlyRaised, Owed
<1>2. Cardinality(Owed(i)) \in Nat
  BY <1>1, FS_CardinalityType
<1>3. PICK roots \in SetToSeqs(Owed(i)) : frame' = [frame EXCEPT ![i] = <<roots>>]
  BY DEF transmit
<1>4. roots \in [1 .. Cardinality(Owed(i)) -> raised]
  BY <1>1, <1>3 DEF SetToSeqs
<1>5. roots \in Seq(raised)
  BY <1>2, <1>4
<1>6. frame' \in [Interface -> Seq(Seq(raised))]
  BY <1>3, <1>5 DEF ServerInv, OnlyRaised
<1>7. QED BY <1>6, FramePreserves DEF transmit, hist

LEMMA FloodPreserves ==
  ASSUME ServerInv, NEW i \in Interface, flood(i)
  PROVE  ServerInv'
<1>1. << <<>> >> \in Seq(Seq(raised))
  OBVIOUS
<1>2. frame' \in [Interface -> Seq(Seq(raised))]
  BY <1>1 DEF ServerInv, OnlyRaised, flood
<1>3. QED BY <1>2, FramePreserves DEF flood, fabric, hist
-----------------------------------------------------------------------------
(* A step of the receiving thread up to the moment it has a frame.         *)
LEMMA BeforeRootsPreserves ==
  ASSUME ServerInv, listener' \in Table, rcv' \in RcvState, rcv'.step # "roots",
         frame' \in [Interface -> Seq(Seq(raised))],
         UNCHANGED <<main, sock, fabric, pool, handled>>
  PROVE  ServerInv'
<1>1. TypeOK'
  <2>1. rcv'.step \in {"idle", "find", "recv", "roots"}
    BY DEF RcvState, Quiet
  <2>2. QED BY <2>1, TableType DEF ServerInv, TypeOK, SlotFields, fabric, pool
<1>2. BuffersConserved' /\ NothingLost' /\ MainOK' /\ AcksTaken'
  BY DEF ServerInv, BuffersConserved, NothingLost, MainOK, AcksTaken, fabric, pool
<1>3. OnlyRaised'
  BY DEF ServerInv, OnlyRaised, fabric, pool
<1>4. QED BY <1>1, <1>2, <1>3 DEF ServerInv

LEMMA EpollPreserves ==
  ASSUME ServerInv, NEW f \in Fd, epoll_wait(f)
  PROVE  ServerInv'
<1>1. rcv' \in RcvState /\ rcv'.step # "roots"
  BY DEF epoll_wait, RcvState
<1>2. /\ listener' \in Table /\ frame' \in [Interface -> Seq(Seq(raised))]
      /\ UNCHANGED <<main, sock, fabric, pool, handled>>
  BY DEF ServerInv, OnlyRaised, epoll_wait, kernel, hist
<1>3. QED BY <1>1, <1>2, BeforeRootsPreserves

LEMMA ClientNotifyPreserves ==
  ASSUME ServerInv, client_notify
  PROVE  ServerInv'
<1> DEFINE s == SlotOf(listener, rcv.fd)
<1>1. rcv.fd \in Fd
  BY RcvShape DEF ServerInv, client_notify
<1>2. /\ frame' \in [Interface -> Seq(Seq(raised))]
      /\ UNCHANGED <<main, sock, fabric, pool, handled>>
  BY DEF ServerInv, OnlyRaised, client_notify, kernel, hist
<1>3. CASE s = 0
  <2>1. rcv' = Quiet /\ listener' = listener
    BY <1>3 DEF client_notify
  <2>2. rcv' \in RcvState /\ rcv'.step # "roots" /\ listener' \in Table
    BY <2>1 DEF RcvState, Quiet, ServerInv
  <2>3. QED BY <1>2, <2>2, BeforeRootsPreserves
<1>4. CASE s # 0
  <2>1. s \in ListenerSlot
    BY <1>4, SlotOfProperties
  <2>2. rcv' \in RcvState /\ rcv'.step # "roots"
    BY <1>1, <1>4, <2>1 DEF client_notify, RcvState
  <2> DEFINE c == Counted(listener[s].fresh)
             e == [listener[s] EXCEPT !.fresh = c]
  <2>3. listener[s] \in Slot
    BY <2>1 DEF ServerInv, Table
  <2>4. c \in 0 .. SNSD_SERVER_FLOOD_ATTACK_THRESHOLD
    BY <2>3, CountedType DEF Slot, SlotFields
  <2>5. e \in Slot
    <3> HIDE DEF c
    <3>1. QED BY <2>3, <2>4 DEF Slot, SlotFields
  <2>6. listener' = [listener EXCEPT ![s] = e]
    BY <1>4 DEF client_notify
  <2>7. listener' \in Table
    <3> HIDE DEF e
    <3>1. QED BY <2>1, <2>5, <2>6 DEF ServerInv, Table
  <2>8. QED BY <1>2, <2>2, <2>7, BeforeRootsPreserves
<1>5. QED BY <1>3, <1>4

LEMMA RecvmsgPreserves ==
  ASSUME ServerInv, recvmsg
  PROVE  ServerInv'
<1> DEFINE i == sock[rcv.fd]
<1>1. rcv.fd \in Fd /\ rcv.slot \in ListenerSlot
  BY RcvShape DEF ServerInv, recvmsg
<1>2. /\ listener' \in Table
      /\ UNCHANGED <<listener, main, sock, fabric, pool, handled>>
  BY DEF ServerInv, recvmsg
<1>3. CASE rcv' = Quiet /\ UNCHANGED frame
  <2>1. /\ rcv' \in RcvState /\ rcv'.step # "roots"
        /\ frame' \in [Interface -> Seq(Seq(raised))]
    BY <1>3 DEF RcvState, Quiet, ServerInv, OnlyRaised
  <2>2. QED BY <1>2, <2>1, BeforeRootsPreserves
<1>4. CASE i # NoInterface /\ frame[i] # <<>> /\ frame' = [frame EXCEPT ![i] = <<>>]
  <2>1. i \in Interface
    BY <1>1, <1>4 DEF ServerInv, TypeOK
  <2>2. frame' \in [Interface -> Seq(Seq(raised))]
    BY <1>4, <2>1 DEF ServerInv, OnlyRaised
  <2>3. CASE rcv' = Quiet
    <3>1. rcv' \in RcvState /\ rcv'.step # "roots"
      BY <2>3 DEF RcvState, Quiet
    <3>2. QED BY <1>2, <2>2, <3>1, BeforeRootsPreserves
  <2>4. CASE rcv' = [step |-> "roots", fd |-> rcv.fd, slot |-> rcv.slot,
                     rest |-> Head(frame[i]), ack |-> {}]
    <3>1. Head(frame[i]) \in Seq(raised)
      BY <1>4, <2>1 DEF ServerInv, OnlyRaised
    <3>2. Head(frame[i]) \in Seq(Notification)
      BY <3>1, SeqWider DEF ServerInv, TypeOK
    <3>3. /\ rcv' \in RcvState
          /\ rcv'.rest = Head(frame[i]) /\ rcv'.ack = {} /\ rcv'.step = "roots"
      BY <1>1, <2>4, <3>2 DEF RcvState
    <3>4. TypeOK' /\ BuffersConserved' /\ NothingLost'
      BY <1>2, <3>3 DEF ServerInv, TypeOK, BuffersConserved, NothingLost, fabric, pool
    <3>5. MainOK' /\ AcksTaken'
      BY <1>2, <3>3 DEF ServerInv, MainOK, AcksTaken
    <3>6. OnlyRaised'
      BY <1>2, <2>2, <3>1, <3>3 DEF ServerInv, OnlyRaised, fabric, pool
    <3>7. QED BY <1>2, <3>3, <3>4, <3>5, <3>6 DEF ServerInv
  <2>5. QED BY <1>4, <2>3, <2>4 DEF recvmsg
<1>5. QED BY <1>3, <1>4 DEF recvmsg

(* The notification at the head of the frame in hand.                      *)
LEMMA RootInHand ==
  ASSUME ServerInv, rcv.step = "roots", rcv.rest # <<>>
  PROVE  /\ Head(rcv.rest) \in raised /\ Head(rcv.rest) \in Notification
         /\ Tail(rcv.rest) \in Seq(raised) /\ Tail(rcv.rest) \in Seq(Notification)
         /\ rcv \in [step : {"roots"}, fd : Fd, slot : ListenerSlot,
                     rest : Seq(Notification), ack : SUBSET Notification]
<1>1. rcv.rest \in Seq(raised) /\ raised \subseteq Notification
  BY DEF ServerInv, OnlyRaised, TypeOK
<1>2. Tail(rcv.rest) \in Seq(raised) /\ Head(rcv.rest) \in raised
  BY <1>1, DequeuedProperties
<1>3. QED BY <1>1, <1>2, SeqWider, RcvShape DEF ServerInv

(* A notification goes on the acknowledgement while there is room.         *)
LEMMA OnAckProperties ==
  ASSUME NEW a, NEW n
  PROVE  OnAck(a, n) = a \/ OnAck(a, n) = a \cup {n}
BY DEF OnAck

(* A notification that is passed over, or taken over and acknowledged.     *)
LEMMA PassedPreserves ==
  ASSUME ServerInv, rcv.step = "roots", rcv.rest # <<>>,
         \/ rcv' = [rcv EXCEPT !.rest = Tail(@)]
         \/ /\ Head(rcv.rest).role = "CLIENT"
            /\ rcv' = [rcv EXCEPT !.rest = Tail(@), !.ack = OnAck(@, Head(rcv.rest))],
         UNCHANGED <<listener, main, kernel, fabric, pool, handled>>
  PROVE  ServerInv'
<1> DEFINE n == Head(rcv.rest)
<1>1. /\ rcv' \in RcvState /\ rcv'.step = "roots" /\ rcv'.rest \in Seq(raised)
      /\ rcv'.ack = rcv.ack \/ (n.role = "CLIENT" /\ rcv'.ack = rcv.ack \cup {n})
  <2>1. /\ n \in Notification /\ Tail(rcv.rest) \in Seq(raised)
        /\ Tail(rcv.rest) \in Seq(Notification)
        /\ rcv \in [step : {"roots"}, fd : Fd, slot : ListenerSlot,
                    rest : Seq(Notification), ack : SUBSET Notification]
    BY RootInHand
  <2>2. CASE rcv' = [rcv EXCEPT !.rest = Tail(@)]
    BY <2>1, <2>2 DEF RcvState
  <2>3. CASE /\ n.role = "CLIENT"
             /\ rcv' = [rcv EXCEPT !.rest = Tail(@), !.ack = OnAck(@, n)]
    <3> DEFINE a == OnAck(rcv.ack, n)
    <3>1. a = rcv.ack \/ a = rcv.ack \cup {n}
      BY OnAckProperties
    <3>2. a \in SUBSET Notification
      BY <2>1, <3>1
    <3>3. rcv' = [rcv EXCEPT !.rest = Tail(@), !.ack = a]
      BY <2>3
    <3> HIDE DEF a
    <3>4. QED BY <2>1, <2>3, <3>1, <3>2, <3>3 DEF RcvState
  <2>4. QED BY <2>2, <2>3
<1>2. TypeOK' /\ BuffersConserved' /\ NothingLost'
  BY <1>1 DEF ServerInv, TypeOK, BuffersConserved, NothingLost, kernel, fabric, pool
<1>3. MainOK' /\ OnlyRaised'
  BY <1>1 DEF ServerInv, MainOK, OnlyRaised, kernel, fabric, pool
<1>4. AcksTaken'
  BY <1>1 DEF ServerInv, AcksTaken, Taken, pool
<1>5. QED BY <1>1, <1>2, <1>3, <1>4 DEF ServerInv

(* A notification goes into a buffer: one free buffer less, one used more. *)
LEMMA PostedPreserves ==
  ASSUME ServerInv, rcv.step = "roots", rcv.rest # <<>>,
         recv_list > 0, recv_list' = recv_list - 1,
         active_list' = Append(active_list, Head(rcv.rest)),
         rcv' = [rcv EXCEPT !.rest = Tail(@), !.ack = OnAck(@, Head(rcv.rest))],
         UNCHANGED <<listener, main, kernel, fabric, handled>>
  PROVE  ServerInv'
<1> DEFINE n == Head(rcv.rest)
<1>1. /\ rcv' \in RcvState /\ rcv'.step = "roots" /\ rcv'.rest \in Seq(raised)
      /\ rcv'.ack \subseteq rcv.ack \cup {n} /\ n \in raised /\ n \in Notification
  <2> DEFINE a == OnAck(rcv.ack, n)
  <2>1. a \subseteq rcv.ack \cup {n}
    BY OnAckProperties
  <2>2. rcv' = [rcv EXCEPT !.rest = Tail(@), !.ack = a]
    OBVIOUS
  <2>3. /\ n \in raised /\ n \in Notification
        /\ Tail(rcv.rest) \in Seq(raised) /\ Tail(rcv.rest) \in Seq(Notification)
        /\ rcv \in [step : {"roots"}, fd : Fd, slot : ListenerSlot,
                    rest : Seq(Notification), ack : SUBSET Notification]
    BY RootInHand
  <2>4. a \in SUBSET Notification
    BY <2>1, <2>3
  <2> HIDE DEF a, n
  <2>5. QED BY <2>1, <2>2, <2>3, <2>4 DEF RcvState
<1>2. /\ active_list' \in Seq(raised)
      /\ Len(active_list') = Len(active_list) + 1
      /\ ToSet(active_list') = ToSet(active_list) \cup {n}
  BY <1>1, AppendedProperties DEF ServerInv, OnlyRaised
<1>3. recv_list \in 0 .. SNSD_MAX_MSG_NUM /\ SNSD_MAX_MSG_NUM \in Nat /\ Len(active_list) \in Nat
  BY ServerAssumption, ListDomain DEF ServerInv, TypeOK, OnlyRaised
<1>4. TypeOK'
  BY <1>1, <1>2, <1>3 DEF ServerInv, TypeOK, kernel, fabric
<1>5. BuffersConserved'
  BY <1>2, <1>3 DEF ServerInv, BuffersConserved
<1>6. NothingLost' /\ MainOK'
  BY <1>2 DEF ServerInv, NothingLost, MainOK, kernel, fabric
<1>7. OnlyRaised'
  BY <1>1, <1>2 DEF ServerInv, OnlyRaised, kernel, fabric
<1>8. AcksTaken'
  BY <1>1, <1>2 DEF ServerInv, AcksTaken, Taken
<1>9. QED BY <1>1, <1>4, <1>5, <1>6, <1>7, <1>8 DEF ServerInv

LEMMA DealOneMsgPreserves ==
  ASSUME ServerInv, snsd_deal_one_msg
  PROVE  ServerInv'
<1> DEFINE n == Head(rcv.rest)
<1>1. /\ rcv.step = "roots" /\ rcv.rest # <<>>
      /\ UNCHANGED <<listener, main, kernel, fabric, handled>>
  BY DEF snsd_deal_one_msg, hist
<1>2. CASE ~Accepts(n)
  BY <1>1, <1>2, PassedPreserves DEF snsd_deal_one_msg
<1>3. CASE Accepts(n)
  <2>1. snsd_post_one_msg(n)
    BY <1>3 DEF snsd_deal_one_msg
  <2>2. CASE n.role = "CLIENT"
    BY <1>1, <2>1, <2>2, PassedPreserves DEF snsd_post_one_msg
  <2>3. CASE n.role # "CLIENT" /\ recv_list > 0
    BY <1>1, <2>1, <2>3, PostedPreserves DEF snsd_post_one_msg
  <2>4. CASE n.role # "CLIENT" /\ ~(recv_list > 0)
    BY <1>1, <2>1, <2>4, PassedPreserves DEF snsd_post_one_msg
  <2>5. QED BY <2>2, <2>3, <2>4
<1>4. QED BY <1>2, <1>3

(* The acknowledgement: what is no longer owed has been taken over.        *)
LEMMA SendAckPreserves ==
  ASSUME ServerInv, snsd_send_ack
  PROVE  ServerInv'
<1>1. /\ rcv.step = "roots" /\ rcv' = Quiet /\ owed' \subseteq owed
      /\ \A n \in owed : n \notin owed' => n \in rcv.ack
      /\ UNCHANGED <<listener, main, kernel, raised, pool, handled>>
  BY DEF snsd_send_ack, hist
<1>2. rcv' \in RcvState /\ rcv'.step = "idle"
  BY <1>1 DEF RcvState, Quiet
<1>3. TypeOK'
  BY <1>1, <1>2 DEF ServerInv, TypeOK, kernel, pool
<1>4. NothingLost'
  BY <1>1 DEF ServerInv, NothingLost, AcksTaken, Taken, pool
<1>5. BuffersConserved' /\ MainOK' /\ AcksTaken'
  BY <1>1, <1>2 DEF ServerInv, BuffersConserved, MainOK, AcksTaken, kernel, pool
<1>6. OnlyRaised'
  BY <1>1, <1>2 DEF ServerInv, OnlyRaised, kernel, pool
<1>7. QED BY <1>1, <1>2, <1>3, <1>4, <1>5, <1>6 DEF ServerInv
-----------------------------------------------------------------------------
(* The handling thread moves the first buffer to the handled notifications *)
(* and the buffer back to the free ones.                                   *)
LEMMA DispatchPreserves ==
  ASSUME ServerInv, Dispatch
  PROVE  ServerInv'
<1>1. CASE dispatch_begin \/ dispatch_end
  <2>1. UNCHANGED <<listener, main, sock, frame, owed, raised, rcv, pool, handled>>
    BY <1>1 DEF dispatch_begin, dispatch_end, kernel, fabric, hist
  <2>2. frame' \in [Interface -> Seq(Seq(raised))]
    BY <2>1 DEF ServerInv, OnlyRaised
  <2>3. QED BY <2>1, <2>2, FramePreserves
<1>2. CASE dispatch_one
  <2> DEFINE n == Head(active_list)
  <2>1. /\ active_list # <<>> /\ active_list' = Tail(active_list)
        /\ recv_list' = recv_list + 1 /\ handled' = handled \cup {n}
        /\ UNCHANGED <<listener, main, sock, frame, owed, raised, rcv>>
    BY <1>2 DEF dispatch_one, kernel, fabric
  <2>2. /\ active_list' \in Seq(raised) /\ n \in raised
        /\ Len(active_list') = Len(active_list) - 1 /\ Len(active_list) > 0
        /\ ToSet(active_list) = ToSet(active_list') \cup {n}
    BY <2>1, DequeuedProperties DEF ServerInv, OnlyRaised
  <2>3. recv_list \in 0 .. SNSD_MAX_MSG_NUM /\ SNSD_MAX_MSG_NUM \in Nat
        /\ Len(active_list) \in Nat
    BY ServerAssumption, ListDomain DEF ServerInv, TypeOK, OnlyRaised
  <2>4. recv_list' \in 0 .. SNSD_MAX_MSG_NUM /\ BuffersConserved'
    BY <2>1, <2>2, <2>3 DEF ServerInv, BuffersConserved
  <2>5. TypeOK'
    BY <2>1, <2>2, <2>4 DEF ServerInv, TypeOK
  <2>6. NothingLost' /\ MainOK'
    BY <2>1, <2>2 DEF ServerInv, NothingLost, MainOK
  <2>7. OnlyRaised'
    BY <2>1, <2>2 DEF ServerInv, OnlyRaised
  <2>8. AcksTaken'
    BY <2>1, <2>2 DEF ServerInv, AcksTaken, Taken
  <2>9. QED BY <2>1, <2>4, <2>5, <2>6, <2>7, <2>8 DEF ServerInv
<1>3. QED BY <1>1, <1>2 DEF Dispatch

LEMMA MonitorPreserves ==
  ASSUME ServerInv, snsd_listener_monitor
  PROVE  ServerInv'
<1>1. listener' \in Table
  <2>1. ASSUME NEW i \in ListenerSlot PROVE Sampled(listener[i]) \in Slot
    BY SampledType DEF ServerInv, Table
  <2>2. QED BY <2>1 DEF snsd_listener_monitor, Table
<1>2. UNCHANGED <<main, sock, frame, owed, raised, rcv, recv_list, active_list, handled>>
  BY DEF snsd_listener_monitor, kernel, pool
<1>3. TypeOK'
  BY <1>1, <1>2, TableType DEF ServerInv, TypeOK, SlotFields
<1>4. BuffersConserved' /\ NothingLost' /\ MainOK' /\ rcv' \in RcvState
  BY <1>2 DEF ServerInv, BuffersConserved, NothingLost, MainOK, RcvState
<1>5. OnlyRaised' /\ AcksTaken'
  BY <1>2 DEF ServerInv, OnlyRaised, AcksTaken, Taken
<1>6. QED BY <1>1, <1>3, <1>4, <1>5 DEF ServerInv
-----------------------------------------------------------------------------
LEMMA StutterPreserves ==
  ASSUME ServerInv, UNCHANGED vars
  PROVE  ServerInv'
<1>1. /\ frame' \in [Interface -> Seq(Seq(raised))]
      /\ UNCHANGED <<listener, main, sock, owed, raised, rcv, pool, handled>>
  BY DEF ServerInv, OnlyRaised, vars, kernel, fabric, hist
<1>2. QED BY <1>1, FramePreserves

(* Every step of every thread preserves the invariant.                     *)
LEMMA InvNext == ServerInv /\ [Next]_vars => ServerInv'
<1> SUFFICES ASSUME ServerInv, [Next]_vars PROVE ServerInv'
  OBVIOUS
<1>1. CASE \E i \in Interface : \E f \in Fd : snsd_lookup_listener_id(i, f)
  BY <1>1, LookupListenerPreserves
<1>2. CASE \E f \in Fd : snsd_remove_server_ip(f)
  BY <1>2, RemoveServerIpPreserves
<1>3. CASE MainGoesOn
  BY <1>3, MainGoesOnPreserves
<1>4. CASE \E n \in Notification : notify(n)
  BY <1>4, NotifyPreserves
<1>5. CASE \E i \in Interface : transmit(i) \/ flood(i)
  BY <1>5, TransmitPreserves, FloodPreserves
<1>6. CASE Receive
  BY <1>6, EpollPreserves, ClientNotifyPreserves, RecvmsgPreserves, DealOneMsgPreserves,
     SendAckPreserves DEF Receive
<1>7. CASE Dispatch
  BY <1>7, DispatchPreserves
<1>8. CASE snsd_listener_monitor
  BY <1>8, MonitorPreserves
<1>9. CASE UNCHANGED vars
  BY <1>9, StutterPreserves
<1>10. QED BY <1>1, <1>2, <1>3, <1>4, <1>5, <1>6, <1>7, <1>8, <1>9 DEF Next

LEMMA ServerInvariant == Spec => []ServerInv
<1>1. QED BY InvInit, InvNext, PTL DEF Spec

(* The types, and with them the ranges of the pool, of the rate counter    *)
(* and of the recovery interval, for every size of the pool.               *)
THEOREM ServerTypeCorrect == Spec => []TypeOK
<1>1. ServerInv => TypeOK
  BY DEF ServerInv
<1>2. QED BY <1>1, ServerInvariant, PTL

(* Free and used buffers are all there are, in any interleaving of the     *)
(* receiving and the handling thread.                                      *)
THEOREM BuffersAreConserved == Spec => []BuffersConserved
<1>1. ServerInv => BuffersConserved
  BY DEF ServerInv
<1>2. QED BY <1>1, ServerInvariant, PTL

(* "when post a msg failed, fabric sw will not receive ack and retry":     *)
(* no notification is lost between the fabric switch and the handling      *)
(* thread, whatever the main thread does to the sockets meanwhile.         *)
THEOREM NoNotificationLost == Spec => []NothingLost
<1>1. ServerInv => NothingLost
  BY DEF ServerInv
<1>2. QED BY <1>1, ServerInvariant, PTL
-----------------------------------------------------------------------------
(* Each step of the server is a step of Delivery or changes nothing there. *)
LEMMA InitPromised == Init => Promise!Init
BY DEF Init, Promise!Init

LEMMA StepPromised == ServerInv /\ [Next]_vars => [Promise!Next]_(Promise!dvars)
<1> SUFFICES ASSUME ServerInv, [Next]_vars
             PROVE  Promise!Next \/ UNCHANGED <<raised, owed, active_list, handled>>
  BY DEF Promise!dvars
<1>1. CASE \/ \E i \in Interface : \E f \in Fd : snsd_lookup_listener_id(i, f)
           \/ \E f \in Fd : snsd_remove_server_ip(f)
           \/ MainGoesOn
           \/ \E i \in Interface : transmit(i) \/ flood(i)
  BY <1>1 DEF snsd_lookup_listener_id, snsd_add_server, snsd_remove_server_ip, MainGoesOn,
     snsd_add_server_ip,
     snsd_remove_server, close, transmit, flood, fabric, pool, hist
<1>2. CASE \E n \in Notification : notify(n)
  <2>1. PICK n \in Notification : notify(n)
    BY <1>2
  <2>2. Promise!Raise(n)
    BY <2>1 DEF notify, Promise!Raise, pool, hist
  <2>3. QED BY <2>2 DEF Promise!Next
<1>3. CASE snsd_listener_monitor \/ dispatch_begin \/ dispatch_end \/ UNCHANGED vars
  BY <1>3 DEF snsd_listener_monitor, dispatch_begin, dispatch_end, vars, fabric, pool, hist
<1>4. CASE (\E f \in Fd : epoll_wait(f)) \/ client_notify \/ recvmsg
  BY <1>4 DEF epoll_wait, client_notify, recvmsg, fabric, pool, hist
<1>5. CASE snsd_deal_one_msg
  <2> DEFINE n == Head(rcv.rest)
  <2>1. /\ rcv.step = "roots" /\ rcv.rest # <<>>
        /\ UNCHANGED <<raised, owed, handled>>
    BY <1>5 DEF snsd_deal_one_msg, fabric, hist
  <2>2. CASE UNCHANGED pool
    BY <2>1, <2>2 DEF pool
  <2>3. CASE recv_list > 0 /\ active_list' = Append(active_list, n)
    <3>1. n \in raised /\ n \in Notification
      BY <2>1, RootInHand
    <3>2. Len(active_list) < SNSD_MAX_MSG_NUM
      <4>1. recv_list \in Nat /\ Len(active_list) \in Nat /\ SNSD_MAX_MSG_NUM \in Nat
        BY ServerAssumption, ListDomain DEF ServerInv, TypeOK, OnlyRaised
      <4>2. QED BY <2>3, <4>1 DEF ServerInv, BuffersConserved
    <3>3. Promise!Take(n)
      BY <2>1, <2>3, <3>1, <3>2 DEF Promise!Take
    <3>4. QED BY <3>1, <3>3 DEF Promise!Next
  <2>4. QED BY <1>5, <2>2, <2>3 DEF snsd_deal_one_msg, snsd_post_one_msg
<1>6. CASE snsd_send_ack
  <2>0. PICK ns \in SUBSET owed : ns = owed \ owed'
    OBVIOUS
  <2>1. /\ rcv.step = "roots" /\ owed' \subseteq owed /\ ns \subseteq rcv.ack
        /\ UNCHANGED <<raised, active_list, handled>>
    BY <1>6, <2>0 DEF snsd_send_ack, pool, hist
  <2>2. ns \subseteq ToSet(active_list) \cup handled
                     \cup {n \in Notification : n.role = "CLIENT"}
    <3>1. ASSUME NEW n \in ns PROVE n \in Notification /\ Taken(n)
      BY <2>1 DEF ServerInv, TypeOK, AcksTaken
    <3>2. QED BY <3>1 DEF Taken
  <2>3. ns \in SUBSET owed /\ owed' = owed \ ns
    BY <2>0, <2>1
  <2>4. Promise!Acknowledge(ns)
    <3>1. Promise!ToSet(active_list) = ToSet(active_list)
      BY DEF Promise!ToSet, ToSet
    <3>2. QED BY <2>1, <2>2, <2>3, <3>1 DEF Promise!Acknowledge
  <2>5. QED BY <2>3, <2>4 DEF Promise!Next
<1>7. CASE dispatch_one
  <2>1. Promise!Handle
    BY <1>7 DEF dispatch_one, Promise!Handle, fabric
  <2>2. QED BY <2>1 DEF Promise!Next
<1>8. QED BY <1>1, <1>2, <1>3, <1>4, <1>5, <1>6, <1>7 DEF Next, Receive, Dispatch

(* The server keeps the safety part of what Delivery promises: each step   *)
(* of its threads, with the socket changes, floods and lost                *)
(* acknowledgements in between, is one that Delivery allows.               *)
THEOREM ServerImplementsDelivery == Spec => KeepsSafety
<1>1. QED BY InitPromised, ServerInvariant, StepPromised, PTL
       DEF Spec, KeepsSafety, Promise!Safety
=============================================================================
