------------------------------- MODULE Server -------------------------------
(***************************************************************************)
(* The notification server (snsd_server.c).  The fabric switch notifies a  *)
(* host of devices that come and go, and repeats a notification until it   *)
(* is acknowledged.  The receiving thread takes frames from the sockets,   *)
(* moves each notification into one of a fixed number of buffers and       *)
(* acknowledges it; the handling thread turns buffered notifications into  *)
(* connect and disconnect requests, and watches the rate of every listener *)
(* for floods.  The main thread opens and closes the sockets.              *)
(*                                                                         *)
(* The receiving thread reads the listener table without its mutex, so the *)
(* main thread may change the table between any two of its steps.          *)
(***************************************************************************)
EXTENDS Listener, Sequences, SequencesExt

CONSTANTS
  Interface,        \* interfaces (ifindex), each with one host address
  Notification,     \* what the fabric switch may have to tell
  SNSD_MAX_MSG_NUM, \* notification buffers
  MaxAck,           \* notifications one acknowledgement has room for (SNSD_MAX_TLV_LEN)
  SNSD_SERVER_FLOOD_ATTACK_THRESHOLD, SNSD_SERVER_RECOVERY_CYCLES,
  NoInterface,
  MaxFlood,         \* bound: frames without a notification
  MaxUpset          \* bound: failures and changes of sockets

ASSUME ServerAssumption ==
  /\ NoInterface \notin Interface
  /\ SNSD_MAX_MSG_NUM \in Nat \ {0} /\ MaxAck \in Nat \ {0}
  /\ SNSD_SERVER_FLOOD_ATTACK_THRESHOLD \in Nat \ {0}
  /\ SNSD_SERVER_RECOVERY_CYCLES \in Nat
  /\ MaxFlood \in Nat /\ MaxUpset \in Nat
  /\ \A n \in Notification :
       /\ n.interface \in Interface /\ n.dst \in Interface
       /\ n.tlvs \subseteq 1 .. 8 /\ n.role \in {"SERVER", "CLIENT"} /\ n.state \in Nat

NOTIFY_HOST_INACTIVE == 0
NOTIFY_HOST_ACTIVE   == 1
Quiet   == [step |-> "idle"]

VARIABLES
  listener,   \* the listener table
  main,       \* the main thread, opening or closing a socket
  sock,       \* open sockets: the interface each is bound to
  frame,      \* the frames waiting at every interface's socket, at most one
  owed,       \* notifications the fabric switch has not seen acknowledged
  raised,     \* all it ever had
  resent,     \* interfaces it has sent to since the last sample
  rcv,        \* the receiving thread
  dispatching,\* the handling thread holds the message mutex
  recv_list,  \* number of free buffers
  active_list,\* notifications in buffers, in order
  handled,    \* history: notifications that were dispatched
  requested,  \* history: those that became a request
  attacked,   \* history: interfaces whose flood was detected
  dropped,    \* history: interfaces whose frames were discarded as a flood
  calm,       \* history: quiet samples in a row while a slot discards
  floods, upsets

kernel == <<sock, frame>>
fabric == <<owed, raised, resent>>
pool   == <<recv_list, active_list>>
hist   == <<handled, requested, attacked, dropped>>
bounds == <<floods, upsets>>
vars   == <<listener, main, kernel, fabric, rcv, dispatching, pool, hist, calm, bounds>>

Init ==
  /\ listener = [i \in ListenerSlot |->
                   [fd |-> NoFd, ifindex |-> NoInterface, host_ip |-> {},
                    fresh |-> 0, drop |-> FALSE, drop_interval |-> 0]]
  /\ main = Quiet
  /\ sock = [f \in Fd |-> NoInterface]
  /\ frame = [i \in Interface |-> <<>>]
  /\ owed = {} /\ raised = {} /\ resent = {}
  /\ rcv = Quiet
  /\ dispatching = FALSE
  /\ recv_list = SNSD_MAX_MSG_NUM /\ active_list = <<>>
  /\ handled = {} /\ requested = {} /\ attacked = {} /\ dropped = {}
  /\ calm = [i \in ListenerSlot |-> 0]
  /\ floods = 0 /\ upsets = 0

Upset == upsets < MaxUpset /\ upsets' = upsets + 1
-----------------------------------------------------------------------------
(* The main thread opens a port's socket: snsd_get_server_sock binds it,   *)
(* snsd_lookup_listener_id gives it a slot of the table, and after this    *)
(* critical section snsd_update_server_sock writes the address there and   *)
(* snsd_add_server adds the socket to epoll; snsd_update_sock_ip adds the  *)
(* host address in a critical section of its own.                          *)
Open(i) == \E f \in Fd : sock[f] = i

snsd_lookup_listener_id(i, f) ==
  /\ main.step = "idle"
  /\ ~Open(i) /\ sock[f] = NoInterface
  /\ HasRoom(listener)
  /\ sock' = [sock EXCEPT ![f] = i]
  /\ listener' = [listener EXCEPT ![SlotOf(listener, NoFd)].fd = f]
  /\ main' = [step |-> "add_server", fd |-> f]
  /\ UNCHANGED <<frame, fabric, rcv, dispatching, pool, hist, calm, bounds>>

snsd_add_server ==
  /\ main.step = "add_server"
  /\ listener' = [listener EXCEPT ![SlotOf(listener, main.fd)].ifindex = sock[main.fd]]
  /\ main' = [step |-> "add_ip", fd |-> main.fd]
  /\ UNCHANGED <<kernel, fabric, rcv, dispatching, pool, hist, calm, bounds>>

snsd_add_server_ip ==
  /\ main.step = "add_ip"
  /\ listener' = AddServerIp(listener, main.fd, sock[main.fd])
  /\ main' = Quiet
  /\ UNCHANGED <<kernel, fabric, rcv, dispatching, pool, hist, calm, bounds>>

(* It closes the socket of a port that vanished (switch_port_delete).      *)
snsd_remove_server_ip(f) ==
  /\ main.step = "idle"
  /\ sock[f] # NoInterface
  /\ Upset
  /\ listener' = RemoveServerIp(listener, f, sock[f])
  /\ main' = [step |-> "remove", fd |-> f]
  /\ UNCHANGED <<kernel, fabric, rcv, dispatching, pool, hist, calm, floods>>

snsd_remove_server ==
  /\ main.step = "remove"
  /\ listener' = RemoveServer(listener, main.fd)
  /\ main' = [step |-> "close", fd |-> main.fd]
  /\ UNCHANGED <<kernel, fabric, rcv, dispatching, pool, hist, calm, bounds>>

close ==
  /\ main.step = "close"
  /\ sock' = [sock EXCEPT ![main.fd] = NoInterface]
  /\ frame' = [frame EXCEPT ![sock[main.fd]] = <<>>]
  /\ main' = Quiet
  /\ UNCHANGED <<listener, fabric, rcv, dispatching, pool, hist, calm, bounds>>
-----------------------------------------------------------------------------
(* The fabric switch: has a notification, and sends what an interface is   *)
(* owed in one frame, not more often than the rate is sampled.             *)
notify(n) ==
  /\ n \notin raised
  /\ raised' = raised \cup {n}
  /\ owed' = owed \cup {n}
  /\ UNCHANGED <<listener, main, kernel, resent, rcv, dispatching, pool, hist, calm, bounds>>

Owed(i) == {n \in owed : n.interface = i}

transmit(i) ==
  /\ Open(i) /\ frame[i] = <<>> /\ i \notin resent
  /\ Owed(i) # {}
  /\ \E roots \in SetToSeqs(Owed(i)) : frame' = [frame EXCEPT ![i] = <<roots>>]
  /\ resent' = resent \cup {i}
  /\ UNCHANGED <<listener, main, sock, owed, raised, rcv, dispatching, pool, hist, calm, bounds>>

(* A frame of the notification protocol that carries nothing valid.        *)
flood(i) ==
  /\ Open(i) /\ frame[i] = <<>>
  /\ floods < MaxFlood /\ floods' = floods + 1
  /\ frame' = [frame EXCEPT ![i] = << <<>> >>]
  /\ UNCHANGED <<listener, main, sock, fabric, rcv, dispatching, pool, hist, calm, upsets>>
-----------------------------------------------------------------------------
(* snsd_msg_rcv: epoll reports a socket that was added; the descriptor is  *)
(* used afterwards whatever happened to it in between.                     *)
epoll_wait(f) ==
  /\ rcv = Quiet
  /\ SlotOf(listener, f) # 0 /\ main # [step |-> "add_server", fd |-> f]
  /\ sock[f] # NoInterface /\ frame[sock[f]] # <<>>
  /\ rcv' = [step |-> "find", fd |-> f]
  /\ UNCHANGED <<listener, main, kernel, fabric, dispatching, pool, hist, calm, bounds>>

(* snsd_client_notify: the listener of the descriptor, remembered by its   *)
(* place in the table, and one more message on its count.                  *)
Counted(n) == IF n < SNSD_SERVER_FLOOD_ATTACK_THRESHOLD THEN n + 1 ELSE n

client_notify ==
  LET s == SlotOf(listener, rcv.fd)
  IN  /\ rcv.step = "find"
      /\ IF s = 0
         THEN rcv' = Quiet /\ UNCHANGED listener
         ELSE /\ listener' = [listener EXCEPT ![s].fresh = Counted(@)]
              /\ rcv' = [step |-> "recv", fd |-> rcv.fd, slot |-> s]
      /\ UNCHANGED <<main, kernel, fabric, dispatching, pool, hist, calm, bounds>>

(* recvmsg on the non-blocking socket; a listener under attack discards.   *)
recvmsg ==
  LET i == sock[rcv.fd]
  IN  /\ rcv.step = "recv"
      /\ \/ /\ i = NoInterface \/ (i # NoInterface /\ frame[i] = <<>>)
            /\ rcv' = Quiet
            /\ UNCHANGED <<frame, dropped>>
         \/ /\ i # NoInterface /\ frame[i] # <<>>
            /\ frame' = [frame EXCEPT ![i] = <<>>]
            /\ IF listener[rcv.slot].drop
               THEN /\ rcv' = Quiet
                    /\ dropped' = dropped \cup {i}
               ELSE /\ rcv' = [step |-> "roots", fd |-> rcv.fd, slot |-> rcv.slot,
                               rest |-> Head(frame[i]), ack |-> {}]
                    /\ UNCHANGED dropped
      /\ UNCHANGED <<listener, main, sock, fabric, dispatching, pool, handled, requested, attacked,
                     calm, bounds>>

(* snsd_check_msg_complete: the sub-TLVs with a valid length are exactly   *)
(* those of an IPv4 or of an IPv6 notification.                            *)
Complete(n) == n.tlvs \in {{1, 2, 5, 6, 7, 8}, {3, 4, 5, 6, 7, 8}}

(* snsd_deal_one_msg, after snsd_decode_sub_tlv: a notification that is    *)
(* complete and for an address of the listener is buffered and goes on the *)
(* acknowledgement; one of another host is only acknowledged; without a    *)
(* free buffer it is not.                                                  *)
Accepts(n) == Complete(n) /\ n.dst \in listener[rcv.slot].host_ip

(* snsd_build_ack_tlv_info: a notification that finds the acknowledgement  *)
(* full is left out of it.                                                 *)
OnAck(ack, n) == IF Cardinality(ack) < MaxAck THEN ack \cup {n} ELSE ack

(* Fault: a notification is acknowledged although there was no buffer.     *)
snsd_post_one_msg_Acked(n) ==
  \/ /\ n.role # "CLIENT" /\ ~dispatching /\ recv_list > 0
     /\ recv_list' = recv_list - 1
     /\ active_list' = Append(active_list, n)
     /\ rcv' = [rcv EXCEPT !.rest = Tail(@), !.ack = OnAck(@, n)]
  \/ /\ n.role = "CLIENT" \/ (~dispatching /\ recv_list = 0)
     /\ rcv' = [rcv EXCEPT !.rest = Tail(@), !.ack = OnAck(@, n)]
     /\ UNCHANGED pool

snsd_post_one_msg(n) ==
  \/ /\ n.role = "CLIENT"
     /\ rcv' = [rcv EXCEPT !.rest = Tail(@), !.ack = OnAck(@, n)]
     /\ UNCHANGED pool
  \/ /\ n.role # "CLIENT" /\ ~dispatching /\ recv_list > 0
     /\ recv_list' = recv_list - 1
     /\ active_list' = Append(active_list, n)
     /\ rcv' = [rcv EXCEPT !.rest = Tail(@), !.ack = OnAck(@, n)]
  \/ /\ n.role # "CLIENT" /\ ~dispatching /\ recv_list = 0
     /\ rcv' = [rcv EXCEPT !.rest = Tail(@)]
     /\ UNCHANGED pool

snsd_deal_one_msg ==
  LET n == Head(rcv.rest)
  IN  /\ rcv.step = "roots" /\ rcv.rest # <<>>
      /\ IF Accepts(n)
         THEN snsd_post_one_msg(n)
         ELSE rcv' = [rcv EXCEPT !.rest = Tail(@)] /\ UNCHANGED pool
      /\ UNCHANGED <<listener, main, kernel, fabric, dispatching, hist, calm, bounds>>

(* snsd_send_ack goes out on the interface the listener slot now names,    *)
(* and may be lost.                                                        *)
snsd_send_ack ==
  LET out == IF sock[rcv.fd] = NoInterface THEN NoInterface ELSE listener[rcv.slot].ifindex
  IN  /\ rcv.step = "roots" /\ rcv.rest = <<>>
      /\ rcv' = Quiet
      /\ \/ /\ owed' = {n \in owed : n \notin rcv.ack \/ n.interface # out}
            /\ UNCHANGED upsets
         \/ rcv.ack # {} /\ Upset /\ UNCHANGED owed
      /\ UNCHANGED <<listener, main, kernel, raised, resent, dispatching, pool, hist, calm, floods>>
-----------------------------------------------------------------------------
(* snsd_msg_dispatch works through the buffers under the message mutex.    *)
dispatch_begin ==
  /\ ~dispatching /\ active_list # <<>>
  /\ dispatching' = TRUE
  /\ UNCHANGED <<listener, main, kernel, fabric, rcv, pool, hist, calm, bounds>>

(* The state of 32 bits is looked at as an unsigned char.                  *)
StateByte(n) == n.state % 256

(* snsd_connect_change only logs that a request could not be queued.       *)
snsd_connect_change(n) ==
  \/ /\ StateByte(n) \in {NOTIFY_HOST_ACTIVE, NOTIFY_HOST_INACTIVE}
     /\ requested' = requested \cup {n}
     /\ UNCHANGED upsets
  \/ /\ StateByte(n) \in {NOTIFY_HOST_ACTIVE, NOTIFY_HOST_INACTIVE}
     /\ Upset
     /\ UNCHANGED requested

(* Fault: a buffer that was handled is not put back.                       *)
dispatch_one_Leaks ==
  LET n == Head(active_list)
  IN  /\ dispatching /\ active_list # <<>>
      /\ active_list' = Tail(active_list)
      /\ handled' = handled \cup {n}
      /\ snsd_connect_change(n)
      /\ UNCHANGED <<recv_list, listener, main, kernel, fabric, rcv, dispatching, attacked,
                     dropped, calm, floods>>

dispatch_one ==
  LET n == Head(active_list)
  IN  /\ dispatching /\ active_list # <<>>
      /\ active_list' = Tail(active_list)
      /\ recv_list' = recv_list + 1
      /\ handled' = handled \cup {n}
      /\ \/ snsd_connect_change(n)
         \/ /\ StateByte(n) \notin {NOTIFY_HOST_ACTIVE, NOTIFY_HOST_INACTIVE}
            /\ UNCHANGED <<requested, upsets>>
      /\ UNCHANGED <<listener, main, kernel, fabric, rcv, dispatching, attacked, dropped, calm,
                     floods>>

dispatch_end ==
  /\ dispatching /\ active_list = <<>>
  /\ dispatching' = FALSE
  /\ UNCHANGED <<listener, main, kernel, fabric, rcv, pool, hist, calm, bounds>>

(* snsd_listener_state_change for one slot after its sample.               *)
Flooded(l) == l.fresh >= SNSD_SERVER_FLOOD_ATTACK_THRESHOLD

(* Fault: a listener never recovers.                                       *)
Sampled_Stuck(l) ==
  LET s == [l EXCEPT !.fresh = 0]
  IN  CASE Flooded(l) /\ ~l.drop -> [s EXCEPT !.drop = TRUE, !.drop_interval = 0]
        [] ~Flooded(l) /\ l.drop -> [s EXCEPT !.drop_interval = @ + 1]
        [] OTHER -> s

Sampled(l) ==
  LET s == [l EXCEPT !.fresh = 0]
  IN  CASE Flooded(l) /\ ~l.drop -> [s EXCEPT !.drop = TRUE, !.drop_interval = 0]
        [] ~Flooded(l) /\ l.drop ->
             [s EXCEPT !.drop_interval = @ + 1,
                       !.drop = l.drop_interval + 1 <= SNSD_SERVER_RECOVERY_CYCLES]
        [] OTHER -> s

(* snsd_listener_monitor samples every slot, used or not.                  *)
snsd_listener_monitor ==
  /\ ~dispatching
  /\ listener' = [i \in ListenerSlot |-> Sampled(listener[i])]
  /\ resent' = {}
  /\ attacked' = attacked \cup
       {listener[i].ifindex : i \in {j \in ListenerSlot : Flooded(listener[j])}}
  /\ calm' = [i \in ListenerSlot |->
                IF listener[i].drop /\ ~Flooded(listener[i]) THEN calm[i] + 1 ELSE 0]
  /\ UNCHANGED <<main, kernel, owed, raised, rcv, dispatching, pool, handled, requested, dropped,
                 bounds>>
-----------------------------------------------------------------------------
MainGoesOn == snsd_add_server \/ snsd_add_server_ip \/ snsd_remove_server \/ close

Receive ==
  \/ \E f \in Fd : epoll_wait(f)
  \/ client_notify \/ recvmsg \/ snsd_deal_one_msg \/ snsd_send_ack

Dispatch == dispatch_begin \/ dispatch_one \/ dispatch_end

Next ==
  \/ \E i \in Interface : \E f \in Fd : snsd_lookup_listener_id(i, f)
  \/ \E f \in Fd : snsd_remove_server_ip(f)
  \/ MainGoesOn
  \/ \E n \in Notification : notify(n)
  \/ \E i \in Interface : transmit(i) \/ flood(i)
  \/ Receive \/ Dispatch \/ snsd_listener_monitor

Spec == Init /\ [][Next]_vars

(* All three threads run on; epoll reports every ready socket in the     *)
(* end.  The fabric switch repeats what is not acknowledged.  A listener   *)
(* is sampled again and again, also when the message list is busy.         *)
Fairness ==
  /\ WF_vars(client_notify \/ recvmsg \/ snsd_deal_one_msg \/ snsd_send_ack)
  /\ \A f \in Fd : SF_vars(epoll_wait(f))
  /\ WF_vars(Dispatch)
  /\ WF_vars(MainGoesOn)
  /\ SF_vars(snsd_listener_monitor)
  /\ \A i \in Interface : SF_vars(transmit(i))
FairSpec == Spec /\ Fairness
-----------------------------------------------------------------------------
(* Types of all state: the pool and the drop interval stay in range.       *)
TypeOK ==
  /\ listener \in [ListenerSlot ->
        [fd : Fd \cup {NoFd}, ifindex : Interface \cup {NoInterface}, host_ip : SUBSET Interface,
         fresh : 0 .. SNSD_SERVER_FLOOD_ATTACK_THRESHOLD, drop : BOOLEAN,
         drop_interval : 0 .. SNSD_SERVER_RECOVERY_CYCLES + 1]]
  /\ main.step \in {"idle", "add_server", "add_ip", "remove", "close"}
  /\ sock \in [Fd -> Interface \cup {NoInterface}]
  /\ owed \subseteq raised /\ raised \subseteq Notification
  /\ recv_list \in 0 .. SNSD_MAX_MSG_NUM
  /\ ToSet(active_list) \subseteq Notification
  /\ rcv.step \in {"idle", "find", "recv", "roots"}

(* Buffers are neither lost nor made: free and used ones are all there     *)
(* are, through posting, dispatching and an exhausted pool.                *)
BuffersConserved == recv_list + Len(active_list) = SNSD_MAX_MSG_NUM

(* "when post a msg failed, fabric sw will not receive ack and retry": a   *)
(* notification is still owed, or it is buffered or dispatched, or it was  *)
(* another host's.  No path acknowledges what it has not taken over.       *)
NothingLost ==
  \A n \in raised :
    n \in owed \/ n \in ToSet(active_list) \/ n \in handled \/ n.role = "CLIENT"

Promise == INSTANCE Delivery WITH
  Item <- Notification, Ignorable <- {n \in Notification : n.role = "CLIENT"},
  Capacity <- SNSD_MAX_MSG_NUM, held <- active_list

(* Each step of the server is one that Delivery allows: no notification is *)
(* acknowledged before it is in a buffer, none is taken over that was not  *)
(* raised, and none overtakes another.                                     *)
KeepsSafety == Promise!Safety

(* The server keeps the promise of Delivery: buffers, listener table and   *)
(* acknowledgements together deliver each notification at least once, in   *)
(* the order of the buffers, and acknowledge none before.                  *)
KeepsPromise == Promise!Spec

(* Every complete notification for a served interface is dispatched in the *)
(* end: a full pool, lost acknowledgements and floods that were detected   *)
(* only delay it.                                                          *)
NotificationHandled ==
  \A n \in Notification :
    (n \in raised /\ Complete(n) /\ n.role = "SERVER" /\ n.dst = n.interface)
      ~> (n \in handled \/ ~Open(n.interface))

(* snsd_deal_one_msg rejects a notification as "Host ip inconsistent": one *)
(* that arrived on one interface and is for the address of another is      *)
(* never taken.                                                            *)
DispatchedWhereServed ==
  \A n \in handled \cup ToSet(active_list) : n.dst = n.interface

(* "when a attack disappear, after recovery period, devive could process   *)
(* msg normally": a listener recovers after that many quiet samples.       *)
RecoversAfterQuiet ==
  [][\A i \in ListenerSlot :
       listener[i].drop /\ ~listener'[i].drop => calm'[i] > SNSD_SERVER_RECOVERY_CYCLES]_vars

(* "When a device is detected as attacked, it should be discarded": frames *)
(* are discarded for an interface whose flood was detected, no other.      *)
DiscardsOnlyAttacked == dropped \subseteq attacked

(* snsd_msg_dispatch rejects what is neither active nor inactive as an     *)
(* "invalid msg".                                                          *)
OnlyValidRequested ==
  \A n \in requested : n.state \in {NOTIFY_HOST_ACTIVE, NOTIFY_HOST_INACTIVE}
=============================================================================
