------------------------------ MODULE Listener ------------------------------
(***************************************************************************)
(* The listener table of the notification server (sds.listener in          *)
(* snsd_server.c): which socket listens for which host addresses.  The     *)
(* main thread changes it through snsd_update_server, the receiving thread *)
(* reads it.  The operators below are the table's operations; a slot may   *)
(* have more fields than the ones used here.                               *)
(***************************************************************************)
EXTENDS Integers, FiniteSets, FiniteSetsExt

CONSTANTS
  SNSD_MAX_LISTENER,     \* slots of the table
  SNSD_MAX_IP_PHYPORT,   \* host addresses a slot can hold
  Fd, NoFd               \* socket descriptors, and -1

ASSUME ListenerAssumption ==
  /\ SNSD_MAX_LISTENER \in Nat \ {0}
  /\ SNSD_MAX_IP_PHYPORT \in Nat \ {0}
  /\ NoFd \notin Fd

ListenerSlot == 1 .. SNSD_MAX_LISTENER

(* snsd_get_server_listener and the loops like it: the first slot with     *)
(* descriptor f, 0 when there is none.                                     *)
SlotOf(l, f) ==
  LET found == {i \in ListenerSlot : l[i].fd = f}
  IN  IF found = {} THEN 0 ELSE Min(found)

(* snsd_lookup_listener_id and snsd_update_server_sock: the first unused   *)
(* slot is given descriptor and address; everything else in it stays.      *)
HasRoom(l) == SlotOf(l, NoFd) # 0
AddServer(l, f, ifindex) ==
  [l EXCEPT ![SlotOf(l, NoFd)] = [@ EXCEPT !.fd = f, !.ifindex = ifindex]]

(* snsd_remove_server: only the descriptor is reset.                       *)
RemoveServer(l, f) ==
  IF SlotOf(l, f) = 0 THEN l ELSE [l EXCEPT ![SlotOf(l, f)].fd = NoFd]

(* snsd_add_server_ip, -ENODEV unless CanAddIp.                            *)
CanAddIp(l, f, ip) ==
  /\ SlotOf(l, f) # 0
  /\ \/ ip \in l[SlotOf(l, f)].host_ip
     \/ Cardinality(l[SlotOf(l, f)].host_ip) < SNSD_MAX_IP_PHYPORT
AddServerIp(l, f, ip) == [l EXCEPT ![SlotOf(l, f)].host_ip = @ \cup {ip}]

(* Fault: the address stays.                                               *)
RemoveServerIp_Kept(l, f, ip) == l

(* snsd_remove_server_ip: no slot and no such address are both success.    *)
RemoveServerIp(l, f, ip) ==
  IF SlotOf(l, f) = 0 THEN l ELSE [l EXCEPT ![SlotOf(l, f)].host_ip = @ \ {ip}]
=============================================================================
