------------------------------- MODULE Switch -------------------------------
(***************************************************************************)
(* The main thread's work for the switched network (snsd_switch.c, with    *)
(* the parts of snsd_mgt.c that maintain the list of ports).  Every 100 ms *)
(* it reads the interfaces; every SWITCH_POLL_INTEVAL polls it also gives  *)
(* ports their sockets and announces them by LLDP; a port that lost its    *)
(* link or vanished gets a batch disconnect.                               *)
(*                                                                         *)
(* A socket belongs to a physical interface and is shared by the ports on  *)
(* it, counted in g_port_fd.  The ports of a bonding device use a socket   *)
(* on each slave instead.                                                  *)
(*                                                                         *)
(* One pass of switch_port_handle is one action for reading the interfaces *)
(* and then, port by port in list order, one action for each of its steps. *)
(***************************************************************************)
EXTENDS Listener, Sequences, SequencesExt

CONSTANTS
  Port,              \* ports: [name, ip, phy], interface name and address
  Bond,              \* the ports on a bonding device
  SlaveIf,           \* ifindexes that may be slaves of a bonding device
  Vlan,              \* VLAN ids
  MAX_PHY_PORT,      \* slots of g_port_fd
  MAX_NAME_INDEX,    \* bits of index_map (64)
  LLDP_OLD_TIME, LLDP_WAIT_OLD_TIME, LLDP_INTERVAL_CLOCK, SWITCH_POLL_INTEVAL,
  EpollMayFail,      \* whether epoll_ctl(EPOLL_CTL_ADD) may fail (BOOLEAN)
  MaxUpset           \* bound: failures of system calls and requests

NoIf   == 0
Phy    == {p.phy : p \in Port}
IfSet  == Phy \cup SlaveIf
FdSlot == 1 .. MAX_PHY_PORT
Ip     == {p.ip : p \in Port}
Age    == LLDP_OLD_TIME + LLDP_WAIT_OLD_TIME

ASSUME SwitchAssumption ==
  /\ IsFiniteSet(Port) /\ IsFiniteSet(SlaveIf) /\ Bond \subseteq Port
  /\ IfSet \subseteq Nat \ {NoIf}
  /\ Vlan \subseteq Nat \ {0} /\ Vlan # {}
  /\ MAX_PHY_PORT \in Nat \ {0} /\ MAX_NAME_INDEX \in Nat \ {0}
  /\ LLDP_OLD_TIME \in Nat \ {0} /\ LLDP_WAIT_OLD_TIME \in Nat \ {0}
  /\ LLDP_INTERVAL_CLOCK \in 1 .. Age /\ SWITCH_POLL_INTEVAL \in Nat \ {0}
  /\ EpollMayFail \in BOOLEAN /\ MaxUpset \in Nat

VARIABLES
  net,        \* the interfaces: [here, up, vlan, slaves] for every port
  list,       \* port_list_head: the listed ports in order
  port,       \* struct snsd_net_info of every port
  g_port_fd,  \* socket and reference count per physical interface
  listener,   \* the server's listener table
  sock,       \* open sockets: the interface each is bound to
  since,      \* polls since the last LLDP check
  at,         \* where the main thread is in its pass
  neighbor,   \* LLDP neighbours the fabric switch remembers
  told,       \* history: disconnected since the link was last seen up
  upsets      \* failures so far

fds   == <<g_port_fd, listener, sock>>
svars == <<net, list, port, fds, since, at, neighbor, told, upsets>>

Idle     == [step |-> "idle", i |-> 0, j |-> 0, check |-> FALSE]
Crashed  == [Idle EXCEPT !.step = "crashed"]
FreeSlot == [ifindex |-> NoIf, refs |-> 0, fd |-> NoFd, index_map |-> {}, old_time |-> -1]
Unused   == [fd |-> NoFd, ifindex |-> NoIf, host_ip |-> {}]

(* An entry as snsd_get_new returns it.  old_time and expires are relative *)
(* to now: old_time down to -1 (passed), expires down to 0 (due).  names:  *)
(* the names of the slaves (bonding_slaves) are kept, to compare with.     *)
NewEntry ==
  [fresh |-> FALSE, new |-> TRUE, up |-> FALSE, vlan |-> 0, vlan_change |-> FALSE,
   valid |-> FALSE, index |-> 1, name_index |-> 0, disconnect |-> FALSE,
   expires |-> 0, slave |-> <<>>, names |-> FALSE, bonding_change |-> FALSE]

SInit ==
  /\ net = [p \in Port |-> [here |-> FALSE, up |-> FALSE, vlan |-> Min(Vlan), slaves |-> {}]]
  /\ list = <<>>
  /\ port = [p \in Port |-> NewEntry]
  /\ g_port_fd = [s \in FdSlot |-> FreeSlot]
  /\ listener = [i \in ListenerSlot |-> Unused]
  /\ sock = [f \in Fd |-> NoIf]
  /\ since = SWITCH_POLL_INTEVAL
  /\ at = Idle
  /\ neighbor = [k \in {<<p.name, i>> : p \in Port, i \in 1 .. MAX_NAME_INDEX} |->
                   [owner |-> <<>>, ttl |-> 0]]
  /\ told = [p \in Port |-> TRUE]
  /\ upsets = 0

Upset == upsets < MaxUpset /\ upsets' = upsets + 1
Calm  == UNCHANGED upsets
-----------------------------------------------------------------------------
(* Tables and sockets together, for operations that change all of them.    *)
World == [g |-> g_port_fd, l |-> listener, k |-> sock]
Become(w) == g_port_fd' = w.g /\ listener' = w.l /\ sock' = w.k

(* Fault: when no slot is free the first one is taken over.                *)
SlotFor_Taken(ifindex) ==
  LET same == {s \in FdSlot : g_port_fd[s].ifindex = ifindex}
      free == {s \in FdSlot : g_port_fd[s].refs <= 0}
  IN  IF same # {} THEN Min(same) ELSE IF free # {} THEN Min(free) ELSE 1

(* switch_get_fd_info: the slot of the interface, or the first one that is *)
(* unused or whose last user is gone long enough; 0 when there is none.    *)
SlotFor(ifindex) ==
  LET same == {s \in FdSlot : g_port_fd[s].ifindex = ifindex}
      free == {s \in FdSlot : \/ g_port_fd[s].ifindex = NoIf
                              \/ g_port_fd[s].refs <= 0 /\ g_port_fd[s].old_time < 0}
  IN  IF same # {} THEN Min(same) ELSE IF free # {} THEN Min(free) ELSE 0

(* Fault: indexes in use are given out again.                              *)
IndexFor_First(s, ifindex, wanted) == IF wanted THEN 1 ELSE 0

(* switch_get_index, 0 when all are taken or none is wanted.               *)
IndexFor(s, ifindex, wanted) ==
  LET free == (1 .. MAX_NAME_INDEX) \ g_port_fd[s].index_map
  IN  IF ~wanted THEN 0
      ELSE IF g_port_fd[s].ifindex # ifindex THEN 1
      ELSE IF free = {} THEN 0 ELSE Min(free)

(* No slot, or no index where one is wanted.                               *)
Exhausted(ifindex, wanted) ==
  LET s == SlotFor(ifindex)
  IN  s = 0 \/ (wanted /\ IndexFor(s, ifindex, wanted) = 0)

(* Fault: a shared socket is not counted again.                            *)
Claim_NoRef(w, s, ifindex, index) ==
  [w EXCEPT !.g[s].refs = 1, !.g[s].ifindex = ifindex, !.g[s].index_map = @ \cup {index}]

Claim(w, s, ifindex, index) ==
  LET named == IF index = 0 THEN {} ELSE {index}
      slot  == w.g[s]
  IN  [w EXCEPT !.g[s] =
         IF slot.ifindex = ifindex
         THEN [slot EXCEPT !.refs = @ + 1, !.index_map = @ \cup named]
         ELSE [slot EXCEPT !.refs = 1, !.ifindex = ifindex,
                           !.index_map = IF index = 0 THEN @ ELSE named]]

(* Faults: the socket is closed although others use it, is never closed,   *)
(* or the index is not given back.                                         *)
Put_Closes(w, s, index) ==
  LET f == w.g[s].fd
  IN  [g |-> [w.g EXCEPT ![s] = [@ EXCEPT !.refs = @ - 1, !.index_map = @ \ {index},
                                          !.old_time = Age, !.fd = NoFd]],
       l |-> IF f = NoFd THEN w.l ELSE RemoveServer(w.l, f),
       k |-> IF f = NoFd THEN w.k ELSE [w.k EXCEPT ![f] = NoIf]]
Put_KeepsFd(w, s, index) ==
  [w EXCEPT !.g[s] = [@ EXCEPT !.refs = @ - 1, !.index_map = @ \ {index}, !.old_time = Age]]
Put_KeepsIndex(w, s, index) ==
  LET slot == [w.g[s] EXCEPT !.refs = @ - 1, !.old_time = Age]
      f    == slot.fd
  IN  IF slot.refs > 0 THEN [w EXCEPT !.g[s] = slot]
      ELSE [g |-> [w.g EXCEPT ![s] = [slot EXCEPT !.fd = NoFd]],
            l |-> IF f = NoFd THEN w.l ELSE RemoveServer(w.l, f),
            k |-> IF f = NoFd THEN w.k ELSE [w.k EXCEPT ![f] = NoIf]]

(* switch_put_fd_info, with snsd_sock_close for the last user.             *)
Put(w, s, index) ==
  LET slot == [w.g[s] EXCEPT !.refs = @ - 1, !.index_map = @ \ {index}, !.old_time = Age]
      f    == slot.fd
  IN  IF slot.refs > 0 THEN [w EXCEPT !.g[s] = slot]
      ELSE [g |-> [w.g EXCEPT ![s] = [slot EXCEPT !.fd = NoFd]],
            l |-> IF f = NoFd THEN w.l ELSE RemoveServer(w.l, f),
            k |-> IF f = NoFd THEN w.k ELSE [w.k EXCEPT ![f] = NoIf]]

(* snsd_get_server_sock succeeded with descriptor f.                       *)
Opened(w, s, f) ==
  [g |-> [w.g EXCEPT ![s].fd = f],
   l |-> AddServer(w.l, f, w.g[s].ifindex),
   k |-> [w.k EXCEPT ![f] = w.g[s].ifindex]]

(* switch_get_fd_data: all its results, as [ok, slot, index, w, upset].    *)
(* A new socket may fail to open, may find no listener slot, or may fail   *)
(* in epoll_ctl after its slot was claimed; then the address is added.     *)
FdData(ifindex, ip, wanted) ==
  LET s == SlotFor(ifindex)
      n == IndexFor(s, ifindex, wanted)
      c == Claim(World, s, ifindex, n)
      Failed(w, u)  == [ok |-> FALSE, slot |-> s, index |-> n, w |-> Put(w, s, n), upset |-> u]
      Address(w) ==
        IF CanAddIp(w.l, w.g[s].fd, ip)
        THEN [ok |-> TRUE, slot |-> s, index |-> n, upset |-> FALSE,
              w |-> [w EXCEPT !.l = AddServerIp(w.l, w.g[s].fd, ip)]]
        ELSE Failed(w, FALSE)
      closed == {f \in Fd : sock[f] = NoIf}
  IN  IF Exhausted(ifindex, wanted)
      THEN {[ok |-> FALSE, slot |-> 0, index |-> 0, w |-> World, upset |-> FALSE]}
      ELSE IF c.g[s].fd # NoFd THEN {Address(c)}
      ELSE {Failed(c, TRUE)}
           \cup (IF HasRoom(listener)
                 THEN {Address(Opened(c, s, f)) : f \in closed}
                      \cup {Failed([c EXCEPT !.l = AddServer(@, f, ifindex)], TRUE) :
                              f \in IF EpollMayFail THEN closed ELSE {}}
                 ELSE {Failed(c, FALSE)})

(* switch_free_slave_fd.                                                   *)
FreeSlave(w, p, s) ==
  Put([w EXCEPT !.l = RemoveServerIp(@, w.g[s].fd, p.ip)], s, 0)
-----------------------------------------------------------------------------
(* snsd_get_slave and snsd_verify_slave: slaves that left are marked, new  *)
(* ones put in front.                                                      *)
Slaves(e, S) ==
  LET known == {e.slave[i].ifindex : i \in DOMAIN e.slave}
      kept  == [i \in DOMAIN e.slave |->
                  [e.slave[i] EXCEPT !.deleted = e.slave[i].ifindex \notin S]]
      added == SetToSeq(S \ known)
  IN  [i \in DOMAIN added |->
         [ifindex |-> added[i], index |-> 1, fd_valid |-> FALSE, deleted |-> FALSE]] \o kept

SameSlaves(e, S) ==
  e.names /\ e.slave # <<>> /\ {e.slave[i].ifindex :
                                  i \in {k \in DOMAIN e.slave : ~e.slave[k].deleted}} = S

(* snsd_get_mac_and_flags and snsd_get_mix_info for a listed port.         *)
Read(p, e) ==
  LET n == net[p]
      f == [e EXCEPT !.fresh = TRUE, !.up = n.up, !.vlan = n.vlan,
                     !.vlan_change = e.vlan # 0 /\ e.vlan # n.vlan]
  IN  IF p \in Bond /\ ~SameSlaves(e, n.slaves)
      THEN [f EXCEPT !.slave = Slaves(e, n.slaves), !.names = n.slaves # {},
                     !.bonding_change = TRUE]
      ELSE f

Listed == ToSet(list)
Seen(p) == IF p \in Listed THEN [port[p] EXCEPT !.new = FALSE, !.fresh = FALSE] ELSE NewEntry

SlavesUnreadable ==
  \E p \in Bond \cap Listed :
    net[p].here /\ net[p].slaves = {} /\ port[p].names /\ port[p].slave # <<>>

(* The entry of an interface whose reading fails at its flags, at the file *)
(* of its slaves, at a slave that is new (those before it are known then,  *)
(* the names are not), or at its ifindex.                                  *)
PartlyRead(p) ==
  LET e == Seen(p)
      n == net[p]
      known  == {e.slave[i].ifindex : i \in DOMAIN e.slave}
      before == {S \in SUBSET n.slaves : S = {} \/ ~(n.slaves \ S \subseteq known)}
  IN  {e, [e EXCEPT !.up = n.up], [Read(p, e) EXCEPT !.fresh = FALSE]}
      \cup {[e EXCEPT !.up = n.up, !.slave = Slaves(e, S), !.names = FALSE,
                      !.bonding_change = TRUE] :
               S \in IF p \in Bond /\ ~SameSlaves(e, n.slaves) THEN before ELSE {}}

(* snsd_protocol_ib: a bonding device needs a slave.                       *)
Fails(p, e) == p \in Bond /\ (e.new \/ e.bonding_change) /\ e.slave = <<>>

(* snsd_cfg_net_info: every interface is read; a new one that fails the    *)
(* protocol check is dropped, an old one counts as vanished.               *)
snsd_cfg_net_info ==
  LET here  == {p \in Port : net[p].here}
      entry == [p \in Port |-> IF p \in here THEN Read(p, Seen(p)) ELSE Seen(p)]
      drop  == {p \in here : entry[p].new /\ Fails(p, entry[p])}
      now   == list \o SetToSeq((here \ Listed) \ drop)
  IN  /\ at = Idle /\ ~SlavesUnreadable
      /\ port' = [p \in Port |->
                    CASE p \in drop \/ p \notin here \cup Listed -> NewEntry
                      [] p \in here \ drop /\ Fails(p, entry[p]) -> [entry[p] EXCEPT !.fresh = FALSE]
                      [] OTHER -> entry[p]]
      /\ list' = now
      /\ since' = IF since >= SWITCH_POLL_INTEVAL THEN 1
                  ELSE since + 1
      /\ at' = IF now = <<>> THEN Idle
               ELSE [step |-> "port", i |-> 1, j |-> 0, check |-> since >= SWITCH_POLL_INTEVAL]
      /\ UNCHANGED <<net, fds, neighbor, told, upsets>>

(* snsd_verify_slave compares the slaves it read with the known ones; a    *)
(* bonding device without slaves reads as a null string, and the process   *)
(* is gone.                                                                *)
verify_slave_null ==
  /\ at = Idle /\ SlavesUnreadable
  /\ at' = Crashed
  /\ UNCHANGED <<net, list, port, fds, since, neighbor, told, upsets>>

(* It fails, at an interface or before any: those read before it and the   *)
(* one it fails at stay listed; the pass ends here.                        *)
cfg_net_info_fails ==
  \E read \in SUBSET {p \in Port : net[p].here} :
    LET entry == [p \in Port |-> IF p \in read THEN Read(p, Seen(p)) ELSE port[p]]
        found == list \o SetToSeq(read \ Listed)
    IN  /\ at = Idle /\ ~SlavesUnreadable
        /\ Upset
        /\ \/ port' = entry /\ list' = found
           \/ \E p \in Port \ read : \E e \in PartlyRead(p) :
                /\ net[p].here
                /\ port' = [entry EXCEPT ![p] = e]
                /\ list' = IF p \in Listed THEN found ELSE Append(found, p)
        /\ since' = IF since < SWITCH_POLL_INTEVAL THEN since + 1 ELSE since
        /\ UNCHANGED <<net, fds, at, neighbor, told>>
-----------------------------------------------------------------------------
Cur  == list[at.i]
Mine == port[Cur]
Set(e) == port' = [port EXCEPT ![Cur] = e]
GoTo(step, j) == at' = [at EXCEPT !.step = step, !.j = j]

(* On to the next port of the list, or the end of the pass.                *)
NextPort(i, n) == at' = IF i > n THEN Idle ELSE [at EXCEPT !.step = "port", !.i = i, !.j = 0]

(* An announcement names the address of the port, and the port by the name *)
(* of its interface and its index.                                         *)
PortId(e) == <<Cur.name, e.name_index>>
SmartTlv(e) == <<Cur, e.vlan>>

(* lldp_send: an announcement of the current port went out.  The fabric    *)
(* switch remembers it under the port id, for as long as it says.          *)
lldp_send(e) ==
  neighbor' = [neighbor EXCEPT ![PortId(e)] = [owner |-> SmartTlv(e), ttl |-> LLDP_OLD_TIME]]

(* lldp_send_bonding, slave by slave up to the first that fails: one whose *)
(* link is down is passed over and counts as sent to, so that a failure    *)
(* may come after an announcement and a success without one.               *)
lldp_send_bonding(e) == Cur \in Bond /\ (lldp_send(e) \/ UNCHANGED neighbor)

(* switch_check_lldp_send for entry e of the current port: an announcement *)
(* that is due goes out, or fails and stays due.                           *)
LldpSend(e) ==
  IF e.up /\ e.expires = 0
  THEN \/ /\ Set([e EXCEPT !.expires = LLDP_INTERVAL_CLOCK])
          /\ lldp_send_bonding(e) \/ (Cur \notin Bond /\ lldp_send(e))
          /\ Calm
       \/ /\ Set(e)
          /\ lldp_send_bonding(e) \/ (Cur \notin Bond /\ UNCHANGED neighbor)
          /\ Upset
  ELSE Set(e) /\ Calm /\ UNCHANGED neighbor

(* switch_port_exist_handle once the port has all its sockets.             *)
Announce(e) ==
  IF e.vlan_change
  THEN Set([e EXCEPT !.expires = Age]) /\ Calm /\ UNCHANGED neighbor
  ELSE LldpSend(e)

(* Faults: announcements start at once, or at a time that has passed.      *)
Started_AtOnce(e, s, n, w) ==
  [e EXCEPT !.valid = TRUE, !.index = s, !.name_index = n, !.expires = 0]
Started_Raw(e, s, n, w) ==
  [e EXCEPT !.valid = TRUE, !.index = s, !.name_index = n, !.expires = w.g[s].old_time]

Started(e, s, n, w) ==
  [e EXCEPT !.valid = TRUE, !.index = s, !.name_index = n,
            !.expires = IF w.g[s].old_time < 0 THEN 0 ELSE w.g[s].old_time]

(* The first step for a port that still exists.  A port without a socket   *)
(* gets one: its announcements start when the slot's old ones have aged.   *)
port_skip ==
  /\ at.step = "port" /\ Mine.fresh /\ ~at.check
  /\ GoTo("disconnect", 0)
  /\ UNCHANGED <<net, list, port, fds, since, neighbor, told, upsets>>

port_valid ==
  /\ at.step = "port" /\ Mine.fresh /\ at.check /\ Mine.valid
  /\ ~Mine.bonding_change
  /\ Announce(Mine)
  /\ GoTo("disconnect", 0)
  /\ UNCHANGED <<net, list, fds, since, told>>

switch_get_phy_fd ==
  /\ at.step = "port" /\ Mine.fresh /\ at.check /\ ~Mine.valid
  /\ Cur \notin Bond
  /\ \E r \in FdData(Cur.phy, Cur.ip, TRUE) :
       /\ Become(r.w)
       /\ IF r.ok THEN LldpSend(Started(Mine, r.slot, r.index, r.w))
          ELSE /\ UNCHANGED <<port, neighbor>>
               /\ IF r.upset THEN Upset ELSE Calm
  /\ GoTo("disconnect", 0)
  /\ UNCHANGED <<net, list, since, told>>

switch_get_bonding_phy_fd ==
  LET s == SlotFor(Cur.phy)
      n == IndexFor(s, Cur.phy, TRUE)
  IN  /\ at.step = "port" /\ Mine.fresh /\ at.check /\ ~Mine.valid
      /\ Cur \in Bond
      /\ IF Exhausted(Cur.phy, TRUE)
         THEN GoTo("disconnect", 0) /\ UNCHANGED <<fds, port>>
         ELSE /\ Become(Claim(World, s, Cur.phy, n))
              /\ Set([Mine EXCEPT !.index = s, !.name_index = n])
              /\ GoTo("slave", 1)
      /\ UNCHANGED <<net, list, since, neighbor, told, upsets>>

port_bonding_change ==
  /\ at.step = "port" /\ Mine.fresh /\ at.check /\ Mine.valid
  /\ Mine.bonding_change
  /\ GoTo("slave", 1)
  /\ UNCHANGED <<net, list, port, fds, since, neighbor, told, upsets>>

(* switch_get_bonding_fd, one slave at a time: one that left is freed, one *)
(* without a socket gets it.                                               *)
slave_gone ==
  LET sl == Mine.slave[at.j]
  IN  /\ at.step = "slave" /\ at.j <= Len(Mine.slave) /\ sl.deleted
      /\ Become(IF sl.fd_valid THEN FreeSlave(World, Cur, sl.index) ELSE World)
      /\ Set([Mine EXCEPT !.slave = RemoveAt(@, at.j)])
      /\ UNCHANGED <<net, list, since, at, neighbor, told, upsets>>

(* Fault: a slave that has no socket yet is passed over.                   *)
slave_kept_Unchecked ==
  /\ at.step = "slave" /\ at.j <= Len(Mine.slave) /\ ~Mine.slave[at.j].deleted
  /\ GoTo("slave", at.j + 1)
  /\ UNCHANGED <<net, list, port, fds, since, neighbor, told, upsets>>

slave_kept ==
  LET sl == Mine.slave[at.j]
  IN  /\ at.step = "slave" /\ at.j <= Len(Mine.slave)
      /\ ~sl.deleted /\ sl.fd_valid
      /\ GoTo("slave", at.j + 1)
      /\ UNCHANGED <<net, list, port, fds, since, neighbor, told, upsets>>

(* When a slave gets no socket, a port that was being set up gives back    *)
(* its own slot and is tried again with the next LLDP check.               *)
slave_new ==
  LET sl == Mine.slave[at.j]
  IN  /\ at.step = "slave" /\ at.j <= Len(Mine.slave)
      /\ ~sl.deleted /\ ~sl.fd_valid
      /\ \E r \in FdData(sl.ifindex, Cur.ip, FALSE) :
           IF r.ok
           THEN /\ Become(r.w)
                /\ Set([Mine EXCEPT !.slave[at.j].index = r.slot,
                                    !.slave[at.j].fd_valid = TRUE])
                /\ GoTo("slave", at.j + 1)
                /\ Calm
           ELSE /\ Become(IF Mine.valid THEN r.w ELSE Put(r.w, Mine.index, Mine.name_index))
                /\ GoTo("disconnect", 0)
                /\ IF r.upset THEN Upset ELSE Calm
                /\ UNCHANGED port
      /\ UNCHANGED <<net, list, since, neighbor, told>>

slaves_done ==
  LET e == [Mine EXCEPT !.bonding_change = FALSE]
  IN  /\ at.step = "slave" /\ at.j > Len(Mine.slave)
      /\ IF e.valid THEN Announce(e)
         ELSE LldpSend(Started(e, e.index, e.name_index, World))
      /\ GoTo("disconnect", 0)
      /\ UNCHANGED <<net, list, fds, since, told>>

(* Fault: the port is flagged also when the request was refused.           *)
switch_port_handle_disconnect_Flagged ==
  /\ at.step = "disconnect"
  /\ \/ /\ Mine.up
        /\ Set([Mine EXCEPT !.disconnect = FALSE])
        /\ told' = [told EXCEPT ![Cur] = FALSE]
        /\ Calm
     \/ /\ ~Mine.up /\ Mine.disconnect
        /\ Calm /\ UNCHANGED <<port, told>>
     \/ /\ ~Mine.up /\ ~Mine.disconnect
        /\ Set([Mine EXCEPT !.disconnect = TRUE])
        /\ \/ told' = [told EXCEPT ![Cur] = TRUE] /\ Calm
           \/ Upset /\ UNCHANGED told
  /\ NextPort(at.i + 1, Len(list))
  /\ UNCHANGED <<net, list, fds, since, neighbor>>

(* switch_port_handle_disconnect: a lost link is reported once, when the   *)
(* request is accepted.                                                    *)
switch_port_handle_disconnect ==
  /\ at.step = "disconnect"
  /\ \/ /\ Mine.up
        /\ Set([Mine EXCEPT !.disconnect = FALSE])
        /\ told' = [told EXCEPT ![Cur] = FALSE]
        /\ Calm
     \/ /\ ~Mine.up /\ Mine.disconnect
        /\ Calm /\ UNCHANGED <<port, told>>
     \/ /\ ~Mine.up /\ ~Mine.disconnect
        /\ \/ /\ Set([Mine EXCEPT !.disconnect = TRUE])
              /\ told' = [told EXCEPT ![Cur] = TRUE]
              /\ Calm
           \/ Upset /\ UNCHANGED <<port, told>>
  /\ NextPort(at.i + 1, Len(list))
  /\ UNCHANGED <<net, list, fds, since, neighbor>>

(* A vanished port is disconnected and, if the request is accepted,        *)
(* deleted (switch_port_delete); otherwise it stays for the next pass.     *)
Delete(w) ==
  /\ Become(w)
  /\ list' = RemoveAt(list, at.i)
  /\ Set(NewEntry)
  /\ NextPort(at.i, Len(list) - 1)

port_vanished ==
  /\ at.step = "port" /\ ~Mine.fresh
  /\ \/ /\ told' = [told EXCEPT ![Cur] = TRUE]
        /\ CASE ~Mine.valid -> Delete(World)
             [] Mine.valid /\ Cur \notin Bond ->
                  Delete(Put([World EXCEPT !.l =
                           RemoveServerIp(@, g_port_fd[Mine.index].fd, Cur.ip)],
                         Mine.index, Mine.name_index))
             [] OTHER -> /\ Become(Put(World, Mine.index, Mine.name_index))
                         /\ GoTo("free", 1)
                         /\ UNCHANGED <<list, port>>
        /\ Calm
     \/ /\ Upset
        /\ NextPort(at.i + 1, Len(list))
        /\ UNCHANGED <<fds, list, port, told>>
  /\ UNCHANGED <<net, since, neighbor>>

(* switch_free_bonding_fd frees the slot a slave names, whether the slave  *)
(* has a socket or still names the first slot.                             *)
free_slave ==
  /\ at.step = "free"
  /\ IF at.j <= Len(Mine.slave)
     THEN /\ Become(FreeSlave(World, Cur, Mine.slave[at.j].index))
          /\ GoTo("free", at.j + 1)
          /\ UNCHANGED <<list, port>>
     ELSE Delete(World)
  /\ UNCHANGED <<net, since, neighbor, told, upsets>>
-----------------------------------------------------------------------------
(* The interfaces change.  A pass reads them once, at its start, so a      *)
(* change during the pass is the same as one right after it.               *)
Change(p, n) ==
  /\ at = Idle
  /\ net[p] # n
  /\ net' = [net EXCEPT ![p] = n]
  /\ UNCHANGED <<list, port, fds, since, at, neighbor, told, upsets>>

(* A VLAN interface is given another id by making it again.                *)
appear(p) ==
  /\ ~net[p].here
  /\ \E v \in Vlan : Change(p, [net[p] EXCEPT !.here = TRUE, !.up = TRUE, !.vlan = v])
vanish(p) == net[p].here  /\ Change(p, [net[p] EXCEPT !.here = FALSE, !.up = FALSE])
link(p)   == net[p].here  /\ Change(p, [net[p] EXCEPT !.up = ~@])
enslave(p) == p \in Bond /\ \E s \in SUBSET SlaveIf : Change(p, [net[p] EXCEPT !.slaves = s])

Down(n, least) == IF n > least THEN n - 1 ELSE n

(* A second passes (between two passes of the main thread).                *)
Tick ==
  /\ at = Idle
  /\ g_port_fd' = [s \in FdSlot |-> [g_port_fd[s] EXCEPT !.old_time = Down(@, -1)]]
  /\ port' = [p \in Port |-> [port[p] EXCEPT !.expires = Down(@, 0)]]
  /\ neighbor' = [k \in DOMAIN neighbor |->
                    [owner |-> IF neighbor[k].ttl > 1 THEN neighbor[k].owner ELSE <<>>,
                     ttl |-> Down(neighbor[k].ttl, 0)]]
  /\ UNCHANGED <<net, list, listener, sock, since, at, told, upsets>>

Main ==
  \/ snsd_cfg_net_info \/ verify_slave_null
  \/ port_skip \/ port_valid \/ switch_get_phy_fd
  \/ switch_get_bonding_phy_fd \/ port_bonding_change
  \/ slave_gone \/ slave_kept \/ slave_new \/ slaves_done
  \/ switch_port_handle_disconnect \/ port_vanished \/ free_slave

Environment ==
  \/ \E p \in Port : appear(p) \/ vanish(p) \/ link(p) \/ enslave(p)
  \/ Tick

SNext == Main \/ cfg_net_info_fails \/ Environment
SSpec == SInit /\ [][SNext]_svars

(* The main thread runs on, and time passes.                               *)
FairSSpec == SSpec /\ WF_svars(Main) /\ SF_svars(Tick)
-----------------------------------------------------------------------------
Slave == [ifindex : IfSet, index : FdSlot, fd_valid : BOOLEAN, deleted : BOOLEAN]

(* Types of all state: relative times stay in range, slots and cursors     *)
(* within their tables.                                                    *)
STypeOK ==
  /\ net \in [Port -> [here : BOOLEAN, up : BOOLEAN, vlan : Vlan, slaves : SUBSET SlaveIf]]
  /\ Listed \subseteq Port /\ IsInjective(list)
  /\ \A p \in Port :
       /\ port[p].index \in FdSlot /\ port[p].name_index \in 0 .. MAX_NAME_INDEX
       /\ port[p].expires \in 0 .. Age /\ port[p].vlan \in Vlan \cup {0}
       /\ \A i \in DOMAIN port[p].slave : port[p].slave[i] \in Slave
  /\ g_port_fd \in [FdSlot -> [ifindex : IfSet \cup {NoIf}, refs : Int, fd : Fd \cup {NoFd},
                               index_map : SUBSET (1 .. MAX_NAME_INDEX), old_time : -1 .. Age]]
  /\ listener \in [ListenerSlot -> [fd : Fd \cup {NoFd}, ifindex : IfSet \cup {NoIf},
                                    host_ip : SUBSET Ip]]
  /\ sock \in [Fd -> IfSet \cup {NoIf}]
  /\ since \in 1 .. SWITCH_POLL_INTEVAL
  /\ at.i \in 0 .. Len(list)
  /\ upsets \in 0 .. MaxUpset

(* The ports that hold their sockets: not the one being deleted.           *)
Serving == {p \in Listed : port[p].valid /\ ~(at.step = "free" /\ p = Cur)}

(* Notifications for ip that arrive on interface ifindex are received by   *)
(* the socket of slot s and accepted.                                      *)
Heard(s, ifindex, ip) ==
  LET f == g_port_fd[s].fd
      l == listener[SlotOf(listener, f)]
  IN  /\ f # NoFd /\ sock[f] = ifindex
      /\ SlotOf(listener, f) # 0 /\ l.ifindex = ifindex /\ ip \in l.host_ip

(* switch_port_exist_handle: "if can not get fd wait next retry".  A port  *)
(* that is valid, so that no retry is due, can be heard on its interface   *)
(* (on the slaves that have a socket), whatever the ports it shares the    *)
(* socket with and the failures on the way did.                            *)
HeardOrRetried ==
  \A p \in Serving :
    IF p \in Bond
    THEN \A i \in DOMAIN port[p].slave :
           port[p].slave[i].fd_valid
             => Heard(port[p].slave[i].index, port[p].slave[i].ifindex, p.ip)
    ELSE Heard(port[p].index, p.phy, p.ip)

(* An open socket's listener accepts the addresses of the ports that use   *)
(* it and no other: an address leaves with its port.                       *)
HostIpExact ==
  \A s \in FdSlot : \A i \in ListenerSlot :
    g_port_fd[s].fd # NoFd /\ SlotOf(listener, g_port_fd[s].fd) = i
      => listener[i].host_ip = {p.ip : p \in {q \in Serving : port[q].index = s}}

(* refs counts the ports of a slot, and sockets are open exactly while it  *)
(* is positive: none is closed under a port, none stays open unused.       *)
RefsExact ==
  /\ \A s \in FdSlot :
       /\ g_port_fd[s].refs = Cardinality({p \in Serving : port[p].index = s})
       /\ g_port_fd[s].fd # NoFd <=> g_port_fd[s].refs > 0
  /\ \A f \in Fd : sock[f] # NoIf => \E s \in FdSlot : g_port_fd[s].fd = f

(* Ports on one physical interface announce different LLDP port ids.       *)
NameIndexUnique ==
  \A p, q \in Serving :
    p # q /\ p.phy = q.phy => port[p].name_index # port[q].name_index

(* While the fabric switch remembers a port id for one address and VLAN,   *)
(* no other is announced under it, as long as no interface changes its     *)
(* VLAN id: a port id that an address, or an interface, has left is used   *)
(* again only when calc_expires_for_new and switch_get_fd_info have        *)
(* waited for the old announcement to age.                                 *)
AnnouncedAfterAging ==
  [][\A k \in DOMAIN neighbor :
       neighbor[k].owner # <<>> => neighbor'[k].owner \in {neighbor[k].owner, <<>>}]_svars

(* A bonding port in service whose slaves did not change since has a       *)
(* socket on every slave and on no other interface: what one failed pass   *)
(* of switch_get_bonding_fd left over, a later one completes.              *)
BondComplete ==
  \A p \in Serving \cap Bond :
    ~port[p].bonding_change
      => \A i \in DOMAIN port[p].slave : port[p].slave[i].fd_valid /\ ~port[p].slave[i].deleted

(* A port that loses its link, or its interface, gets its batch disconnect *)
(* however often the request is refused, unless the link comes back.       *)
LostLinkDisconnected ==
  \A p \in Port : (p \in Listed /\ ~net[p].up /\ ~told[p]) ~> (told[p] \/ net[p].up)

Interfaces == {q.phy : q \in {p \in Port : net[p].here}}

(* A port that stays gets its sockets in the end, unless there come to be  *)
(* more interfaces than slots: switch_get_fd_info reuses the slot of an    *)
(* interface that is gone, although only when its announcement has aged.   *)
PortServed ==
  \A p \in Port :
    (net[p].here /\ Cardinality(Interfaces) <= MAX_PHY_PORT)
      ~> (port[p].valid \/ ~net[p].here \/ Cardinality(Interfaces) > MAX_PHY_PORT)

(* snsd_protocol_handle: a listed port that fails the check, as a bonding  *)
(* device without slaves does, is left to "delete port_info later".        *)
BondWithoutSlavesKept == at # Crashed
=============================================================================
