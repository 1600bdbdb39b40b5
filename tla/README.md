# A TLA+ verification of nvme-snsd

nvme-snsd is a Linux daemon that connects a host to NVMe over Fabrics storage
without manual work: it announces the host's ports to the fabric switch by LLDP,
receives notifications of storage ports that come and go, creates NVMe
controllers for them, and probes controllers at once when a path is lost. This
directory models it, checks it with TLC and proves part of it with TLAPS.

1. [The system](#1-the-system)
2. [Modules and code](#2-modules-and-code)
3. [Runs and bounds](#3-runs-and-bounds)
4. [Where code and text disagree](#4-where-code-and-text-disagree)
5. [Fairness](#5-fairness)
6. [Proofs](#6-proofs)
7. [What is not modelled](#7-what-is-not-modelled)
8. [Plan](#8-plan)

`PROJECT.json` lists, for tools, the runs, the lines behind every definition, the
hazards and the theorems. Source paths below are relative to `src/src/`; the README quoted is `src/README.md`.

## 1. The system

| Component | State it keeps | Operations |
|---|---|---|
| Task engine (`snsd_conn_peon.c`) | four *peons* CONNECT, DISCONN, DCBATCH, RECHECK, each with a wait list, a process list and workers; dynamic disconnect peons; a serial number | add a task (three kinds), inherit a disconnect from a batch, get the next task (filters outdated ones), complete (retry, recheck, free), recheck |
| Handlers (`snsd_conn_nvme.c`, `snsd_nvme.c`) | a context per task (NQN, device name) | connect, disconnect (keep alive, removal), batch disconnect, recheck |
| Connect interface (`snsd_connect.c`) | none | snsd_connect, snsd_disconnect, snsd_disconnect_by_host_traddr |
| Switched ports (`snsd_switch.c`) | g_port_fd: sockets shared by reference count; LLDP times per port | per poll: give ports their sockets, announce them, disconnect lost ones |
| Port management (`snsd_mgt.c`) | the list of ports with flags, VLAN and bonding slaves | read all interfaces, open and close sockets |
| LLDP (`snsd_reg.c`) | none | send an announcement |
| Notification server (`snsd_server.c`) | listener table, 1000 message buffers, rate samples | receive and acknowledge, dispatch, detect floods |
| Direct ports (`snsd_direct.c`) | per port: asked to connect, asked to disconnect, or neither yet | per poll: connect or disconnect the target of the port's line |
| Configuration (`snsd_cfg.c`) | the lines of both networks, the BASE options, the host's NQN | read section by section, check, look up a port's line, look up a controller's options |
| Main, log, lists | | poll loop, output, containers |

**Threads.** The main thread polls every 100 ms (interfaces, switched ports, direct
ports). One server thread receives frames, another dispatches notifications and
samples rates. Every worker of a peon is a thread, and so is the recheck.

**Interaction.** The main thread and the dispatching thread call the connect
interface, which queues tasks in the engine; workers run the handlers, which
change the controllers of the kernel. The main thread changes the listener table,
which the receiving thread reads without the mutex. All lists of the engine share
one mutex, buffers share another; the serial number has a third.

**What is hard.** A request is numbered before it is queued, so requests can be
queued in the opposite order. A task is filtered by comparing numbers over several
lists, at the moment a worker looks at it, while others run. Every handler is a
sequence of system calls during which the world moves on. Dynamic threads are
created, used once and freed under the same lock. A port's set-up is six steps each
of which may fail. Old LLDP announcements stay valid for a while. Notifications are
repeated until acknowledged, buffers run out and floods are discarded. `hazards` in
`PROJECT.json` lists these places with their lines.

**What makes it correct.** *Engine*: the newest request for a device takes effect;
contradictory tasks do not run alive together; counters are exact, because they
decide whether threads are made; the lock is released. *Handlers*: one controller
per address; a wanted device ends up connected. *Ports*: a port that counts as
served is heard on its socket; references are exact; an LLDP id is not reused too
early; a lost link is reported. *Server*: no notification and no buffer is lost;
each notification is dispatched in the end, for the right host only. *Direct ports*:
what the program believes of a port is what it has queued; a link that stays up ends
connected and one that stays down disconnected. *Configuration*: exactly the good files
are accepted; a line keeps its own options and nobody else's; a served port finds the
line that serves it again.

## 2. Modules and code

```
Peon            the engine, handlers opaque
  Connect       EXTENDS Peon: handlers and kernel  (implements Peon's Spec)
    Direct      EXTENDS Connect: direct ports, from the link to the controller
Listener        the listener table, operators only
  Switch        EXTENDS Listener: the main thread and the interfaces
  Server        EXTENDS Listener: both server threads, main thread's socket changes
Delivery        what the server promises           (implemented by Server)
Requests        what the engine promises           (implemented by Peon)
Cfg             the configuration, from the file to the options of a controller
MCPeon, MCConnect, MCDirect, MCSwitch, MCServer, MCCfg   values for TLC

ListFacts       lemmas about lists (members, positions, removal) and least numbers
  PeonProofs    theorems about Peon
    PromiseProofs     that contrary tasks do not run together, and that Peon implements Requests
      ConnectProofs   theorems about Connect, and that it implements Peon and so Requests
        DirectProofs  theorems about Direct, and that it implements Peon and so Requests
  ServerProofs  theorems about Server, and that it implements Delivery
  SwitchProofs  theorems about Switch
  CfgProofs     theorems about Cfg
```

**Peon.** `wait` and `proc` are the lists of every peon, `worker_all_count` the one
counter the code reads, `dyn` and `peon_dyn_worker_num` the dynamic peons, `lock` the
holder of `peon_list_lock` and the position of its loop. The two loops that run under
the lock take one action per iteration (`scan_dead`, `scan_live`, `scan_end`,
`recheck_*`), so that their termination is a property; the short critical sections are
one action each. `peon_sn_generate` and `peon_task_add` are separate, as in
`peon_add_task_inner`. `Compare`, `task_match`, `Outdated` and `Newer` are
`peon_task_action_judge` with its helpers. Time is relative: a task's `age` is capped at
the longest restrain time, `backoff` is what is left of a retry delay. `latest`, `served`
and `lost` are history. A handler is opaque: it may change its task's context and return
any result its kind can return. A batch may add a disconnect for a device several times: it
meets every controller of its host, and two of them may have one address.

**Connect** replaces the opaque handler by the real ones. The field `at` of a context is
the handler's program counter; each system call is an action. The controllers (`ctrl`)
are the kernel's: name to address and state. The kernel gives out the lowest free name, loses
paths, reconnects and gives up. Every system call may fail: a search with an unknown result,
a creation whose answer cannot be read (the controller is there, the task fails), a removal that
is only logged. The temporary controller of a discovery takes no name
in the model. `PeonSpec` says that Connect implements Peon with the identity mapping.

**Direct** composes the main thread's half poll for direct ports with Connect: the poll
(`cfg_net_info`) reads every link once, then each port may have a request
(`direct_connect_handle`), whose number is drawn and whose task is queued (`Queued`) or
refused (`Refused`) by the engine's own actions of the caller "main". While the main thread
is between two of these, links change, workers run and controllers come and go. The only
requests of the main thread are those the ports call for; the dispatching thread
(caller "server") makes no requests for hosts of direct ports. `told` is history.

**Cfg** follows `snsd_cfg_init`: `stage` is the section being read (BASE, SW, DC) or what
comes after, `step` and `rest` the position in it, `cfg` the one global record into which
every line is parsed. The file is a sequence of physical lines (a comment or not, a name in
brackets or none, items), so that the reader's idea of a section, which looks only for
brackets, and the documented one can differ. An NQN is a sequence of characters, because
the code copies it without its end (`Overlay`). `Serves`, `PortInfo` and `Served` are the
match of a port with the lines in `snsd_mgt.c`; `Lookup` and `Option` are the second match,
in `snsd_conn_nvme.c`, when a controller is created. `Heading`, `Written`, `Reading`, `Together` and
`WellFormed` are the reference, written from the documentation rather than from loops and tables:
`WellFormed` takes the options, the mandatory ones and their values from `snsd.conf` and
`src/README.md`; `Disputed` lists the items of which the code's tables say the contrary
(section 4), and `AcceptedIffWellFormed` is about the files without one.
`NonEmpty` is a recursive function in place of a library operator, so that it can be proved
about.

**Delivery** is the abstract specification of the server: notifications are raised, taken
over, acknowledged and handled. `KeepsPromise` says that Server implements it, with the
buffers as the queue and notifications of other hosts as those that need no handling;
`KeepsSafety` is the part of it without fairness.

**Requests** is the abstract specification of the engine: sets of requests that wait and that
are carried out, and of devices that are watched, without lists, workers, lock or times. A
request that is not run goes away only for a newer contrary one or repetition that still counts;
the one exception are urgent requests (those of dynamic peons), which are dropped when they are
not due, as `peon_dynamic_disconn_thread` frees a task that it did not get (section 4,
`peon_restrained`). `EnginePromise`, in Peon, says that Peon implements it: the requests are the
live tasks of the lists (`AsRequests`), the watched devices those of the recheck list. A task
that is killed while its handler runs is a request taken back: its handler goes on, as in the
code, but what it reports no longer counts.

**Listener** holds the table operations that Switch and Server share.

**Switch** runs one pass of the main thread as one action for reading all
interfaces (`snsd_cfg_net_info`) and then, port by port in list order, one action per
step; `at` is the position. `World`, `Claim`, `Put`, `Opened` and `FdData` compose the
changes of slot, socket and listener entry that one call makes. `neighbor` is what the
fabric switch remembers of announcements; `lldp_send_bonding` announces slave by slave,
stops at the first that fails and passes over one whose link is down. Interfaces change between passes: a pass reads
them once, so later changes are seen by the next. A pass that fails half-way leaves the
interface it failed at listed and read in part (`PartlyRead`): without its flags, with some of
its new slaves, without the slaves' names (`names`), or without its ifindex.

**Server** has one variable per thread that is between two steps (`main`, `rcv`,
`dispatching`). A frame is a sequence of notifications; the fabric switch (external)
repeats what it has not seen acknowledged, at most once per rate sample, and a flood frame
carries nothing valid. A socket gets its entry in the listener table in steps, as only the
descriptor is written under the mutex: `snsd_lookup_listener_id`, then the interface and epoll
(`snsd_add_server`), then the address. An acknowledgement has room for `MaxAck` notifications; one
more is left out and comes again (`OnAck`). epoll reports one socket at a time: a batch of events is the same
as several waits. A notification is a record of what the code looks at: its TLV kinds, its
role, its destination, its state.

Each operator whose comment begins with "Fault" is a deliberately wrong variant of the
definition after it. It is used nowhere; replacing the definition by it makes
a property fail, which shows that the property depends on that code.

## 3. Runs and bounds

| Run | Properties | Question |
|---|---|---|
| `peon_device` | TypeOK, CountExact, NewestNotLost, LiveRunExclusive, DynWorkersBounded, LockReleased | one device and its host, three requests, restrain time, retry, recheck, one static and one dynamic disconnect thread |
| `connect_refines` | PeonSpec, EnginePromise, NoDuplicateController | do the handlers, forced removals and batches included, use the engine only as Peon lets them? are requests then treated as Requests says, a restrained one of a dynamic peon included? can search and creation interleave to two controllers? (dynamic thread creation may fail) |
| `direct_live` | LinkUpConnects, LinkDownDisconnects, ConnectConverges, ConnectedIsRequested, NoDuplicateController, DTypeOK | from the link to the controller: with a link that changes twice, a refused request or a failing system call, does the controller end as the link does, and does a wanted device get back a controller it lost? |
| `switch_ports` | STypeOK, HeardOrRetried, HostIpExact, RefsExact, NameIndexUnique, AnnouncedAfterAging | two addresses on one interface, a failure anywhere but in epoll_ctl (section 4) |
| `switch_live` | LostLinkDisconnected, PortServed, HeardOrRetried, RefsExact | two interfaces, one slot, a failure anywhere but in epoll_ctl: is a lost link reported and a present port served in the end? |
| `switch_bond` | BondComplete | two slaves that come and go, a socket that fails |
| `server_pool` | TypeOK, BuffersConserved, NothingLost, KeepsSafety | three notifications, one buffer, a lost acknowledgement, refused request or closed socket |
| `server_live` | NotificationHandled, KeepsPromise | does the server implement Delivery? a full pool, an incomplete notification and a discarding listener only delay |
| `cfg_load` | AcceptedIffWellFormed, LinesExact, OwnOptions, TypeOK | all files with at most one BASE and two SW and DC lines out of a set of good, incomplete, conflicting and unsupported ones, and files whose sections are shuffled, missing or doubled, with a failing read or allocation; files with a disputed item are read too, but only types, LinesExact and OwnOptions speak of them |

The runs take between ten seconds and four minutes each with two workers; the failures of
`switch_ports`, `switch_live` and `switch_bond` are all but that of epoll_ctl. Three more
runs are expected to fail (section 4).

**Bounds.** *Requests*: `MaxSn` 2 or 3. Two requests in either order, one of which
revives or is inherited, already give every pair of comparisons; three give every chain in
which one task kills another that would have killed a third. *Workers*: one per peon,
and a dynamic limit of 0, which with the code's `<=` allows one dynamic thread: the
saturated case is reached with the second disconnect. *Times*: restrain and retry 1; the
code only tests whether they have passed. LLDP times are 1 or 2. *Switch*: two ports that
share an interface, compete for a slot, or are one bonding port with two slaves.
*Direct*: one port, two changes of its link and four
requests: up, down and up again with a recheck in between. *Batches*: `MaxInherit`, the disconnects
(and dynamic threads) there may be when a batch adds one, is 2 in `peon_device`, where they are
one device's equals, and 6 with the handlers, where the controllers bound them already.
`MCPeon_twins.cfg`, to be run by hand, passes the same properties, without
LockReleased and with EnginePromise, for three of them. *Cfg*: two lines per network
show every pair that can be in conflict, in both orders; an option that survives a line
needs two; three are not a new case for loops that compare pairs. *Server*: one buffer for two acceptable notifications, and room for one in an acknowledgement; a flood threshold of 2; one recovery
cycle. *Failures* (`MaxUpset`): one, at any point; the failing step may follow any other.
Every bound is a CONSTANT and appears only in guards of the environment's actions, of
the recheck and of the batch.

Symmetry (targets, descriptors) is used for safety only. Deadlock
checking is off in the engine's runs, where the bounded requests run out, in those of the
bonding port that can crash (section 4), and in those of the configuration, which is read
once.

**Abstractions that matter for these results.** The recheck's guard keeps enough
numbers for a whole pass; a real serial number is an unsigned long. `ConnectConverges`
therefore excludes the end of the numbers. A VLAN interface gets another id by being made again,
possibly between two polls.

## 4. Where code and text disagree

Each of these configurations ends in a counterexample to something a comment, a message
or the README of the repository says. The first three are runs of the project, and
`findings` in `PROJECT.json` quotes the text.

| Run, property | What happens |
|---|---|
| `peon_restrained`, NoDisconnectLost | A dynamic disconnect thread looks at its task once. With a restrain time the task is not due, and is freed instead of delayed (README.md:53). |
| `connect_killed`, NoConnectAfterDisconnect | Scans pass over dead tasks (`snsd_conn_peon.c:281`). A disconnect therefore waits for a running connect only once: its first scan marks the connect dead, the next one starts the disconnect, which finds no controller. The dead connect's handler goes on and creates one, although the disconnect is to "filter the outdated disconnect or connect task" (`snsd_conn_peon.c:334`). |
| `server_stale`, DispatchedWhereServed | The listener entry is given to another interface while a frame is decoded; the address check reads the wrong addresses (`snsd_server.c:1011`). |

The others are configurations kept beside them, each with one property, to be run by
hand (`tlc -config X.cfg M`):

| Configuration, property | What happens |
|---|---|
| `MCPeon_filtered`, BatchNotFiltered | A connect of one device marks the host's whole batch disconnect dead, for the other devices too; `snsd_conn_peon.c:311` speaks of the same device. |
| `MCPeon_revived`, DisconnectNotOvertaken | The recheck revives a connect with a number newer than that of a pending disconnect (`snsd_conn_peon.c:233`), which then counts as the outdated one of `snsd_conn_peon.c:334`. |
| `MCPeon_nothread`, LockReleased | When the dynamic thread cannot be created, the clean-up takes the lock its caller holds, where `snsd_conn_peon.c:168` promises to "use static peon". |
| `MCConnect_names`, RecheckWatchesDevice | A device name is reused by the kernel; the recheck then watches another device than the one `snsd_conn_peon.c:434` means. |
| `MCConnect_portid`, DisconnectFiltersRecheck | An inherited disconnect has port 4420, the recheck task 0 as `snsd_connect.h:92` asks: no match. |
| `MCSwitch_firstslot`, HeardOrRetried | Deleting a bonding port releases slot 0 for each slave without a socket, and so another port's socket; `snsd_switch.c:396` promises a retry that does not come. |
| `MCSwitch_vlan`, AnnouncedAfterAging | The VLAN change flag lasts one poll, but is read only when an LLDP check is due; `snsd_switch.c:379` describes the intended wait. |
| `MCSwitch_epoll`, HeardOrRetried | After a failed epoll_ctl the listener entry of a closed socket remains; the descriptor number comes back, and no retry (`snsd_switch.c:396`) is due. |
| `MCSwitch_noslaves`, BondWithoutSlavesKept | An empty slaves file gives a null string to strcmp, before the "delete port_info later" of `snsd_mgt.c:946`. |
| `MCServer_recovery`, RecoversAfterQuiet | A second flood does not restart the recovery period of `snsd_server.h:85`. |
| `MCServer_reuse`, DiscardsOnlyAttacked | A listener entry keeps its drop flag for the next interface (`snsd_server.c:1153`). |
| `MCServer_wide`, OnlyValidRequested | A 32-bit state of 256 is taken for 0, not for the "invalid msg" of `snsd_server.c:1309`. |
| `MCDirect_vanished`, VanishedDisconnected | The disconnect of an interface that is gone is refused; the port is deleted all the same (`snsd_direct.c:94`) and its controller stays. |
| `MCCfg_comment`, LinesExact | A bracket in a comment ends the section; the lines after it are dropped, although a comment is to be ignored. |
| `MCCfg_hostnqn`, OwnOptions | A second, shorter hostnqn in BASE keeps the tail of the first (`snsd_cfg.c:202`). |
| `MCCfg_digest`, WellFormedIsAccepted | A line with `--hdr_digest`, documented as supported (`src/README.md:85`), is refused (`snsd_cfg.c:117`). |
| `MCCfg_swtraddr`, AcceptedIsWellFormed | An SW line with `--traddr`, "not supported by the SW field" (`src/README.md:71`), is accepted, for SW and DC share one table (`snsd_cfg.c:72`). |
| `MCCfg_trsvcid`, TargetPort | The port number of a DC line, "the port number of the TGT", is not used for the connection. |
| `MCCfg_any`, OneNetwork | With "any" in SW an address of a DC line is served in both networks, against "one host ip only vest in one network(sw/dc)" (`snsd_cfg.c:998`). |

The table has the two sides of `Disputed` with one item each. The theorem `ItemsAgree` shows
that the list of disputed items is complete: documented and refused are digests (`src/README.md:66`
and 85), `--standard` in BASE (`src/README.md:68`) and the protocol in the documented spelling "RoCE",
"TCP" or "iSCSI"; accepted without being documented are a target in SW (`src/README.md:71`), IPv6
addresses, "any" as a target, and "any" as a host of DC. One more difference is a matter of
reading and has no run: a negative restrain time is accepted and becomes a very large one.

## 5. Fairness

*Peon* (`peon_device`): weak fairness of the thread that holds the lock, since a runnable
thread is scheduled. Nothing is assumed of threads that wait.

*Connect and Direct* (`direct_live`): the holder and handlers between system calls run on
(weak). A thread that wants the lock gets it in the end (strong): every other user
sleeps between its turns (workers wait on a queue with a timeout, the recheck sleeps), so
the lock is free for long periods. Workers and the recheck wake up periodically whether
signalled or not; in `direct_live` this is used of the static connect and disconnect workers only.
Time passes. The kernel does not leave a controller without a path for
ever: it reconnects or gives up at ctrl_loss_tmo. Failures are bounded. The main thread
polls on (weak) and gets the engine's lock for its request (strong, as above); it is not
assumed that a request is accepted, only that failures are bounded, nor that a link
stays as it is.

*Switch* (`switch_live`): the main thread runs on (weak; it never blocks for ever, as
its calls are ioctls and non-blocking sends) and time passes between passes (strong: each
pass is followed by a sleep of 100 ms).

*Server* (`server_live`): each thread continues what it began (weak); epoll
reports a ready socket in the end (strong, per descriptor: up to 256 events are fetched at a
time); the rate is sampled again and again (strong: it needs the message
mutex); the fabric switch repeats what is owed (strong, external assumption).

## 6. Proofs

All theorems hold for every value of the constants that the named assumptions of the
modules admit, among them every value of the bounds, `MaxSn`, `MaxInherit`, `MaxUpset` and `MaxAck`
included; a hypothesis beyond these is part of the theorem's statement.

| Theorem | States | Hypotheses |
|---|---|---|
| `TypeCorrect`, `CounterExact`, `NewestRequestKept`, `DynamicBounded` (PeonProofs) | TypeOK, CountExact, NewestNotLost, DynWorkersBounded of Peon | |
| `RunsExclusive` (PromiseProofs) | LiveRunExclusive of Peon | |
| `EngineKeepsPromise` (PromiseProofs) | Peon implements Requests (EnginePromise) | |
| `HandlersUseEngine`, `HandlersKeepPromise` (ConnectProofs) | Connect implements Peon (PeonSpec) and Requests (EnginePromise) | |
| `OneController` (ConnectProofs) | NoDuplicateController of Connect | one connect worker |
| `DirectTypeCorrect`, `PortsUseEngine`, `PortsKeepPromise` (DirectProofs) | DTypeOK; Direct implements Peon and Requests | |
| `OneControllerPerPort` (DirectProofs) | NoDuplicateController of Direct | one connect worker |
| `ConnectedWasRequested` (DirectProofs) | ConnectedIsRequested of Direct | networks apart |
| `ServerTypeCorrect`, `BuffersAreConserved`, `NoNotificationLost` (ServerProofs) | TypeOK, BuffersConserved, NothingLost of Server | |
| `ServerImplementsDelivery` (ServerProofs) | Server implements Delivery without fairness (KeepsSafety) | |
| `SwitchTypeCorrect`, `BondsComplete` (SwitchProofs) | STypeOK and BondComplete of Switch | |
| `ReferencesExact`, `AddressesExact`, `NamesUnique`, `ValidIsHeard` (SwitchProofs) | RefsExact, HostIpExact, NameIndexUnique, HeardOrRetried of Switch | no bonding, epoll, addresses apart |
| `AnnouncementsAge` (SwitchProofs) | AnnouncedAfterAging of Switch | these, one VLAN id, one interface per name |
| `ReadInvariant`, `TypeInvariant` (CfgProofs) | the invariant of the reader's loops; TypeOK of Cfg | |
| `ItemsAgree` (CfgProofs) | code and documentation disagree about exactly the items of `Disputed` | |
| `Acceptance` (CfgProofs) | AcceptedIffWellFormed of Cfg (files without disputed items) | comments plain |
| `Exactness` (CfgProofs) | LinesExact of Cfg | comments plain |
| `Precedence` (CfgProofs) | OwnOptions of Cfg | comments plain, hostnqns grow |
| `NetworksApart` (CfgProofs) | OneNetwork of Cfg in every state without a line for any host | |

**Assumptions on constants.** *Peon* (`ConstantsAssumption`): there is memory for exactly one
dynamic peon more than the limit, as the code's test permits; special values (a free
lock, no target) differ from the rest. *Connect* (`ConnectAssumption`, `ContextAssumption`): names are
numbers, and the contexts of the engine's tasks are those of the handlers. *Direct*
(`DirectAssumption`): each direct port has one target. *Server*
(`ServerAssumption`): a notification names an interface and an address; the pool
has a buffer. *Listener* (`ListenerAssumption`): the table has an entry, and no
descriptor is the special value. *Switch* (`SwitchAssumption`): there are finitely many
ports, interface indexes and VLAN ids are not 0, the tables have an entry, and an LLDP
interval is no longer than the age of an announcement (30 s against 130 s in the code).
*Cfg* (`CfgAssumption`): a file is a list of lines and a line a list of items, of any length;
"any" is no address, no address is both IPv4 and IPv6, and the saved NQN is not empty. Nothing is
assumed of what the driver supports.

**Hypotheses of single theorems**, each with the code that provides it or the
configuration that shows the property false without it:

- *One connect worker*: `snsd_conn_peon.h` defines PEON_CONNECT_WORKER_NUM as 1. With two,
  TLC finds a connect that a newer one has replaced and that still runs: both search before
  either creates.
- *Networks apart* (no host is both switched and direct): `snsd_check_both` refuses such a
  configuration for addresses, which is the theorem `NetworksApart`. With "any" it does not
  (`MCCfg_any`).
- *Comments plain*: no comment holds a name in brackets, for the reader knows no comments when it
  looks for brackets (`MCCfg_comment`).
- *Hostnqns grow*: no hostnqn of BASE is shorter than one before it, as a shorter one keeps the
  end of the longer (`MCCfg_hostnqn`). One hostnqn, or none, is the usual case.
- *No bonding*: with it, slots are released that the port does not hold (`MCSwitch_firstslot`).
- *Epoll takes every socket*: otherwise an entry of a closed socket stays (`MCSwitch_epoll`).
- *Addresses apart*: two ports of one physical interface have different addresses. Equal
  ones would share one entry in the listener, which leaves with the first of them.
- *One VLAN id*: a change of the id is announced too early (`MCSwitch_vlan`). The theorem
  is about everything else that can reuse a port id: addresses that come and go,
  interfaces that compete for slots, sockets that fail.
- *One interface per name*: an interface name belongs to one physical interface.

### The arguments

**Engine.** `EngineInvariant` is `[]PeonInv`: the four properties and three strengthenings.
`KeysOK`: batch tasks are on DCBATCH, device tasks elsewhere, and a recheck task has number 0.
Without it a recheck task could count as newer than a connect and have it
discarded. `LockOK`: a dynamic peon that scans has not run yet, one that does not exist has an
empty list, and it has one running task exactly while its handler runs. Without it the
deletion of a dynamic peon could free the newest request unnoticed. `NewestBounds`: no task on
a list is newer than the newest request queued for its device (for a batch, for any device
of the host). This is the heart: what `scan_live` discards has something newer on a list
and what it kills is older than the scanned task, so neither is the newest request (lemmas
`DiscardedNotNewest`, `OutdatedNotNewest`).

**Exclusion.** A scan compares numbers with "less", so two tasks with one number would both
pass. `ExclusiveInv` therefore says that no two connects in the lists share a number
(`ConnectsDistinct`), that connects share none with disconnects, which do share one with
the batch they come from (`SnsApart`), that a request that has drawn its number and is not
queued yet shares it with nobody (`SnsDrawn`), and that running tasks which are compared are
one task (`RunsApart`).

**Peon implements Requests.** The lists are seen as sets of the keys and numbers of their live tasks
(`LiveIds`), for each way a list changes there is a lemma about this set (`MarkedLives`,
`AppendedLives` and the like), and one that lifts it to the requests (`RequestJoins`,
`RequestLeaves`). `PromiseInv` is needed besides the two invariants above: no live request but
a disconnect is in the lists twice (`NoTwins`), or one that leaves a list would still be there (equal
disconnects, which a batch makes for two controllers of one address, count as one request, and one
that leaves while its equal stays is a stutter); a dynamic
peon never has more than one task (`OneTask`), or its end would drop a second;
tasks that are not watched have a number other than 0 (`Numbered`), or a watched device could count as a
request; and a device that is being connected is not watched (`WatchedIdle`), or a completed connect
would be no new watch. `JudgeDecides` is the centre: what the loop of `peon_task_get`
concludes of a task after it walked over all lists is what `Older` and `Newer` of the request
say, and the tasks it kills on the way are `Older` (`JudgedRequests`). From it follow the cases discard, wait and start, the last with
`JudgedAlone`: no live contrary task is running. Every other action is a stutter or one abstract
step, with a lemma for each. That Connect and Direct implement Requests follows from their
implementing Peon.

**Connect implements Peon.** Every step of a handler is the engine's `handle`, an
`peon_add_disconn_task_inherit` or a `peon_task_complete`, or leaves the engine alone, under `ConnectInv`: tasks wait at the start of their handler
(`StartOK`), a peon runs no more tasks than it has workers (`WorkersOK`), a controller
belongs to a device (`CtrlOK`), and only connects fail (`FailOK`). So PeonInv, and with
it everything above, holds with the real handlers. `OneController` adds `CreateOK`: a
connect that is about to create found no controller with its address, which stays true because
nobody else creates meanwhile.

**Direct.** The engine's and the handlers' invariants carry over, as each step of
Direct is, for engine and controllers, one of theirs. `ConnectedIsRequested` becomes inductive with
`MainOK` (the main thread has a request under way exactly while it handles a port, and for its
target), `LatestDrawn`, and `NewerIsConnect`: while a request is under way only a
revived connect can get a newer number. That is what makes a late
`peon_task_add` of an older disconnect harmless for the state of the port. `ServerOK` and
`NoBatch` say what the other callers ask for.

**Server.** `ServerInv` adds to the three properties where notifications may be
(`OnlyRaised`), that the main thread works on an open socket (`MainOK`), and `AcksTaken`: what the
receiving thread will acknowledge is buffered, handled or for another host, however
often the dispatching thread ran since it was posted. `AcksTaken` is also why each
step is one of Delivery or a stutter: acknowledging is the only step whose guard in
Delivery is not a guard in the code.

**Switch, types.** `SwitchType` is the whole state with its types. STypeOK alone is not
inductive, as it says nothing of the fields that decide where the cursor goes.

**Switch, sockets.** `ServeInv` speaks of the ports that hold a socket as a function `Uses`
from ports to slot and index. `SlotsOK`: count, index map and socket of a slot are those
of its users, all of them on its interface and with different indexes. `InterfacesApart`: no
two slots for one interface. `SocketsOK`: a slot's socket is bound to its interface, and no
other socket is open. `ListenOK`: a socket has one entry in the listener, with exactly the
addresses of the users; unused entries have no address, which a reused one would
inherit. The proof is one lemma for each way `switch_get_fd_data` can end (`RefusedServes`,
`JoinedServes`, `OpenedServes`), one for a port that leaves (`LeftWorld`) and one for the steps
that keep what the ports hold (`QuietStep`).

**Switch, announcements.** `AgeInv` says, for each port id that is remembered, that
the slot it was announced from still belongs to that interface, that with nobody in service
under the id the slot's old_time is not below the remaining time, and that a port in service
under it is the one that announced it or waits at least that long. A slot is taken
over only with old_time passed (`SlotKeptAge`), a port that leaves sets it to more than the
announcement lasts (`LeftAges`), and one that starts waits for what is left (`GetPhyFdAges`).

**Switch, bonding.** `BondInv`: a bonding port that is valid without a pending change has all
its sockets (`Whole`), and during a pass over the slaves those before the cursor have theirs
while the port is not valid or its change is still pending (`Passed`). The second part is what a
pass that fails half-way leaves behind, and why a later one takes it up.

**Configuration.** No induction over the file is needed, because the reader's own loops carry it.
`ReadInv` says how far they are: the sections behind are entered in the lists exactly
(`Entered`), of the one being read the first n lines are (`AtLine`), of line n + 1 the first k items are in `cfg`
or `base_cfg` and the others are still to be read (`AtItem`), and all that was read is acceptable (`LineOK`).
A step adds one item or one line, so each proof needs only what one more item does to the last values
of a line (`ReadingAppended`) or of several lines (`TogetherAppended`). An error is found at the
position of the first item or line that is not acceptable, hence `Readable` fails in a state `failed` and holds in a state `ready`;
`ConflictExact` is the same for the final comparison of all lines. `FoundIsWritten` then
relates what the reader finds between brackets to what the file says. One recursion remains, the
removal of empty lines: that it returns a list is shown by a smallest length at which it would
not (`NonEmptyIsList`), the function's existence included. `Precedence` adds `NqnInv`, that
snsd_hostnqn is the one of `base_cfg`, and `ServingLine`, that a connection of a served port finds a line of
that port or the one for any host.

**Only model-checked.** Liveness (LockReleased, LinkUpConnects, LinkDownDisconnects,
ConnectConverges, LostLinkDisconnected, PortServed, NotificationHandled, and the fairness
of KeepsPromise), which is outside the prover. References and addresses of Switch with
bonding, which do not hold in general (section 4).

## 7. What is not modelled

- **Characters of the configuration file**: blanks, the two ways to write an item, the limits
  of names and values. A file is lines of items; text that is no item is an item with an
  unknown option, which the code refuses.
- **Start order** (`main`): initialisation of one part after the other, each failure of
  which ends the program; Cfg has the exit of a configuration that was read.
- **Formats**: LLDP and notification frames, option strings, discovery log pages. A frame is
  what was decoded from it; discovery succeeds or fails. Which value an option of a controller
  gets is modelled (`Option` in Cfg), how it is written is not.
- **Zone query** (`snsd_query_zone_for_port`): sent once when a port gets its sockets with
  the link up, changes no state; its effect is that the fabric switch has notifications,
  which Server assumes of it.
- **Shutdown**: the poll loop's exit test is always false, so the daemon ends by
  being killed; destructors at exit are unreachable.
- **Logging**, lists and wait queues: output only; lists are sequences; a wait queue
  decides when a worker runs, not whether, as every wait has a timeout.
- **Other protocols**: only RoCE has a handler table.
- **IPv6**: the same control as IPv4; the repository's README excludes it.

## 8. Plan

Done: Peon, Connect, Listener, Switch, Server, Direct, Cfg, Delivery and Requests, in this order, which is
that of importance: the engine decides what happens to storage, the handlers carry it out, ports
and server feed it, the configuration says which. Proofs for all of them: every safety property
that a passing run checks is a theorem.

Next, in this order:

1. Switch with bonding: exact references with slaves as further users of slots, for
   ports whose slaves all have their sockets when they leave.
2. Composition of the dispatching thread with the engine: a notification, repeated or out of order,
   up to the controller, as Direct does it for the main thread.
