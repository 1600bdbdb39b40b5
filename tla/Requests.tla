------------------------------ MODULE Requests ------------------------------
(***************************************************************************)
(* What the task engine promises its callers.  A request is queued to      *)
(* connect or disconnect one device or, as a batch, to disconnect all      *)
(* devices of a host.  A request that is not run goes away only because of *)
(* a newer one, the contrary or a repetition, that is itself still to be   *)
(* carried out; a connect is tried again until it succeeds, and then its   *)
(* device is watched and connected again when it is lost, unless a newer   *)
(* request intervenes.                                                     *)
(*                                                                         *)
(* A request that is replaced while it is carried out is taken back: its   *)
(* result no longer counts.  Nothing here says when its handler stops, so  *)
(* that what is started finds no contrary request that still counts.       *)
(*                                                                         *)
(* Nothing here is about lists, workers, the lock, times or tasks that     *)
(* were freed late.  An urgent request has a thread of its own, which only *)
(* looks at connects, and which drops the request if it is not due.        *)
(***************************************************************************)
EXTENDS Naturals

CONSTANTS
  Device,  \* keys of connects and disconnects, with a host each
  Batch,   \* keys of batches
  Urgent   \* queues of urgent disconnects

Queue   == {"CONNECT", "DISCONN", "DCBATCH"} \cup Urgent
Request == [queue : Queue, key : Device \cup Batch, sn : Nat]

VARIABLES
  waiting,  \* requests that are not started
  running,  \* requests being carried out whose result counts
  watched   \* devices that are connected and looked after

rvars == <<waiting, running, watched>>

Init == waiting = {} /\ running = {} /\ watched = {}

(* Requests that r takes into account: contrary ones and repetitions.      *)
Concerns(r, q) ==
  /\ r.queue = "CONNECT" => q.queue \in {"CONNECT", "DISCONN", "DCBATCH"}
  /\ r.queue # "CONNECT" => q.queue = "CONNECT"
  /\ IF "DCBATCH" \in {r.queue, q.queue} THEN r.key.host = q.key.host ELSE r.key = q.key

Older(r) == {q \in waiting \cup running : Concerns(r, q) /\ q.sn < r.sn}
Newer(r) == {q \in waiting \cup running : Concerns(r, q) /\ q.sn > r.sn}

(* What r replaces is taken back, the watch of its device too; a batch     *)
(* leaves the watches to the disconnects it makes.                         *)
Unwatch(r) ==
  watched' = IF r.queue = "DCBATCH" THEN watched ELSE watched \ {r.key}

(* Equal disconnects are one request, whichever of them runs first.  All   *)
(* other requests are made once.                                           *)
Submit(r) ==
  /\ r \in Request
  /\ r.queue = "DISCONN" \/ r \notin waiting \cup running
  /\ waiting' = waiting \cup {r}
  /\ UNCHANGED <<running, watched>>

(* r waits until what it replaces has ended, or until it is due.           *)
Wait(r) ==
  /\ waiting' = waiting \ Older(r)
  /\ running' = running \ Older(r)
  /\ Unwatch(r)

Discard(r) ==
  /\ Newer(r) # {}
  /\ waiting' = waiting \ (Older(r) \cup {r})
  /\ UNCHANGED running
  /\ Unwatch(r)

Start(r) ==
  /\ Newer(r) = {} /\ Older(r) \cap running = {}
  /\ r.queue \notin Urgent => \A q \in running : ~Concerns(r, q)
  /\ \/ waiting' = waiting \ (Older(r) \cup {r})
     \/ r.queue = "DISCONN" /\ waiting' = waiting \ Older(r)
  /\ running' = running \cup {r}
  /\ Unwatch(r)

(* An urgent request that is not due.                                      *)
Drop(r) ==
  /\ r.queue \in Urgent
  /\ waiting' = waiting \ {r}
  /\ UNCHANGED <<running, watched>>

(* A connect ends with a device to watch, or is tried again.               *)
Finish(r) ==
  /\ running' = running \ {r}
  /\ \/ r.queue # "CONNECT" /\ UNCHANGED <<waiting, watched>>
     \/ r.queue = "CONNECT" /\ waiting' = waiting \cup {r} /\ UNCHANGED watched
     \/ /\ r.queue = "CONNECT" /\ r.key \notin watched
        /\ watched' = watched \cup {r.key} /\ UNCHANGED waiting

(* A device that is watched is lost: a connect like any other is queued.   *)
Revive(r) ==
  /\ r \in Request \ (waiting \cup running)
  /\ r.queue = "CONNECT" /\ r.key \in watched
  /\ waiting' = waiting \cup {r} /\ watched' = watched \ {r.key}
  /\ UNCHANGED running

Next ==
  \/ \E r \in waiting' : Submit(r) \/ Revive(r)
  \/ \E r \in waiting : Wait(r) \/ Discard(r) \/ Start(r) \/ Drop(r)
  \/ \E r \in running : Finish(r)

Spec == Init /\ [][Next]_rvars
=============================================================================
