------------------------------ MODULE Delivery ------------------------------
(***************************************************************************)
(* What the notification server promises the fabric switch: a notification *)
(* that was raised is the sender's until it is acknowledged, and it is     *)
(* acknowledged only once it has been taken over (or needs no handling);   *)
(* what was taken over is handled in the order it was taken, and more than *)
(* Capacity of them are never held.  A notification may be taken over more *)
(* than once: delivery is at least once.                                   *)
(***************************************************************************)
EXTENDS Naturals, Sequences, SequencesExt

CONSTANTS
  Item,       \* notifications
  Ignorable,  \* those that are acknowledged without being handled
  Capacity    \* how many can be held

VARIABLES
  raised,     \* all notifications so far
  owed,       \* those the sender will send again
  held,       \* those taken over and not yet handled, in order
  handled

dvars == <<raised, owed, held, handled>>

Init == raised = {} /\ owed = {} /\ held = <<>> /\ handled = {}

Raise(n) ==
  /\ n \notin raised
  /\ raised' = raised \cup {n} /\ owed' = owed \cup {n}
  /\ UNCHANGED <<held, handled>>

Take(n) ==
  /\ n \in raised /\ Len(held) < Capacity
  /\ held' = Append(held, n)
  /\ UNCHANGED <<raised, owed, handled>>

Acknowledge(ns) ==
  /\ ns \subseteq owed /\ ns \subseteq ToSet(held) \cup handled \cup Ignorable
  /\ owed' = owed \ ns
  /\ UNCHANGED <<raised, held, handled>>

Handle ==
  /\ held # <<>>
  /\ held' = Tail(held) /\ handled' = handled \cup {Head(held)}
  /\ UNCHANGED <<raised, owed>>

Next ==
  \/ \E n \in Item : Raise(n) \/ Take(n)
  \/ \E ns \in SUBSET owed : Acknowledge(ns)
  \/ Handle

(* What never happens, and, with fairness, that what was taken over is     *)
(* handled in the end.                                                     *)
Safety == Init /\ [][Next]_dvars
Spec   == Safety /\ WF_dvars(Handle)
=============================================================================
