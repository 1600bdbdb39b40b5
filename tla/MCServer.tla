------------------------------ MODULE MCServer ------------------------------
(* Instances of Server for TLC.                                            *)
EXTENDS Server

Symmetry == Permutations(Fd)

Note(id, i, dst, tlvs, role, state) ==
  [id |-> id, interface |-> i, dst |-> dst, tlvs |-> tlvs, role |-> role, state |-> state]
V4 == {1, 2, 5, 6, 7, 8}

(* Two notifications of one interface, of which the pool holds one.        *)
Pair == {Note(1, 1, 1, V4, "SERVER", 1), Note(2, 1, 1, V4, "SERVER", 0)}
One  == {Note(1, 1, 1, V4, "SERVER", 1)}

(* The same and one that is incomplete, and so never accepted.             *)
Incomplete == Pair \cup {Note(3, 1, 1, {1, 2, 5, 6, 7}, "SERVER", 1)}

(* One with a state nobody knows, and one of a host, which is only         *)
(* acknowledged.                                                           *)
Roles == {Note(1, 1, 1, V4, "SERVER", 1), Note(2, 1, 1, V4, "SERVER", 2),
          Note(3, 1, 1, V4, "CLIENT", 1)}

(* One that arrives on one interface and names the address of another.     *)
Across == {Note(1, 2, 1, V4, "SERVER", 0)}

(* A state that is 0 in its lowest byte only, and one that is nothing.     *)
Wide == {Note(1, 1, 1, V4, "SERVER", 256), Note(2, 1, 1, V4, "SERVER", 2)}
=============================================================================
