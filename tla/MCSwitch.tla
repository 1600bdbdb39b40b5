------------------------------ MODULE MCSwitch ------------------------------
(* Instances of Switch for TLC.                                            *)
EXTENDS Switch

Symmetry == Permutations(Fd)

(* Two addresses of one interface, and one of another.                      *)
A1 == [name |-> "eth1.10", ip |-> "a", phy |-> 1]
A2 == [name |-> "eth1.10", ip |-> "b", phy |-> 1]
B1 == [name |-> "eth2.10", ip |-> "c", phy |-> 2]
TwoOnOne == {A1, A2}
TwoApart == {A1, B1}
Single   == {A1}

(* A bonding device with slave 3 or 4, and a port of its own.              *)
Bonded   == [name |-> "bond0.10", ip |-> "d", phy |-> 5]
WithBond == {B1, Bonded}
OnlyBond == {Bonded}
None     == {}
=============================================================================
