------------------------------ MODULE MCDirect ------------------------------
(* Instances of Direct for TLC.                                            *)
EXTENDS Direct

(* Every directly connected host has the same target.                      *)
OneTarget == [h \in DcHost |-> CHOOSE t \in Target : TRUE]
=============================================================================
