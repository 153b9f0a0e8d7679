----------------------------- MODULE MCNameSync -----------------------------
(* Instances of NameSync for TLC. *)
EXTENDS NameSync

OneEpoch  == {[epoch |-> 1, size |-> 1], [epoch |-> 1, size |-> 2]}
TwoEpochs == {[epoch |-> 1, size |-> 2], [epoch |-> 2, size |-> 1]}

=============================================================================
