----------------------------- MODULE MCSequences -----------------------------
(* The vector and the linked lists, one of them per behaviour. *)
EXTENDS Vector, MCLists, TLC

VARIABLE sequence   \* which one the behaviour is about

MCInit ==
  /\ sequence \in {"vector", "list"}
  /\ Init /\ ListsInit
  /\ sequence = "vector" => list = "ring" /\ ~ propagates
  /\ sequence = "list" => relocation = "move" /\ capacity_ = 0

MCNext ==
  /\ \/ sequence = "vector" /\ Next /\ UNCHANGED <<list, ringVars, doublyVars>>
     \/ sequence = "list" /\ ListsNext /\ UNCHANGED vars
  /\ UNCHANGED sequence

MCSpec == MCInit /\ [][MCNext]_<<sequence, vars, list, ringVars, doublyVars>>

(* Neither the blocks nor the values of the vector are told apart. *)
Symmetry == Permutations(Blocks) \cup Permutations(Values)
=============================================================================
