--------------------------- MODULE MCUpdateQueue ---------------------------
(* Instances of UpdateQueue for TLC. *)
EXTENDS UpdateQueue, TLC

\* One update of every name, and the notice of an equivocation of one of them
DispatchUpdates ==
  LET lead == CHOOSE n \in Names : TRUE IN
  {u \in Update : u.size > 0 \/ u.name = lead}

\* Without the equivocation notices, which never reach the queue
SizedUpdates == {u \in Update : u.size > 0}

\* One peer follows a name that grows in one epoch and rolls over to a smaller
\* size in the next; the others have seen some of that.
MergeUpdates ==
  LET lead == CHOOSE p \in Peers : TRUE IN
  {u \in Update :
     <<u.epoch, u.size>> \in IF u.peer = lead
                             THEN {<<0, 1>>, <<0, 2>>, <<1, 1>>}
                             ELSE {<<0, 1>>, <<1, 1>>}}

Symmetry == Permutations(Names) \cup Permutations(Handlers) \cup Permutations(Workers)

============================================================================
