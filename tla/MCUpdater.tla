----------------------------- MODULE MCUpdater -----------------------------
(* Instances of Updater for TLC: sectors are the numbers 1 and 2. *)
EXTENDS Updater, TLC

\* A publisher that grows its blob in epoch 0 and starts over in epoch 1
HonestSeals ==
  {[epoch |-> 0, chain |-> <<1>>], [epoch |-> 0, chain |-> <<1, 2>>],
   [epoch |-> 1, chain |-> <<2>>]}

\* A publisher that signs a second chain in epoch 0
EquivocalSeals ==
  {[epoch |-> 0, chain |-> <<1>>], [epoch |-> 0, chain |-> <<1, 2>>],
   [epoch |-> 0, chain |-> <<2, 1>>]}

\* The same, starting over in epoch 1
ResumedSeals == EquivocalSeals \cup {[epoch |-> 1, chain |-> <<2>>]}

\* A publisher that signs a second chain in epoch 0, and extends it
ForkedSeals ==
  {[epoch |-> 0, chain |-> <<1>>], [epoch |-> 0, chain |-> <<2>>],
   [epoch |-> 0, chain |-> <<2, 1>>]}

\* A publisher with one sector to repeat, partly published elsewhere
RepeatedSeals ==
  {[epoch |-> 0, chain |-> <<>>], [epoch |-> 0, chain |-> <<1>>],
   [epoch |-> 0, chain |-> <<1, 1>>]}

\* All but what has been gossiped: no step depends on it.
Unsent == <<header, blob, bannedAt, proof, proving, writer, readers, worker,
            client, late, admitted, seals, now>>

Symmetry == Permutations(Workers) \cup Permutations(Clients)

============================================================================
