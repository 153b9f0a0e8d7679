----------------------------- MODULE NameStore -----------------------------
(***************************************************************************)
(* What a node promises about the blob of a name: it replaces the content  *)
(* only by chains the publisher signed, and whoever reads the blob under   *)
(* the name's lock finds all of the content, never a part of it or a mix.  *)
(***************************************************************************)

CONSTANT None   \* no content, or nothing to be seen

VARIABLES
  signed,   \* the chains the publisher has signed
  content,  \* the chain the node claims to have
  locked,   \* somebody is writing
  shown     \* the chain a reader finds in the blob, None while locked

vars == <<signed, content, locked, shown>>

Init ==
  /\ content = None
  /\ locked = FALSE
  /\ shown = None

Sign ==
  /\ signed \subseteq signed'
  /\ UNCHANGED <<content, locked, shown>>

\* A writer takes the lock, and may announce the new content at once ...
Lock ==
  /\ ~locked /\ locked'
  /\ content' \in {content} \cup signed
  /\ shown' = None
  /\ UNCHANGED signed

\* ... or later.
Replace ==
  /\ locked
  /\ content' \in signed
  /\ UNCHANGED <<signed, locked, shown>>

Unlock ==
  /\ locked /\ ~locked'
  /\ shown' = content
  /\ UNCHANGED <<signed, content>>

Next == Sign \/ Lock \/ Replace \/ Unlock

Spec == Init /\ [][Next]_vars

============================================================================
