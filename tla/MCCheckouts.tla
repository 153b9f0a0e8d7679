---------------------------- MODULE MCCheckouts ----------------------------
EXTENDS Checkouts

\* A blob of one sector in the current epoch; the sector is of no writer here
OneSector == [epoch |-> 1, tip |-> <<Zero>>]

\* From the start of the next epoch, and from the end of what is stored
TwoKeys == {[epoch |-> 2, from |-> 0], [epoch |-> 1, from |-> 1]}
=============================================================================
