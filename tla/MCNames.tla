------------------------------ MODULE MCNames ------------------------------
(* Instances of Names for TLC. *)
EXTENDS Names

CONSTANTS n1, n2, k1, k2, junk

Out(type, name, records) == [type |-> type, name |-> name, records |-> records]

\* A block that updates a name twice, in different transactions,
\* and publishes several keys in one output; one with covenants and entries that
\* are passed over.
MCBlocks ==
  {
    << <<Out("UPDATE", n1, << <<k1>> >>), Out("REGISTER", n2, << <<k1, k2>>, <<junk>> >>)>>,
       <<Out("UPDATE", n1, << <<>>, <<k2, junk>> >>)>> >>,
    << <<Out("REVOKE", n2, << <<k1>> >>), Out("UPDATE", n2, << <<junk>> >>)>>,
       <<Out("UPDATE", n1, << <<k2>>, <<k1>> >>)>> >> }

============================================================================
