--------------------------- MODULE MCParseDigest ---------------------------
EXTENDS ParseDigest

\* Every digest with one bit set, every one with one bit clear, and both stripes.
MCOne(p)    == [n \in 0 .. 29 |-> IF n = p \div 8 THEN {7 - (p % 8)} ELSE {}]
MCAllBut(p) == [n \in 0 .. 29 |-> (0 .. 7) \ MCOne(p)[n]]
MCDigests ==
    {MCOne(p) : p \in 0 .. 239} \cup {MCAllBut(p) : p \in 0 .. 239}
      \cup {[n \in 0 .. 29 |-> {1, 3, 5, 7}], [n \in 0 .. 29 |-> {0, 2, 4, 6}]}
=============================================================================
