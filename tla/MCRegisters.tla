----------------------------- MODULE MCRegisters -----------------------------
(* Small instances of Registers.                                           *)
EXTENDS Registers

\* A core of another cluster than those of the threads.
FirstCore == [cluster |-> 1, group |-> 2, core |-> 3]

\* No two registers hold the same.
Distinct == [h \in Hart |-> [a \in Address |->
               (CHOOSE n \in Number : PlaceOf[n] = a) + 64 * (32 * h[1] + h[2])]]

\* The numbers at the ends of every range of a table.
TableEnds == {0, 1, 10, 11, 31, 32, 37, 38, 42, 43, 44, 46, 47, 48, 49, 50}

\* The example of the README for writing a register: $mhartid.
ReadmeWrites == {57}
=============================================================================
