--------------------------- MODULE MCBreakpoints ---------------------------
(* Small instances of Breakpoints.                                         *)
EXTENDS Breakpoints, TLC

CONSTANTS core1, core2, ctm, w1, w2

At(c, o) == [ctm |-> c, hi |-> 0, off |-> o]
WriteAt(c, o, l) == [ctm |-> c, off |-> o, len |-> l]

\* Neighbours in CTM, and doublewords of local memory side by side.
CtmBps == {At(TRUE, 0), [ctm |-> TRUE, hi |-> 1, off |-> 1]}
BothBps == CtmBps \union {At(FALSE, 0), At(FALSE, 2)}
CtmWrites == {WriteAt(TRUE, 2, 2)}

\* Neighbours in local memory.
LmemNeighbours == {At(FALSE, 0), At(FALSE, 1)}
LmemBp == {At(FALSE, 0)}
WordWrites == {WriteAt(TRUE, 1, 1)}
\* Nothing is claimed of the memories after a core was left with breakpoints set.
NotStrayed == ~strayed

\* The instruction words are interchangeable.
Symmetry == Permutations(Text)

NoBps == {}
NoWrites == {}
=============================================================================
