--------------------------- MODULE MCExpansionBar ---------------------------
(* Small instances of ExpansionBar.                                        *)
EXTENDS ExpansionBar, TLC

CONSTANTS h1, h2, h3

TwoHandles == {h1, h2}
ThreeHandles == {h1, h2, h3}
Symmetric == Permutations(Handle)
=============================================================================
