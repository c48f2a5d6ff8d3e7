------------------------------ MODULE MCPaConfig -----------------------------
(* Small instances of PaConfig.                                            *)
EXTENDS PaConfig, TLC

\* Neither groups nor the cores of a group are told apart.
Symmetric == Permutations(Groups) \union Permutations(Cores)
=============================================================================
