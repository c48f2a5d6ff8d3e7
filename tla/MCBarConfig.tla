---------------------------- MODULE MCBarConfig -----------------------------
(* Instances of BarConfig for TLC. *)
EXTENDS BarConfig

\* Windows smaller than, as large as and larger than the 2^16 bytes under the
\* base address of a Fixed mapping; 2^26 is an eighth of a 512 MiB BAR.
MCSizes == {9, 12, 16, 26}
\* ids with the lowest and the highest bits: Local, Pcie1 and Rfpc6.
MCIslands == {0, 3, 15}
\* Both ends of every piece the base address is cut into.
MCCppAddrs == {{}, {2}, {9, 10}, {15, 16}, {26, 39, 40}, {41, 42, 43, 44}, {31, 45, 47}}
MCXpbAddrs == {{}, {4, 8}, {12, 23}}

\* x/4xw 0x1009e00000004: memory_read masks the address to 4, in the CTM of Rfpc0.
ReadmeSizes == {16, 26}
ReadmeIslands == {9}
ReadmeCppAddrs == {{2}}
ReadmeXpbAddrs == {{12, 23}}
=============================================================================
