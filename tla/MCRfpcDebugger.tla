--------------------------- MODULE MCRfpcDebugger ---------------------------
(* Small instances of RfpcDebugger.                                        *)
EXTENDS RfpcDebugger

CONSTANTS k1, k2

Call1(name, k) == [name |-> name, hart |-> k, reg |-> "none", value |-> 0]
Access(name, k, r, v) == [name |-> name, hart |-> k, reg |-> r, value |-> v]

\* Stepping, continuing and writing dpc, between reads and writes of registers
\* and memory, as the server does, and the calls that halt and resume a hart
\* themselves; fewer calls on the second hart.
ServerOps ==
  {Call1("single_step", k1), Call1("continue", k1), Call1("halt", k1),
   Access("write_reg", k1, "dpc", 1), Access("write_reg", k1, "a1", 5),
   Call1("read_memory", k1),
   Access("write_memory", k1, "none", 6),
   Access("read_rfpc_reg", k1, "a0", 0), Access("write_rfpc_reg", k1, "a0", 4),
   Call1("halt", k2), Call1("read_memory", k2)}

\* One hart steps and continues.
StepOps == {Call1("single_step", k1), Call1("continue", k1),
            Access("write_reg", k1, "a1", 5)}
=============================================================================
