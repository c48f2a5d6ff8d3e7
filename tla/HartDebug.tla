------------------------------ MODULE HartDebug ------------------------------
(***************************************************************************)
(* What the users of the RISC-V debug driver (libs/rfpc_debugger.rs) are   *)
(* promised, without debug module, scripts or borrowed registers: a call   *)
(* names a hart and acts on that hart alone; each write, read and step     *)
(* is one atomic step; the registers the call did not name stay, apart     *)
(* from a1 in calls that write a CSR.  A call that panics may have lost    *)
(* what it had borrowed, and nothing else.                                 *)
(***************************************************************************)
EXTENDS Naturals

CONSTANTS
  Hart,         \* the harts of a debug module
  Request,      \* the calls: [name, hart, reg, value]
  Value,        \* values of registers and memory
  ProgLen, Brk  \* length of their program and address of its ebreak

VARIABLES
  alive,   \* the driver has not panicked
  call,    \* the call under way, or NoCall
  view,    \* view[k]: state, a0, a1, dpc and mem of hart k
  seen,    \* seen[k]: dpc of hart k when the user last saw it halted
  result   \* what the last read has returned

hdvars == <<alive, call, view, seen, result>>

NoCall == [name |-> "none"]

Init == /\ alive = TRUE
        /\ call = NoCall
        /\ view \in [Hart -> [state : {"halted"}, a0 : Value, a1 : Value,
                              dpc : 0 .. ProgLen - 1, mem : Value]]
        /\ seen = [k \in Hart |-> view[k].dpc]
        /\ result = 0

After(p) == IF p = Brk THEN 0 ELSE (p + 1) % ProgLen

WritesCsr == call.name \in {"single_step", "continue"}
             \/ (call.name \in {"write_reg", "write_rfpc_reg"} /\ call.reg = "dpc")

\* What a call uses for its own purposes and gives back before it returns.
Borrowed == CASE call.name = "read_memory" -> {"a0"}
              [] call.name = "write_memory" -> {"a0", "a1"}
              [] OTHER -> {}

SetView(k, field, v) == view' = [view EXCEPT ![k][field] = v]

Begin(o) == /\ alive /\ call = NoCall
            /\ call' = o /\ result' = 0
            /\ UNCHANGED <<alive, view, seen>>

Write == /\ view[call.hart].state = "halted"
         /\ \/ /\ call.name \in {"write_reg", "write_rfpc_reg"}
               /\ SetView(call.hart, call.reg, call.value)
            \/ call.name = "write_memory" /\ SetView(call.hart, "mem", call.value)
            \/ WritesCsr /\ \E v \in Value : SetView(call.hart, "a1", v)
         /\ UNCHANGED <<alive, call, seen, result>>

Read == /\ view[call.hart].state = "halted"
        /\ \/ /\ call.name \in {"read_reg", "read_rfpc_reg"}
              /\ result' = view[call.hart][call.reg]
           \/ call.name = "read_memory" /\ result' = view[call.hart].mem
        /\ UNCHANGED <<alive, call, view, seen>>

Start == /\ call.name \in {"resume", "single_step", "continue", "read_rfpc_reg", "write_rfpc_reg"}
         /\ view[call.hart].state = "halted"
         /\ SetView(call.hart, "state", "running")
         /\ UNCHANGED <<alive, call, seen, result>>

Stop == /\ view[call.hart].state = "running"
        /\ \/ call.name \in {"halt", "read_rfpc_reg", "write_rfpc_reg"}
           \/ call.name = "continue" /\ view[call.hart].dpc = Brk
        /\ SetView(call.hart, "state", "halted")
        /\ UNCHANGED <<alive, call, seen, result>>

\* A running hart executes an instruction; single_step lets it execute one, from where
\* the user has seen it, and continue none past the ebreak.
Run(k) ==
  LET mine == call # NoCall /\ call.hart = k
  IN /\ view[k].state = "running"
     /\ mine /\ call.name = "continue" => view[k].dpc # Brk
     /\ mine /\ call.name = "single_step" => view[k].dpc = seen[k]
     /\ view' = [view EXCEPT ![k].dpc = After(@),
                             ![k].state = IF mine /\ call.name = "single_step" THEN "halted" ELSE @]
     /\ UNCHANGED <<alive, call, seen, result>>

\* What a call has done when it returns: all that was asked, once.  The dpc of a hart
\* that runs again has moved on.
Complete ==
  LET v == view[call.hart]
      stays == call.reg # "dpc" \/ v.state = "halted"
  IN /\ v.state = IF call.name \in {"resume", "read_rfpc_reg", "write_rfpc_reg"}
                  THEN "running" ELSE "halted"
     /\ call.name \in {"write_reg", "write_rfpc_reg"} /\ stays => v[call.reg] = call.value
     /\ call.name \in {"read_reg", "read_rfpc_reg"} /\ stays => result = v[call.reg]
     /\ call.name = "write_memory" => v.mem = call.value
     /\ call.name = "read_memory" => result = v.mem
     /\ call.name = "single_step" => v.dpc = After(seen[call.hart])
     /\ call.name = "continue" => v.dpc = Brk

Return == /\ alive /\ call # NoCall
          /\ Complete
          /\ call' = NoCall
          /\ seen' = [seen EXCEPT ![call.hart] = IF view[call.hart].state = "halted"
                                                 THEN view[call.hart].dpc ELSE @]
          /\ UNCHANGED <<alive, view, result>>

\* A call that panics leaves the hart with what it had put in the registers it
\* borrowed, and its last command may still be executed.
Lost(field) == IF field \in Borrowed THEN Value ELSE {view[call.hart][field]}
Fail == /\ call # NoCall
        /\ alive' = FALSE
        /\ \E x \in Lost("a0"), y \in Lost("a1"), written \in {FALSE, call.name = "write_memory"} :
             view' = [view EXCEPT ![call.hart].a0 = x, ![call.hart].a1 = y,
                                  ![call.hart].mem = IF written THEN call.value ELSE @]
        /\ UNCHANGED <<call, seen, result>>

Next == \/ \E o \in Request : Begin(o)
        \/ call # NoCall /\ (Write \/ Read \/ Start \/ Stop)
        \/ \E k \in Hart : Run(k)
        \/ Return \/ Fail

Spec == Init /\ [][Next]_hdvars
=============================================================================
