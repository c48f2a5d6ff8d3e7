---------------------------- MODULE RfpcDebugger ----------------------------
(***************************************************************************)
(* The RISC-V debug driver (libs/rfpc_debugger.rs): each of its functions  *)
(* is a script of accesses to the debug module of an RFPC group, and the   *)
(* harts run, halt and execute commands while the script is under way.     *)
(*                                                                         *)
(* The debug module and the harts are outside the repository and modelled  *)
(* from how the driver uses them.  A hart runs a program of ProgLen        *)
(* instructions, the one at Brk an ebreak; its registers a0, a1, dpc and   *)
(* dcsr and one doubleword of its local memory stand for all of them.      *)
(* data0/data1 are one register here: nothing reads one without the other. *)
(* Definitions with a suffix that starts with a capital, as                *)
(* rfpc_dbg_single_step_NoPoll, are slips the code might have had.         *)
(***************************************************************************)
EXTENDS Naturals, Sequences

CONSTANTS
  Hart,         \* the harts of one debug module
  Op,           \* the calls the users of the driver make
  ProgLen, Brk, \* length of the program and address of its ebreak
  MaxWord,      \* the largest value of a register
  LateCalls,    \* the calls after whose resume request a hart may still report halted
  StuckHarts    \* whether a hart may stop answering, so that waits time out

Addr == 9                     \* the address of the doubleword
Word == 0 .. MaxWord

Regs == {"a0", "a1", "dpc"}
Accesses == {"read_reg", "write_reg", "read_rfpc_reg", "write_rfpc_reg"}
Names == Accesses \union {"halt", "resume", "read_memory", "write_memory",
                          "single_step", "continue"}

ASSUME HartAssumption == Hart # {}
ASSUME ProgramAssumption == /\ MaxWord \in Nat /\ MaxWord >= 31
                            /\ ProgLen \in 1 .. MaxWord + 1 /\ Brk \in 0 .. ProgLen - 1
ASSUME SwitchAssumption == LateCalls \subseteq STRING /\ StuckHarts \in BOOLEAN

\* Users leave dcsr to the driver, and write to dpc addresses of the program.
ASSUME OpAssumption ==
  /\ Op \subseteq [name : Names, hart : Hart, reg : Regs \union {"none"}, value : Word]
  /\ \A o \in Op : /\ o.name \in Accesses => o.reg \in Regs
                   /\ o.reg = "dpc" => o.value \in 0 .. ProgLen - 1

VARIABLES
  driver,    \* "idle", "busy", or the reason the process panicked
  op, pos,   \* the call in progress (or the last one) and its next access
  local,     \* the Rust locals temp_a0, temp_a1, dcsr_reg and the value read
  polled,    \* a poll of this wait has failed: the next check may time out
  dm,        \* the debug module
  hart,      \* the harts
  shadow     \* what the user believes of a1 and dpc of each hart

vars == <<driver, op, pos, local, polled, dm, hart, shadow>>

\* dcsr: STEP is bit 0, EBREAKM/EBREAKU bit 1, CAUSE the bits above.
HasStep(d) == d % 2 = 1
HasEbreak(d) == (d \div 2) % 2 = 1
Cause(d) == d \div 4
Dcsr_CauseAtBit3(cause, ebreak, step) ==
  8 * cause + (IF ebreak THEN 2 ELSE 0) + (IF step THEN 1 ELSE 0)

Dcsr(cause, ebreak, step) ==
  4 * cause + (IF ebreak THEN 2 ELSE 0) + (IF step THEN 1 ELSE 0)
EbreakCause == 1
HaltreqCause == 3
StepCause == 4

NoCmd == [kind |-> "none", reg |-> "none"]

-----------------------------------------------------------------------------
(* The scripts: what each function does to the debug module, in order.     *)

Dmcontrol(k, req) == <<[do |-> "dmcontrol", hart |-> k, req |-> req]>>
Put(src)   == <<[do |-> "put", src |-> src]>>
Get(dst)   == <<[do |-> "get", dst |-> dst]>>
Progbuf(i) == <<[do |-> "progbuf", instr |-> i]>>
Poll(st)   == <<[do |-> "poll", until |-> st]>>
\* A command is always followed by abstract_cmd_busy_wait.
Command(kind, r) == <<[do |-> "command", cmd |-> [kind |-> kind, reg |-> r]],
                      [do |-> "busy_wait"]>>
SetFlag(flag, on) == <<[do |-> "flag", flag |-> flag, on |-> on]>>
CheckCause(c) == <<[do |-> "check", cause |-> c]>>

rfpc_dbg_halt(k) == Dmcontrol(k, "halt") \o Poll("halted")
rfpc_dbg_resume(k) == Dmcontrol(k, "resume") \o Poll("running")

rfpc_dbg_read_reg(k, r, dst) == Dmcontrol(k, "none") \o Command("read", r) \o Get(dst)

\* A CSR is written through x11 (a1) by a csrw in the program buffer.
rfpc_dbg_write_reg(k, r, src) ==
  Dmcontrol(k, "none") \o Put(src) \o
  IF r \in {"a0", "a1"} THEN Command("write", r)
  ELSE Command("write", "a1") \o Progbuf([do |-> "csrw", csr |-> r]) \o Command("exec", "none")

rfpc_dbg_single_step_NoPoll(k) ==
  rfpc_dbg_read_reg(k, "dcsr", "dcsr_reg") \o SetFlag("step", TRUE) \o
  rfpc_dbg_write_reg(k, "dcsr", "dcsr_reg") \o
  Dmcontrol(k, "resume") \o
  rfpc_dbg_read_reg(k, "dcsr", "dcsr_reg") \o CheckCause(StepCause) \o
  SetFlag("step", FALSE) \o rfpc_dbg_write_reg(k, "dcsr", "dcsr_reg")

rfpc_dbg_single_step_NotCleared(k) ==
  rfpc_dbg_read_reg(k, "dcsr", "dcsr_reg") \o SetFlag("step", TRUE) \o
  rfpc_dbg_write_reg(k, "dcsr", "dcsr_reg") \o
  Dmcontrol(k, "resume") \o Poll("halted") \o
  rfpc_dbg_read_reg(k, "dcsr", "dcsr_reg") \o CheckCause(StepCause)

rfpc_dbg_single_step(k) ==
  rfpc_dbg_read_reg(k, "dcsr", "dcsr_reg") \o SetFlag("step", TRUE) \o
  rfpc_dbg_write_reg(k, "dcsr", "dcsr_reg") \o
  Dmcontrol(k, "resume") \o Poll("halted") \o
  rfpc_dbg_read_reg(k, "dcsr", "dcsr_reg") \o CheckCause(StepCause) \o
  SetFlag("step", FALSE) \o rfpc_dbg_write_reg(k, "dcsr", "dcsr_reg")

rfpc_dbg_continue_FlagNotWritten(k) ==
  rfpc_dbg_read_reg(k, "dcsr", "dcsr_reg") \o SetFlag("ebreak", TRUE) \o
  Dmcontrol(k, "resume") \o Poll("halted") \o
  rfpc_dbg_read_reg(k, "dcsr", "dcsr_reg") \o CheckCause(EbreakCause) \o
  SetFlag("ebreak", FALSE) \o rfpc_dbg_write_reg(k, "dcsr", "dcsr_reg")

rfpc_dbg_continue(k) ==
  rfpc_dbg_read_reg(k, "dcsr", "dcsr_reg") \o SetFlag("ebreak", TRUE) \o
  rfpc_dbg_write_reg(k, "dcsr", "dcsr_reg") \o
  Dmcontrol(k, "resume") \o Poll("halted") \o
  rfpc_dbg_read_reg(k, "dcsr", "dcsr_reg") \o CheckCause(EbreakCause) \o
  SetFlag("ebreak", FALSE) \o rfpc_dbg_write_reg(k, "dcsr", "dcsr_reg")

\* One word: the loop repeats the middle part for each.
rfpc_dbg_read_memory(k) ==
  Dmcontrol(k, "none") \o rfpc_dbg_read_reg(k, "a0", "temp_a0") \o
  Put("address") \o Progbuf([do |-> "ld", csr |-> "none"]) \o Command("write_exec", "a0") \o
  Command("read", "a0") \o Get("word") \o
  rfpc_dbg_write_reg(k, "a0", "temp_a0")

rfpc_dbg_write_memory(k) ==
  Dmcontrol(k, "none") \o rfpc_dbg_read_reg(k, "a0", "temp_a0") \o
  rfpc_dbg_read_reg(k, "a1", "temp_a1") \o
  Put("value") \o Command("write", "a1") \o
  Put("address") \o Progbuf([do |-> "sd", csr |-> "none"]) \o Command("write_exec", "a0") \o
  rfpc_dbg_write_reg(k, "a0", "temp_a0") \o rfpc_dbg_write_reg(k, "a1", "temp_a1")

read_rfpc_reg(k, r) ==
  rfpc_dbg_halt(k) \o rfpc_dbg_read_reg(k, r, "word") \o rfpc_dbg_resume(k)
write_rfpc_reg(k, r) ==
  rfpc_dbg_halt(k) \o rfpc_dbg_write_reg(k, r, "value") \o rfpc_dbg_resume(k)

\* A call o is [name, hart, reg, value]; its script ends in a return.
Script(o) ==
  (CASE o.name = "halt"           -> rfpc_dbg_halt(o.hart)
     [] o.name = "resume"         -> rfpc_dbg_resume(o.hart)
     [] o.name = "read_reg"       -> rfpc_dbg_read_reg(o.hart, o.reg, "word")
     [] o.name = "write_reg"      -> rfpc_dbg_write_reg(o.hart, o.reg, "value")
     [] o.name = "read_memory"    -> rfpc_dbg_read_memory(o.hart)
     [] o.name = "write_memory"   -> rfpc_dbg_write_memory(o.hart)
     [] o.name = "single_step"    -> rfpc_dbg_single_step(o.hart)
     [] o.name = "continue"       -> rfpc_dbg_continue(o.hart)
     [] o.name = "read_rfpc_reg"  -> read_rfpc_reg(o.hart, o.reg)
     [] o.name = "write_rfpc_reg" -> write_rfpc_reg(o.hart, o.reg))
  \o <<[do |-> "return"]>>

Scripts == [o \in Op |-> Script(o)]
Instr == Scripts[op][pos]

-----------------------------------------------------------------------------
(* The driver                                                              *)

\* At the start harts are halted, as they are until firmware is started.
Init ==
  /\ driver = "idle"
  /\ op = [name |-> "none", hart |-> CHOOSE k \in Hart : TRUE, reg |-> "a0", value |-> 0]
  /\ pos = 1
  /\ local = [temp_a0 |-> 0, temp_a1 |-> 0, dcsr_reg |-> 0, word |-> 0]
  /\ polled = FALSE
  /\ dm = [hartsel |-> CHOOSE k \in Hart : TRUE, haltreq |-> FALSE, data |-> 0,
           progbuf |-> [do |-> "csrw", csr |-> "dpc"], cmd |-> NoCmd, cmderr |-> FALSE]
  /\ hart = [k \in Hart |-> [state |-> "halted", resuming |-> FALSE,
                             a0 |-> 1, a1 |-> 2, dpc |-> 0, mem |-> 3,
                             dcsr |-> Dcsr(HaltreqCause, FALSE, FALSE)]]
  /\ shadow = [k \in Hart |-> [a1 |-> 2, dpc |-> 0]]

\* Registers and memory are accessed, and harts stepped and continued, only
\* while the hart is halted: the driver does not check it.
NeedsHalted(o) == o.name \notin {"halt", "read_rfpc_reg", "write_rfpc_reg"}

Call(o) ==
  /\ driver = "idle"
  /\ NeedsHalted(o) => hart[o.hart].state = "halted"
  /\ driver' = "busy" /\ op' = o /\ pos' = 1
  /\ local' = [local EXCEPT !.word = 0]
  /\ UNCHANGED <<polled, dm, hart, shadow>>

Next1 == pos' = pos + 1 /\ polled' = FALSE

Do(step) == driver = "busy" /\ Instr.do = step

Operand(src) == CASE src = "value" -> op.value
                  [] src = "address" -> Addr
                  [] OTHER -> local[src]

\* A halted hart that is asked to resume does so at once, or later.
WriteDmcontrol ==
  LET k == Instr.hart
      resumes == Instr.req = "resume" /\ hart[k].state = "halted"
  IN /\ Do("dmcontrol") /\ Next1
     /\ dm' = [dm EXCEPT !.hartsel = k, !.haltreq = (Instr.req = "halt")]
     /\ \E late \in {FALSE, op.name \in LateCalls} :
          hart' = IF ~resumes THEN hart
                  ELSE IF late THEN [hart EXCEPT ![k].resuming = TRUE]
                  ELSE [hart EXCEPT ![k].state = "running"]
     /\ UNCHANGED <<driver, op, local, shadow>>

WriteData == /\ Do("put") /\ Next1
             /\ dm' = [dm EXCEPT !.data = Operand(Instr.src)]
             /\ UNCHANGED <<driver, op, local, hart, shadow>>

WriteProgbuf == /\ Do("progbuf") /\ Next1
                /\ dm' = [dm EXCEPT !.progbuf = Instr.instr]
                /\ UNCHANGED <<driver, op, local, hart, shadow>>

\* With cmderr set the debug module ignores commands; the driver never looks.
WriteCommand == /\ Do("command") /\ Next1
                /\ dm' = IF dm.cmderr THEN dm ELSE [dm EXCEPT !.cmd = Instr.cmd]
                /\ UNCHANGED <<driver, op, local, hart, shadow>>

ReadData == /\ Do("get") /\ Next1
            /\ local' = [local EXCEPT ![Instr.dst] = dm.data]
            /\ UNCHANGED <<driver, op, dm, hart, shadow>>

ChangeFlag ==
  LET d == local.dcsr_reg
  IN /\ Do("flag") /\ Next1
     /\ local' = [local EXCEPT !.dcsr_reg =
                    IF Instr.flag = "step" THEN Dcsr(Cause(d), HasEbreak(d), Instr.on)
                    ELSE Dcsr(Cause(d), Instr.on, HasStep(d))]
     /\ UNCHANGED <<driver, op, dm, hart, shadow>>

\* panic!("The RFPC core did not single step!") or "... did not breakpoint".
CheckDcsrCause ==
  /\ Do("check")
  /\ IF Cause(local.dcsr_reg) = Instr.cause THEN Next1 /\ UNCHANGED driver
     ELSE driver' = "wrong_cause" /\ UNCHANGED <<pos, polled>>
  /\ UNCHANGED <<op, local, dm, hart, shadow>>

\* What the wait in progress waits for, read from dmstatus or abstractcs.
Answer == IF Instr.do = "poll" THEN hart[dm.hartsel].state = Instr.until
          ELSE dm.cmd = NoCmd
Waiting == driver = "busy" /\ Instr.do \in {"poll", "busy_wait"}

PollDone == /\ Waiting /\ Answer /\ Next1
            /\ UNCHANGED <<driver, op, local, dm, hart, shadow>>

PollAgain == /\ Waiting /\ ~Answer
             /\ polled' = TRUE
             /\ UNCHANGED <<driver, op, pos, local, dm, hart, shadow>>

Timeout_NotForHalt == /\ Waiting /\ polled /\ StuckHarts
                      /\ IF Instr.do = "poll" THEN Instr.until # "halted" ELSE TRUE
                      /\ driver' = "timeout"
                      /\ UNCHANGED <<op, pos, local, polled, dm, hart, shadow>>

\* The time is checked before each read: after a failed poll and a sleep the
\* wait may give up although the answer has come by now.
Timeout == /\ Waiting /\ polled /\ StuckHarts
           /\ driver' = "timeout"
           /\ UNCHANGED <<op, pos, local, polled, dm, hart, shadow>>

StepOf(p) == IF p = Brk THEN 0 ELSE (p + 1) % ProgLen   \* an ebreak traps to 0

\* What the user expects of the hart after call o: exactly what was asked.
Expected(o, s) ==
  CASE o.name \in {"write_reg", "write_rfpc_reg"} /\ o.reg = "a1" -> [s EXCEPT !.a1 = o.value]
    [] o.name = "write_reg" /\ o.reg = "dpc" -> [s EXCEPT !.dpc = o.value]
    [] o.name = "single_step" -> [s EXCEPT !.dpc = StepOf(@)]
    [] o.name = "continue"    -> [s EXCEPT !.dpc = Brk]
    [] o.name = "halt"        -> [s EXCEPT !.dpc = hart[o.hart].dpc]
    [] OTHER -> s

Return == /\ Do("return")
          /\ driver' = "idle"
          /\ shadow' = [shadow EXCEPT ![op.hart] = Expected(op, @)]
          /\ local' = [local EXCEPT !.temp_a0 = 0, !.temp_a1 = 0, !.dcsr_reg = 0]
          /\ UNCHANGED <<op, pos, polled, dm, hart>>

Driver == \/ WriteDmcontrol \/ WriteData \/ WriteProgbuf \/ WriteCommand \/ ReadData
          \/ ChangeFlag \/ CheckDcsrCause \/ PollDone \/ PollAgain \/ Timeout \/ Return

-----------------------------------------------------------------------------
(* The harts and the debug module (external)                               *)

\* dcsr.cause is read-only to a csrw.
WriteCsr(h, csr, v) ==
  IF csr = "dcsr" THEN [h EXCEPT !.dcsr = Dcsr(Cause(@), HasEbreak(v), HasStep(v))]
  ELSE [h EXCEPT ![csr] = v]

RunProgbuf(h) ==
  CASE dm.progbuf.do = "csrw" -> WriteCsr(h, dm.progbuf.csr, h.a1)
    [] dm.progbuf.do = "ld" -> [h EXCEPT !.a0 = IF @ = Addr THEN h.mem ELSE 0]
    [] dm.progbuf.do = "sd" -> IF h.a0 = Addr THEN [h EXCEPT !.mem = h.a1] ELSE h

\* What the command under way makes of hart h, and leaves in data0 and data1.
Executed(h) == CASE dm.cmd.kind = "write" -> [h EXCEPT ![dm.cmd.reg] = dm.data]
                 [] dm.cmd.kind = "exec" -> RunProgbuf(h)
                 [] dm.cmd.kind = "write_exec" -> RunProgbuf([h EXCEPT ![dm.cmd.reg] = dm.data])
                 [] OTHER -> h
\* The command that runs the program buffer alone, 0x360000, reads CSR 0 too: 0 here.
Answered(h) == CASE dm.cmd.kind = "read" -> h[dm.cmd.reg]
                 [] dm.cmd.kind = "exec" -> 0
                 [] OTHER -> dm.data

ExecuteCommand ==
  LET h == hart[dm.hartsel]
  IN /\ dm.cmd # NoCmd
     /\ IF h.state # "halted"
        THEN dm' = [dm EXCEPT !.cmd = NoCmd, !.cmderr = TRUE] /\ UNCHANGED hart
        ELSE /\ dm' = [dm EXCEPT !.cmd = NoCmd, !.data = Answered(h)]
             /\ hart' = [hart EXCEPT ![dm.hartsel] = Executed(h)]
     /\ UNCHANGED <<driver, op, pos, local, polled, shadow>>

HartSteps(k, h) == /\ hart' = [hart EXCEPT ![k] = h]
                   /\ UNCHANGED <<driver, op, pos, local, polled, dm, shadow>>

Halted(h, cause) ==
  [h EXCEPT !.state = "halted", !.dcsr = Dcsr(cause, HasEbreak(@), HasStep(@))]

Resume(k) == /\ hart[k].resuming
             /\ HartSteps(k, [hart[k] EXCEPT !.resuming = FALSE, !.state = "running"])

HaltRequested(k) == /\ hart[k].state = "running" /\ dm.haltreq /\ dm.hartsel = k
                    /\ HartSteps(k, Halted(hart[k], HaltreqCause))

Breakpoint(k) == /\ hart[k].state = "running"
                 /\ hart[k].dpc = Brk /\ HasEbreak(hart[k].dcsr)
                 /\ HartSteps(k, Halted(hart[k], EbreakCause))

Retire(k) ==
  LET h == [hart[k] EXCEPT !.dpc = StepOf(@)]
  IN /\ hart[k].state = "running"
     /\ ~(hart[k].dpc = Brk /\ HasEbreak(hart[k].dcsr))
     /\ HartSteps(k, IF HasStep(h.dcsr) THEN Halted(h, StepCause) ELSE h)

Harts == ExecuteCommand \/ \E k \in Hart : Resume(k) \/ HaltRequested(k) \/ Breakpoint(k) \/ Retire(k)

Next == (\E o \in Op : Call(o)) \/ Driver \/ Harts

Spec == Init /\ [][Next]_vars

\* The driver is one thread that keeps running, and its clock too: a wait that has
\* nothing else to do times out.  The harts owe nothing.
FairSpec == Spec /\ WF_vars(Driver)

\* A poll for halted is answered by the halt of before a resume that is still under
\* way; ALLRESUMEACK would tell, and the driver does not look at it.
OldHaltTaken == PollDone /\ Instr.do = "poll" /\ Instr.until = "halted" /\ hart[dm.hartsel].resuming

-----------------------------------------------------------------------------
(* Properties                                                              *)

Idle == driver = "idle"

\* Every variable has its type; a call is one of those of the longest script.
TypeOK ==
  /\ driver \in {"idle", "busy", "timeout", "wrong_cause"}
  /\ pos \in 1 .. 50 /\ polled \in BOOLEAN
  /\ local \in [{"temp_a0", "temp_a1", "dcsr_reg", "word"} -> Word]
  /\ dm.hartsel \in Hart /\ dm.data \in Word
  /\ \A k \in Hart : /\ hart[k].state \in {"halted", "running"}
                      /\ hart[k].resuming \in BOOLEAN
                      /\ \A r \in {"a0", "a1", "mem", "dcsr"} : hart[k][r] \in Word
                      /\ hart[k].dpc \in 0 .. ProgLen - 1
                      /\ shadow[k].a1 \in Word /\ shadow[k].dpc \in 0 .. ProgLen - 1

\* a1 is the user's too, although every CSR write goes through it.
A1Kept == Idle => \A k \in Hart : hart[k].a1 = shadow[k].a1

\* No call leaves single stepping or ebreak trapping on in any hart.
FlagsCleared ==
  Idle => \A k \in Hart : ~HasStep(hart[k].dcsr) /\ ~HasEbreak(hart[k].dcsr)

\* Commands are only given to halted harts: cmderr, which the driver neither
\* reads nor clears, would make every later command fail silently.
NoCommandFails == ~dm.cmderr

\* A step or continue that worked is not reported as failed, and none leaves behind
\* a flag in dcsr that would stop the next one for another cause.
CauseIsRight == driver # "wrong_cause" /\ FlagsCleared

\* Every call returns or panics, even when the hart never answers.
CallsEnd == driver = "busy" ~> driver # "busy"

\* What a call has saved in a local and will write back belongs to the hart.
Saved(k, dst) == /\ driver = "busy" /\ op.hart = k
                 /\ \E i \in 1 .. pos - 1 : Scripts[op][i] = [do |-> "get", dst |-> dst]

UserView(k) ==
  [state |-> hart[k].state, dpc |-> hart[k].dpc, mem |-> hart[k].mem,
   a0 |-> IF Saved(k, "temp_a0") THEN local.temp_a0 ELSE hart[k].a0,
   a1 |-> IF Saved(k, "temp_a1") THEN local.temp_a1 ELSE hart[k].a1]

Debug == INSTANCE HartDebug WITH
  Request <- Op, Value <- Word,
  alive <- driver \in {"idle", "busy"},
  call <- IF driver = "idle" THEN [name |-> "none"] ELSE op,
  view <- [k \in Hart |-> UserView(k)],
  seen <- [k \in Hart |-> shadow[k].dpc],
  result <- local.word

\* Users of the driver see the behaviour of HartDebug: each call is one step on
\* the hart it names, a continue never runs past an ebreak, and a call that panics
\* has lost what it borrowed of that hart and nothing else.
ImplementsHartDebug == Debug!Spec
=============================================================================
