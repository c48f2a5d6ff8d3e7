------------------------- MODULE RfpcDebuggerProofs -------------------------
(***************************************************************************)
(* Proofs about RfpcDebugger, for any harts, program and calls: the type   *)
(* invariant, that no command fails, that causes are reported right, and   *)
(* that the driver implements HartDebug.                                   *)
(*                                                                         *)
(* All rest on IInv: what each script has done of its call when it has     *)
(* come to an access (Done), told of the hart and of data0/data1 as they   *)
(* are once the command under way has been executed (Eff, Data), so that   *)
(* nothing depends on when that happens.                                   *)
(***************************************************************************)
EXTENDS RfpcDebugger, Integers, TLAPS

Called == driver # "idle"
At(i) == Script(op)[i]
Target == hart[op.hart]

\* The target and data0/data1 as they are once the command under way is executed.
Eff == IF dm.cmd = NoCmd THEN Target ELSE Executed(Target)
Data == Answered(Target)

Dcsrs == 0 .. 31
Cmds == [kind : {"read"}, reg : {"a0", "a1", "dpc", "dcsr"}]
        \union [kind : {"write"}, reg : {"a0", "a1"}]
        \union [kind : {"write_exec"}, reg : {"a0"}] \union [kind : {"exec"}, reg : {"none"}]
Instrs == [do : {"csrw"}, csr : {"dpc", "dcsr"}] \union [do : {"ld", "sd"}, csr : {"none"}]
Clear(d) == ~HasStep(d) /\ ~HasEbreak(d)
\* The one flag that op sets in dcsr for the time of the run.
Flagged(d) == /\ HasStep(d) <=> op.name = "single_step"
              /\ HasEbreak(d) <=> op.name = "continue"

Harts1 == [state : {"halted", "running"}, resuming : BOOLEAN, a0 : Word, a1 : Word,
           dpc : 0 .. ProgLen - 1, mem : Word, dcsr : Dcsrs]

Types ==
  /\ driver \in {"idle", "busy", "timeout"}
  /\ pos \in 1 .. 28 /\ polled \in BOOLEAN
  /\ local \in [{"temp_a0", "temp_a1", "dcsr_reg", "word"} -> Word]
  /\ local.dcsr_reg \in Dcsrs
  /\ dm \in [hartsel : Hart, haltreq : BOOLEAN, data : Word,
             progbuf : Instrs,
             cmd : Cmds \union {NoCmd},
             cmderr : {FALSE}]
  /\ hart \in [Hart -> Harts1]
  /\ shadow \in [Hart -> [a1 : Word, dpc : 0 .. ProgLen - 1]]
  /\ Called => op \in Op /\ pos \in 1 .. Len(Script(op))

\* Which of the ways its script treats the target op is in.
Stops == {"halt", "read_rfpc_reg", "write_rfpc_reg"}
Leaves == {"resume", "read_rfpc_reg", "write_rfpc_reg"}
Steps == {"single_step", "continue"}
Phase ==
  LET final == Len(Script(op))
  IN CASE op.name \in Stops /\ pos = 1 -> "any"
       [] op.name \in Stops /\ pos = 2 -> "asked"
       [] op.name \in Leaves /\ pos = final - 1 -> "leaving"
       [] op.name \in Leaves /\ pos = final -> "left"
       [] op.name \in Steps /\ pos = 14 -> "away"
       [] OTHER -> "held"

\* Where the hart that op steps or continues may be.
Ran == IF op.name = "single_step"
       THEN Cause(Eff.dcsr) = StepCause /\ Eff.dpc = StepOf(shadow[op.hart].dpc)
       ELSE Cause(Eff.dcsr) = EbreakCause /\ Eff.dpc = Brk
Away == \/ /\ Target.state = "running" \/ Target.resuming
           /\ op.name = "single_step" => Eff.dpc = shadow[op.hart].dpc
        \/ Target.state = "halted" /\ ~Target.resuming /\ Ran

InPhase ==
  /\ Phase \in {"held"} => Target.state = "halted"
  /\ Phase = "left" => Target.state = "running"
  /\ Phase = "leaving" => Target.state = "running" \/ Target.resuming
  /\ Phase = "away" => Away
  /\ Target.resuming => Phase \in {"leaving", "away"} /\ Target.state = "halted"

\* A hart that no call is about stands where the user has seen it, or runs, without flags.
Left(k) == /\ ~hart[k].resuming
           /\ Clear(hart[k].dcsr)
           /\ hart[k].state = "halted" => hart[k].dpc = shadow[k].dpc

\* Only a hart that is asked to halts on request.
Requests == dm.haltreq /\ (hart[dm.hartsel].state = "running" \/ hart[dm.hartsel].resuming) =>
              Called /\ Phase = "asked" /\ dm.hartsel = op.hart

\* A command is under way while its script waits for it.
Pending == dm.cmd # NoCmd => /\ Called /\ pos > 1
                             /\ At(pos - 1) = [do |-> "command", cmd |-> dm.cmd]

\* What a script that reads register r from position b + 1 on, or writes v to it, has
\* done so far.
Reading(b, r) == pos \in b + 3 .. b + 4 => Data = Eff[r]
Writing(b, r, v) == /\ pos = b + 3 => Data = v
                    /\ pos = b + 4 => Eff[r] = v
WritingCsr(b, r, v) == /\ pos = b + 3 => Data = v
                       /\ pos \in b + 4 .. b + 7 => Eff.a1 = v
                       /\ pos \in b + 6 .. b + 7 => dm.progbuf = [do |-> "csrw", csr |-> r]

ReadsReg(b) == /\ Reading(b, op.reg)
               /\ pos > b + 4 /\ (op.reg = "dpc" => Phase = "held") => local.word = Eff[op.reg]

WritesReg(b) ==
  IF op.reg = "dpc"
  THEN /\ WritingCsr(b, "dpc", op.value)
       /\ pos >= b + 7 /\ Phase = "held" => Eff.dpc = op.value
  ELSE Writing(b, op.reg, op.value) /\ (pos >= b + 4 => Eff[op.reg] = op.value)

ReadsMemory == /\ Reading(1, "a0")
               /\ pos \in 7 .. 9 => Data = Addr
               /\ pos \in 8 .. 9 => dm.progbuf = [do |-> "ld", csr |-> "none"]
               /\ pos \in 9 .. 11 => Eff.a0 = Eff.mem
               /\ pos \in 11 .. 12 => Data = Eff.mem
               /\ pos >= 13 => local.word = Eff.mem
               /\ Writing(12, "a0", local.temp_a0) /\ (pos >= 16 => Eff.a0 = local.temp_a0)

WritesMemory == /\ Reading(1, "a0") /\ Reading(5, "a1")
                /\ pos = 11 => Data = op.value
                /\ pos \in 12 .. 16 => Eff.a1 = op.value
                /\ pos \in 14 .. 16 => Data = Addr
                /\ pos \in 15 .. 16 => dm.progbuf = [do |-> "sd", csr |-> "none"]
                /\ pos >= 16 => Eff.mem = op.value
                /\ Writing(16, "a0", local.temp_a0) /\ (pos >= 20 => Eff.a0 = local.temp_a0)
                /\ Writing(20, "a1", local.temp_a1) /\ (pos >= 24 => Eff.a1 = local.temp_a1)

StepsHart == /\ Reading(0, "dcsr") /\ Reading(14, "dcsr")
             /\ pos \in {5, 19, 20} => local.dcsr_reg = Eff.dcsr
             /\ pos \in 6 .. 12 => Flagged(local.dcsr_reg)
             /\ pos >= 21 => Clear(local.dcsr_reg)
             /\ WritingCsr(5, "dcsr", local.dcsr_reg) /\ WritingCsr(20, "dcsr", local.dcsr_reg)
             /\ IF pos \in 12 .. 26 THEN Flagged(Eff.dcsr) ELSE Clear(Eff.dcsr)
             /\ pos <= 13 => Eff.dpc = shadow[op.hart].dpc
             /\ pos \in 15 .. 19 => Ran
             /\ pos >= 15 => Eff.dpc = IF op.name = "single_step" THEN StepOf(shadow[op.hart].dpc)
                                       ELSE Brk

\* What the call under way has done so far.
Done == /\ op.name = "read_reg" => ReadsReg(0)
        /\ op.name = "read_rfpc_reg" => ReadsReg(2)
        /\ op.name = "write_reg" => WritesReg(0)
        /\ op.name = "write_rfpc_reg" => WritesReg(2)
        /\ op.name = "read_memory" => ReadsMemory
        /\ op.name = "write_memory" => WritesMemory
        /\ op.name \in Steps => StepsHart
        /\ op.name \notin Steps => Clear(Eff.dcsr)
        /\ op.name \in {"read_reg", "read_memory", "write_memory"}
             \/ (op.name = "write_reg" /\ op.reg # "dpc") => Eff.dpc = shadow[op.hart].dpc

IInv == /\ Types
        /\ Pending /\ Requests
        /\ \A k \in Hart : (Called => op.hart # k) => Left(k)
        /\ Called => /\ pos >= 2 => dm.hartsel = op.hart
                     /\ InPhase /\ Done

-----------------------------------------------------------------------------
(* The scripts, access by access.                                          *)

Selects(req) == [do |-> "dmcontrol", hart |-> op.hart, req |-> req]
Commands(kind, r) == [do |-> "command", cmd |-> [kind |-> kind, reg |-> r]]
Waits == [do |-> "busy_wait"]
Puts(src) == [do |-> "put", src |-> src]
Polls(st) == [do |-> "poll", until |-> st]

ReadsAt(b, r, dst) == /\ At(b + 1) = Selects("none") /\ At(b + 2) = Commands("read", r)
                      /\ At(b + 3) = Waits /\ At(b + 4) = [do |-> "get", dst |-> dst]

WritesAt(b, r, src) == /\ At(b + 1) = Selects("none") /\ At(b + 2) = Puts(src)
                       /\ At(b + 3) = Commands("write", r) /\ At(b + 4) = Waits

WritesCsrAt(b, csr, src) ==
  /\ WritesAt(b, "a1", src)
  /\ At(b + 5) = [do |-> "progbuf", instr |-> [do |-> "csrw", csr |-> csr]]
  /\ At(b + 6) = Commands("exec", "none") /\ At(b + 7) = Waits

Length(n) == Len(Script(op)) = n /\ At(n) = [do |-> "return"]

USE HartAssumption, ProgramAssumption, SwitchAssumption, OpAssumption

LEMMA HaltTable ==
  ASSUME op \in Op, op.name = "halt"
  PROVE  Length(3) /\ At(1) = Selects("halt") /\ At(2) = Polls("halted")
BY DEF Length, At, Script, rfpc_dbg_halt, Dmcontrol, Poll, Selects, Polls

LEMMA ResumeTable ==
  ASSUME op \in Op, op.name = "resume"
  PROVE  Length(3) /\ At(1) = Selects("resume") /\ At(2) = Polls("running")
BY DEF Length, At, Script, rfpc_dbg_resume, Dmcontrol, Poll, Selects, Polls

LEMMA ReadRegTable ==
  ASSUME op \in Op, op.name = "read_reg"
  PROVE  Length(5) /\ ReadsAt(0, op.reg, "word")
BY DEF Length, At, Script, rfpc_dbg_read_reg, Dmcontrol, Command, Get, ReadsAt,
       Selects, Commands, Waits

LEMMA WriteRegTable ==
  ASSUME op \in Op, op.name = "write_reg"
  PROVE  IF op.reg = "dpc" THEN Length(8) /\ WritesCsrAt(0, "dpc", "value")
         ELSE Length(5) /\ WritesAt(0, op.reg, "value")
BY DEF Length, At, Script, rfpc_dbg_write_reg, Dmcontrol, Command, Put, Progbuf,
       WritesAt, WritesCsrAt, Selects, Commands, Waits, Puts, Accesses, Regs

LEMMA ReadRfpcTable ==
  ASSUME op \in Op, op.name = "read_rfpc_reg"
  PROVE  /\ Length(9) /\ At(1) = Selects("halt") /\ At(2) = Polls("halted")
         /\ ReadsAt(2, op.reg, "word")
         /\ At(7) = Selects("resume") /\ At(8) = Polls("running")
BY DEF Length, At, Script, read_rfpc_reg, rfpc_dbg_halt, rfpc_dbg_resume,
       rfpc_dbg_read_reg, Dmcontrol, Command, Get, Poll, ReadsAt, Selects, Commands, Waits, Polls

LEMMA WriteRfpcTable ==
  ASSUME op \in Op, op.name = "write_rfpc_reg"
  PROVE  /\ At(1) = Selects("halt") /\ At(2) = Polls("halted")
         /\ IF op.reg = "dpc"
            THEN /\ Length(12) /\ WritesCsrAt(2, "dpc", "value")
                 /\ At(10) = Selects("resume") /\ At(11) = Polls("running")
            ELSE /\ Length(9) /\ WritesAt(2, op.reg, "value")
                 /\ At(7) = Selects("resume") /\ At(8) = Polls("running")
BY DEF Length, At, Script, write_rfpc_reg, rfpc_dbg_halt, rfpc_dbg_resume,
       rfpc_dbg_write_reg, Dmcontrol, Command, Put, Progbuf, Poll,
       WritesAt, WritesCsrAt, Selects, Commands, Waits, Puts, Polls, Accesses, Regs

LEMMA ReadMemoryTable ==
  ASSUME op \in Op, op.name = "read_memory"
  PROVE  /\ Length(17) /\ At(1) = Selects("none") /\ ReadsAt(1, "a0", "temp_a0")
         /\ At(6) = Puts("address")
         /\ At(7) = [do |-> "progbuf", instr |-> [do |-> "ld", csr |-> "none"]]
         /\ At(8) = Commands("write_exec", "a0") /\ At(9) = Waits
         /\ At(10) = Commands("read", "a0") /\ At(11) = Waits
         /\ At(12) = [do |-> "get", dst |-> "word"]
         /\ WritesAt(12, "a0", "temp_a0")
BY DEF Length, At, Script, rfpc_dbg_read_memory, rfpc_dbg_read_reg,
       rfpc_dbg_write_reg, Dmcontrol, Command, Put, Get, Progbuf,
       ReadsAt, WritesAt, Selects, Commands, Waits, Puts

LEMMA WriteMemoryTable ==
  ASSUME op \in Op, op.name = "write_memory"
  PROVE  /\ Length(25) /\ At(1) = Selects("none")
         /\ ReadsAt(1, "a0", "temp_a0") /\ ReadsAt(5, "a1", "temp_a1")
         /\ At(10) = Puts("value") /\ At(11) = Commands("write", "a1") /\ At(12) = Waits
         /\ At(13) = Puts("address")
         /\ At(14) = [do |-> "progbuf", instr |-> [do |-> "sd", csr |-> "none"]]
         /\ At(15) = Commands("write_exec", "a0") /\ At(16) = Waits
         /\ WritesAt(16, "a0", "temp_a0") /\ WritesAt(20, "a1", "temp_a1")
BY DEF Length, At, Script, rfpc_dbg_write_memory, rfpc_dbg_read_reg,
       rfpc_dbg_write_reg, Dmcontrol, Command, Put, Get, Progbuf,
       ReadsAt, WritesAt, Selects, Commands, Waits, Puts

FlagOf == IF op.name = "single_step" THEN "step" ELSE "ebreak"
SetsAt(i, flag) == At(i).do = "flag" /\ At(i).flag = flag /\ At(i).on = TRUE
ClearsAt(i, flag) == At(i).do = "flag" /\ At(i).flag = flag /\ At(i).on = FALSE
CauseOf == IF op.name = "single_step" THEN StepCause ELSE EbreakCause

LEMMA StepsTable ==
  ASSUME op \in Op, op.name \in Steps
  PROVE  /\ Length(28) /\ ReadsAt(0, "dcsr", "dcsr_reg")
         /\ SetsAt(5, FlagOf)
         /\ WritesCsrAt(5, "dcsr", "dcsr_reg")
         /\ At(13) = Selects("resume") /\ At(14) = Polls("halted")
         /\ ReadsAt(14, "dcsr", "dcsr_reg")
         /\ At(19) = [do |-> "check", cause |-> CauseOf]
         /\ ClearsAt(20, FlagOf)
         /\ WritesCsrAt(20, "dcsr", "dcsr_reg")
<1> DEFINE Accessed == /\ Length(28) /\ ReadsAt(0, "dcsr", "dcsr_reg")
                       /\ WritesCsrAt(5, "dcsr", "dcsr_reg")
                       /\ At(13) = Selects("resume") /\ At(14) = Polls("halted")
                       /\ ReadsAt(14, "dcsr", "dcsr_reg") /\ WritesCsrAt(20, "dcsr", "dcsr_reg")
           Flags(f, c) == /\ SetsAt(5, f)
                          /\ At(19) = [do |-> "check", cause |-> c]
                          /\ ClearsAt(20, f)
<1>1. op.name = "single_step" => Accessed /\ Flags("step", 4)
  <2> SUFFICES ASSUME op.name = "single_step" PROVE Accessed /\ Flags("step", 4)
    OBVIOUS
  <2>1. Accessed
    BY DEF Length, SetsAt, ClearsAt, At, Script, rfpc_dbg_single_step, rfpc_dbg_read_reg, rfpc_dbg_write_reg,
       Dmcontrol, Command, Put, Get, Progbuf, SetFlag, CheckCause, Poll, ReadsAt, WritesAt,
       WritesCsrAt, Selects, Commands, Waits, Puts, Polls, StepCause
  <2>2. Flags("step", 4)
    BY DEF Length, SetsAt, ClearsAt, At, Script, rfpc_dbg_single_step, rfpc_dbg_read_reg, rfpc_dbg_write_reg,
       Dmcontrol, Command, Put, Get, Progbuf, SetFlag, CheckCause, Poll, ReadsAt, WritesAt,
       WritesCsrAt, Selects, Commands, Waits, Puts, Polls, StepCause
  <2> QED
    BY <2>1, <2>2
<1>2. op.name = "continue" => Accessed /\ Flags("ebreak", 1)
  <2> SUFFICES ASSUME op.name = "continue" PROVE Accessed /\ Flags("ebreak", 1)
    OBVIOUS
  <2>1. Accessed
    BY DEF Length, SetsAt, ClearsAt, At, Script, rfpc_dbg_continue, rfpc_dbg_read_reg, rfpc_dbg_write_reg,
       Dmcontrol, Command, Put, Get, Progbuf, SetFlag, CheckCause, Poll, ReadsAt, WritesAt,
       WritesCsrAt, Selects, Commands, Waits, Puts, Polls, EbreakCause
  <2>2. Flags("ebreak", 1)
    BY DEF Length, SetsAt, ClearsAt, At, Script, rfpc_dbg_continue, rfpc_dbg_read_reg, rfpc_dbg_write_reg,
       Dmcontrol, Command, Put, Get, Progbuf, SetFlag, CheckCause, Poll, ReadsAt, WritesAt,
       WritesCsrAt, Selects, Commands, Waits, Puts, Polls, EbreakCause
  <2> QED
    BY <2>1, <2>2
<1>3. CASE op.name = "single_step"
  BY <1>1, <1>3 DEF FlagOf, CauseOf, StepCause
<1>4. CASE op.name = "continue"
  BY <1>2, <1>4 DEF FlagOf, CauseOf, EbreakCause
<1> QED
  BY <1>3, <1>4 DEF Steps

\* Where op has the program buffer executed.
Executes(i) == \/ op.name \in Steps \union {"read_memory", "write_memory"}
               \/ op.reg = "dpc" /\ (\/ op.name = "write_reg" /\ i = 6
                                     \/ op.name = "write_rfpc_reg" /\ i = 8)

\* Where op reads data0/data1, and into what.
Fetches(i) ==
  \/ At(i).dst = "dcsr_reg"
  \/ At(i).dst = "temp_a0" /\ i = 5 /\ op.name \in {"read_memory", "write_memory"}
  \/ At(i).dst = "temp_a1" /\ i = 9 /\ op.name = "write_memory"
  \/ At(i).dst = "word" /\ \/ i = 4 /\ op.name = "read_reg"
                           \/ i = 6 /\ op.name = "read_rfpc_reg"
                           \/ i = 12 /\ op.name = "read_memory"

\* What every access of a script is like, wherever it stands.
Formed(i) ==
  \/ At(i).do = "dmcontrol" /\ At(i).hart = op.hart /\ At(i).req \in {"none", "halt", "resume"}
  \/ At(i).do = "put" /\ At(i).src \in {"value", "address", "temp_a0", "temp_a1", "dcsr_reg"}
  \/ /\ At(i).do = "get" /\ At(i).dst \in {"word", "temp_a0", "temp_a1", "dcsr_reg"}
     /\ At(i).dst = "dcsr_reg" => op.name \in Steps
     /\ Fetches(i)
  \/ At(i).do = "progbuf" /\ At(i).instr \in Instrs
  \/ /\ At(i).do = "command" /\ At(i).cmd \in Cmds
     /\ At(i) = [do |-> "command", cmd |-> At(i).cmd]
     /\ At(i + 1).do = "busy_wait"
     /\ At(i).cmd.kind \in {"exec", "write_exec"} => Executes(i)
  \/ At(i).do = "busy_wait"
  \/ At(i).do = "poll" /\ At(i).until \in {"halted", "running"}
  \/ At(i).do = "flag" /\ At(i).flag = FlagOf /\ At(i).on \in BOOLEAN /\ op.name \in Steps
  \/ At(i).do = "check" /\ At(i).cause = CauseOf /\ op.name \in Steps /\ i = 19

WellFormed == /\ At(1).do = "dmcontrol"
              /\ Len(Script(op)) \in 1 .. 28 /\ At(Len(Script(op))).do = "return"
              /\ \A i \in 1 .. Len(Script(op)) - 1 : Formed(i)

LEMMA FormedReads ==
  ASSUME NEW b \in Nat, NEW r \in {"a0", "a1", "dpc", "dcsr"},
         NEW dst \in {"word", "temp_a0", "temp_a1", "dcsr_reg"}, ReadsAt(b, r, dst),
         dst = "dcsr_reg" => op.name \in Steps, Fetches(b + 4)
  PROVE  Formed(b + 1) /\ Formed(b + 2) /\ Formed(b + 3) /\ Formed(b + 4)
BY DEF ReadsAt, Formed, Selects, Commands, Waits, Cmds

LEMMA FormedWrites ==
  ASSUME NEW b \in Nat, NEW r \in {"a0", "a1"},
         NEW src \in {"value", "temp_a0", "temp_a1", "dcsr_reg"}, WritesAt(b, r, src)
  PROVE  Formed(b + 1) /\ Formed(b + 2) /\ Formed(b + 3) /\ Formed(b + 4)
BY DEF WritesAt, Formed, Selects, Commands, Waits, Puts, Cmds

LEMMA FormedWritesCsr ==
  ASSUME NEW b \in Nat, NEW csr \in {"dpc", "dcsr"}, NEW src \in {"value", "dcsr_reg"},
         WritesCsrAt(b, csr, src), Executes(b + 6)
  PROVE  /\ Formed(b + 1) /\ Formed(b + 2) /\ Formed(b + 3) /\ Formed(b + 4)
         /\ Formed(b + 5) /\ Formed(b + 6) /\ Formed(b + 7)
<1>1. Formed(b + 1) /\ Formed(b + 2) /\ Formed(b + 3) /\ Formed(b + 4)
  BY FormedWrites DEF WritesCsrAt
<1>2. Formed(b + 5) /\ Formed(b + 6) /\ Formed(b + 7)
  BY DEF WritesCsrAt, Formed, Commands, Waits, Cmds, Instrs
<1> QED
  BY <1>1, <1>2

\* It is enough to look at the places one by one.
LEMMA WellFormedIf ==
  ASSUME NEW n \in 2 .. 28, Length(n), At(1).do = "dmcontrol", \A i \in 1 .. n - 1 : Formed(i)
  PROVE  WellFormed
BY DEF WellFormed, Length

LEMMA ScriptsWellFormed == op \in Op => WellFormed
<1> SUFFICES ASSUME op \in Op PROVE WellFormed
  OBVIOUS
<1>1. CASE op.name = "halt"
  <2>1. Length(3) /\ At(1).do = "dmcontrol" /\ Formed(1) /\ Formed(2)
    BY <1>1, HaltTable DEF Formed, Selects, Polls
  <2> QED
    BY <2>1, WellFormedIf
<1>2. CASE op.name = "resume"
  <2>1. Length(3) /\ At(1).do = "dmcontrol" /\ Formed(1) /\ Formed(2)
    BY <1>2, ResumeTable DEF Formed, Selects, Polls
  <2> QED
    BY <2>1, WellFormedIf
<1>3. CASE op.name = "read_reg"
  <2>0. Fetches(0 + 4)
    BY <1>3, ReadRegTable DEF ReadsAt, Fetches
  <2>1. Length(5) /\ At(1).do = "dmcontrol" /\ Formed(0 + 1) /\ Formed(0 + 2) /\ Formed(0 + 3) /\ Formed(0 + 4)
    BY <1>3, <2>0, ReadRegTable, FormedReads DEF ReadsAt, Selects, Accesses, Regs
  <2> QED
    BY <2>1, WellFormedIf
<1>4. CASE op.name = "write_reg" /\ op.reg # "dpc"
  <2>1. Length(5) /\ At(1).do = "dmcontrol" /\ Formed(0 + 1) /\ Formed(0 + 2) /\ Formed(0 + 3) /\ Formed(0 + 4)
    BY <1>4, WriteRegTable, FormedWrites DEF WritesAt, Selects, Accesses, Regs
  <2> QED
    BY <2>1, WellFormedIf
<1>5. CASE op.name = "write_reg" /\ op.reg = "dpc"
  <2>1. Length(8) /\ At(1).do = "dmcontrol"
    BY <1>5, WriteRegTable DEF WritesCsrAt, WritesAt, Selects
  <2>2. /\ Formed(0 + 1) /\ Formed(0 + 2) /\ Formed(0 + 3) /\ Formed(0 + 4)
        /\ Formed(0 + 5) /\ Formed(0 + 6) /\ Formed(0 + 7)
    BY <1>5, WriteRegTable, FormedWritesCsr DEF Executes
  <2> QED
    BY <2>1, <2>2, WellFormedIf
<1>6. CASE op.name = "read_rfpc_reg"
  <2>1. /\ Length(9) /\ At(1).do = "dmcontrol"
        /\ Formed(1) /\ Formed(2) /\ Formed(7) /\ Formed(8)
    BY <1>6, ReadRfpcTable DEF Formed, Selects, Polls
  <2>0. Fetches(2 + 4)
    BY <1>6, ReadRfpcTable DEF ReadsAt, Fetches
  <2>2. Formed(2 + 1) /\ Formed(2 + 2) /\ Formed(2 + 3) /\ Formed(2 + 4)
    BY <1>6, <2>0, ReadRfpcTable, FormedReads DEF Accesses, Regs
  <2> QED
    BY <2>1, <2>2, WellFormedIf
<1>7. CASE op.name = "write_rfpc_reg" /\ op.reg # "dpc"
  <2>1. /\ Length(9) /\ At(1).do = "dmcontrol"
        /\ Formed(1) /\ Formed(2) /\ Formed(7) /\ Formed(8)
    BY <1>7, WriteRfpcTable DEF Formed, Selects, Polls
  <2>2. Formed(2 + 1) /\ Formed(2 + 2) /\ Formed(2 + 3) /\ Formed(2 + 4)
    BY <1>7, WriteRfpcTable, FormedWrites DEF Accesses, Regs
  <2> QED
    BY <2>1, <2>2, WellFormedIf
<1>8. CASE op.name = "write_rfpc_reg" /\ op.reg = "dpc"
  <2>1. /\ Length(12) /\ At(1).do = "dmcontrol"
        /\ Formed(1) /\ Formed(2) /\ Formed(10) /\ Formed(11)
    BY <1>8, WriteRfpcTable DEF Formed, Selects, Polls
  <2>2. /\ Formed(2 + 1) /\ Formed(2 + 2) /\ Formed(2 + 3) /\ Formed(2 + 4)
        /\ Formed(2 + 5) /\ Formed(2 + 6) /\ Formed(2 + 7)
    BY <1>8, WriteRfpcTable, FormedWritesCsr DEF Executes
  <2> QED
    BY <2>1, <2>2, WellFormedIf
<1>9. CASE op.name = "read_memory"
  <2> USE ReadMemoryTable, <1>9
  <2>1. Length(17) /\ At(1).do = "dmcontrol" /\ Formed(1)
    BY DEF Selects, Formed
  <2>0. Fetches(1 + 4)
    BY DEF ReadsAt, Fetches
  <2>2. Formed(1 + 1) /\ Formed(1 + 2) /\ Formed(1 + 3) /\ Formed(1 + 4)
    BY <2>0, FormedReads
  <2>3. /\ Formed(6) /\ Formed(7) /\ Formed(8) /\ Formed(9) /\ Formed(10) /\ Formed(11)
        /\ Formed(12)
    BY DEF Formed, Fetches, Executes, Puts, Commands, Cmds, Instrs, Waits
  <2>4. Formed(12 + 1) /\ Formed(12 + 2) /\ Formed(12 + 3) /\ Formed(12 + 4)
    BY FormedWrites
  <2> QED
    BY <2>1, <2>2, <2>3, <2>4, WellFormedIf
<1>10. CASE op.name = "write_memory"
  <2> USE WriteMemoryTable, <1>10
  <2>1. Length(25) /\ At(1).do = "dmcontrol" /\ Formed(1)
    BY DEF Selects, Formed
  <2>0. Fetches(1 + 4)
    BY DEF ReadsAt, Fetches
  <2>2. Formed(1 + 1) /\ Formed(1 + 2) /\ Formed(1 + 3) /\ Formed(1 + 4)
    BY <2>0, FormedReads
  <2>7. Fetches(5 + 4)
    BY DEF ReadsAt, Fetches
  <2>3. Formed(5 + 1) /\ Formed(5 + 2) /\ Formed(5 + 3) /\ Formed(5 + 4)
    BY <2>7, FormedReads
  <2>4. /\ Formed(10) /\ Formed(11) /\ Formed(12) /\ Formed(13) /\ Formed(14) /\ Formed(15)
        /\ Formed(16)
    BY DEF Formed, Executes, Puts, Commands, Cmds, Instrs, Waits
  <2>5. Formed(16 + 1) /\ Formed(16 + 2) /\ Formed(16 + 3) /\ Formed(16 + 4)
    BY FormedWrites
  <2>6. Formed(20 + 1) /\ Formed(20 + 2) /\ Formed(20 + 3) /\ Formed(20 + 4)
    BY FormedWrites
  <2> QED
    BY <2>1, <2>2, <2>3, <2>4, <2>5, <2>6, WellFormedIf
<1>11. CASE op.name \in Steps
  <2> USE StepsTable, <1>11
  <2>1. Length(28) /\ At(1).do = "dmcontrol"
    BY DEF ReadsAt, Selects
  <2>2. Formed(5) /\ Formed(20)
    BY DEF Formed, SetsAt, ClearsAt
  <2>7. Formed(13) /\ Formed(14) /\ Formed(19)
    BY DEF Formed, Selects, Polls
  <2>8. Fetches(0 + 4) /\ Fetches(14 + 4)
    BY DEF ReadsAt, Fetches
  <2>3. Formed(0 + 1) /\ Formed(0 + 2) /\ Formed(0 + 3) /\ Formed(0 + 4)
    BY <2>8, FormedReads
  <2>4. /\ Formed(5 + 1) /\ Formed(5 + 2) /\ Formed(5 + 3) /\ Formed(5 + 4)
        /\ Formed(5 + 5) /\ Formed(5 + 6) /\ Formed(5 + 7)
    BY FormedWritesCsr DEF Executes
  <2>5. Formed(14 + 1) /\ Formed(14 + 2) /\ Formed(14 + 3) /\ Formed(14 + 4)
    BY <2>8, FormedReads
  <2>6. /\ Formed(20 + 1) /\ Formed(20 + 2) /\ Formed(20 + 3) /\ Formed(20 + 4)
        /\ Formed(20 + 5) /\ Formed(20 + 6) /\ Formed(20 + 7)
    BY FormedWritesCsr DEF Executes
  <2> QED
    BY <2>1, <2>2, <2>3, <2>4, <2>5, <2>6, <2>7, WellFormedIf
<1> QED
  BY <1>1, <1>2, <1>3, <1>4, <1>5, <1>6, <1>7, <1>8, <1>9, <1>10, <1>11
  DEF Names, Accesses, Steps

-----------------------------------------------------------------------------
(* What the accesses do.                                                   *)

LEMMA InstrIsAt ==
  ASSUME op \in Op
  PROVE  Instr = At(pos) /\ Scripts[op] = Script(op)
BY DEF Instr, Scripts, At

LEMMA BusyShape ==
  ASSUME IInv, Called
  PROVE  /\ op \in Op /\ WellFormed /\ Instr = At(pos) /\ pos \in Nat \ {0}
         /\ pos \in 1 .. Len(Script(op)) - 1 => Formed(pos)
         /\ pos = Len(Script(op)) => At(pos).do = "return"
         /\ pos \in 1 .. Len(Script(op))
         /\ op.hart \in Hart /\ Target \in Harts1
BY ScriptsWellFormed, InstrIsAt DEF IInv, Types, WellFormed, Target

\* Only a wait finds a command under way.
LEMMA NoneUnderWay ==
  ASSUME IInv, Called, At(pos).do # "busy_wait"
  PROVE  dm.cmd = NoCmd /\ Eff = Target /\ Data = dm.data
<1>1. ASSUME dm.cmd # NoCmd PROVE FALSE
  <2>1. pos > 1 /\ At(pos - 1).do = "command"
    BY <1>1 DEF IInv, Pending
  <2>2. Formed(pos - 1)
    BY <2>1, BusyShape DEF WellFormed
  <2>3. At((pos - 1) + 1).do = "busy_wait"
    BY <2>1, <2>2 DEF Formed
  <2> QED
    BY <2>3, BusyShape
<1> QED
  BY <1>1 DEF Eff, Data, Answered, NoCmd

EffKept == /\ Eff.a0' = Eff.a0 /\ Eff.a1' = Eff.a1 /\ Eff.dpc' = Eff.dpc
           /\ Eff.mem' = Eff.mem /\ Eff.dcsr' = Eff.dcsr
BufKept == dm.progbuf' = dm.progbuf

Effect ==
  LET c == At(pos).cmd
  IN /\ At(pos).do \in {"dmcontrol", "busy_wait", "poll", "check"}
          => EffKept /\ Data' = Data /\ BufKept /\ local' = local
     /\ At(pos).do = "put"
          => EffKept /\ Data' = Operand(At(pos).src) /\ BufKept /\ local' = local
     /\ At(pos).do = "progbuf"
          => EffKept /\ Data' = Data /\ dm.progbuf' = At(pos).instr /\ local' = local
     /\ At(pos).do = "command" /\ c.kind = "read"
          => EffKept /\ Data' = Eff[c.reg] /\ BufKept /\ local' = local
     /\ At(pos).do = "command" /\ c.kind = "write"
          => Eff' = [Eff EXCEPT ![c.reg] = Data] /\ Data' = Data /\ BufKept /\ local' = local
     /\ At(pos).do = "command" /\ c.kind = "exec"
          => Eff' = RunProgbuf(Eff) /\ Data' = 0 /\ BufKept /\ local' = local
     /\ At(pos).do = "command" /\ c.kind = "write_exec"
          => /\ Eff' = RunProgbuf([Eff EXCEPT ![c.reg] = Data])
             /\ Data' = Data /\ BufKept /\ local' = local
     /\ At(pos).do = "get"
          => /\ EffKept /\ Data' = Data /\ BufKept
             /\ local' = [local EXCEPT ![At(pos).dst] = Data]
     /\ At(pos).do = "flag"
          => /\ EffKept /\ Data' = Data /\ BufKept
             /\ local' = [local EXCEPT !.dcsr_reg =
                   IF At(pos).flag = "step" THEN Dcsr(Cause(@), HasEbreak(@), At(pos).on)
                   ELSE Dcsr(Cause(@), At(pos).on, HasStep(@))]

Advances == /\ driver = "busy" /\ driver' = "busy" /\ pos' = pos + 1
            /\ op' = op /\ shadow' = shadow

LEMMA Unmoved ==
  ASSUME UNCHANGED <<op, dm, hart>>
  PROVE  Eff' = Eff /\ Data' = Data /\ Target' = Target
<1>1. Target' = Target
  BY DEF Target
<1>2. Executed(Target)' = Executed(Target)
  BY <1>1 DEF Executed, RunProgbuf, WriteCsr
<1> QED
  BY <1>1, <1>2 DEF Eff, Data, Answered

LEMMA Effects ==
  ASSUME IInv, Driver, driver' = "busy", pos' # pos
  PROVE  Advances /\ Effect
<1>1. driver = "busy" /\ Called /\ Instr = At(pos)
  BY InstrIsAt DEF IInv, Types, Driver, WriteDmcontrol, WriteData, WriteProgbuf, WriteCommand, ReadData, ChangeFlag,
     CheckDcsrCause, PollDone, PollAgain, Timeout, Return, Do, Waiting, Called
<1>2. Types /\ Target \in Harts1 /\ op.hart \in Hart /\ dm.cmderr = FALSE
  BY <1>1, BusyShape DEF IInv, Types
<1>3. At(pos).do # "busy_wait" => dm.cmd = NoCmd /\ Eff = Target /\ Data = dm.data
  BY <1>1, NoneUnderWay
<1> USE DEF Do, Next1, Advances
<1>4. CASE WriteDmcontrol
  <2>1. dm'.cmd = NoCmd /\ dm'.data = dm.data /\ dm'.progbuf = dm.progbuf
    BY <1>1, <1>2, <1>3, <1>4 DEF WriteDmcontrol, Types
  <2>2. PICK k : \/ hart' = hart
                 \/ hart' = [hart EXCEPT ![k].resuming = TRUE]
                 \/ hart' = [hart EXCEPT ![k].state = "running"]
    BY <1>4 DEF WriteDmcontrol
  <2>3. /\ Target'.a0 = Target.a0 /\ Target'.a1 = Target.a1 /\ Target'.dpc = Target.dpc
        /\ Target'.mem = Target.mem /\ Target'.dcsr = Target.dcsr
    <3>1. hart \in [Hart -> Harts1] /\ op' = op
      BY <1>2, <1>4 DEF Types, WriteDmcontrol
    <3> QED
      BY <1>2, <2>2, <3>1 DEF Target, Harts1
  <2>4. Eff' = Target' /\ Data' = dm'.data
    BY <2>1 DEF Eff, Data, Answered, NoCmd
  <2> QED
    BY <1>1, <1>3, <1>4, <2>1, <2>3, <2>4 DEF WriteDmcontrol, Effect, EffKept, BufKept
<1>5. CASE WriteData
  <2>1. /\ dm'.cmd = NoCmd /\ dm'.data = Operand(At(pos).src) /\ dm'.progbuf = dm.progbuf
        /\ Target' = Target
    BY <1>1, <1>2, <1>3, <1>5 DEF WriteData, Types, Target
  <2>2. Eff' = Target' /\ Data' = dm'.data
    BY <2>1 DEF Eff, Data, Answered, NoCmd
  <2> QED
    BY <1>1, <1>3, <1>5, <2>1, <2>2 DEF WriteData, Effect, EffKept, BufKept
<1>6. CASE WriteProgbuf
  <2>1. dm'.cmd = NoCmd /\ dm'.data = dm.data /\ dm'.progbuf = At(pos).instr /\ Target' = Target
    BY <1>1, <1>2, <1>3, <1>6 DEF WriteProgbuf, Types, Target
  <2>2. Eff' = Target' /\ Data' = dm'.data
    BY <2>1 DEF Eff, Data, Answered, NoCmd
  <2> QED
    BY <1>1, <1>3, <1>6, <2>1, <2>2 DEF WriteProgbuf, Effect, EffKept
<1>7. CASE WriteCommand
  <2>1. dm'.cmd = At(pos).cmd /\ dm'.data = dm.data /\ dm'.progbuf = dm.progbuf /\ Target' = Target
    BY <1>1, <1>2, <1>3, <1>7 DEF WriteCommand, Types, Target
  <2>2. At(pos).cmd # NoCmd
    BY <1>1, <1>7, BusyShape DEF WriteCommand, Formed, Cmds, NoCmd
  <2>3. Eff' = Executed(Target)' /\ Data' = Answered(Target)'
    BY <2>1, <2>2 DEF Eff, Data
  <2>4. /\ At(pos).do = "command" /\ Advances /\ BufKept /\ local' = local
        /\ dm.cmd = NoCmd /\ Eff = Target /\ Data = dm.data
    BY <1>1, <1>3, <1>7, <2>1 DEF WriteCommand, BufKept
  <2> DEFINE c == At(pos).cmd
  <2>5. CASE c.kind = "read"
    BY <2>1, <2>3, <2>4, <2>5 DEF Executed, Answered, Effect, EffKept
  <2>6. CASE c.kind = "write"
    BY <2>1, <2>3, <2>4, <2>6 DEF Executed, Answered, Effect
  <2>7. ASSUME NEW h PROVE RunProgbuf(h)' = RunProgbuf(h)
    BY <2>1 DEF RunProgbuf, WriteCsr
  <2>8. CASE c.kind = "exec"
    BY <2>1, <2>3, <2>4, <2>7, <2>8 DEF Executed, Answered, Effect
  <2>9. CASE c.kind = "write_exec"
    BY <2>1, <2>3, <2>4, <2>7, <2>9 DEF Executed, Answered, Effect
  <2> QED
    BY <1>1, <1>7, <2>4, <2>5, <2>6, <2>8, <2>9, BusyShape DEF Formed, Cmds
<1>8. CASE ReadData \/ ChangeFlag \/ CheckDcsrCause
  <2>1. Eff' = Eff /\ Data' = Data /\ dm' = dm
    BY <1>8, Unmoved DEF ReadData, ChangeFlag, CheckDcsrCause
  <2> QED
    BY <1>1, <1>2, <1>3, <1>8, <2>1 DEF ReadData, ChangeFlag, CheckDcsrCause, Effect, EffKept, BufKept
<1>9. CASE PollDone
  <2>1. Eff' = Eff /\ Data' = Data /\ dm' = dm
    BY <1>9, Unmoved DEF PollDone
  <2> QED
    BY <1>1, <1>2, <1>3, <1>9, <2>1 DEF PollDone, Waiting, Effect, EffKept, BufKept
<1>10. ~PollAgain /\ ~Timeout /\ ~Return
  BY DEF PollAgain, Timeout, Return
<1> QED
  BY <1>4, <1>5, <1>6, <1>7, <1>8, <1>9, <1>10 DEF Driver

-----------------------------------------------------------------------------
(* What the parts of scripts do.                                           *)

LEMMA DcsrFields ==
  ASSUME NEW c \in 0 .. 7, NEW e \in BOOLEAN, NEW s \in BOOLEAN
  PROVE  /\ Dcsr(c, e, s) \in Dcsrs /\ Cause(Dcsr(c, e, s)) = c
         /\ HasEbreak(Dcsr(c, e, s)) <=> e
         /\ HasStep(Dcsr(c, e, s)) <=> s
BY DEF Dcsr, Dcsrs, Cause, HasEbreak, HasStep

LEMMA CauseBits == \A d \in Dcsrs : Cause(d) \in 0 .. 7
BY DEF Dcsrs, Cause

Fields0 == [state : {"halted", "running"}, resuming : BOOLEAN, a0 : Word, a1 : Word,
            dpc : Word, mem : Word, dcsr : Dcsrs]

LEMMA RunTyped ==
  ASSUME NEW h \in Fields0, dm.progbuf \in Instrs
  PROVE  RunProgbuf(h) \in Fields0
<1>1. CASE dm.progbuf.do = "csrw"
  <2>1. CASE dm.progbuf.csr = "dpc"
    BY <1>1, <2>1 DEF Instrs, RunProgbuf, WriteCsr, Fields0
  <2>2. CASE dm.progbuf.csr = "dcsr"
    <3> DEFINE d == Dcsr(Cause(h.dcsr), HasEbreak(h.a1), HasStep(h.a1))
    <3>1. d \in Dcsrs
      BY DcsrFields, CauseBits DEF Fields0, HasEbreak, HasStep
    <3>2. RunProgbuf(h) = [h EXCEPT !.dcsr = d]
      BY <1>1, <2>2 DEF RunProgbuf, WriteCsr
    <3> HIDE DEF d
    <3> QED
      BY <3>1, <3>2 DEF Fields0
  <2> QED
    BY <1>1, <2>1, <2>2 DEF Instrs
<1>2. CASE dm.progbuf.do = "ld"
  BY <1>2 DEF Instrs, RunProgbuf, Fields0, Word
<1>3. CASE dm.progbuf.do = "sd"
  BY <1>3 DEF Instrs, RunProgbuf, Fields0, Word
<1> QED
  BY <1>1, <1>2, <1>3 DEF Instrs

LEMMA EffTyped ==
  ASSUME IInv, Called
  PROVE  Eff \in Fields0 /\ Data \in Word
<1>1. Target \in Fields0 /\ dm.data \in Word /\ dm.progbuf \in Instrs
  <2>1. Target \in Harts1 /\ dm.data \in Word /\ dm.progbuf \in Instrs
    BY BusyShape DEF IInv, Types
  <2> QED
    BY <2>1 DEF Harts1, Fields0, Word
<1>2. CASE dm.cmd = NoCmd
  BY <1>1, <1>2 DEF Eff, Data, Answered, NoCmd
<1>3. CASE dm.cmd # NoCmd
  <2>1. dm.cmd \in Cmds
    <3>1. pos > 1 /\ At(pos - 1) = [do |-> "command", cmd |-> dm.cmd]
      BY <1>3 DEF IInv, Pending
    <3>2. Formed(pos - 1)
      BY <3>1, BusyShape DEF WellFormed
    <3> QED
      BY <3>1, <3>2 DEF Formed
  <2>2. Data \in Word
    BY <1>1, <2>1 DEF Data, Answered, Cmds, Fields0, Dcsrs, Word
  <2>3. CASE dm.cmd.kind = "read"
    BY <1>1, <1>3, <2>2, <2>3 DEF Eff, Executed
  <2>4. CASE dm.cmd.kind = "exec"
    BY <1>1, <1>3, <2>2, <2>4, RunTyped DEF Eff, Executed
  <2>5. [Target EXCEPT !.a0 = dm.data] \in Fields0 /\ [Target EXCEPT !.a1 = dm.data] \in Fields0
    BY <1>1 DEF Fields0
  <2>6. CASE dm.cmd.kind = "write"
    BY <1>3, <2>1, <2>5, <2>2, <2>6 DEF Eff, Executed, Cmds
  <2>7. CASE dm.cmd.kind = "write_exec"
    BY <1>1, <1>3, <2>1, <2>5, <2>2, <2>7, RunTyped DEF Eff, Executed, Cmds
  <2> QED
    BY <2>1, <2>2, <2>3, <2>4, <2>6, <2>7 DEF Cmds
<1> QED
  BY <1>2, <1>3

LEMMA ReadingStep ==
  ASSUME Advances, Effect, NEW b \in Nat, NEW r, NEW dst, ReadsAt(b, r, dst), pos \in b + 1 .. b + 4,
         r \in {"a0", "a1", "dpc", "dcsr"},
         Reading(b, r)
  PROVE  /\ pos' \in b + 3 .. b + 4 => Data' = Eff'[r]
         /\ EffKept /\ BufKept
         /\ IF pos = b + 4 THEN local' = [local EXCEPT ![dst] = Eff[r]] ELSE local' = local
<1> USE DEF ReadsAt, Effect, Selects, Commands, Waits, Reading, EffKept, Advances
<1>1. CASE pos = b + 1
  BY <1>1
<1>2. CASE pos = b + 2
  BY <1>2
<1>3. CASE pos = b + 3
  BY <1>3
<1>4. CASE pos = b + 4
  BY <1>4
<1> QED
  BY <1>1, <1>2, <1>3, <1>4

LEMMA WritingStep ==
  ASSUME Advances, Effect, Eff \in Fields0, NEW b \in Nat, NEW r \in {"a0", "a1"}, NEW src,
         WritesAt(b, r, src), pos \in b + 1 .. b + 4, Writing(b, r, Operand(src))
  PROVE  /\ pos = b + 2 => Data' = Operand(src)
         /\ pos \in b + 3 .. b + 4 => Eff'[r] = Operand(src)
         /\ Eff'.dpc = Eff.dpc /\ Eff'.mem = Eff.mem /\ Eff'.dcsr = Eff.dcsr
         /\ r = "a0" => Eff'.a1 = Eff.a1
         /\ r = "a1" => Eff'.a0 = Eff.a0
         /\ BufKept /\ local' = local
<1> USE DEF WritesAt, Effect, Selects, Commands, Puts, Waits, Writing, EffKept, Advances
<1>1. CASE pos = b + 1
  BY <1>1
<1>2. CASE pos = b + 2
  BY <1>2
<1>3. CASE pos = b + 3
  BY <1>3 DEF Fields0
<1>4. CASE pos = b + 4
  BY <1>4
<1> QED
  BY <1>1, <1>2, <1>3, <1>4

LEMMA WritingCsrStep ==
  ASSUME Advances, Effect, Eff \in Fields0, NEW b \in Nat, NEW csr \in {"dpc", "dcsr"},
         NEW src, WritesCsrAt(b, csr, src), pos \in b + 1 .. b + 7, WritingCsr(b, csr, Operand(src))
  PROVE  /\ pos = b + 2 => Data' = Operand(src)
         /\ pos \in b + 3 .. b + 6 => Eff'.a1 = Operand(src)
         /\ pos \in b + 5 .. b + 6 => dm'.progbuf = [do |-> "csrw", csr |-> csr]
         /\ pos # b + 6 => Eff'.dpc = Eff.dpc /\ Eff'.dcsr = Eff.dcsr
         /\ pos = b + 6 => Eff' = WriteCsr(Eff, csr, Operand(src))
         /\ local' = local
<1>1. CASE pos \in b + 1 .. b + 4
  <2>1. WritesAt(b, "a1", src) /\ Writing(b, "a1", Operand(src))
    BY DEF WritesCsrAt, WritingCsr, Writing
  <2> QED
    BY <1>1, <2>1, WritingStep
<1> USE DEF WritesCsrAt, Effect, Commands, Waits, WritingCsr, EffKept, BufKept, Advances
<1>2. CASE pos = b + 5
  BY <1>2
<1>3. CASE pos = b + 6
  <2>1. Eff' = RunProgbuf(Eff) /\ dm'.progbuf = dm.progbuf /\ local' = local
    BY <1>3
  <2>2. dm.progbuf = [do |-> "csrw", csr |-> csr] /\ Eff.a1 = Operand(src)
    BY <1>3
  <2>3. Eff' = WriteCsr(Eff, csr, Operand(src))
    BY <2>1, <2>2 DEF RunProgbuf
  <2>4. WriteCsr(Eff, csr, Operand(src)).a1 = Eff.a1
    BY DEF WriteCsr, Fields0
  <2> QED
    BY <1>3, <2>1, <2>2, <2>3, <2>4
<1>4. CASE pos = b + 7
  BY <1>4
<1> QED
  BY <1>1, <1>2, <1>3, <1>4

LEMMA FlagsWritten ==
  ASSUME NEW d \in Dcsrs, NEW v \in Dcsrs
  PROVE  /\ Dcsr(Cause(d), HasEbreak(v), HasStep(v)) \in Dcsrs
         /\ Cause(Dcsr(Cause(d), HasEbreak(v), HasStep(v))) = Cause(d)
         /\ HasEbreak(Dcsr(Cause(d), HasEbreak(v), HasStep(v))) <=> HasEbreak(v)
         /\ HasStep(Dcsr(Cause(d), HasEbreak(v), HasStep(v))) <=> HasStep(v)
<1>1. Cause(d) \in 0 .. 7 /\ HasEbreak(v) \in BOOLEAN /\ HasStep(v) \in BOOLEAN
  BY CauseBits DEF HasEbreak, HasStep
<1> QED
  BY <1>1, DcsrFields

LEMMA FlagChanged ==
  ASSUME NEW d \in Dcsrs, NEW on \in BOOLEAN
  PROVE  /\ Dcsr(Cause(d), HasEbreak(d), on) \in Dcsrs
         /\ HasEbreak(Dcsr(Cause(d), HasEbreak(d), on)) <=> HasEbreak(d)
         /\ HasStep(Dcsr(Cause(d), HasEbreak(d), on)) <=> on
         /\ Dcsr(Cause(d), on, HasStep(d)) \in Dcsrs
         /\ HasEbreak(Dcsr(Cause(d), on, HasStep(d))) <=> on
         /\ HasStep(Dcsr(Cause(d), on, HasStep(d))) <=> HasStep(d)
<1>1. Cause(d) \in 0 .. 7 /\ HasEbreak(d) \in BOOLEAN /\ HasStep(d) \in BOOLEAN
  BY CauseBits DEF HasEbreak, HasStep
<1> QED
  BY <1>1, DcsrFields

Locals == [{"temp_a0", "temp_a1", "dcsr_reg", "word"} -> Word]

LEMMA ReadsRegStep ==
  ASSUME Advances, Effect, local \in Locals, NEW b \in Nat, ReadsAt(b, op.reg, "word"),
         op.reg \in Regs, pos \in Nat,
         pos \notin b + 1 .. b + 4 => At(pos).do \in {"dmcontrol", "poll"},
         op.reg = "dpc" /\ Phase' = "held" => pos <= b + 4,
         ReadsReg(b)
  PROVE  ReadsReg(b)' /\ EffKept
<1> USE DEF ReadsReg, Advances, Locals, Regs
<1>1. CASE pos \in b + 1 .. b + 4
  <2>1. /\ pos' \in b + 3 .. b + 4 => Data' = Eff'[op.reg]
        /\ EffKept
        /\ IF pos = b + 4 THEN local' = [local EXCEPT !["word"] = Eff[op.reg]] ELSE local' = local
    BY <1>1, ReadingStep
  <2>2. pos = b + 4 => local'.word = Eff'[op.reg]
    BY <2>1 DEF EffKept
  <2> QED
    BY <1>1, <2>1, <2>2 DEF Reading
<1>2. CASE pos \notin b + 1 .. b + 4
  <2>1. EffKept /\ local' = local
    BY <1>2 DEF Effect
  <2> QED
    BY <1>2, <2>1 DEF Reading, EffKept
<1> QED
  BY <1>1, <1>2

LEMMA WritesRegStep ==
  ASSUME Advances, Effect, Eff \in Fields0, NEW b \in Nat, WritesAt(b, op.reg, "value"),
         op.reg \in {"a0", "a1"}, pos \in Nat,
         pos \notin b + 1 .. b + 4 => At(pos).do \in {"dmcontrol", "poll"},
         WritesReg(b)
  PROVE  WritesReg(b)' /\ Eff'.dpc = Eff.dpc /\ Eff'.dcsr = Eff.dcsr
<1> USE DEF WritesReg, Advances, Writing
<1>0. Operand("value") = op.value
  BY DEF Operand
<1>1. CASE pos \in b + 1 .. b + 4
  BY <1>0, <1>1, WritingStep
<1>2. CASE pos \notin b + 1 .. b + 4
  <2>1. EffKept
    BY <1>2 DEF Effect
  <2> QED
    BY <1>2, <2>1 DEF EffKept
<1> QED
  BY <1>1, <1>2

LEMMA WritesDpcStep ==
  ASSUME Advances, Effect, Eff \in Fields0, NEW b \in Nat, WritesCsrAt(b, "dpc", "value"),
         op.reg = "dpc", op.value \in 0 .. ProgLen - 1, pos \in Nat,
         pos \notin b + 1 .. b + 7 => At(pos).do \in {"dmcontrol", "poll"},
         Phase' = "held" => pos <= b + 7,
         WritesReg(b), pos = b + 7 => Phase = "held"
  PROVE  WritesReg(b)' /\ Eff'.dcsr = Eff.dcsr
<1> USE DEF WritesReg, Advances, WritingCsr
<1>0. Operand("value") = op.value
  BY DEF Operand
<1>1. CASE pos \in b + 1 .. b + 7
  <2>1. /\ pos = b + 2 => Data' = op.value
        /\ pos \in b + 3 .. b + 6 => Eff'.a1 = op.value
        /\ pos \in b + 5 .. b + 6 => dm'.progbuf = [do |-> "csrw", csr |-> "dpc"]
        /\ pos # b + 6 => Eff'.dpc = Eff.dpc /\ Eff'.dcsr = Eff.dcsr
        /\ pos = b + 6 => Eff' = WriteCsr(Eff, "dpc", op.value)
    BY <1>0, <1>1, WritingCsrStep
  <2>2. pos = b + 6 => Eff'.dpc = op.value /\ Eff'.dcsr = Eff.dcsr
    BY <2>1 DEF WriteCsr, Fields0
  <2> QED
    BY <1>1, <2>1, <2>2
<1>2. CASE pos \notin b + 1 .. b + 7
  <2>1. EffKept
    BY <1>2 DEF Effect
  <2> QED
    BY <1>2, <2>1 DEF EffKept
<1> QED
  BY <1>1, <1>2

LEMMA ReadsMemoryStep ==
  ASSUME Advances, Effect, Eff \in Fields0, local \in Locals, op \in Op, op.name = "read_memory",
         pos \in 1 .. 16, ReadsMemory
  PROVE  ReadsMemory' /\ Eff'.dpc = Eff.dpc /\ Eff'.dcsr = Eff.dcsr
<1> USE DEF Advances, ReadsMemory, Reading, Writing
<1>0. /\ At(1).do = "dmcontrol" /\ ReadsAt(1, "a0", "temp_a0")
      /\ At(6) = Puts("address")
      /\ At(7) = [do |-> "progbuf", instr |-> [do |-> "ld", csr |-> "none"]]
      /\ At(8) = Commands("write_exec", "a0") /\ At(9).do = "busy_wait"
      /\ At(10) = Commands("read", "a0") /\ At(11).do = "busy_wait"
      /\ At(12) = [do |-> "get", dst |-> "word"]
      /\ WritesAt(12, "a0", "temp_a0")
  BY ReadMemoryTable DEF Selects, Waits
<1>1. CASE pos = 1 \/ pos = 9 \/ pos = 11
  BY <1>0, <1>1 DEF Effect, EffKept
<1>2. CASE pos \in 1 + 1 .. 1 + 4
  <2>1. /\ pos' \in 4 .. 5 => Data' = Eff'["a0"]
        /\ EffKept
    BY <1>0, <1>2, ReadingStep
  <2> QED
    BY <1>2, <2>1 DEF EffKept
<1>3. CASE pos = 6
  BY <1>0, <1>3 DEF Effect, EffKept, Puts, Operand
<1>4. CASE pos = 7
  BY <1>0, <1>4 DEF Effect, EffKept
<1>5. CASE pos = 8
  <2>1. /\ dm.progbuf = [do |-> "ld", csr |-> "none"] /\ Data = Addr
        /\ At(pos).do = "command" /\ At(pos).cmd.kind = "write_exec" /\ At(pos).cmd.reg = "a0"
    BY <1>0, <1>5 DEF Commands
  <2>2. /\ Eff' = RunProgbuf([Eff EXCEPT ![At(pos).cmd.reg] = Data]) /\ BufKept
        /\ Data' = Data /\ local' = local
    BY <2>1 DEF Effect
  <2> DEFINE h == [Eff EXCEPT !.a0 = Addr]
  <2>3. Eff' = RunProgbuf(h) /\ h \in Fields0 /\ h.a0 = Addr
    <3>1. h = [Eff EXCEPT ![At(pos).cmd.reg] = Data]
      BY <2>1
    <3>2. Addr \in Word
      BY DEF Addr, Word
    <3>3. h \in Fields0 /\ h.a0 = Addr
      BY <3>2 DEF Fields0
    <3> HIDE DEF h
    <3> QED
      BY <2>2, <3>1, <3>3
  <2> HIDE DEF h
  <2>4. RunProgbuf(h) = [h EXCEPT !.a0 = h.mem]
    BY <2>1, <2>3 DEF RunProgbuf
  <2>5. h.a1 = Eff.a1 /\ h.mem = Eff.mem /\ h.dpc = Eff.dpc /\ h.dcsr = Eff.dcsr
    BY DEF h, Fields0
  <2>6. Eff' = [h EXCEPT !.a0 = h.mem] /\ BufKept /\ local' = local
    BY <2>2, <2>3, <2>4
  <2> QED
    <3>1. /\ Eff'.dpc = Eff.dpc /\ Eff'.dcsr = Eff.dcsr
          /\ Eff'.a0 = Eff.mem /\ Eff'.mem = Eff.mem
      BY <2>3, <2>5, <2>6 DEF Fields0
    <3> QED
      BY <1>5, <2>1, <2>2, <2>6, <3>1 DEF BufKept
<1>6. CASE pos = 10
  BY <1>0, <1>6 DEF Effect, EffKept, Commands
<1>7. CASE pos = 12
  BY <1>0, <1>7 DEF Effect, EffKept, Locals
<1>8. CASE pos \in 12 + 1 .. 12 + 4
  <2>0. Operand("temp_a0") = local.temp_a0
    BY DEF Operand
  <2>1. /\ pos = 14 => Data' = local.temp_a0
        /\ pos \in 15 .. 16 => Eff'["a0"] = local.temp_a0
        /\ Eff'.dpc = Eff.dpc /\ Eff'.mem = Eff.mem /\ Eff'.dcsr = Eff.dcsr /\ local' = local
    BY <2>0, <1>0, <1>8, WritingStep
  <2> QED
    BY <1>8, <2>1
<1> QED
  BY <1>1, <1>2, <1>3, <1>4, <1>5, <1>6, <1>7, <1>8

LEMMA WritesMemoryStep ==
  ASSUME Advances, Effect, Eff \in Fields0, local \in Locals, op \in Op, op.name = "write_memory",
         pos \in 1 .. 24, WritesMemory
  PROVE  WritesMemory' /\ Eff'.dpc = Eff.dpc /\ Eff'.dcsr = Eff.dcsr
<1> USE DEF Advances, WritesMemory, Reading, Writing
<1>0. /\ At(1).do = "dmcontrol" /\ ReadsAt(1, "a0", "temp_a0") /\ ReadsAt(5, "a1", "temp_a1")
      /\ At(10) = Puts("value") /\ At(11) = Commands("write", "a1") /\ At(12).do = "busy_wait"
      /\ At(13) = Puts("address")
      /\ At(14) = [do |-> "progbuf", instr |-> [do |-> "sd", csr |-> "none"]]
      /\ At(15) = Commands("write_exec", "a0") /\ At(16).do = "busy_wait"
      /\ WritesAt(16, "a0", "temp_a0") /\ WritesAt(20, "a1", "temp_a1")
  BY WriteMemoryTable DEF Selects, Waits
<1>1. CASE pos = 1 \/ pos = 12 \/ pos = 16
  BY <1>0, <1>1 DEF Effect, EffKept
<1>2. CASE pos \in 1 + 1 .. 1 + 4
  <2>1. (pos' \in 4 .. 5 => Data' = Eff'["a0"]) /\ EffKept
    BY <1>0, <1>2, ReadingStep
  <2> QED
    BY <1>2, <2>1 DEF EffKept
<1>3. CASE pos \in 5 + 1 .. 5 + 4
  <2>1. (pos' \in 8 .. 9 => Data' = Eff'["a1"]) /\ EffKept
    BY <1>0, <1>3, ReadingStep
  <2> QED
    BY <1>3, <2>1 DEF EffKept
<1>4. CASE pos = 10 \/ pos = 13
  BY <1>0, <1>4 DEF Effect, EffKept, Puts, Operand
<1>5. CASE pos = 11
  BY <1>0, <1>5 DEF Effect, Commands, Fields0
<1>6. CASE pos = 14
  BY <1>0, <1>6 DEF Effect, EffKept
<1>7. CASE pos = 15
  <2>1. /\ dm.progbuf = [do |-> "sd", csr |-> "none"] /\ Data = Addr /\ Eff.a1 = op.value
        /\ At(pos).do = "command" /\ At(pos).cmd.kind = "write_exec" /\ At(pos).cmd.reg = "a0"
    BY <1>0, <1>7 DEF Commands
  <2>2. /\ Eff' = RunProgbuf([Eff EXCEPT ![At(pos).cmd.reg] = Data]) /\ BufKept
        /\ Data' = Data /\ local' = local
    BY <2>1 DEF Effect
  <2> DEFINE h == [Eff EXCEPT !.a0 = Addr]
  <2>3. Eff' = RunProgbuf(h) /\ h \in Fields0 /\ h.a0 = Addr
    <3>1. h = [Eff EXCEPT ![At(pos).cmd.reg] = Data]
      BY <2>1
    <3>2. Addr \in Word
      BY DEF Addr, Word
    <3>3. h \in Fields0 /\ h.a0 = Addr
      BY <3>2 DEF Fields0
    <3> HIDE DEF h
    <3> QED
      BY <2>2, <3>1, <3>3
  <2> HIDE DEF h
  <2>4. RunProgbuf(h) = [h EXCEPT !.mem = h.a1]
    BY <2>1, <2>3 DEF RunProgbuf
  <2>5. h.a1 = Eff.a1 /\ h.mem = Eff.mem /\ h.dpc = Eff.dpc /\ h.dcsr = Eff.dcsr
    BY DEF h, Fields0
  <2>6. Eff' = [h EXCEPT !.mem = h.a1] /\ BufKept /\ local' = local
    BY <2>2, <2>3, <2>4
  <2> QED
    <3>1. /\ Eff'.dpc = Eff.dpc /\ Eff'.dcsr = Eff.dcsr
          /\ Eff'.mem = Eff.a1 /\ Eff'.a1 = Eff.a1
      BY <2>3, <2>5, <2>6 DEF Fields0
    <3> QED
      BY <1>7, <2>1, <2>2, <2>6, <3>1 DEF BufKept
<1>8. CASE pos \in 16 + 1 .. 16 + 4
  <2>0. Operand("temp_a0") = local.temp_a0
    BY DEF Operand
  <2>1. /\ pos = 18 => Data' = local.temp_a0
        /\ pos \in 19 .. 20 => Eff'["a0"] = local.temp_a0
        /\ Eff'.dpc = Eff.dpc /\ Eff'.mem = Eff.mem /\ Eff'.dcsr = Eff.dcsr /\ local' = local
    BY <2>0, <1>0, <1>8, WritingStep
  <2> QED
    BY <1>8, <2>1
<1>9. CASE pos \in 20 + 1 .. 20 + 4
  <2>0. Operand("temp_a1") = local.temp_a1
    BY DEF Operand
  <2>1. /\ pos = 22 => Data' = local.temp_a1
        /\ pos \in 23 .. 24 => Eff'["a1"] = local.temp_a1
        /\ Eff'.dpc = Eff.dpc /\ Eff'.mem = Eff.mem /\ Eff'.dcsr = Eff.dcsr /\ local' = local
        /\ Eff'.a0 = Eff.a0
    BY <2>0, <1>0, <1>9, WritingStep
  <2> QED
    BY <1>9, <2>1
<1> QED
  BY <1>1, <1>2, <1>3, <1>4, <1>5, <1>6, <1>7, <1>8, <1>9

LEMMA StepsHartStep ==
  ASSUME Advances, Effect, Eff \in Fields0, local \in Locals, local.dcsr_reg \in Dcsrs,
         op \in Op, op.name \in Steps, pos \in 1 .. 27, StepsHart, pos = 14 => Ran
  PROVE  StepsHart' /\ local'.dcsr_reg \in Dcsrs
<1> USE DEF Advances, StepsHart, Reading, WritingCsr
<1>0. /\ ReadsAt(0, "dcsr", "dcsr_reg") /\ SetsAt(5, FlagOf)
      /\ WritesCsrAt(5, "dcsr", "dcsr_reg")
      /\ At(13).do = "dmcontrol" /\ At(14).do = "poll"
      /\ ReadsAt(14, "dcsr", "dcsr_reg") /\ At(19).do = "check"
      /\ ClearsAt(20, FlagOf) /\ WritesCsrAt(20, "dcsr", "dcsr_reg")
  BY StepsTable DEF Selects, Polls
<1>1. CASE pos \in 0 + 1 .. 0 + 4
  <2>1. /\ pos' \in 3 .. 4 => Data' = Eff'["dcsr"]
        /\ EffKept
        /\ IF pos = 4 THEN local' = [local EXCEPT !["dcsr_reg"] = Eff["dcsr"]] ELSE local' = local
    BY <1>0, <1>1, ReadingStep
  <2>2. pos = 4 => local'.dcsr_reg = Eff'.dcsr
    BY <2>1 DEF EffKept, Locals
  <2>3. local'.dcsr_reg \in Dcsrs
    BY <2>1, <2>2 DEF Fields0, EffKept
  <2>4. Clear(Eff.dcsr)' /\ Eff'.dpc = shadow[op.hart].dpc
    BY <1>1, <2>1 DEF EffKept, Clear, HasStep, HasEbreak
  <2> QED
    BY <1>1, <2>1, <2>2, <2>3, <2>4
<1>2. CASE pos = 5
  <2>0. Clear(Eff.dcsr) /\ local.dcsr_reg = Eff.dcsr /\ At(pos).flag = FlagOf /\ At(pos).on = TRUE
    BY <1>0, <1>2 DEF SetsAt
  <2> DEFINE d == local.dcsr_reg
             e == IF op.name = "single_step" THEN Dcsr(Cause(d), HasEbreak(d), TRUE)
                  ELSE Dcsr(Cause(d), TRUE, HasStep(d))
  <2>1. EffKept /\ local' = [local EXCEPT !.dcsr_reg = e]
    BY <1>0, <1>2, <2>0 DEF Effect, SetsAt, FlagOf
  <2>2. e \in Dcsrs /\ Flagged(e)
    <3>1. d \in Dcsrs /\ ~HasStep(d) /\ ~HasEbreak(d) /\ op.name \in Steps
      BY <2>0 DEF Clear
    <3>2. CASE op.name = "single_step"
      BY <3>1, <3>2, FlagChanged DEF Flagged
    <3>3. CASE op.name = "continue"
      BY <3>1, <3>3, FlagChanged DEF Flagged
    <3> QED
      BY <3>1, <3>2, <3>3 DEF Steps
  <2> HIDE DEF e
  <2>3. Flagged(local.dcsr_reg)' /\ local'.dcsr_reg \in Dcsrs
    BY <2>1, <2>2 DEF Locals, Flagged
  <2>4. Clear(Eff.dcsr)' /\ Eff'.dpc = shadow[op.hart].dpc
    BY <1>2, <2>0, <2>1 DEF EffKept, Clear
  <2> QED
    BY <1>2, <2>3, <2>4
<1>3. CASE pos \in 5 + 1 .. 5 + 7
  <2>0. Operand("dcsr_reg") = local.dcsr_reg
    BY DEF Operand
  <2>1. /\ pos = 7 => Data' = local.dcsr_reg
        /\ pos \in 8 .. 11 => Eff'.a1 = local.dcsr_reg
        /\ pos \in 10 .. 11 => dm'.progbuf = [do |-> "csrw", csr |-> "dcsr"]
        /\ pos # 11 => Eff'.dpc = Eff.dpc /\ Eff'.dcsr = Eff.dcsr
        /\ pos = 11 => Eff' = WriteCsr(Eff, "dcsr", local.dcsr_reg)
        /\ local' = local
    <3>1. WritesCsrAt(5, "dcsr", "dcsr_reg") /\ WritingCsr(5, "dcsr", Operand("dcsr_reg"))
      BY <1>0, <2>0
    <3> HIDE DEF StepsHart, WritingCsr
    <3> QED
      BY <1>0, <1>3, <2>0, <3>1, WritingCsrStep
  <2>2. CASE pos = 11
    <3> DEFINE e == Dcsr(Cause(Eff.dcsr), HasEbreak(local.dcsr_reg), HasStep(local.dcsr_reg))
    <3>1. Eff' = [Eff EXCEPT !.dcsr = e]
      BY <2>1, <2>2 DEF WriteCsr
    <3>2. Flagged(e)
      <4>1. Flagged(local.dcsr_reg) /\ Eff.dcsr \in Dcsrs
        BY <2>2 DEF Fields0
      <4> QED
        BY <4>1, FlagsWritten DEF Flagged
    <3> HIDE DEF e
    <3>3. Flagged(Eff.dcsr)' /\ Eff'.dpc = Eff.dpc
      BY <3>1, <3>2 DEF Fields0, Flagged
    <3>4. Flagged(local.dcsr_reg)'
      BY <2>1, <2>2 DEF Flagged
    <3> QED
      BY <1>3, <2>1, <2>2, <3>3, <3>4
  <2>3. CASE pos # 11
    <3>1. Flagged(local.dcsr_reg) => Flagged(local.dcsr_reg)'
      BY <2>1 DEF Flagged
    <3>2. /\ Flagged(Eff.dcsr) => Flagged(Eff.dcsr)'
          /\ Clear(Eff.dcsr) => Clear(Eff.dcsr)'
      BY <2>1, <2>3 DEF Flagged, Clear
    <3> QED
      BY <1>3, <2>1, <2>3, <3>1, <3>2
  <2> QED
    BY <2>2, <2>3
<1>4. CASE pos = 13 \/ pos = 14 \/ pos = 19
  <2>1. EffKept /\ local' = local
    BY <1>0, <1>4 DEF Effect, ReadsAt
  <2>2. /\ Flagged(Eff.dcsr) => Flagged(Eff.dcsr)'
        /\ Ran => Ran'
    BY <2>1 DEF Flagged, Ran, EffKept
  <2>3. Ran => Eff.dpc = IF op.name = "single_step" THEN StepOf(shadow[op.hart].dpc) ELSE Brk
    BY DEF Ran
  <2> QED
    BY <1>4, <2>1, <2>2, <2>3 DEF EffKept
<1>5. CASE pos \in 14 + 1 .. 14 + 4
  <2>1. /\ pos' \in 17 .. 18 => Data' = Eff'["dcsr"]
        /\ EffKept
        /\ IF pos = 18 THEN local' = [local EXCEPT !["dcsr_reg"] = Eff["dcsr"]] ELSE local' = local
    BY <1>0, <1>5, ReadingStep
  <2>2. pos = 18 => local'.dcsr_reg = Eff'.dcsr
    BY <2>1 DEF EffKept, Locals
  <2>3. local'.dcsr_reg \in Dcsrs
    BY <2>1, <2>2 DEF Fields0, EffKept
  <2>4. Flagged(Eff.dcsr)' /\ Ran'
    BY <1>5, <2>1 DEF Flagged, Ran, EffKept
  <2> QED
    BY <1>5, <2>1, <2>2, <2>3, <2>4 DEF EffKept
<1>6. CASE pos = 20
  <2>0. /\ Flagged(Eff.dcsr) /\ local.dcsr_reg = Eff.dcsr
        /\ At(pos).do = "flag" /\ At(pos).flag = FlagOf /\ At(pos).on = FALSE
    BY <1>0, <1>6 DEF ClearsAt
  <2> DEFINE d == local.dcsr_reg
             e == IF op.name = "single_step" THEN Dcsr(Cause(d), HasEbreak(d), FALSE)
                  ELSE Dcsr(Cause(d), FALSE, HasStep(d))
  <2>1. EffKept /\ local' = [local EXCEPT !.dcsr_reg = e]
    BY <2>0 DEF Effect, FlagOf
  <2>2. e \in Dcsrs /\ Clear(e)
    <3>1. d \in Dcsrs /\ Flagged(d) /\ op.name \in Steps
      BY <2>0
    <3>2. CASE op.name = "single_step"
      BY <3>1, <3>2, FlagChanged DEF Flagged, Clear
    <3>3. CASE op.name = "continue"
      BY <3>1, <3>3, FlagChanged DEF Flagged, Clear
    <3> QED
      BY <3>1, <3>2, <3>3 DEF Steps
  <2> HIDE DEF e
  <2>3. Clear(local.dcsr_reg)' /\ local'.dcsr_reg \in Dcsrs
    BY <2>1, <2>2 DEF Locals, Clear
  <2>4. Flagged(Eff.dcsr)' /\ Eff'.dpc = Eff.dpc
    BY <2>0, <2>1 DEF EffKept, Flagged
  <2> QED
    BY <1>6, <2>3, <2>4
<1>7. CASE pos \in 20 + 1 .. 20 + 7
  <2>0. Operand("dcsr_reg") = local.dcsr_reg
    BY DEF Operand
  <2>1. /\ pos = 22 => Data' = local.dcsr_reg
        /\ pos \in 23 .. 26 => Eff'.a1 = local.dcsr_reg
        /\ pos \in 25 .. 26 => dm'.progbuf = [do |-> "csrw", csr |-> "dcsr"]
        /\ pos # 26 => Eff'.dpc = Eff.dpc /\ Eff'.dcsr = Eff.dcsr
        /\ pos = 26 => Eff' = WriteCsr(Eff, "dcsr", local.dcsr_reg)
        /\ local' = local
    <3>1. WritesCsrAt(20, "dcsr", "dcsr_reg") /\ WritingCsr(20, "dcsr", Operand("dcsr_reg"))
      BY <1>0, <2>0
    <3> HIDE DEF StepsHart, WritingCsr
    <3> QED
      BY <1>0, <1>7, <2>0, <3>1, WritingCsrStep
  <2>2. Clear(local.dcsr_reg)'
    BY <1>7, <2>1 DEF Clear
  <2>3. CASE pos = 26
    <3> DEFINE e == Dcsr(Cause(Eff.dcsr), HasEbreak(local.dcsr_reg), HasStep(local.dcsr_reg))
    <3>1. Eff' = [Eff EXCEPT !.dcsr = e]
      BY <2>1, <2>3 DEF WriteCsr
    <3>2. Clear(e)
      <4>1. Clear(local.dcsr_reg) /\ Eff.dcsr \in Dcsrs
        BY <2>3 DEF Fields0
      <4> QED
        BY <4>1, FlagsWritten DEF Clear
    <3> HIDE DEF e
    <3>3. Clear(Eff.dcsr)' /\ Eff'.dpc = Eff.dpc
      BY <3>1, <3>2 DEF Fields0, Clear
    <3> QED
      BY <1>7, <2>1, <2>2, <2>3, <3>3
  <2>4. CASE pos # 26
    <3>1. /\ Flagged(Eff.dcsr) => Flagged(Eff.dcsr)'
          /\ Clear(Eff.dcsr) => Clear(Eff.dcsr)'
      BY <2>1, <2>4 DEF Flagged, Clear
    <3> QED
      BY <1>7, <2>1, <2>2, <2>4, <3>1
  <2> QED
    BY <2>3, <2>4
<1> QED
  BY <1>1, <1>2, <1>3, <1>4, <1>5, <1>6, <1>7

LEMMA LocalStep ==
  ASSUME IInv, Called, Advances, Effect, pos < Len(Script(op))
  PROVE  local' \in Locals /\ (op.name \notin Steps => local'.dcsr_reg = local.dcsr_reg)
<1>1. Formed(pos) /\ Data \in Word /\ local \in Locals /\ local.dcsr_reg \in Dcsrs
  <2>1. Data \in Word /\ pos \in 1 .. Len(Script(op)) /\ Len(Script(op)) \in 1 .. 28
    BY BusyShape, EffTyped DEF WellFormed
  <2>2. Formed(pos)
    BY <2>1, BusyShape
  <2> QED
    BY <2>1, <2>2 DEF IInv, Types, Locals
<1>2. CASE At(pos).do = "flag"
  <2> DEFINE d == local.dcsr_reg
             e == IF At(pos).flag = "step" THEN Dcsr(Cause(d), HasEbreak(d), At(pos).on)
                  ELSE Dcsr(Cause(d), At(pos).on, HasStep(d))
  <2>1. local' = [local EXCEPT !.dcsr_reg = e]
    BY <1>2 DEF Effect
  <2>2. e \in Dcsrs
    BY <1>1, <1>2, FlagChanged DEF Formed
  <2> HIDE DEF e
  <2>3. e \in Word
    BY <2>2 DEF Dcsrs, Word
  <2> QED
    BY <1>1, <1>2, <2>1, <2>3 DEF Locals, Formed
<1>3. CASE At(pos).do = "get"
  <2>1. local' = [local EXCEPT ![At(pos).dst] = Data]
    BY <1>3 DEF Effect
  <2> QED
    BY <1>1, <1>3, <2>1 DEF Locals, Formed
<1>4. CASE At(pos).do \notin {"flag", "get"}
  <2>1. local' = local
    BY <1>1, <1>4 DEF Formed, Effect, Cmds
  <2> QED
    BY <1>1, <2>1
<1> QED
  BY <1>2, <1>3, <1>4

PhaseTable ==
  /\ op.name = "halt" => Phase = IF pos = 1 THEN "any" ELSE IF pos = 2 THEN "asked" ELSE "held"
  /\ op.name = "resume" => Phase = IF pos = 2 THEN "leaving" ELSE IF pos = 3 THEN "left" ELSE "held"
  /\ op.name = "read_rfpc_reg" \/ (op.name = "write_rfpc_reg" /\ op.reg # "dpc") =>
       Phase = IF pos = 1 THEN "any" ELSE IF pos = 2 THEN "asked" ELSE IF pos = 8 THEN "leaving"
               ELSE IF pos = 9 THEN "left" ELSE "held"
  /\ op.name = "write_rfpc_reg" /\ op.reg = "dpc" =>
       Phase = IF pos = 1 THEN "any" ELSE IF pos = 2 THEN "asked" ELSE IF pos = 11 THEN "leaving"
               ELSE IF pos = 12 THEN "left" ELSE "held"
  /\ op.name \in Steps => Phase = IF pos = 14 THEN "away" ELSE "held"
  /\ op.name \notin Steps \union Stops \union Leaves => Phase = "held"

LEMMA PhaseOf == op \in Op => PhaseTable
<1> SUFFICES ASSUME op \in Op PROVE PhaseTable
  OBVIOUS
<1>1. op.name = "halt" => Phase = IF pos = 1 THEN "any" ELSE IF pos = 2 THEN "asked" ELSE "held"
  BY DEF Phase, Stops, Leaves, Steps
<1>2. op.name = "resume" => Phase = IF pos = 2 THEN "leaving" ELSE IF pos = 3 THEN "left" ELSE "held"
  <2> SUFFICES ASSUME op.name = "resume"
               PROVE  Phase = IF pos = 2 THEN "leaving" ELSE IF pos = 3 THEN "left" ELSE "held"
    OBVIOUS
  <2>1. Len(Script(op)) = 3
    BY ResumeTable DEF Length
  <2> QED
    BY <2>1 DEF Phase, Stops, Leaves, Steps
<1>3. op.name = "read_rfpc_reg" \/ (op.name = "write_rfpc_reg" /\ op.reg # "dpc") =>
        Phase = IF pos = 1 THEN "any" ELSE IF pos = 2 THEN "asked" ELSE IF pos = 8 THEN "leaving"
                ELSE IF pos = 9 THEN "left" ELSE "held"
  <2> SUFFICES ASSUME op.name = "read_rfpc_reg" \/ (op.name = "write_rfpc_reg" /\ op.reg # "dpc")
               PROVE  Phase = IF pos = 1 THEN "any" ELSE IF pos = 2 THEN "asked"
                              ELSE IF pos = 8 THEN "leaving" ELSE IF pos = 9 THEN "left" ELSE "held"
    OBVIOUS
  <2>1. Len(Script(op)) = 9
    BY ReadRfpcTable, WriteRfpcTable DEF Length
  <2> QED
    BY <2>1 DEF Phase, Stops, Leaves, Steps
<1>4. op.name = "write_rfpc_reg" /\ op.reg = "dpc" =>
        Phase = IF pos = 1 THEN "any" ELSE IF pos = 2 THEN "asked" ELSE IF pos = 11 THEN "leaving"
                ELSE IF pos = 12 THEN "left" ELSE "held"
  <2> SUFFICES ASSUME op.name = "write_rfpc_reg" /\ op.reg = "dpc"
               PROVE  Phase = IF pos = 1 THEN "any" ELSE IF pos = 2 THEN "asked"
                              ELSE IF pos = 11 THEN "leaving" ELSE IF pos = 12 THEN "left" ELSE "held"
    OBVIOUS
  <2>1. Len(Script(op)) = 12
    BY WriteRfpcTable DEF Length
  <2> QED
    BY <2>1 DEF Phase, Stops, Leaves, Steps
<1>5. op.name \in Steps => Phase = IF pos = 14 THEN "away" ELSE "held"
  BY DEF Phase, Stops, Leaves, Steps
<1>6. op.name \notin Steps \union Stops \union Leaves => Phase = "held"
  BY DEF Phase
<1> QED
  BY <1>1, <1>2, <1>3, <1>4, <1>5, <1>6 DEF PhaseTable

LEMMA PhaseNext == (op \in Op => PhaseTable)'
BY PhaseOf, PTL

LEMMA AdvancesWithin ==
  ASSUME IInv, Driver, driver' = "busy", pos' # pos
  PROVE  pos < Len(Script(op))
<1>1. Called /\ Instr = At(pos) /\ Instr.do # "return"
  BY InstrIsAt DEF IInv, Types, Driver, WriteDmcontrol, WriteData, WriteProgbuf, WriteCommand, ReadData, ChangeFlag,
     CheckDcsrCause, PollDone, PollAgain, Timeout, Return, Do, Waiting, Called
<1>2. /\ pos \in 1 .. Len(Script(op)) /\ Len(Script(op)) \in 1 .. 28
      /\ pos = Len(Script(op)) => At(pos).do = "return"
  BY <1>1, BusyShape DEF WellFormed
<1> QED
  BY <1>1, <1>2

LEMMA DoneStep ==
  ASSUME IInv, Called, Advances, Effect, pos < Len(Script(op)), op.name \in Steps /\ pos = 14 => Ran
  PROVE  Done' /\ local' \in Locals /\ local'.dcsr_reg \in Dcsrs
<1>1. /\ op \in Op /\ op.name \in Names
      /\ op.name \in Accesses => op.reg \in Regs
      /\ op.reg = "dpc" => op.value \in 0 .. ProgLen - 1
  BY BusyShape
<1>2. /\ pos \in 1 .. 28 /\ Eff \in Fields0 /\ local \in Locals /\ local' \in Locals
      /\ local.dcsr_reg \in Dcsrs
      /\ op.name \notin Steps => local'.dcsr_reg \in Dcsrs
  BY LocalStep, EffTyped DEF IInv, Types, Locals
<1>3. Done /\ op' = op /\ shadow' = shadow /\ pos' = pos + 1
  BY DEF IInv, Advances
<1>4. CASE op.name \in {"halt", "resume"}
  <2>1. EffKept
    <3>1. At(pos).do \in {"dmcontrol", "poll"}
      <4>1. CASE op.name = "halt"
        <5>1. /\ Len(Script(op)) = 3 /\ At(1).do = "dmcontrol" /\ At(2).do = "poll"
          BY <1>1, <4>1, HaltTable DEF Length, Selects, Polls
        <5> QED
          BY <1>2, <5>1
      <4>2. CASE op.name = "resume"
        <5>1. /\ Len(Script(op)) = 3 /\ At(1).do = "dmcontrol" /\ At(2).do = "poll"
          BY <1>1, <4>2, ResumeTable DEF Length, Selects, Polls
        <5> QED
          BY <1>2, <5>1
      <4> QED
        BY <1>4, <4>1, <4>2
    <3> QED
      BY <3>1 DEF Effect
  <2> QED
    BY <1>2, <1>3, <1>4, <2>1 DEF Done, EffKept, Clear, Steps
<1>5. CASE op.name = "read_reg"
  <2>1. ReadsReg(0)' /\ EffKept
    <3>1. ReadsAt(0, op.reg, "word") /\ Len(Script(op)) = 5 /\ op.reg \in Regs
      BY <1>1, <1>5, ReadRegTable DEF Length, Accesses
    <3>2. ReadsReg(0)
      BY <1>3, <1>5 DEF Done
    <3> QED
      BY <1>2, <3>1, <3>2, ReadsRegStep
  <2> QED
    BY <1>2, <1>3, <1>5, <2>1 DEF Done, EffKept, Clear, Steps
<1>6. CASE op.name = "read_rfpc_reg"
  <2>1. ReadsReg(2)' /\ EffKept
    <3>1. /\ ReadsAt(2, op.reg, "word") /\ Len(Script(op)) = 9 /\ op.reg \in Regs
          /\ At(1).do = "dmcontrol" /\ At(2).do = "poll" /\ At(7).do = "dmcontrol" /\ At(8).do = "poll"
      BY <1>1, <1>6, ReadRfpcTable DEF Length, Accesses, Selects, Polls
    <3>2. ReadsReg(2)
      BY <1>3, <1>6 DEF Done
    <3>3. pos \notin 2 + 1 .. 2 + 4 => At(pos).do \in {"dmcontrol", "poll"}
      BY <1>2, <3>1
    <3>4. Phase' = "held" => pos <= 2 + 4
      BY <1>1, <1>2, <1>3, <1>6, <3>1, PhaseNext DEF PhaseTable
    <3> QED
      BY <1>2, <3>1, <3>2, <3>3, <3>4, ReadsRegStep
  <2> QED
    BY <1>2, <1>3, <1>6, <2>1 DEF Done, EffKept, Clear, Steps
<1>7. CASE op.name = "write_reg" /\ op.reg # "dpc"
  <2>1. WritesReg(0)' /\ Eff'.dpc = Eff.dpc /\ Eff'.dcsr = Eff.dcsr
    <3>1. WritesAt(0, op.reg, "value") /\ Len(Script(op)) = 5 /\ op.reg \in {"a0", "a1"}
      BY <1>1, <1>7, WriteRegTable DEF Length, Accesses, Regs
    <3>2. WritesReg(0)
      BY <1>3, <1>7 DEF Done
    <3> QED
      BY <1>2, <3>1, <3>2, WritesRegStep
  <2> QED
    BY <1>2, <1>3, <1>7, <2>1 DEF Done, Clear, Steps
<1>8. CASE op.name = "write_reg" /\ op.reg = "dpc"
  <2>1. WritesReg(0)' /\ Eff'.dcsr = Eff.dcsr
    <3>1. WritesCsrAt(0, "dpc", "value") /\ Len(Script(op)) = 8
      BY <1>1, <1>8, WriteRegTable DEF Length
    <3>2. WritesReg(0)
      BY <1>3, <1>8 DEF Done
    <3>3. Phase = "held"
      BY <1>1, <1>8, PhaseOf DEF PhaseTable, Steps, Stops, Leaves
    <3> QED
      BY <1>1, <1>2, <1>8, <3>1, <3>2, <3>3, WritesDpcStep
  <2> QED
    BY <1>2, <1>3, <1>8, <2>1 DEF Done, Clear, Steps
<1>9. CASE op.name = "write_rfpc_reg" /\ op.reg # "dpc"
  <2>1. WritesReg(2)' /\ Eff'.dcsr = Eff.dcsr
    <3>1. /\ WritesAt(2, op.reg, "value") /\ Len(Script(op)) = 9 /\ op.reg \in {"a0", "a1"}
          /\ At(1).do = "dmcontrol" /\ At(2).do = "poll" /\ At(7).do = "dmcontrol" /\ At(8).do = "poll"
      BY <1>1, <1>9, WriteRfpcTable DEF Length, Accesses, Regs, Selects, Polls
    <3>2. WritesReg(2)
      BY <1>3, <1>9 DEF Done
    <3>3. pos \notin 2 + 1 .. 2 + 4 => At(pos).do \in {"dmcontrol", "poll"}
      BY <1>2, <3>1
    <3> QED
      BY <1>2, <3>1, <3>2, <3>3, WritesRegStep
  <2> QED
    BY <1>2, <1>3, <1>9, <2>1 DEF Done, Clear, Steps
<1>10. CASE op.name = "write_rfpc_reg" /\ op.reg = "dpc"
  <2>1. WritesReg(2)' /\ Eff'.dcsr = Eff.dcsr
    <3>1. /\ WritesCsrAt(2, "dpc", "value") /\ Len(Script(op)) = 12
          /\ At(1).do = "dmcontrol" /\ At(2).do = "poll" /\ At(10).do = "dmcontrol" /\ At(11).do = "poll"
      BY <1>1, <1>10, WriteRfpcTable DEF Length, Selects, Polls
    <3>2. WritesReg(2)
      BY <1>3, <1>10 DEF Done
    <3>3. pos \notin 2 + 1 .. 2 + 7 => At(pos).do \in {"dmcontrol", "poll"}
      BY <1>2, <3>1
    <3>4. pos = 9 => Phase = "held"
      BY <1>1, <1>10, PhaseOf DEF PhaseTable
    <3>5. Phase' = "held" => pos <= 2 + 7
      BY <1>1, <1>2, <1>3, <1>10, <3>1, PhaseNext DEF PhaseTable
    <3> QED
      BY <1>1, <1>2, <1>10, <3>1, <3>2, <3>3, <3>4, <3>5, WritesDpcStep
  <2> QED
    BY <1>2, <1>3, <1>10, <2>1 DEF Done, Clear, Steps
<1>11. CASE op.name = "read_memory"
  <2>1. ReadsMemory' /\ Eff'.dpc = Eff.dpc /\ Eff'.dcsr = Eff.dcsr
    <3>1. Len(Script(op)) = 17
      BY <1>1, <1>11, ReadMemoryTable DEF Length
    <3>2. ReadsMemory
      BY <1>3, <1>11 DEF Done
    <3> QED
      BY <1>1, <1>2, <1>11, <3>1, <3>2, ReadsMemoryStep
  <2> QED
    BY <1>2, <1>3, <1>11, <2>1 DEF Done, Clear, Steps
<1>12. CASE op.name = "write_memory"
  <2>1. WritesMemory' /\ Eff'.dpc = Eff.dpc /\ Eff'.dcsr = Eff.dcsr
    <3>1. Len(Script(op)) = 25
      BY <1>1, <1>12, WriteMemoryTable DEF Length
    <3>2. WritesMemory
      BY <1>3, <1>12 DEF Done
    <3> QED
      BY <1>1, <1>2, <1>12, <3>1, <3>2, WritesMemoryStep
  <2> QED
    BY <1>2, <1>3, <1>12, <2>1 DEF Done, Clear, Steps
<1>13. CASE op.name \in Steps
  <2>1. StepsHart' /\ local'.dcsr_reg \in Dcsrs
    <3>1. Len(Script(op)) = 28
      BY <1>1, <1>13, StepsTable DEF Length
    <3>2. StepsHart
      BY <1>3, <1>13 DEF Done
    <3> QED
      BY <1>1, <1>2, <1>13, <3>1, <3>2, StepsHartStep
  <2> QED
    BY <1>2, <1>3, <1>13, <2>1 DEF Done, Steps
<1> QED
  BY <1>1, <1>4, <1>5, <1>6, <1>7, <1>8, <1>9, <1>10, <1>11, <1>12, <1>13 DEF Names, Accesses, Steps

-----------------------------------------------------------------------------
(* How a call passes through its phases.                                   *)

Plain(i) == /\ At(i).do \in {"put", "get", "progbuf", "command", "busy_wait", "flag", "check"}
               \/ At(i) = Selects("none")

LEMMA PlainReads ==
  ASSUME NEW b \in Nat, NEW r, NEW dst, ReadsAt(b, r, dst), NEW i \in b + 1 .. b + 4
  PROVE  Plain(i)
BY DEF ReadsAt, Plain, Selects, Commands, Waits

LEMMA PlainWrites ==
  ASSUME NEW b \in Nat, NEW r, NEW src, WritesAt(b, r, src), NEW i \in b + 1 .. b + 4
  PROVE  Plain(i)
BY DEF WritesAt, Plain, Selects, Commands, Puts, Waits

LEMMA PlainWritesCsr ==
  ASSUME NEW b \in Nat, NEW csr, NEW src, WritesCsrAt(b, csr, src), NEW i \in b + 1 .. b + 7
  PROVE  Plain(i)
<1>1. i \in b + 1 .. b + 4 => Plain(i)
  BY PlainWrites DEF WritesCsrAt
<1>2. i \in b + 5 .. b + 7 => Plain(i)
  BY DEF WritesCsrAt, Plain, Commands, Waits
<1> QED
  BY <1>1, <1>2

\* What each call does next, by its phase.
Moves ==
  \/ Phase = "any" /\ pos = 1 /\ At(pos) = Selects("halt") /\ Phase' = "asked"
  \/ Phase = "asked" /\ pos = 2 /\ At(pos) = Polls("halted") /\ Phase' = "held"
  \/ Phase = "held" /\ Plain(pos) /\ Phase' = "held"
  \/ Phase = "held" /\ op.name \in Leaves /\ At(pos) = Selects("resume") /\ Phase' = "leaving"
  \/ Phase = "leaving" /\ pos >= 2 /\ At(pos) = Polls("running") /\ Phase' = "left"
  \/ Phase = "held" /\ op.name \in Steps /\ pos = 13 /\ At(pos) = Selects("resume") /\ Phase' = "away"
  \/ Phase = "away" /\ op.name \in Steps /\ pos = 14 /\ At(pos) = Polls("halted") /\ Phase' = "held"

LEMMA PhasesInOrder ==
  ASSUME op \in Op, pos \in 1 .. 28, pos < Len(Script(op)), op' = op, pos' = pos + 1
  PROVE  Moves
<1>1. PhaseTable /\ PhaseTable'
  BY PhaseOf, PhaseNext
<1>2. op.name \in Names /\ (op.name \in Accesses => op.reg \in Regs)
  OBVIOUS
<1>3. CASE op.name = "halt"
  <2>1. Length(3) /\ At(1) = Selects("halt") /\ At(2) = Polls("halted")
    BY <1>3, HaltTable
  <2>2. pos = 1 \/ pos = 2
    BY <2>1 DEF Length
  <2> QED
    BY <1>1, <1>3, <2>1, <2>2 DEF PhaseTable, Moves
<1>4. CASE op.name = "resume"
  <2>1. Length(3) /\ At(1) = Selects("resume") /\ At(2) = Polls("running")
    BY <1>4, ResumeTable
  <2>2. pos = 1 \/ pos = 2
    BY <2>1 DEF Length
  <2> QED
    BY <1>1, <1>4, <2>1, <2>2 DEF PhaseTable, Moves, Leaves
<1>5. CASE op.name \in {"read_reg", "write_reg", "read_memory", "write_memory"}
  <2>1. Phase = "held" /\ Phase' = "held"
    BY <1>1, <1>5 DEF PhaseTable, Steps, Stops, Leaves
  <2>2. CASE op.name = "read_reg"
    <3>1. Len(Script(op)) = 5 /\ ReadsAt(0, op.reg, "word")
      BY <2>2, ReadRegTable DEF Length
    <3> QED
      BY <2>1, <3>1, PlainReads, PlainWrites, PlainWritesCsr DEF Moves
  <2>3. CASE op.name = "write_reg"
    <3>1. /\ op.reg = "dpc" => Len(Script(op)) = 8 /\ WritesCsrAt(0, "dpc", "value")
          /\ op.reg # "dpc" => Len(Script(op)) = 5 /\ WritesAt(0, op.reg, "value")
      BY <2>3, WriteRegTable DEF Length
    <3>2. Plain(pos)
      <4>1. CASE op.reg = "dpc"
        <5>1. WritesCsrAt(0, "dpc", "value")
          BY <3>1, <4>1
        <5>2. Len(Script(op)) = 8
          BY <3>1, <4>1
        <5>3. pos \in 0 + 1 .. 0 + 7
          BY <5>2
        <5> QED
          BY <5>1, <5>3, PlainWritesCsr
      <4>2. CASE op.reg # "dpc"
        <5>1. WritesAt(0, op.reg, "value")
          BY <3>1, <4>2
        <5>2. Len(Script(op)) = 5
          BY <3>1, <4>2
        <5>3. pos \in 0 + 1 .. 0 + 4
          BY <5>2
        <5> QED
          BY <5>1, <5>3, PlainWrites
      <4> QED
        BY <4>1, <4>2
    <3> QED
      BY <2>1, <3>2 DEF Moves
  <2>4. CASE op.name = "read_memory"
    <3>1. /\ Len(Script(op)) = 17 /\ ReadsAt(1, "a0", "temp_a0") /\ WritesAt(12, "a0", "temp_a0")
          /\ At(1) = Selects("none")
      BY <2>4, ReadMemoryTable DEF Length
    <3>2. \A i \in 6 .. 12 : Plain(i)
      <4>1. Plain(6) /\ Plain(7) /\ Plain(8) /\ Plain(9) /\ Plain(10) /\ Plain(11) /\ Plain(12)
        BY <2>4, ReadMemoryTable DEF Plain, Puts, Commands, Waits
      <4> QED
        BY <4>1
    <3> QED
      BY <2>1, <3>1, <3>2, PlainReads, PlainWrites, PlainWritesCsr DEF Moves, Plain
  <2>5. CASE op.name = "write_memory"
    <3>1. /\ Len(Script(op)) = 25 /\ ReadsAt(1, "a0", "temp_a0") /\ ReadsAt(5, "a1", "temp_a1")
          /\ WritesAt(16, "a0", "temp_a0") /\ WritesAt(20, "a1", "temp_a1")
          /\ At(1) = Selects("none")
      BY <2>5, WriteMemoryTable DEF Length
    <3>2. \A i \in 10 .. 16 : Plain(i)
      <4>1. Plain(10) /\ Plain(11) /\ Plain(12) /\ Plain(13) /\ Plain(14) /\ Plain(15) /\ Plain(16)
        BY <2>5, WriteMemoryTable DEF Plain, Puts, Commands, Waits
      <4> QED
        BY <4>1
    <3>3. /\ pos \in 1 + 1 .. 1 + 4 => Plain(pos)
          /\ pos \in 5 + 1 .. 5 + 4 => Plain(pos)
          /\ pos \in 16 + 1 .. 16 + 4 => Plain(pos)
          /\ pos \in 20 + 1 .. 20 + 4 => Plain(pos)
      BY <3>1, PlainReads, PlainWrites, PlainWritesCsr
    <3>4. pos = 1 => Plain(pos)
      BY <3>1 DEF Plain
    <3> QED
      BY <2>1, <3>1, <3>2, <3>3, <3>4 DEF Moves
  <2> QED
    BY <1>5, <2>2, <2>3, <2>4, <2>5
<1>6. CASE op.name = "read_rfpc_reg"
  <2>1. /\ Len(Script(op)) = 9 /\ At(1) = Selects("halt") /\ At(2) = Polls("halted")
        /\ ReadsAt(2, op.reg, "word") /\ At(7) = Selects("resume") /\ At(8) = Polls("running")
    BY <1>6, ReadRfpcTable DEF Length
  <2>2. pos \in 3 .. 6 => Plain(pos)
    BY <2>1, PlainReads, PlainWrites, PlainWritesCsr
  <2> QED
    BY <1>1, <1>6, <2>1, <2>2 DEF PhaseTable, Moves, Leaves
<1>7. CASE op.name = "write_rfpc_reg" /\ op.reg # "dpc"
  <2>1. /\ Len(Script(op)) = 9 /\ At(1) = Selects("halt") /\ At(2) = Polls("halted")
        /\ WritesAt(2, op.reg, "value") /\ At(7) = Selects("resume") /\ At(8) = Polls("running")
    BY <1>7, WriteRfpcTable DEF Length
  <2>2. pos \in 3 .. 6 => Plain(pos)
    BY <2>1, PlainReads, PlainWrites, PlainWritesCsr
  <2> QED
    BY <1>1, <1>7, <2>1, <2>2 DEF PhaseTable, Moves, Leaves
<1>8. CASE op.name = "write_rfpc_reg" /\ op.reg = "dpc"
  <2>1. /\ Len(Script(op)) = 12 /\ At(1) = Selects("halt") /\ At(2) = Polls("halted")
        /\ WritesCsrAt(2, "dpc", "value") /\ At(10) = Selects("resume") /\ At(11) = Polls("running")
    BY <1>8, WriteRfpcTable DEF Length
  <2>2. pos \in 3 .. 9 => Plain(pos)
    BY <2>1, PlainReads, PlainWrites, PlainWritesCsr
  <2> QED
    BY <1>1, <1>8, <2>1, <2>2 DEF PhaseTable, Moves, Leaves
<1>9. CASE op.name \in Steps
  <2>1. /\ Len(Script(op)) = 28 /\ ReadsAt(0, "dcsr", "dcsr_reg")
        /\ WritesCsrAt(5, "dcsr", "dcsr_reg")
        /\ At(13) = Selects("resume") /\ At(14) = Polls("halted")
        /\ ReadsAt(14, "dcsr", "dcsr_reg")
        /\ WritesCsrAt(20, "dcsr", "dcsr_reg")
    BY <1>9, StepsTable DEF Length
  <2>2. Plain(5) /\ Plain(19) /\ Plain(20)
    <3>1. At(5).do = "flag" /\ At(19).do = "check" /\ At(20).do = "flag"
      <4>1. SetsAt(5, FlagOf) /\ At(19) = [do |-> "check", cause |-> CauseOf] /\ ClearsAt(20, FlagOf)
        BY <1>9, StepsTable
      <4> QED
        BY <4>1 DEF SetsAt, ClearsAt
    <3> QED
      BY <3>1 DEF Plain
  <2>3. pos \notin {13, 14} => Plain(pos)
    BY <2>1, <2>2, PlainReads, PlainWrites, PlainWritesCsr
  <2> QED
    BY <1>1, <1>9, <2>1, <2>3 DEF PhaseTable, Moves
<1> QED
  BY <1>2, <1>3, <1>4, <1>5, <1>6, <1>7, <1>8, <1>9 DEF Names, Accesses, Steps

LEMMA NextWellFormed == (op \in Op => WellFormed)'
BY ScriptsWellFormed, PTL

-----------------------------------------------------------------------------
(* The inductive invariant: the driver's steps.                            *)

LEMMA InitIInv == Init => IInv
<1> SUFFICES ASSUME Init PROVE IInv
  OBVIOUS
<1>0. Dcsr(HaltreqCause, FALSE, FALSE) = 12 /\ 12 \in Dcsrs /\ Clear(12)
  <2>1. Dcsr(HaltreqCause, FALSE, FALSE) = 12
    BY DEF Dcsr, HaltreqCause
  <2>2. 12 \in Dcsrs /\ Clear(12)
    BY DEF Dcsrs, Clear, HasStep, HasEbreak
  <2> QED
    BY <2>1, <2>2
<1>1. Types /\ ~Called
  <2>1. driver = "idle" /\ ~Called
    BY DEF Init, Called
  <2>7. pos \in 1 .. 28
    BY DEF Init
  <2>8. polled \in BOOLEAN
    BY DEF Init
  <2>2. local \in Locals /\ local.dcsr_reg \in Dcsrs
    BY DEF Init, Locals, Word, Dcsrs
  <2>3. (CHOOSE k \in Hart : TRUE) \in Hart
    OBVIOUS
  <2>4. dm \in [hartsel : Hart, haltreq : BOOLEAN, data : Word, progbuf : Instrs,
               cmd : Cmds \union {NoCmd}, cmderr : {FALSE}]
    BY <2>3 DEF Init, Instrs, Word
  <2>5. hart \in [Hart -> Harts1]
    <3> DEFINE h == [state |-> "halted", resuming |-> FALSE, a0 |-> 1, a1 |-> 2, dpc |-> 0, mem |-> 3,
                     dcsr |-> 12]
    <3>1. h \in Harts1
      BY <1>0 DEF Harts1, Word
    <3>2. hart = [k \in Hart |-> h]
      BY <1>0 DEF Init
    <3> HIDE DEF h
    <3> QED
      BY <3>1, <3>2
  <2>6. shadow \in [Hart -> [a1 : Word, dpc : 0 .. ProgLen - 1]]
    BY DEF Init, Word
  <2> QED
    BY <2>1, <2>2, <2>4, <2>5, <2>6, <2>7, <2>8 DEF Types, Locals
<1>2. Pending /\ Requests
  BY DEF Init, Pending, Requests
<1>3. \A k \in Hart : Left(k)
  BY <1>0 DEF Init, Left
<1> QED
  BY <1>1, <1>2, <1>3 DEF IInv

LEMMA CallStep ==
  ASSUME IInv, NEW o \in Op, Call(o)
  PROVE  IInv'
<1> DEFINE h == hart[o.hart]
<1>1. /\ ~Called /\ driver' = "busy" /\ op' = o /\ pos' = 1 /\ polled' = polled
      /\ local' = [local EXCEPT !.word = 0] /\ dm' = dm /\ hart' = hart /\ shadow' = shadow
      /\ dm.cmd = NoCmd /\ Called' /\ o.hart \in Hart /\ h \in Harts1 /\ o.name \in Names
      /\ NeedsHalted(o) => h.state = "halted"
  BY DEF Call, Called, IInv, Pending, Types
<1>2. Left(o.hart) /\ Target' = h /\ Eff' = h /\ Data' = dm.data
  BY <1>1 DEF IInv, Target, Eff, Data, Answered, NoCmd
<1>3. Phase' = IF o.name \in Stops THEN "any" ELSE "held"
  BY <1>1, PhaseNext DEF PhaseTable, Stops, Leaves, Steps
<1>4. Types'
  <2>1. (Len(Script(op)) \in 1 .. 28)'
    BY <1>1, NextWellFormed DEF WellFormed
  <2>2. local' \in Locals /\ local'.dcsr_reg \in Dcsrs
    <3>1. local \in Locals /\ local.dcsr_reg \in Dcsrs /\ 0 \in Word
      BY DEF IInv, Types, Locals, Word
    <3> QED
      BY <1>1, <3>1 DEF Locals
  <2>3. op' \in Op /\ pos' \in 1 .. Len(Script(op))' /\ pos' \in 1 .. 28
    <3>1. 1 \in 1 .. Len(Script(op))'
      BY <2>1
    <3> QED
      BY <1>1, <3>1
  <2> QED
    BY <1>1, <2>2, <2>3 DEF IInv, Types, Locals
<1>5. Pending' /\ Requests'
  BY <1>1 DEF IInv, Pending, Requests
<1>6. \A k \in Hart : (Called' => op'.hart # k) => Left(k)'
  BY <1>1 DEF IInv, Left
<1>7. InPhase'
  BY <1>1, <1>2, <1>3 DEF InPhase, Left, NeedsHalted, Stops
<1>8. Done'
  <2>1. /\ o.name \in Steps => StepsHart'
    <3>1. Clear(h.dcsr) /\ (o.name \in Steps => h.dpc = shadow[o.hart].dpc)
      BY <1>1, <1>2 DEF Left, NeedsHalted, Steps
    <3> QED
      BY <1>1, <1>2, <3>1 DEF StepsHart, Reading, WritingCsr, Clear, Steps
  <2>2. ReadsReg(0)' /\ ReadsReg(2)' /\ WritesReg(0)' /\ WritesReg(2)'
    BY <1>1 DEF ReadsReg, Reading, WritesReg, WritingCsr, Writing
  <2>3. ReadsMemory' /\ WritesMemory'
    BY <1>1 DEF ReadsMemory, WritesMemory, Reading, Writing
  <2>4. Clear(Eff.dcsr)'
    BY <1>1, <1>2 DEF Left, Clear
  <2>5. o.name \in {"read_reg", "read_memory", "write_memory", "write_reg"} => Eff'.dpc = shadow'[o.hart].dpc
    BY <1>1, <1>2 DEF Left, NeedsHalted
  <2> QED
    BY <1>1, <2>1, <2>2, <2>3, <2>4, <2>5 DEF Done
<1> QED
  BY <1>1, <1>4, <1>5, <1>6, <1>7, <1>8 DEF IInv

LEMMA DmTyped ==
  ASSUME IInv, Driver, driver' = "busy", pos' # pos, Advances, Formed(pos)
  PROVE  /\ dm' \in [hartsel : Hart, haltreq : BOOLEAN, data : Word, progbuf : Instrs,
                     cmd : Cmds \union {NoCmd}, cmderr : {FALSE}]
         /\ hart' \in [Hart -> Harts1]
         /\ dm'.cmd # NoCmd => At(pos) = [do |-> "command", cmd |-> dm'.cmd]
         /\ IF At(pos).do = "dmcontrol"
            THEN /\ dm'.hartsel = op.hart
                 /\ dm'.haltreq => At(pos).req = "halt"
                 /\ \/ hart' = hart /\ (At(pos).req = "resume" => Target.state # "halted")
                    \/ /\ At(pos).req = "resume" /\ Target.state = "halted"
                       /\ \/ op.name \in LateCalls /\ hart' = [hart EXCEPT ![op.hart].resuming = TRUE]
                          \/ hart' = [hart EXCEPT ![op.hart].state = "running"]
            ELSE hart' = hart /\ dm'.hartsel = dm.hartsel /\ dm'.haltreq = dm.haltreq
         /\ At(pos).do = "poll" => hart[dm.hartsel].state = At(pos).until
<1>1. /\ Called /\ Instr = At(pos) /\ op \in Op /\ op.hart \in Hart
  <2>1. Called
    BY DEF Advances, Called
  <2> QED
    BY <2>1, BusyShape
<1>2. /\ dm \in [hartsel : Hart, haltreq : BOOLEAN, data : Word, progbuf : Instrs,
                 cmd : Cmds \union {NoCmd}, cmderr : {FALSE}]
      /\ hart \in [Hart -> Harts1] /\ local \in Locals /\ dm.cmderr = FALSE
  BY DEF IInv, Types, Locals
<1>3. At(pos).do # "busy_wait" => dm.cmd = NoCmd
  BY <1>1, NoneUnderWay
<1> USE DEF Do
<1>4. CASE WriteDmcontrol
  <2>1. At(pos).do = "dmcontrol" /\ At(pos).hart = op.hart
    BY <1>1, <1>4 DEF WriteDmcontrol, Formed
  <2>2. /\ dm' = [dm EXCEPT !.hartsel = op.hart, !.haltreq = (At(pos).req = "halt")]
    BY <1>1, <1>4, <2>1 DEF WriteDmcontrol
  <2>3. \/ hart' = hart /\ (At(pos).req = "resume" => Target.state # "halted")
        \/ /\ At(pos).req = "resume" /\ Target.state = "halted"
           /\ \/ op.name \in LateCalls /\ hart' = [hart EXCEPT ![op.hart].resuming = TRUE]
              \/ hart' = [hart EXCEPT ![op.hart].state = "running"]
    BY <1>1, <1>4, <2>1 DEF WriteDmcontrol, Target
  <2>4. hart' \in [Hart -> Harts1]
    <3>1. [hart[op.hart] EXCEPT !.resuming = TRUE] \in Harts1
      <4> DEFINE h == hart[op.hart]
      <4>1. h \in Harts1 /\ TRUE \in BOOLEAN
        BY <1>1, <1>2
      <4> HIDE DEF h
      <4>2. [h EXCEPT !.resuming = TRUE] \in Harts1
        BY <4>1 DEF Harts1
      <4> QED
        BY <4>2 DEF h
    <3>2. [hart[op.hart] EXCEPT !.state = "running"] \in Harts1
      BY <1>1, <1>2 DEF Harts1
    <3> QED
      BY <1>1, <1>2, <2>3, <3>1, <3>2
  <2>5. /\ dm' \in [hartsel : Hart, haltreq : BOOLEAN, data : Word, progbuf : Instrs,
                    cmd : Cmds \union {NoCmd}, cmderr : {FALSE}]
        /\ dm'.cmd = NoCmd /\ dm'.hartsel = op.hart
    BY <1>1, <1>2, <1>3, <2>1, <2>2
  <2>6. dm'.haltreq => At(pos).req = "halt"
    BY <1>2, <2>2
  <2> QED
    BY <2>1, <2>3, <2>4, <2>5, <2>6
<1>5. CASE WriteData
  <2>1. At(pos).do = "put" /\ Operand(At(pos).src) \in Word
    <3>1. At(pos).do = "put" /\ op.value \in Word
      BY <1>1, <1>5 DEF WriteData
    <3> QED
      BY <1>2, <3>1 DEF Formed, Operand, Locals, Addr, Word
  <2>2. hart' = hart /\ dm' = [dm EXCEPT !.data = Operand(At(pos).src)]
    BY <1>1, <1>5 DEF WriteData
  <2> QED
    BY <1>2, <1>3, <2>1, <2>2
<1>6. CASE WriteProgbuf
  <2>1. At(pos).do = "progbuf" /\ At(pos).instr \in Instrs
    BY <1>1, <1>6 DEF WriteProgbuf, Formed
  <2>2. hart' = hart /\ dm' = [dm EXCEPT !.progbuf = At(pos).instr]
    BY <1>1, <1>6 DEF WriteProgbuf
  <2> QED
    BY <1>2, <1>3, <2>1, <2>2
<1>7. CASE WriteCommand
  <2>1. /\ At(pos).do = "command" /\ At(pos).cmd \in Cmds
        /\ At(pos) = [do |-> "command", cmd |-> At(pos).cmd]
    BY <1>1, <1>7 DEF WriteCommand, Formed
  <2>2. hart' = hart /\ dm' = [dm EXCEPT !.cmd = At(pos).cmd]
    BY <1>1, <1>2, <1>7 DEF WriteCommand
  <2> QED
    BY <1>2, <2>1, <2>2
<1>8. CASE ReadData \/ ChangeFlag \/ CheckDcsrCause
  <2>1. At(pos).do \in {"get", "flag", "check"} /\ hart' = hart /\ dm' = dm
    BY <1>1, <1>8 DEF ReadData, ChangeFlag, CheckDcsrCause
  <2> QED
    BY <1>2, <1>3, <2>1
<1>9. CASE PollDone
  <2>1. At(pos).do \in {"poll", "busy_wait"} /\ hart' = hart /\ dm' = dm
        /\ (At(pos).do = "poll" => hart[dm.hartsel].state = At(pos).until)
        /\ (At(pos).do = "busy_wait" => dm.cmd = NoCmd)
    BY <1>1, <1>9 DEF PollDone, Waiting, Answer
  <2> QED
    BY <1>2, <1>3, <2>1
<1>10. ~PollAgain /\ ~Timeout /\ ~Return
  BY DEF PollAgain, Timeout, Return
<1> QED
  BY <1>4, <1>5, <1>6, <1>7, <1>8, <1>9, <1>10 DEF Driver

LEMMA AdvanceStep ==
  ASSUME IInv, ~OldHaltTaken, Driver, driver' = "busy", pos' # pos
  PROVE  IInv'
<1>1. Advances /\ Effect /\ pos < Len(Script(op))
  BY Effects, AdvancesWithin
<1>2. /\ driver = "busy" /\ driver' = "busy" /\ pos' = pos + 1 /\ op' = op /\ shadow' = shadow
      /\ Called /\ Called'
  BY <1>1 DEF Advances, Called
<1>3. /\ op \in Op /\ op.hart \in Hart /\ Instr = At(pos) /\ pos \in 1 .. 28 /\ Formed(pos)
      /\ Len(Script(op)) \in 1 .. 28 /\ Target \in Harts1 /\ InPhase /\ Done
      /\ pos >= 2 => dm.hartsel = op.hart
  <2>1. /\ pos \in 1 .. Len(Script(op)) /\ Len(Script(op)) \in 1 .. 28
    BY <1>2, BusyShape DEF WellFormed
  <2>2. Formed(pos)
    BY <1>1, <1>2, <2>1, BusyShape
  <2> QED
    BY <1>2, <2>1, <2>2, BusyShape DEF IInv, Types
<1>4. Moves
  BY <1>1, <1>2, <1>3, PhasesInOrder
<1>5. /\ dm' \in [hartsel : Hart, haltreq : BOOLEAN, data : Word, progbuf : Instrs,
                  cmd : Cmds \union {NoCmd}, cmderr : {FALSE}]
      /\ hart' \in [Hart -> Harts1]
      /\ dm'.cmd # NoCmd => At(pos) = [do |-> "command", cmd |-> dm'.cmd]
  BY <1>1, <1>3, DmTyped
<1>6. At(pos).do = "dmcontrol" =>
        /\ dm'.hartsel = op.hart
        /\ dm'.haltreq => At(pos).req = "halt"
        /\ \/ hart' = hart /\ (At(pos).req = "resume" => Target.state # "halted")
           \/ /\ At(pos).req = "resume" /\ Target.state = "halted"
              /\ \/ op.name \in LateCalls /\ hart' = [hart EXCEPT ![op.hart].resuming = TRUE]
                 \/ hart' = [hart EXCEPT ![op.hart].state = "running"]
  BY <1>1, <1>3, DmTyped
<1>7. At(pos).do # "dmcontrol" => hart' = hart /\ dm'.hartsel = dm.hartsel /\ dm'.haltreq = dm.haltreq
  BY <1>1, <1>3, DmTyped
<1>8. At(pos).do = "poll" => hart[dm.hartsel].state = At(pos).until
  BY <1>1, <1>3, DmTyped
<1>9. op.name \in Steps /\ pos = 14 => Ran /\ Target.state = "halted" /\ ~Target.resuming
  <2> SUFFICES ASSUME op.name \in Steps, pos = 14
               PROVE  Ran /\ Target.state = "halted" /\ ~Target.resuming
    OBVIOUS
  <2>1. Phase = "away" /\ At(pos) = Polls("halted")
    BY <1>3, PhaseOf, StepsTable DEF PhaseTable
  <2>2. Target.state = "halted" /\ Away /\ dm.hartsel = op.hart
    BY <1>3, <1>8, <2>1 DEF Polls, Target, InPhase
  <2>3. Instr.do = "poll" /\ Instr.until = "halted"
    BY <1>3, <2>1 DEF Polls
  <2>4. PollDone
    BY <1>2, <2>3 DEF Driver, WriteDmcontrol, WriteData, WriteProgbuf, WriteCommand, ReadData, ChangeFlag,
       CheckDcsrCause, PollAgain, Timeout, Return, Do
  <2>5. ~Target.resuming
    BY <2>2, <2>3, <2>4 DEF OldHaltTaken, Target
  <2> QED
    BY <2>2, <2>5 DEF Away
<1>10. Done' /\ local' \in Locals /\ local'.dcsr_reg \in Dcsrs
  BY <1>1, <1>2, <1>9, DoneStep
<1>11. Types'
  <2>1. op' \in Op /\ Len(Script(op))' = Len(Script(op)) /\ pos' \in 1 .. Len(Script(op))
    BY <1>1, <1>2, <1>3
  <2>2. polled' \in BOOLEAN /\ shadow' \in [Hart -> [a1 : Word, dpc : 0 .. ProgLen - 1]]
    <3>1. polled' \in BOOLEAN
      BY <1>2 DEF Driver, WriteDmcontrol, WriteData, WriteProgbuf, WriteCommand, ReadData, ChangeFlag,
         CheckDcsrCause, PollDone, PollAgain, Timeout, Return, Next1, IInv, Types
    <3> QED
      BY <1>2, <3>1 DEF IInv, Types
  <2>3. driver' \in {"idle", "busy", "timeout"} /\ pos' \in 1 .. 28
    <3>1. pos < Len(Script(op)) /\ Len(Script(op)) \in 1 .. 28 /\ pos \in 1 .. 28
      BY <1>1, <1>3
    <3>2. pos' \in 1 .. 28
      <4>1. pos' = pos + 1
        BY <1>2
      <4>2. \A n \in 1 .. 28 : pos < n => pos + 1 \in 1 .. 28
        BY <3>1
      <4> QED
        BY <3>1, <4>1, <4>2
    <3>3. driver' \in {"idle", "busy", "timeout"}
      BY <1>2
    <3> QED
      BY <3>2, <3>3
  <2>4. Called' => op' \in Op /\ pos' \in 1 .. Len(Script(op))'
    BY <2>1
  <2> QED
    BY <1>5, <1>10, <2>2, <2>3, <2>4 DEF Types, Locals
<1>12. Pending'
  <2>1. At(pos - 1)' = At(pos)
    BY <1>2, <1>3 DEF At
  <2>2. pos' > 1
    BY <1>2, <1>3
  <2> QED
    BY <1>2, <1>5, <2>1, <2>2 DEF Pending
<1>13. Requests'
  <2>1. CASE At(pos).do = "dmcontrol"
    <3>1. dm'.haltreq => Phase' = "asked" /\ dm'.hartsel = op.hart
      BY <1>4, <1>6, <2>1 DEF Moves, Selects, Plain, Polls
    <3> QED
      BY <1>2, <3>1 DEF Requests
  <2>2. CASE At(pos).do # "dmcontrol"
    <3>1. Phase = "asked" => hart[dm.hartsel].state = "halted" /\ ~hart[dm.hartsel].resuming
      BY <1>3, <1>4, <1>8 DEF Moves, Polls, InPhase, Target
    <3> QED
      BY <1>7, <2>2, <3>1 DEF Requests, IInv
  <2> QED
    BY <2>1, <2>2
<1>14. \A k \in Hart : (Called' => op'.hart # k) => Left(k)'
  <2> SUFFICES ASSUME NEW k \in Hart, op.hart # k PROVE Left(k)'
    BY <1>2
  <2>1. Left(k)
    BY DEF IInv
  <2>2. hart'[k] = hart[k]
    BY <1>3, <1>6, <1>7 DEF IInv, Types
  <2> QED
    BY <1>2, <2>1, <2>2 DEF Left
<1>15. pos' >= 2 => dm'.hartsel = op'.hart
  <2>1. pos = 1 => At(pos).do = "dmcontrol"
    BY <1>2, BusyShape DEF WellFormed
  <2> QED
    BY <1>2, <1>3, <1>6, <1>7, <2>1
<1>16. InPhase'
  <2>1. At(pos) # Selects("resume") => Target' = Target
    <3>1. At(pos) # Selects("resume") => hart' = hart
      BY <1>6, <1>7, <1>4 DEF Moves, Plain, Selects, Polls
    <3> QED
      BY <1>2, <3>1 DEF Target
  <2>2. CASE Phase = "any" /\ pos = 1 /\ At(pos) = Selects("halt") /\ Phase' = "asked"
    BY <1>3, <2>1, <2>2 DEF InPhase, Selects
  <2>3. CASE Phase = "asked" /\ pos = 2 /\ At(pos) = Polls("halted") /\ Phase' = "held"
    <3>1. Target.state = "halted"
      BY <1>3, <1>8, <2>3 DEF Target, Polls
    <3> QED
      BY <1>3, <2>1, <2>3, <3>1 DEF InPhase, Selects, Polls
  <2>4. CASE Phase = "held" /\ Plain(pos) /\ Phase' = "held"
    <3>1. At(pos) # Selects("resume")
      BY <2>4 DEF Plain, Selects
    <3> QED
      BY <1>3, <2>1, <2>4, <3>1 DEF InPhase
  <2>5. CASE Phase = "held" /\ op.name \in Leaves /\ At(pos) = Selects("resume") /\ Phase' = "leaving"
    <3>1. Target.state = "halted" /\ ~Target.resuming
      BY <1>3, <2>5 DEF InPhase
    <3>2. \/ hart' = [hart EXCEPT ![op.hart].resuming = TRUE]
          \/ hart' = [hart EXCEPT ![op.hart].state = "running"]
      BY <1>6, <2>5, <3>1 DEF Selects
    <3>3. \/ Target' = [Target EXCEPT !.resuming = TRUE]
          \/ Target' = [Target EXCEPT !.state = "running"]
      BY <1>2, <1>3, <3>2 DEF Target, IInv, Types
    <3>4. \/ Target'.resuming /\ Target'.state = "halted"
          \/ ~Target'.resuming /\ Target'.state = "running"
      BY <1>3, <3>1, <3>3 DEF Harts1
    <3> QED
      BY <2>5, <3>4 DEF InPhase
  <2>6. CASE Phase = "leaving" /\ pos >= 2 /\ At(pos) = Polls("running") /\ Phase' = "left"
    <3>1. Target.state = "running"
      BY <1>3, <1>8, <2>6 DEF Target, Polls
    <3> QED
      BY <1>3, <2>1, <2>6, <3>1 DEF InPhase, Selects, Polls
  <2>7. CASE Phase = "held" /\ op.name \in Steps /\ pos = 13 /\ At(pos) = Selects("resume") /\ Phase' = "away"
    <3>1. Target.state = "halted" /\ ~Target.resuming
      BY <1>3, <2>7 DEF InPhase
    <3>2. \/ hart' = [hart EXCEPT ![op.hart].resuming = TRUE]
          \/ hart' = [hart EXCEPT ![op.hart].state = "running"]
      BY <1>6, <2>7, <3>1 DEF Selects
    <3>3. \/ Target' = [Target EXCEPT !.resuming = TRUE]
          \/ Target' = [Target EXCEPT !.state = "running"]
      BY <1>2, <1>3, <3>2 DEF Target, IInv, Types
    <3>4. \/ Target'.resuming /\ Target'.state = "halted"
          \/ ~Target'.resuming /\ Target'.state = "running"
      BY <1>3, <3>1, <3>3 DEF Harts1
    <3>5. Eff'.dpc = Eff.dpc /\ Eff.dpc = shadow[op.hart].dpc
      BY <1>1, <1>3, <2>7 DEF Effect, EffKept, Selects, Done, StepsHart
    <3> QED
      BY <1>2, <2>7, <3>4, <3>5 DEF InPhase, Away
  <2>8. CASE Phase = "away" /\ op.name \in Steps /\ pos = 14 /\ At(pos) = Polls("halted") /\ Phase' = "held"
    BY <1>3, <1>9, <2>1, <2>8 DEF InPhase, Selects, Polls
  <2> QED
    BY <1>4, <2>2, <2>3, <2>4, <2>5, <2>6, <2>7, <2>8 DEF Moves
<1> QED
  BY <1>2, <1>10, <1>11, <1>12, <1>13, <1>14, <1>15, <1>16 DEF IInv

LEMMA DoneKept ==
  ASSUME IInv, Called, UNCHANGED <<op, pos, local, shadow>>, Eff' = Eff, Data' = Data, BufKept
  PROVE  Done' /\ Phase' = Phase
<1>1. Phase' = Phase
  BY DEF Phase
<1> QED
  BY <1>1 DEF IInv, Done, ReadsReg, WritesReg, ReadsMemory, WritesMemory, StepsHart,
     Reading, Writing, WritingCsr, Ran, Flagged, BufKept

\* A step that leaves call, debug module and harts alone.
LEMMA StillStep ==
  ASSUME IInv, UNCHANGED <<op, pos, local, dm, hart, shadow>>, polled' \in BOOLEAN,
         Called, driver' \in {"busy", "timeout"}
  PROVE  IInv'
<1>1. Called' /\ Called' = Called
  BY DEF Called
<1>2. Eff' = Eff /\ Data' = Data /\ Target' = Target
  BY Unmoved
<1>3. Types'
  BY <1>1 DEF IInv, Types
<1>4. Pending'
  BY <1>1 DEF IInv, Pending, At
<1>5. Done' /\ Phase' = Phase
  BY <1>2, DoneKept DEF BufKept
<1>6. Requests' /\ \A k \in Hart : (Called' => op'.hart # k) => Left(k)'
  BY <1>1, <1>5 DEF IInv, Requests, Left
<1>7. InPhase'
  BY <1>2, <1>5 DEF IInv, InPhase, Away, Ran
<1> QED
  BY <1>1, <1>3, <1>4, <1>5, <1>6, <1>7 DEF IInv

\* The check of dcsr never panics.
LEMMA CauseAsExpected ==
  ASSUME IInv, CheckDcsrCause
  PROVE  Cause(local.dcsr_reg) = Instr.cause
<1>1. driver = "busy" /\ Called /\ Instr.do = "check"
  BY DEF CheckDcsrCause, Do, Called
<1>2. op \in Op /\ Instr = At(pos) /\ pos \in 1 .. Len(Script(op)) /\ Formed(pos) /\ Done
  <2>1. At(pos).do = "check"
    BY <1>1, BusyShape
  <2>2. pos \in 1 .. Len(Script(op)) /\ Len(Script(op)) \in 1 .. 28 /\ pos # Len(Script(op))
    BY <1>1, <2>1, BusyShape DEF WellFormed
  <2> QED
    BY <1>1, <2>2, BusyShape DEF IInv
<1>3. At(pos).cause = CauseOf /\ op.name \in Steps /\ pos = 19
  BY <1>1, <1>2 DEF Formed
<1>4. local.dcsr_reg = Eff.dcsr /\ Ran
  BY <1>2, <1>3 DEF Done, StepsHart
<1> QED
  BY <1>2, <1>3, <1>4 DEF Ran, CauseOf, Steps

LEMMA ExpectedFields ==
  ASSUME op \in Op, Target \in Harts1, NEW x \in [a1 : Word, dpc : 0 .. ProgLen - 1]
  PROVE  /\ Expected(op, x) \in [a1 : Word, dpc : 0 .. ProgLen - 1]
         /\ op.name = "halt" => Expected(op, x).dpc = Target.dpc
         /\ op.name = "write_reg" /\ op.reg = "dpc" => Expected(op, x).dpc = op.value
         /\ op.name = "single_step" => Expected(op, x).dpc = StepOf(x.dpc)
         /\ op.name = "continue" => Expected(op, x).dpc = Brk
         /\ op.name \in {"read_reg", "read_memory", "write_memory"}
            \/ (op.name = "write_reg" /\ op.reg # "dpc") => Expected(op, x).dpc = x.dpc
         /\ op.name \in Leaves => Expected(op, x).dpc = x.dpc
<1> USE DEF Leaves
<1>1. StepOf(x.dpc) \in 0 .. ProgLen - 1 /\ Target.dpc \in 0 .. ProgLen - 1 /\ op.value \in Word
  BY DEF StepOf, Harts1
<1>2. op.reg = "dpc" => op.value \in 0 .. ProgLen - 1
  OBVIOUS
<1>3. CASE op.name \in {"write_reg", "write_rfpc_reg"} /\ op.reg = "a1"
  BY <1>1, <1>3 DEF Expected
<1>4. CASE op.name = "write_reg" /\ op.reg = "dpc"
  BY <1>2, <1>4 DEF Expected
<1>5. CASE op.name = "single_step"
  BY <1>1, <1>5 DEF Expected
<1>6. CASE op.name = "continue"
  BY <1>6 DEF Expected
<1>7. CASE op.name = "halt"
  BY <1>1, <1>7 DEF Expected, Target
<1>8. CASE /\ ~(op.name \in {"write_reg", "write_rfpc_reg"} /\ op.reg = "a1")
           /\ ~(op.name = "write_reg" /\ op.reg = "dpc")
           /\ op.name \notin {"single_step", "continue", "halt"}
  BY <1>8 DEF Expected
<1> QED
  BY <1>3, <1>4, <1>5, <1>6, <1>7, <1>8

LEMMA LastPhase ==
  ASSUME op \in Op, pos = Len(Script(op))
  PROVE  Phase = IF op.name \in Leaves THEN "left" ELSE "held"
<1>0. op.name \in Names /\ PhaseTable
  BY PhaseOf
<1>1. CASE op.name = "resume"
  <2>1. pos = 3
    BY <1>1, ResumeTable DEF Length
  <2> QED
    BY <1>0, <1>1, <2>1 DEF PhaseTable, Leaves
<1>2. CASE op.name = "read_rfpc_reg"
  <2>1. pos = 9
    BY <1>2, ReadRfpcTable DEF Length
  <2> QED
    BY <1>0, <1>2, <2>1 DEF PhaseTable, Leaves
<1>3. CASE op.name = "write_rfpc_reg" /\ op.reg = "dpc"
  <2>1. pos = 12
    BY <1>3, WriteRfpcTable DEF Length
  <2> QED
    BY <1>0, <1>3, <2>1 DEF PhaseTable, Leaves
<1>4. CASE op.name = "write_rfpc_reg" /\ op.reg # "dpc"
  <2>1. pos = 9
    BY <1>4, WriteRfpcTable DEF Length
  <2> QED
    BY <1>0, <1>4, <2>1 DEF PhaseTable, Leaves
<1>5. CASE op.name \in Steps
  <2>1. pos = 28
    BY <1>5, StepsTable DEF Length
  <2> QED
    BY <1>0, <1>5, <2>1 DEF PhaseTable, Leaves, Steps
<1>6. CASE op.name = "halt"
  <2>1. pos = 3
    BY <1>6, HaltTable DEF Length
  <2> QED
    BY <1>0, <1>6, <2>1 DEF PhaseTable, Leaves
<1>7. CASE op.name \notin Steps \union Stops \union Leaves
  BY <1>0, <1>7 DEF PhaseTable
<1> QED
  BY <1>1, <1>2, <1>3, <1>4, <1>5, <1>6, <1>7 DEF Stops, Leaves

\* A call that returns leaves its hart as the user expects it.
LEMMA Returns ==
  ASSUME IInv, Return
  PROVE  /\ Called /\ op \in Op /\ op.hart \in Hart /\ Target \in Harts1
         /\ dm.cmd = NoCmd /\ Eff = Target
         /\ pos = Len(Script(op)) /\ pos \in 1 .. 28 /\ InPhase /\ Done
         /\ Clear(Target.dcsr) /\ ~Target.resuming
         /\ Target.state = "halted" => Target.dpc = Expected(op, shadow[op.hart]).dpc
<1>1. /\ Called /\ ~Called' /\ driver' = "idle" /\ At(pos).do = "return" /\ op' = op /\ pos' = pos
      /\ polled' = polled /\ dm' = dm /\ hart' = hart
      /\ shadow' = [shadow EXCEPT ![op.hart] = Expected(op, @)]
      /\ local' = [local EXCEPT !.temp_a0 = 0, !.temp_a1 = 0, !.dcsr_reg = 0]
      /\ op \in Op /\ op.hart \in Hart /\ Target \in Harts1
  <2>1. Called /\ Instr.do = "return"
    BY DEF Return, Do, Called
  <2> QED
    BY <2>1, BusyShape DEF Return, Called
<1>2. dm.cmd = NoCmd /\ Eff = Target
  BY <1>1, NoneUnderWay
<1>3. pos = Len(Script(op)) /\ pos \in 1 .. 28 /\ InPhase /\ Done
  <2>1. pos \in 1 .. Len(Script(op)) /\ Len(Script(op)) \in 1 .. 28
    BY <1>1, BusyShape DEF WellFormed
  <2>2. pos < Len(Script(op)) => Formed(pos)
    BY <1>1, <2>1, BusyShape
  <2>3. ~Formed(pos)
    BY <1>1 DEF Formed
  <2>4. pos = Len(Script(op)) /\ pos \in 1 .. 28
    <3>1. ~(pos < Len(Script(op)))
      BY <2>2, <2>3
    <3>2. \A n \in 1 .. 28 : pos \in 1 .. n /\ ~(pos < n) => pos = n
      OBVIOUS
    <3> QED
      BY <2>1, <3>1, <3>2
  <2>5. InPhase /\ Done
    BY <1>1 DEF IInv
  <2> QED
    BY <2>4, <2>5
<1>4. /\ Clear(Target.dcsr) /\ ~Target.resuming
      /\ Target.state = "halted" => Target.dpc = Expected(op, shadow[op.hart]).dpc
  <2>0. /\ op.name \in Names /\ (op.name \in Accesses => op.reg \in Regs) /\ PhaseTable
        /\ shadow[op.hart] \in [a1 : Word, dpc : 0 .. ProgLen - 1]
    BY <1>1, PhaseOf DEF IInv, Types
  <2>1. ~Target.resuming /\ (op.name \in Leaves => Target.state = "running")
    <3>1. Phase = IF op.name \in Leaves THEN "left" ELSE "held"
      BY <1>1, <1>3, LastPhase
    <3> QED
      BY <1>3, <3>1 DEF InPhase
  <2>2. CASE op.name \in Leaves
    BY <1>2, <1>3, <2>1, <2>2 DEF Done, Leaves, Steps
  <2>3. CASE op.name = "halt"
    BY <1>1, <1>2, <1>3, <2>0, <2>1, <2>3, ExpectedFields DEF Done, Steps
  <2>4. CASE op.name \in {"read_reg", "read_memory", "write_memory"}
             \/ (op.name = "write_reg" /\ op.reg # "dpc")
    BY <1>1, <1>2, <1>3, <2>0, <2>1, <2>4, ExpectedFields DEF Done, Steps
  <2>5. CASE op.name = "write_reg" /\ op.reg = "dpc"
    <3>1. WritesReg(0) /\ Phase = "held" /\ Clear(Eff.dcsr)
      BY <1>3, <2>0, <2>5 DEF Done, PhaseTable, Steps, Stops, Leaves
    <3>2. pos = 8
      BY <1>1, <1>3, <2>5, WriteRegTable DEF Length
    <3>3. Eff.dpc = op.value
      BY <2>5, <3>1, <3>2 DEF WritesReg
    <3> QED
      BY <1>1, <1>2, <2>0, <2>1, <2>5, <3>1, <3>3, ExpectedFields
  <2>6. CASE op.name \in Steps
    <3>1. pos = 28
      BY <1>1, <1>3, <2>6, StepsTable DEF Length
    <3>2. StepsHart
      BY <1>3, <2>6 DEF Done
    <3>3. /\ Clear(Eff.dcsr)
          /\ Eff.dpc = IF op.name = "single_step" THEN StepOf(shadow[op.hart].dpc) ELSE Brk
      BY <3>1, <3>2 DEF StepsHart
    <3> QED
      BY <1>1, <1>2, <2>0, <2>1, <2>6, <3>3, ExpectedFields DEF Steps
  <2> QED
    BY <2>0, <2>2, <2>3, <2>4, <2>5, <2>6 DEF Names, Accesses, Leaves, Steps
<1> QED
  BY <1>1, <1>2, <1>3, <1>4

LEMMA ReturnStep ==
  ASSUME IInv, Return
  PROVE  IInv'
<1>1. /\ Called /\ ~Called' /\ driver' = "idle" /\ op' = op /\ pos' = pos
      /\ polled' = polled /\ dm' = dm /\ hart' = hart
      /\ shadow' = [shadow EXCEPT ![op.hart] = Expected(op, @)]
      /\ local' = [local EXCEPT !.temp_a0 = 0, !.temp_a1 = 0, !.dcsr_reg = 0]
      /\ op \in Op /\ op.hart \in Hart /\ Target \in Harts1
  BY Returns DEF Return, Called
<1>2. dm.cmd = NoCmd
  BY Returns
<1>3. pos = Len(Script(op))
  BY Returns
<1>4. /\ Clear(Target.dcsr) /\ ~Target.resuming
      /\ Target.state = "halted" => Target.dpc = Expected(op, shadow[op.hart]).dpc
  BY Returns
<1>5. Types'
  <2>1. Expected(op, shadow[op.hart]) \in [a1 : Word, dpc : 0 .. ProgLen - 1]
    BY <1>1, ExpectedFields DEF IInv, Types
  <2>2. shadow' \in [Hart -> [a1 : Word, dpc : 0 .. ProgLen - 1]]
    BY <1>1, <2>1 DEF IInv, Types
  <2>3. local' \in Locals /\ local'.dcsr_reg \in Dcsrs
    <3>1. local \in Locals /\ 0 \in Word /\ 0 \in Dcsrs
      BY DEF IInv, Types, Locals, Word, Dcsrs
    <3> QED
      BY <1>1, <3>1 DEF Locals
  <2> QED
    BY <1>1, <2>2, <2>3 DEF IInv, Types, Locals
<1>6. Pending' /\ Requests'
  <2>1. ~(dm.haltreq /\ (hart[dm.hartsel].state = "running" \/ hart[dm.hartsel].resuming))
    <3>1. Phase # "asked"
      BY <1>1, <1>3, LastPhase
    <3> QED
      BY <3>1 DEF IInv, Requests
  <2> QED
    BY <1>1, <1>2, <2>1 DEF Pending, Requests
<1>7. \A k \in Hart : Left(k)'
  <2> SUFFICES ASSUME NEW k \in Hart PROVE Left(k)'
    OBVIOUS
  <2>1. CASE k = op.hart
    <3>1. hart'[k] = Target /\ shadow'[k] = Expected(op, shadow[op.hart])
      BY <1>1, <2>1 DEF IInv, Types, Target
    <3> QED
      BY <1>4, <3>1 DEF Left
  <2>2. CASE k # op.hart
    <3>1. hart'[k] = hart[k] /\ shadow'[k] = shadow[k] /\ Left(k)
      BY <1>1, <2>2 DEF IInv, Types
    <3> QED
      BY <3>1 DEF Left
  <2> QED
    BY <2>1, <2>2
<1> QED
  BY <1>1, <1>5, <1>6, <1>7 DEF IInv

-----------------------------------------------------------------------------
(* The inductive invariant: the steps of debug module and harts.           *)

\* The command under way leaves a program address in dpc.
LEMMA EffDpc ==
  ASSUME IInv, Called
  PROVE  Eff.dpc \in 0 .. ProgLen - 1
<1>1. /\ op \in Op /\ op.hart \in Hart /\ Target \in Harts1 /\ Done
      /\ shadow[op.hart].dpc \in 0 .. ProgLen - 1
  BY BusyShape DEF IInv, Types
<1>2. CASE dm.cmd = NoCmd
  BY <1>1, <1>2 DEF Eff, Harts1
<1>3. CASE dm.cmd # NoCmd
  <2>1. /\ pos \in Nat /\ pos > 1 /\ At(pos - 1) = [do |-> "command", cmd |-> dm.cmd] /\ Formed(pos - 1)
    <3>1. pos > 1 /\ At(pos - 1) = [do |-> "command", cmd |-> dm.cmd]
      BY <1>3 DEF IInv, Pending
    <3> QED
      BY <3>1, BusyShape DEF WellFormed
  <2>2. dm.cmd \in Cmds /\ (dm.cmd.kind \in {"exec", "write_exec"} => Executes(pos - 1))
    BY <2>1 DEF Formed
  <2>3. CASE dm.cmd.kind \in {"read", "write"}
    <3>1. \/ Eff = Target
          \/ Eff = [Target EXCEPT ![dm.cmd.reg] = dm.data] /\ dm.cmd.reg \in {"a0", "a1"}
      <4>1. CASE dm.cmd.kind = "read"
        BY <1>3, <4>1 DEF Eff, Executed
      <4>2. CASE dm.cmd.kind = "write"
        BY <1>3, <2>2, <4>2 DEF Eff, Executed, Cmds
      <4> QED
        BY <2>3, <4>1, <4>2
    <3>2. Eff.dpc = Target.dpc
      BY <1>1, <3>1 DEF Harts1
    <3> QED
      BY <1>1, <3>2 DEF Harts1
  <2>4. CASE dm.cmd.kind \in {"exec", "write_exec"}
    <3>1. Executes(pos - 1)
      BY <2>2, <2>4
    <3>2. CASE op.name \in {"read_memory", "write_memory"}
      BY <1>1, <3>2 DEF Done
    <3>3. CASE op.name \in Steps
      <4>1. pos # 14
        <5>1. At(13) = Selects("resume")
          BY <1>1, <3>3, StepsTable
        <5> QED
          BY <2>1, <5>1 DEF Selects
      <4>2. StepsHart
        BY <1>1, <3>3 DEF Done
      <4>3. \/ Eff.dpc = shadow[op.hart].dpc
            \/ Eff.dpc = Brk \/ Eff.dpc = StepOf(shadow[op.hart].dpc)
        BY <2>1, <4>1, <4>2 DEF StepsHart
      <4> QED
        BY <1>1, <4>3 DEF StepOf
    <3>4. CASE op.reg = "dpc" /\ op.name = "write_reg" /\ pos - 1 = 6
      <4>1. Phase = "held" /\ WritesReg(0) /\ pos = 7
        BY <1>1, <2>1, <3>4, PhaseOf DEF PhaseTable, Done, Steps, Stops, Leaves
      <4> QED
        BY <1>1, <3>4, <4>1 DEF WritesReg
    <3>5. CASE op.reg = "dpc" /\ op.name = "write_rfpc_reg" /\ pos - 1 = 8
      <4>1. Phase = "held" /\ WritesReg(2) /\ pos = 9
        BY <1>1, <2>1, <3>5, PhaseOf DEF PhaseTable, Done
      <4> QED
        BY <1>1, <3>5, <4>1 DEF WritesReg
    <3> QED
      BY <3>1, <3>2, <3>3, <3>4, <3>5 DEF Executes
  <2> QED
    BY <2>2, <2>3, <2>4 DEF Cmds
<1> QED
  BY <1>2, <1>3

\* While the target is not held, no command is under way.
LEMMA HeldWhileCommanded ==
  ASSUME IInv, Called, Phase # "held"
  PROVE  dm.cmd = NoCmd /\ Eff = Target
<1>1. op \in Op /\ pos \in 1 .. 28 /\ PhaseTable /\ op.name \in Names
  BY BusyShape, PhaseOf DEF IInv, Types
<1>2. At(pos).do # "busy_wait"
  <2>1. CASE pos = Len(Script(op))
    BY <2>1, BusyShape
  <2>2. CASE pos # Len(Script(op))
    <3>1. CASE op.name = "halt"
      BY <1>1, <3>1, HaltTable DEF PhaseTable, Selects, Polls
    <3>2. CASE op.name = "resume"
      <4>1. pos = 2 \/ pos = 3
        BY <1>1, <3>2 DEF PhaseTable
      <4> QED
        BY <2>2, <3>2, <4>1, <1>1, ResumeTable DEF Length, Polls
    <3>3. CASE op.name = "read_rfpc_reg"
      <4>1. pos \in {1, 2, 8, 9}
        BY <1>1, <3>3 DEF PhaseTable
      <4> QED
        BY <2>2, <3>3, <4>1, <1>1, ReadRfpcTable DEF Length, Selects, Polls
    <3>4. CASE op.name = "write_rfpc_reg" /\ op.reg # "dpc"
      <4>1. pos \in {1, 2, 8, 9}
        BY <1>1, <3>4 DEF PhaseTable
      <4> QED
        BY <2>2, <3>4, <4>1, <1>1, WriteRfpcTable DEF Length, Selects, Polls
    <3>5. CASE op.name = "write_rfpc_reg" /\ op.reg = "dpc"
      <4>1. pos \in {1, 2, 11, 12}
        BY <1>1, <3>5 DEF PhaseTable
      <4> QED
        BY <2>2, <3>5, <4>1, <1>1, WriteRfpcTable DEF Length, Selects, Polls
    <3>6. CASE op.name \in Steps
      BY <1>1, <3>6, StepsTable DEF PhaseTable, Polls
    <3> QED
      BY <1>1, <3>1, <3>2, <3>3, <3>4, <3>5, <3>6 DEF PhaseTable, Steps, Stops, Leaves
  <2> QED
    BY <2>1, <2>2
<1> QED
  BY <1>2, NoneUnderWay

LEMMA RunKeeps ==
  ASSUME NEW h \in Fields0, dm.progbuf \in Instrs
  PROVE  RunProgbuf(h).state = h.state /\ RunProgbuf(h).resuming = h.resuming
<1>1. \A csr \in {"dpc", "dcsr"} : \A v :
        WriteCsr(h, csr, v).state = h.state /\ WriteCsr(h, csr, v).resuming = h.resuming
  BY DEF WriteCsr, Fields0
<1>2. CASE dm.progbuf.do = "csrw"
  BY <1>1, <1>2 DEF RunProgbuf, Instrs
<1>3. CASE dm.progbuf.do \in {"ld", "sd"}
  BY <1>3 DEF RunProgbuf, Fields0
<1> QED
  BY <1>2, <1>3 DEF Instrs

LEMMA ExecuteStep ==
  ASSUME IInv, ExecuteCommand
  PROVE  IInv'
<1>1. /\ dm.cmd # NoCmd /\ Called /\ Called' /\ pos > 1 /\ dm.hartsel = op.hart
      /\ At(pos - 1) = [do |-> "command", cmd |-> dm.cmd] /\ pos \in 1 .. 28
  BY DEF IInv, Pending, Types, ExecuteCommand, Called
<1>2. /\ Target.state = "halted" /\ op.hart \in Hart /\ hart \in [Hart -> Harts1] /\ Target \in Harts1
      /\ dm \in [hartsel : Hart, haltreq : BOOLEAN, data : Word, progbuf : Instrs,
                 cmd : Cmds \union {NoCmd}, cmderr : {FALSE}]
  <2>1. Phase = "held"
    BY <1>1, HeldWhileCommanded
  <2> QED
    BY <1>1, <2>1, BusyShape DEF IInv, InPhase, Types
<1>3. /\ dm' = [dm EXCEPT !.cmd = NoCmd, !.data = Data] /\ hart' = [hart EXCEPT ![op.hart] = Eff]
      /\ UNCHANGED <<driver, op, pos, local, polled, shadow>>
  BY <1>1, <1>2 DEF ExecuteCommand, Target, Eff, Data
<1>4. Eff \in Fields0 /\ Data \in Word /\ Eff.dpc \in 0 .. ProgLen - 1
  BY <1>1, EffTyped, EffDpc
<1>5. Eff.state = Target.state /\ Eff.resuming = Target.resuming
  <2>1. Target \in Fields0 /\ dm.data \in Word /\ dm.progbuf \in Instrs /\ Eff = Executed(Target)
    BY <1>1, <1>2 DEF Harts1, Fields0, Word, Eff
  <2>2. dm.cmd \in Cmds
    BY <1>1, <1>2
  <2>3. CASE dm.cmd.kind = "read"
    BY <2>1, <2>3 DEF Executed
  <2>4. CASE dm.cmd.kind = "exec"
    BY <2>1, <2>4, RunKeeps DEF Executed
  <2> DEFINE g == [Target EXCEPT ![dm.cmd.reg] = dm.data]
  <2>5. dm.cmd.reg \in {"a0", "a1"} => g \in Fields0 /\ g.state = Target.state /\ g.resuming = Target.resuming
    BY <2>1 DEF Fields0
  <2> HIDE DEF g
  <2>6. CASE dm.cmd.kind = "write"
    <3>1. Eff = g /\ dm.cmd.reg \in {"a0", "a1"}
      BY <2>1, <2>2, <2>6 DEF Executed, Cmds, g
    <3> QED
      BY <2>5, <3>1
  <2>7. CASE dm.cmd.kind = "write_exec"
    <3>1. Eff = RunProgbuf(g) /\ dm.cmd.reg \in {"a0", "a1"}
      BY <2>1, <2>2, <2>7 DEF Executed, Cmds, g
    <3> QED
      BY <2>1, <2>5, <3>1, RunKeeps
  <2> QED
    BY <2>2, <2>3, <2>4, <2>6, <2>7 DEF Cmds
<1>6. /\ Eff \in Harts1 /\ Target' = Eff /\ dm'.cmd = NoCmd /\ dm'.data = Data /\ BufKept
      /\ dm'.hartsel = op.hart /\ dm'.haltreq = dm.haltreq
  <2>1. Eff \in Harts1
    BY <1>4 DEF Fields0, Harts1
  <2>2. Target' = Eff
    BY <1>2, <1>3 DEF Target
  <2> QED
    BY <1>1, <1>2, <1>3, <2>1, <2>2 DEF BufKept
<1>7. Eff' = Eff /\ Data' = Data
  BY <1>6 DEF Eff, Data, Answered, NoCmd
<1>8. Done' /\ Phase' = Phase
  BY <1>1, <1>3, <1>6, <1>7, DoneKept
<1>9. Types'
  <2>1. hart' \in [Hart -> Harts1]
    BY <1>2, <1>3, <1>6
  <2>2. dm' \in [hartsel : Hart, haltreq : BOOLEAN, data : Word, progbuf : Instrs,
                cmd : Cmds \union {NoCmd}, cmderr : {FALSE}]
    BY <1>2, <1>3, <1>4
  <2> QED
    BY <1>3, <2>1, <2>2 DEF IInv, Types, Called
<1>10. Pending' /\ Requests'
  <2>1. hart'[dm'.hartsel].state = "halted" /\ ~hart'[dm'.hartsel].resuming
    <3>1. ~Target.resuming
      BY <1>1, HeldWhileCommanded DEF IInv, InPhase
    <3> QED
      BY <1>2, <1>3, <1>5, <1>6, <3>1
  <2> QED
    BY <1>6, <2>1 DEF Pending, Requests
<1>11. \A k \in Hart : (Called' => op'.hart # k) => Left(k)'
  BY <1>1, <1>2, <1>3 DEF IInv, Left
<1>12. InPhase'
  <2>1. Target'.state = Target.state /\ Target'.resuming = Target.resuming
    BY <1>5, <1>6
  <2>2. Phase = "held" /\ InPhase
    BY <1>1, HeldWhileCommanded DEF IInv
  <2> QED
    BY <1>2, <1>8, <2>1, <2>2 DEF InPhase
<1> QED
  BY <1>1, <1>3, <1>6, <1>8, <1>9, <1>10, <1>11, <1>12 DEF IInv

\* A hart that runs or stops changes nothing of what its call has done to its registers.
LEMMA DoneAway ==
  ASSUME IInv, Called, Phase # "held", UNCHANGED <<op, pos, local, shadow, dm>>,
         Target'.a0 = Target.a0, Target'.a1 = Target.a1, Target'.mem = Target.mem,
         Clear(Target.dcsr) => Clear(Target'.dcsr), Flagged(Target.dcsr) => Flagged(Target'.dcsr)
  PROVE  Done' /\ Phase' = Phase
<1>1. Phase' = Phase /\ op' = op /\ pos' = pos /\ shadow' = shadow
  BY DEF Phase
<1>2. /\ op \in Op /\ op.name \in Names /\ (op.name \in Accesses => op.reg \in Regs) /\ PhaseTable
      /\ pos \in 1 .. Len(Script(op)) /\ pos \in 1 .. 28 /\ Done
  BY BusyShape, PhaseOf DEF IInv, Types
<1>3. dm.cmd = NoCmd /\ Eff = Target /\ Eff' = Target'
  BY HeldWhileCommanded DEF Eff
<1>4. Clear(Eff.dcsr) => Clear(Eff.dcsr)'
  BY <1>3 DEF Clear
<1>5. op.name \in Stops \union Leaves \union Steps
  BY <1>2 DEF PhaseTable
<1>6. CASE op.name \in {"halt", "resume"}
  BY <1>1, <1>2, <1>4, <1>6 DEF Done, Steps
<1>7. CASE op.name = "read_rfpc_reg"
  <2>1. pos \in {1, 2, 8, 9}
    BY <1>2, <1>7 DEF PhaseTable
  <2>2. ReadsReg(2)'
    <3>1. ReadsReg(2) /\ op.reg \in Regs
      BY <1>2, <1>7 DEF Done, Accesses
    <3> QED
      BY <1>1, <1>3, <2>1, <3>1 DEF ReadsReg, Reading, Regs
  <2> QED
    BY <1>1, <1>2, <1>4, <1>7, <2>2 DEF Done, Steps
<1>8. CASE op.name = "write_rfpc_reg"
  <2>1. WritesReg(2) /\ op.reg \in Regs
    BY <1>2, <1>8 DEF Done, Accesses
  <2>2. CASE op.reg = "dpc"
    <3>1. pos \in {1, 2, 11, 12}
      BY <1>2, <1>8, <2>2 DEF PhaseTable
    <3> QED
      BY <1>1, <1>2, <1>4, <1>8, <2>2, <3>1 DEF Done, Steps, WritesReg, WritingCsr
  <2>3. CASE op.reg # "dpc"
    <3>1. pos \in {1, 2, 8, 9}
      BY <1>2, <1>8, <2>3 DEF PhaseTable
    <3>2. WritesReg(2)'
      BY <1>3, <2>1, <2>3, <3>1 DEF WritesReg, Writing, Regs
    <3> QED
      BY <1>1, <1>2, <1>4, <1>8, <3>2 DEF Done, Steps
  <2> QED
    BY <2>2, <2>3
<1>9. CASE op.name \in Steps
  <2>1. pos = 14 /\ StepsHart
    BY <1>2, <1>9 DEF PhaseTable, Done
  <2>2. Flagged(Eff.dcsr) => Flagged(Eff.dcsr)'
    BY <1>3 DEF Flagged
  <2>3. StepsHart'
    BY <2>1, <2>2 DEF StepsHart, Reading, WritingCsr
  <2> QED
    BY <1>1, <1>9, <2>3 DEF Done, Steps
<1> QED
  BY <1>1, <1>5, <1>6, <1>7, <1>8, <1>9 DEF Stops, Leaves

\* Harts that no call is about only run.
LEMMA OtherHartStep ==
  ASSUME IInv, NEW k \in Hart, Called => op.hart # k,
         Resume(k) \/ HaltRequested(k) \/ Breakpoint(k) \/ Retire(k)
  PROVE  IInv'
<1>1. /\ hart \in [Hart -> Harts1] /\ hart[k] \in Harts1
      /\ ~hart[k].resuming /\ ~HasStep(hart[k].dcsr) /\ ~HasEbreak(hart[k].dcsr)
  BY DEF IInv, Types, Left, Clear
<1>2. hart[k].state = "running" => ~(dm.haltreq /\ dm.hartsel = k)
  BY DEF IInv, Requests
<1>3. Retire(k)
  BY <1>1, <1>2 DEF Resume, HaltRequested, Breakpoint
<1> DEFINE h == [hart[k] EXCEPT !.dpc = StepOf(@)]
<1>4. h \in Harts1 /\ h.dcsr = hart[k].dcsr /\ h.state = hart[k].state /\ h.resuming = hart[k].resuming
  BY <1>1 DEF Harts1, StepOf
<1>5. /\ hart[k].state = "running" /\ hart' = [hart EXCEPT ![k] = h]
      /\ UNCHANGED <<driver, op, pos, local, polled, dm, shadow>>
  BY <1>1, <1>3, <1>4 DEF Retire, HartSteps
<1> HIDE DEF h
<1>6. Types'
  <2>1. hart' \in [Hart -> Harts1]
    BY <1>1, <1>4, <1>5
  <2> QED
    BY <1>5, <2>1 DEF IInv, Types, Called
<1>7. Pending' /\ Requests'
  <2>1. /\ hart'[dm.hartsel].state = hart[dm.hartsel].state
        /\ hart'[dm.hartsel].resuming = hart[dm.hartsel].resuming
    BY <1>1, <1>4, <1>5 DEF IInv, Types
  <2>2. Phase' = Phase
    BY <1>5 DEF Phase
  <2> QED
    BY <1>5, <2>1, <2>2 DEF IInv, Pending, Requests, At, Called
<1>8. \A j \in Hart : (Called' => op'.hart # j) => Left(j)'
  <2> SUFFICES ASSUME NEW j \in Hart, Called => op.hart # j PROVE Left(j)'
    BY <1>5 DEF Called
  <2>1. Left(j)
    BY DEF IInv
  <2>2. CASE j = k
    BY <1>1, <1>4, <1>5, <2>1, <2>2 DEF Left
  <2>3. CASE j # k
    BY <1>1, <1>5, <2>1, <2>3 DEF Left
  <2> QED
    BY <2>2, <2>3
<1>9. ASSUME Called PROVE InPhase' /\ Done' /\ (pos' >= 2 => dm'.hartsel = op'.hart)
  <2>1. Target' = Target
    BY <1>1, <1>5, <1>9, BusyShape DEF Target
  <2>2. Eff' = Eff /\ Data' = Data
    <3>1. Executed(Target)' = Executed(Target)
      BY <1>5, <2>1 DEF Executed, RunProgbuf, WriteCsr
    <3> QED
      BY <1>5, <2>1, <3>1 DEF Eff, Data, Answered
  <2>3. Done' /\ Phase' = Phase
    BY <1>5, <1>9, <2>2, DoneKept DEF BufKept
  <2> QED
    BY <1>5, <1>9, <2>1, <2>2, <2>3 DEF IInv, InPhase, Away, Ran
<1> QED
  BY <1>5, <1>6, <1>7, <1>8, <1>9 DEF IInv, Called

Ends(h) == IF op.name = "single_step"
           THEN Cause(h.dcsr) = StepCause /\ h.dpc = StepOf(shadow[op.hart].dpc)
           ELSE Cause(h.dcsr) = EbreakCause /\ h.dpc = Brk

\* What any step makes of the target of a call.
Becomes(h) ==
  /\ h \in Harts1 /\ hart' = [hart EXCEPT ![op.hart] = h]
  /\ h.a0 = Target.a0 /\ h.a1 = Target.a1 /\ h.mem = Target.mem
  /\ Clear(Target.dcsr) => Clear(h.dcsr)
  /\ Flagged(Target.dcsr) => Flagged(h.dcsr)
  /\ ~h.resuming
  /\ Phase \in {"leaving", "left"} => h.state = "running"
  /\ Phase = "away" => \/ /\ h.state = "running"
                          /\ op.name = "single_step" => h.dpc = shadow[op.hart].dpc
                       \/ h.state = "halted" /\ Ends(h)
  /\ h.state = "running" => Target.state = "running" \/ Target.resuming

LEMMA HaltedFields ==
  ASSUME NEW h \in Harts1, NEW cause \in 0 .. 7
  PROVE  /\ Halted(h, cause) \in Harts1 /\ Halted(h, cause).state = "halted"
         /\ Halted(h, cause).a0 = h.a0 /\ Halted(h, cause).a1 = h.a1 /\ Halted(h, cause).mem = h.mem
         /\ Halted(h, cause).dpc = h.dpc /\ Halted(h, cause).resuming = h.resuming
         /\ Cause(Halted(h, cause).dcsr) = cause
         /\ Clear(h.dcsr) => Clear(Halted(h, cause).dcsr)
         /\ Flagged(h.dcsr) => Flagged(Halted(h, cause).dcsr)
<1> DEFINE d == Dcsr(cause, HasEbreak(h.dcsr), HasStep(h.dcsr))
<1>1. /\ d \in Dcsrs /\ Cause(d) = cause
      /\ HasEbreak(d) <=> HasEbreak(h.dcsr)
      /\ HasStep(d) <=> HasStep(h.dcsr)
  BY DcsrFields DEF HasEbreak, HasStep
<1>2. Halted(h, cause) = [h EXCEPT !.state = "halted", !.dcsr = d]
  BY DEF Halted
<1> HIDE DEF d
<1>3. /\ Halted(h, cause) \in Harts1 /\ Halted(h, cause).state = "halted"
      /\ Halted(h, cause).a0 = h.a0 /\ Halted(h, cause).a1 = h.a1 /\ Halted(h, cause).mem = h.mem
      /\ Halted(h, cause).dpc = h.dpc /\ Halted(h, cause).resuming = h.resuming
      /\ Halted(h, cause).dcsr = d
  BY <1>1, <1>2 DEF Harts1
<1> QED
  BY <1>1, <1>3 DEF Clear, Flagged

\* The flags of a hart that runs while a call is about it.
LEMMA FlagsByCall ==
  ASSUME IInv, Called, Phase # "held"
  PROVE  /\ op.name \notin Steps => Clear(Target.dcsr)
         /\ op.name \in Steps => Phase = "away" /\ Flagged(Target.dcsr)
<1>1. Done /\ PhaseTable /\ Eff = Target
  BY BusyShape, PhaseOf, HeldWhileCommanded DEF IInv
<1>2. op.name \notin Steps => Clear(Target.dcsr)
  BY <1>1 DEF Done
<1>3. op.name \in Steps => Phase = "away" /\ pos = 14 /\ StepsHart
  BY <1>1 DEF PhaseTable, Done
<1> QED
  BY <1>1, <1>2, <1>3 DEF StepsHart

LEMMA OwnHartStep ==
  ASSUME IInv, Called,
         Resume(op.hart) \/ HaltRequested(op.hart) \/ Breakpoint(op.hart) \/ Retire(op.hart)
  PROVE  IInv'
<1>1. /\ op \in Op /\ op.hart \in Hart /\ Target \in Harts1 /\ Target = hart[op.hart] /\ InPhase /\ Done
      /\ hart \in [Hart -> Harts1] /\ op.name \in Names /\ PhaseTable
  BY BusyShape, PhaseOf DEF IInv, Types, Target
<1>2. UNCHANGED <<driver, op, pos, local, polled, dm, shadow>>
  BY DEF Resume, HaltRequested, Breakpoint, Retire, HartSteps
<1>3. Phase # "held"
  BY <1>1 DEF InPhase, Resume, HaltRequested, Breakpoint, Retire
<1>4. dm.cmd = NoCmd /\ Eff = Target
  BY <1>3, HeldWhileCommanded
<1>5. /\ op.name \notin Steps => Clear(Target.dcsr)
      /\ op.name \in Steps => Phase = "away" /\ Flagged(Target.dcsr)
  BY <1>3, FlagsByCall
<1>6. \E h : Becomes(h)
  <2>1. CASE Resume(op.hart)
    <3> DEFINE h == [Target EXCEPT !.resuming = FALSE, !.state = "running"]
    <3>1. /\ Target.resuming /\ Phase \in {"leaving", "away"}
          /\ hart' = [hart EXCEPT ![op.hart] = h]
      BY <1>1, <2>1 DEF Resume, HartSteps, InPhase
    <3>2. /\ h \in Harts1 /\ h.a0 = Target.a0 /\ h.a1 = Target.a1 /\ h.mem = Target.mem
          /\ h.dcsr = Target.dcsr /\ h.dpc = Target.dpc /\ h.state = "running" /\ ~h.resuming
      BY <1>1 DEF Harts1
    <3>3. Phase = "away" /\ op.name = "single_step" => Target.dpc = shadow[op.hart].dpc
      BY <1>1, <1>4, <3>1 DEF InPhase, Away
    <3> HIDE DEF h
    <3>4. Becomes(h)
      BY <3>1, <3>2, <3>3 DEF Becomes
    <3> QED
      BY <3>4
  <2>2. CASE HaltRequested(op.hart)
    <3> DEFINE h == Halted(Target, HaltreqCause)
    <3>1. Target.state = "running" /\ ~Target.resuming /\ Phase = "asked"
      BY <1>1, <2>2 DEF HaltRequested, IInv, Requests, InPhase
    <3>2. hart' = [hart EXCEPT ![op.hart] = h]
      BY <1>1, <2>2 DEF HaltRequested, HartSteps
    <3>3. /\ h \in Harts1 /\ h.state = "halted" /\ h.a0 = Target.a0 /\ h.a1 = Target.a1
          /\ h.mem = Target.mem /\ h.resuming = Target.resuming
          /\ Clear(Target.dcsr) => Clear(h.dcsr)
          /\ Flagged(Target.dcsr) => Flagged(h.dcsr)
      BY <1>1, HaltedFields DEF HaltreqCause
    <3> HIDE DEF h
    <3>4. Becomes(h)
      BY <3>1, <3>2, <3>3 DEF Becomes
    <3> QED
      BY <3>4
  <2>3. CASE Breakpoint(op.hart)
    <3> DEFINE h == Halted(Target, EbreakCause)
    <3>1. Target.state = "running" /\ ~Target.resuming /\ HasEbreak(Target.dcsr) /\ Target.dpc = Brk
      BY <1>1, <2>3 DEF Breakpoint, InPhase
    <3>2. op.name = "continue" /\ Phase = "away"
      BY <1>5, <3>1 DEF Clear, Flagged
    <3>3. hart' = [hart EXCEPT ![op.hart] = h]
      BY <1>1, <2>3 DEF Breakpoint, HartSteps
    <3>4. /\ h \in Harts1 /\ h.state = "halted" /\ h.a0 = Target.a0 /\ h.a1 = Target.a1
          /\ h.mem = Target.mem /\ h.resuming = Target.resuming
          /\ h.dpc = Target.dpc /\ Cause(h.dcsr) = EbreakCause
          /\ Clear(Target.dcsr) => Clear(h.dcsr)
          /\ Flagged(Target.dcsr) => Flagged(h.dcsr)
      BY <1>1, HaltedFields DEF EbreakCause
    <3> HIDE DEF h
    <3>5. Becomes(h)
      BY <3>1, <3>2, <3>3, <3>4 DEF Becomes, Ends
    <3> QED
      BY <3>5
  <2>4. CASE Retire(op.hart)
    <3> DEFINE g == [Target EXCEPT !.dpc = StepOf(@)]
               h == IF HasStep(g.dcsr) THEN Halted(g, StepCause) ELSE g
    <3>1. /\ g \in Harts1 /\ g.a0 = Target.a0 /\ g.a1 = Target.a1 /\ g.mem = Target.mem
          /\ g.dcsr = Target.dcsr /\ g.state = Target.state /\ g.resuming = Target.resuming
          /\ g.dpc = StepOf(Target.dpc)
      BY <1>1 DEF Harts1, StepOf
    <3>2. Target.state = "running" /\ ~Target.resuming /\ hart' = [hart EXCEPT ![op.hart] = h]
      BY <1>1, <2>4 DEF Retire, HartSteps, InPhase
    <3> HIDE DEF g
    <3>3. CASE HasStep(Target.dcsr)
      <4>1. op.name = "single_step" /\ Phase = "away"
        BY <1>5, <3>3 DEF Clear, Flagged
      <4>2. Target.dpc = shadow[op.hart].dpc
        BY <1>1, <1>4, <3>2, <4>1 DEF InPhase, Away
      <4>3. h = Halted(g, StepCause)
        BY <3>1, <3>3
      <4>4. /\ h \in Harts1 /\ h.state = "halted" /\ h.a0 = g.a0 /\ h.a1 = g.a1
            /\ h.mem = g.mem /\ h.resuming = g.resuming
            /\ h.dpc = g.dpc /\ Cause(h.dcsr) = StepCause
            /\ Clear(g.dcsr) => Clear(h.dcsr)
            /\ Flagged(g.dcsr) => Flagged(h.dcsr)
        BY <3>1, <4>3, HaltedFields DEF StepCause
      <4> HIDE DEF h
      <4>5. Becomes(h)
        BY <3>1, <3>2, <4>1, <4>2, <4>4 DEF Becomes, Ends
      <4> QED
        BY <4>5
    <3>4. CASE ~HasStep(Target.dcsr)
      <4>1. h = g
        BY <3>1, <3>4
      <4>2. op.name # "single_step"
        BY <1>5, <3>4 DEF Flagged, Steps
      <4> HIDE DEF h
      <4>3. Becomes(g)
        BY <3>1, <3>2, <4>1, <4>2 DEF Becomes
      <4> QED
        BY <4>3
    <3> QED
      BY <3>3, <3>4
  <2> QED
    BY <2>1, <2>2, <2>3, <2>4
<1> PICK h : Becomes(h)
  BY <1>6
<1>7. Target' = h /\ Called'
  BY <1>1, <1>2 DEF Target, Becomes, Called
<1>8. Done' /\ Phase' = Phase /\ Eff' = h
  BY <1>2, <1>3, <1>4, <1>6, <1>7, DoneAway DEF Becomes, Eff
<1>9. Types'
  <2>1. hart' \in [Hart -> Harts1]
    BY <1>1, <1>6 DEF Becomes
  <2> QED
    BY <1>2, <2>1 DEF IInv, Types, Called
<1>10. Pending' /\ Requests'
  <2>1. dm.haltreq /\ (hart'[dm.hartsel].state = "running" \/ hart'[dm.hartsel].resuming) =>
          dm.haltreq /\ (hart[dm.hartsel].state = "running" \/ hart[dm.hartsel].resuming)
    BY <1>1, <1>6 DEF Becomes
  <2> QED
    BY <1>2, <1>4, <1>7, <1>8, <2>1 DEF IInv, Pending, Requests
<1>11. \A k \in Hart : (Called' => op'.hart # k) => Left(k)'
  BY <1>1, <1>2, <1>6, <1>7 DEF IInv, Left, Becomes
<1>12. InPhase'
  BY <1>2, <1>3, <1>6, <1>7, <1>8 DEF InPhase, Away, Ran, Ends, Becomes
<1> QED
  BY <1>2, <1>7, <1>8, <1>9, <1>10, <1>11, <1>12 DEF IInv

LEMMA StutterStep ==
  ASSUME IInv, UNCHANGED vars
  PROVE  IInv'
<1> USE DEF vars
<1>1. Called' = Called /\ Phase' = Phase /\ Target' = Target /\ Eff' = Eff /\ Data' = Data
  BY Unmoved DEF Called, Phase
<1>2. Types' /\ Pending' /\ Requests'
  <2>1. Types'
    BY DEF IInv, Types, Called
  <2>2. Pending' /\ Requests'
    BY <1>1 DEF IInv, Pending, Requests, At
  <2> QED
    BY <2>1, <2>2
<1>3. \A k \in Hart : (Called' => op'.hart # k) => Left(k)'
  BY <1>1 DEF IInv, Left
<1>4. Called => InPhase' /\ Done'
  BY <1>1, DoneKept DEF IInv, InPhase, Away, Ran, BufKept
<1> QED
  BY <1>1, <1>2, <1>3, <1>4 DEF IInv

LEMMA Inductive ==
  ASSUME IInv, [Next]_vars, [~OldHaltTaken]_vars
  PROVE  IInv'
<1>1. CASE UNCHANGED vars
  BY <1>1, StutterStep
<1>2. CASE \E o \in Op : Call(o)
  BY <1>2, CallStep
<1>3. CASE Driver
  <2>1. CASE Return
    BY <2>1, ReturnStep
  <2>2. CASE PollAgain \/ Timeout
    <3>1. UNCHANGED <<op, pos, local, dm, hart, shadow>> /\ polled' \in BOOLEAN
      BY <2>2 DEF PollAgain, Timeout, IInv, Types
    <3>2. Called /\ driver' \in {"busy", "timeout"}
      BY <2>2 DEF PollAgain, Timeout, Waiting, Called
    <3> QED
      BY <3>1, <3>2, StillStep
  <2>3. CASE ~Return /\ ~PollAgain /\ ~Timeout
    <3>1. driver = "busy" /\ pos \in 1 .. 28
      BY <1>3, <2>3 DEF Driver, WriteDmcontrol, WriteData, WriteProgbuf, WriteCommand, ReadData,
         ChangeFlag, CheckDcsrCause, PollDone, Do, Waiting, IInv, Types
    <3>2. driver' = "busy" /\ pos' = pos + 1
      <4>1. CASE CheckDcsrCause
        <5>1. Next1 /\ UNCHANGED driver
          BY <4>1, CauseAsExpected DEF CheckDcsrCause
        <5> QED
          BY <3>1, <5>1 DEF Next1
      <4>2. CASE ~CheckDcsrCause
        BY <1>3, <2>3, <3>1, <4>2 DEF Driver, WriteDmcontrol, WriteData, WriteProgbuf, WriteCommand,
           ReadData, ChangeFlag, PollDone, Next1
      <4> QED
        BY <4>1, <4>2
    <3>3. pos' # pos
      BY <3>1, <3>2
    <3>4. ~OldHaltTaken
      BY <3>3 DEF vars
    <3> QED
      BY <1>3, <3>2, <3>3, <3>4, AdvanceStep
  <2> QED
    BY <2>1, <2>2, <2>3
<1>4. CASE ExecuteCommand
  BY <1>4, ExecuteStep
<1>5. ASSUME NEW k \in Hart, Resume(k) \/ HaltRequested(k) \/ Breakpoint(k) \/ Retire(k)
      PROVE  IInv'
  <2>1. CASE Called /\ op.hart = k
    BY <1>5, <2>1, OwnHartStep
  <2>2. CASE Called => op.hart # k
    BY <1>5, <2>2, OtherHartStep
  <2> QED
    BY <2>1, <2>2
<1> QED
  BY <1>1, <1>2, <1>3, <1>4, <1>5 DEF Next, Harts

-----------------------------------------------------------------------------
(* The refinement of HartDebug, step by step.                              *)

Memory == {"read_memory", "write_memory"}

\* What a call has saved of its target, by the access it is at.
SavedWhere ==
  \A k \in Hart :
    /\ Saved(k, "temp_a0") <=> driver = "busy" /\ op.hart = k /\ op.name \in Memory /\ pos >= 6
    /\ Saved(k, "temp_a1") <=> driver = "busy" /\ op.hart = k /\ op.name = "write_memory" /\ pos >= 10

LEMMA SavedAsGot == IInv => SavedWhere
<1> SUFFICES ASSUME IInv, NEW k \in Hart
             PROVE  /\ Saved(k, "temp_a0") <=> driver = "busy" /\ op.hart = k /\ op.name \in Memory /\ pos >= 6
                    /\ Saved(k, "temp_a1") <=> driver = "busy" /\ op.hart = k /\ op.name = "write_memory" /\ pos >= 10
  BY DEF SavedWhere
<1>1. CASE driver = "busy" /\ op.hart = k
  <2>1. /\ Called /\ op \in Op /\ Scripts[op] = Script(op) /\ pos \in 1 .. Len(Script(op))
        /\ Len(Script(op)) \in 1 .. 28 /\ \A i \in 1 .. Len(Script(op)) - 1 : Formed(i)
    <3>1. Called
      BY <1>1 DEF Called
    <3> QED
      BY <3>1, BusyShape, InstrIsAt DEF WellFormed
  <2> DEFINE Got(i, dst) == At(i) = [do |-> "get", dst |-> dst]
  <2>2. \A dst : Saved(k, dst) <=> \E i \in 1 .. pos - 1 : Got(i, dst)
    BY <1>1, <2>1 DEF Saved, At
  <2>3. ASSUME NEW i \in 1 .. pos - 1, NEW dst \in {"temp_a0", "temp_a1"}, Got(i, dst)
        PROVE  /\ dst = "temp_a0" => i = 5 /\ op.name \in Memory
               /\ dst = "temp_a1" => i = 9 /\ op.name = "write_memory"
    <3>1. Formed(i)
      BY <2>1
    <3>2. Fetches(i) /\ At(i).dst = dst
      BY <2>3, <3>1 DEF Formed
    <3> QED
      BY <3>2 DEF Fetches, Memory
  <2>4. op.name \in Memory => Got(5, "temp_a0")
    BY <2>1, ReadMemoryTable, WriteMemoryTable DEF Memory, ReadsAt
  <2>5. op.name = "write_memory" => Got(9, "temp_a1")
    BY <2>1, WriteMemoryTable DEF ReadsAt
  <2> HIDE DEF Got
  <2>6. pos \in Nat
    BY <2>1
  <2>7. (pos >= 6 <=> 5 \in 1 .. pos - 1) /\ (pos >= 10 <=> 9 \in 1 .. pos - 1)
    BY <2>6
  <2>8. (\E i \in 1 .. pos - 1 : Got(i, "temp_a0")) <=> op.name \in Memory /\ pos >= 6
    BY <2>3, <2>4, <2>7
  <2>9. (\E i \in 1 .. pos - 1 : Got(i, "temp_a1")) <=> op.name = "write_memory" /\ pos >= 10
    BY <2>3, <2>5, <2>7
  <2> QED
    BY <1>1, <2>2, <2>8, <2>9
<1>2. CASE ~(driver = "busy" /\ op.hart = k)
  BY <1>2 DEF Saved
<1> QED
  BY <1>1, <1>2

LEMMA NextSavedAsGot == (IInv => SavedWhere)'
BY SavedAsGot, PTL

\* The command under way, by the call that has given it.
Commanded ==
  \/ dm.cmd.kind = "read"
  \/ /\ op.name \in {"write_reg", "write_rfpc_reg"} /\ op.reg # "dpc"
     /\ dm.cmd = [kind |-> "write", reg |-> op.reg]
     /\ pos = IF op.name = "write_reg" THEN 4 ELSE 6
  \/ /\ op.name \in {"write_reg", "write_rfpc_reg"} /\ op.reg = "dpc"
     /\ \/ dm.cmd = [kind |-> "write", reg |-> "a1"]
        \/ dm.cmd.kind = "exec" /\ pos = IF op.name = "write_reg" THEN 7 ELSE 9
  \/ /\ op.name = "read_memory"
     /\ \/ dm.cmd = [kind |-> "write_exec", reg |-> "a0"] /\ pos = 9
        \/ dm.cmd = [kind |-> "write", reg |-> "a0"] /\ pos = 16
  \/ /\ op.name = "write_memory"
     /\ \/ dm.cmd = [kind |-> "write", reg |-> "a1"] /\ pos \in {12, 24}
        \/ dm.cmd = [kind |-> "write_exec", reg |-> "a0"] /\ pos = 16
        \/ dm.cmd = [kind |-> "write", reg |-> "a0"] /\ pos = 20
  \/ /\ op.name \in Steps
     /\ \/ dm.cmd = [kind |-> "write", reg |-> "a1"]
        \/ dm.cmd.kind = "exec" /\ pos \in {12, 27}

LEMMA CommandedAsScripted ==
  ASSUME IInv, dm.cmd # NoCmd
  PROVE  Commanded
<1> DEFINE i == pos - 1
           c == dm.cmd
<1>1. /\ Called /\ op \in Op /\ i \in 1 .. Len(Script(op)) - 1 /\ Len(Script(op)) \in 1 .. 28
      /\ At(i) = [do |-> "command", cmd |-> c] /\ pos \in 1 .. 28 /\ op.name \in Names
      /\ op.name \in Accesses => op.reg \in Regs
  <2>1. Called /\ pos > 1 /\ At(i) = [do |-> "command", cmd |-> c]
    BY DEF IInv, Pending
  <2>2. op \in Op /\ pos \in 1 .. Len(Script(op)) /\ Len(Script(op)) \in 1 .. 28
    BY <2>1, BusyShape DEF WellFormed
  <2>3. op.name \in Names /\ (op.name \in Accesses => op.reg \in Regs)
    BY <2>2
  <2>4. ASSUME NEW n \in 1 .. 28, pos \in 1 .. n, pos > 1 PROVE i \in 1 .. n - 1 /\ pos \in 1 .. 28
    BY <2>4
  <2>5. i \in 1 .. Len(Script(op)) - 1 /\ pos \in 1 .. 28
    BY <2>1, <2>2, <2>4
  <2> QED
    BY <2>1, <2>2, <2>3, <2>5
<1> DEFINE w(r) == [kind |-> "write", reg |-> r]
<1>2. At(i).do = "command" /\ At(i).cmd = c /\ pos = i + 1
  BY <1>1
<1> HIDE DEF i, c
<1>3. CASE op.name = "halt"
  <2>0. Len(Script(op)) = 3
    BY <1>1, <1>3, HaltTable DEF Length
  <2>1. i \in {1, 2}
    BY <1>1, <2>0
  <2> QED
    BY <1>1, <1>2, <1>3, <2>1, HaltTable DEF Selects, Polls
<1>4. CASE op.name = "resume"
  <2>0. Len(Script(op)) = 3
    BY <1>1, <1>4, ResumeTable DEF Length
  <2>1. i \in {1, 2}
    BY <1>1, <2>0
  <2> QED
    BY <1>1, <1>2, <1>4, <2>1, ResumeTable DEF Selects, Polls
<1>5. CASE op.name = "read_reg"
  <2>0. Len(Script(op)) = 5
    BY <1>1, <1>5, ReadRegTable DEF Length
  <2>1. i \in {1, 2, 3, 4}
    BY <1>1, <2>0
  <2>2. c.kind = "read"
    BY <1>1, <1>2, <1>5, <2>1, ReadRegTable DEF ReadsAt, Selects, Commands, Waits
  <2> QED
    BY <2>2 DEF Commanded, c
<1>6. CASE op.name = "read_rfpc_reg"
  <2>0. Len(Script(op)) = 9
    BY <1>1, <1>6, ReadRfpcTable DEF Length
  <2>1. i \in {1, 2, 3, 4, 5, 6, 7, 8}
    BY <1>1, <2>0
  <2>2. c.kind = "read"
    BY <1>1, <1>2, <1>6, <2>1, ReadRfpcTable DEF ReadsAt, Selects, Commands, Waits, Polls
  <2> QED
    BY <2>2 DEF Commanded, c
<1>7. CASE op.name = "write_reg" /\ op.reg # "dpc"
  <2>0. Len(Script(op)) = 5
    BY <1>1, <1>7, WriteRegTable DEF Length
  <2>1. i \in {1, 2, 3, 4}
    BY <1>1, <2>0
  <2>2. c = w(op.reg) /\ i = 3
    BY <1>1, <1>2, <1>7, <2>1, WriteRegTable DEF WritesAt, Selects, Commands, Waits, Puts
  <2> QED
    BY <1>2, <1>7, <2>2 DEF Commanded, c
<1>8. CASE op.name = "write_reg" /\ op.reg = "dpc"
  <2>0. Len(Script(op)) = 8
    BY <1>1, <1>8, WriteRegTable DEF Length
  <2>1. i \in {1, 2, 3, 4, 5, 6, 7}
    BY <1>1, <2>0
  <2>2. c = w("a1") \/ (c.kind = "exec" /\ i = 6)
    BY <1>1, <1>2, <1>8, <2>1, WriteRegTable DEF WritesCsrAt, WritesAt, Selects, Commands, Waits, Puts
  <2> QED
    BY <1>2, <1>8, <2>2 DEF Commanded, c
<1>9. CASE op.name = "write_rfpc_reg" /\ op.reg # "dpc"
  <2>0. Len(Script(op)) = 9
    BY <1>1, <1>9, WriteRfpcTable DEF Length
  <2>1. i \in {1, 2, 3, 4, 5, 6, 7, 8}
    BY <1>1, <2>0
  <2>2. c = w(op.reg) /\ i = 5
    BY <1>1, <1>2, <1>9, <2>1, WriteRfpcTable DEF WritesAt, Selects, Commands, Waits, Puts, Polls
  <2> QED
    BY <1>2, <1>9, <2>2 DEF Commanded, c
<1>10. CASE op.name = "write_rfpc_reg" /\ op.reg = "dpc"
  <2>0. Len(Script(op)) = 12
    BY <1>1, <1>10, WriteRfpcTable DEF Length
  <2>1. i \in {1, 2, 3, 4, 5, 6, 7, 8, 9, 10, 11}
    BY <1>1, <2>0
  <2>2. c = w("a1") \/ (c.kind = "exec" /\ i = 8)
    BY <1>1, <1>2, <1>10, <2>1, WriteRfpcTable DEF WritesCsrAt, WritesAt, Selects, Commands, Waits, Puts, Polls
  <2> QED
    BY <1>2, <1>10, <2>2 DEF Commanded, c
<1>11. CASE op.name = "read_memory"
  <2>0. Len(Script(op)) = 17
    BY <1>1, <1>11, ReadMemoryTable DEF Length
  <2>1. i \in {1, 2, 3, 4, 5, 6, 7, 8, 9, 10, 11, 12, 13, 14, 15, 16}
    BY <1>1, <2>0
  <2>2. \/ c.kind = "read" \/ (c = [kind |-> "write_exec", reg |-> "a0"] /\ i = 8)
        \/ c = w("a0") /\ i = 15
    BY <1>1, <1>2, <1>11, <2>1, ReadMemoryTable DEF ReadsAt, WritesAt, Selects, Commands, Waits, Puts
  <2> QED
    BY <1>2, <1>11, <2>2 DEF Commanded, c
<1>12. CASE op.name = "write_memory"
  <2>0. Len(Script(op)) = 25
    BY <1>1, <1>12, WriteMemoryTable DEF Length
  <2>1. i \in {1, 2, 3, 4, 5, 6, 7, 8, 9, 10, 11, 12} \/ i \in {13, 14, 15, 16, 17, 18, 19, 20, 21, 22, 23, 24}
    BY <1>1, <2>0
  <2>2. CASE i \in {1, 2, 3, 4, 5, 6, 7, 8, 9, 10, 11, 12}
    <3>1. c.kind = "read" \/ (c = w("a1") /\ i = 11)
      BY <1>1, <1>2, <1>12, <2>2, WriteMemoryTable DEF ReadsAt, Selects, Commands, Waits, Puts
    <3> QED
      BY <1>2, <1>12, <3>1 DEF Commanded, c
  <2>3. CASE i \in {13, 14, 15, 16, 17, 18, 19, 20, 21, 22, 23, 24}
    <3>1. \/ c = [kind |-> "write_exec", reg |-> "a0"] /\ i = 15
          \/ c = w("a0") /\ i = 19
          \/ c = w("a1") /\ i = 23
      BY <1>1, <1>2, <1>12, <2>3, WriteMemoryTable DEF WritesAt, Selects, Commands, Waits, Puts
    <3> QED
      BY <1>2, <1>12, <3>1 DEF Commanded, c
  <2> QED
    BY <2>1, <2>2, <2>3
<1>13. CASE op.name \in Steps
  <2>0. Len(Script(op)) = 28
    BY <1>1, <1>13, StepsTable DEF Length
  <2>1. i \in {1, 2, 3, 4, 5, 6, 7, 8, 9, 10, 11, 12, 13, 14}
        \/ i \in {15, 16, 17, 18, 19, 20, 21, 22, 23, 24, 25, 26, 27}
    BY <1>1, <2>0
  <2>2. CASE i \in {1, 2, 3, 4, 5, 6, 7, 8, 9, 10, 11, 12, 13, 14}
    <3>0. /\ ReadsAt(0, "dcsr", "dcsr_reg") /\ WritesCsrAt(5, "dcsr", "dcsr_reg")
          /\ At(5).do = "flag" /\ At(13).do = "dmcontrol" /\ At(14).do = "poll"
      <4>1. ReadsAt(0, "dcsr", "dcsr_reg") /\ WritesCsrAt(5, "dcsr", "dcsr_reg")
        BY <1>1, <1>13, StepsTable
      <4>2. SetsAt(5, FlagOf)
        BY <1>1, <1>13, StepsTable
      <4>3. At(13) = Selects("resume") /\ At(14) = Polls("halted")
        BY <1>1, <1>13, StepsTable
      <4> QED
        BY <4>1, <4>2, <4>3 DEF SetsAt, Selects, Polls
    <3>1. c.kind = "read" \/ c = w("a1") \/ (c.kind = "exec" /\ i = 11)
      BY <1>2, <2>2, <3>0 DEF ReadsAt, WritesCsrAt, WritesAt, Selects, Commands, Waits, Puts
    <3> QED
      BY <1>2, <1>13, <3>1 DEF Commanded, c
  <2>3. CASE i \in {15, 16, 17, 18, 19, 20, 21, 22, 23, 24, 25, 26, 27}
    <3>0. /\ ReadsAt(14, "dcsr", "dcsr_reg") /\ WritesCsrAt(20, "dcsr", "dcsr_reg")
          /\ At(19).do = "check" /\ At(20).do = "flag"
      <4>1. ReadsAt(14, "dcsr", "dcsr_reg") /\ WritesCsrAt(20, "dcsr", "dcsr_reg")
        BY <1>1, <1>13, StepsTable
      <4>2. ClearsAt(20, FlagOf)
        BY <1>1, <1>13, StepsTable
      <4>3. At(19) = [do |-> "check", cause |-> CauseOf]
        BY <1>1, <1>13, StepsTable
      <4> QED
        BY <4>1, <4>2, <4>3 DEF ClearsAt
    <3>1. c.kind = "read" \/ c = w("a1") \/ (c.kind = "exec" /\ i = 26)
      BY <1>2, <2>3, <3>0 DEF ReadsAt, WritesCsrAt, WritesAt, Selects, Commands, Waits, Puts
    <3> QED
      BY <1>2, <1>13, <3>1 DEF Commanded, c
  <2> QED
    BY <2>1, <2>2, <2>3
<1> QED
  BY <1>1, <1>3, <1>4, <1>5, <1>6, <1>7, <1>8, <1>9, <1>10, <1>11, <1>12, <1>13
  DEF Names, Accesses, Steps

\* What the users of the driver see of the target.
TargetView ==
  [state |-> Target.state, dpc |-> Target.dpc, mem |-> Target.mem,
   a0 |-> IF driver = "busy" /\ op.name \in Memory /\ pos >= 6 THEN local.temp_a0 ELSE Target.a0,
   a1 |-> IF driver = "busy" /\ op.name = "write_memory" /\ pos >= 10 THEN local.temp_a1 ELSE Target.a1]

LEMMA TargetSeen == IInv /\ Called => UserView(op.hart) = TargetView
<1> SUFFICES ASSUME IInv, Called PROVE UserView(op.hart) = TargetView
  OBVIOUS
<1>1. op.hart \in Hart /\ SavedWhere
  BY BusyShape, SavedAsGot
<1>2. /\ Saved(op.hart, "temp_a0") <=> driver = "busy" /\ op.name \in Memory /\ pos >= 6
      /\ Saved(op.hart, "temp_a1") <=> driver = "busy" /\ op.name = "write_memory" /\ pos >= 10
  BY <1>1 DEF SavedWhere
<1> QED
  BY <1>2 DEF UserView, TargetView, Target

LEMMA NextTargetSeen == (IInv /\ Called => UserView(op.hart) = TargetView)'
BY TargetSeen, PTL

\* Harts that the call is not about are seen as they are.
LEMMA OtherSeen ==
  ASSUME NEW k \in Hart, Called => op.hart # k, Called' => op'.hart # k, hart'[k] = hart[k]
  PROVE  UserView(k)' = UserView(k)
<1>1. ~Saved(k, "temp_a0") /\ ~Saved(k, "temp_a1") /\ ~Saved(k, "temp_a0")' /\ ~Saved(k, "temp_a1")'
  BY DEF Saved, Called
<1> QED
  BY <1>1 DEF UserView

\* Steps that change what is seen of one field of one hart, or nothing.
LEMMA SetsView ==
  ASSUME NEW k \in Hart, NEW f, NEW v, UserView(k)' = [UserView(k) EXCEPT ![f] = v],
         \A j \in Hart \ {k} : UserView(j)' = UserView(j)
  PROVE  Debug!SetView(k, f, v)
BY DEF Debug!SetView

LEMMA SameView ==
  ASSUME \A k \in Hart : UserView(k)' = UserView(k),
         driver' = driver, op' = op, shadow' = shadow, local'.word = local.word
  PROVE  UNCHANGED Debug!hdvars
BY DEF Debug!hdvars

LEMMA CallMaps ==
  ASSUME IInv, NEW o \in Op, Call(o)
  PROVE  Debug!Begin(o)
<1>1. driver = "idle" /\ driver' = "busy" /\ op' = o /\ pos' = 1 /\ hart' = hart /\ shadow' = shadow
  BY DEF Call
<1>2. local'.word = 0
  BY DEF Call, IInv, Types
<1>3. \A k \in Hart : UserView(k)' = UserView(k)
  <2> SUFFICES ASSUME NEW k \in Hart PROVE UserView(k)' = UserView(k)
    OBVIOUS
  <2>1. ~Saved(k, "temp_a0") /\ ~Saved(k, "temp_a1") /\ ~Saved(k, "temp_a0")' /\ ~Saved(k, "temp_a1")'
    BY <1>1 DEF Saved
  <2> QED
    BY <1>1, <2>1 DEF UserView
<1> QED
  BY <1>1, <1>2, <1>3 DEF Debug!Begin, Debug!NoCall

\* The accesses that change nothing users see.
LEMMA QuietMaps ==
  ASSUME IInv, IInv', Advances, \A k \in Hart : k # op.hart => hart'[k] = hart[k],
         Target'.state = Target.state, Target'.dpc = Target.dpc, Target'.mem = Target.mem,
         Target'.a0 = Target.a0, Target'.a1 = Target.a1, local'.word = local.word,
         local'.temp_a0 = local.temp_a0, local'.temp_a1 = local.temp_a1,
         op.name \in Memory => pos # 5, op.name = "write_memory" => pos # 9
  PROVE  UNCHANGED Debug!hdvars
<1>1. /\ Called /\ Called' /\ op' = op /\ driver = "busy" /\ driver' = driver /\ pos' = pos + 1
      /\ shadow' = shadow /\ op.hart \in Hart /\ pos \in Nat
  <2>1. Called /\ Called'
    BY DEF Advances, Called
  <2> QED
    BY <2>1, BusyShape DEF Advances
<1>2. /\ op.name \in Memory => (pos' >= 6 <=> pos >= 6)
      /\ op.name = "write_memory" => (pos' >= 10 <=> pos >= 10)
  BY <1>1
<1>3. TargetView' = TargetView
  BY <1>1, <1>2 DEF TargetView
<1>4. UserView(op.hart)' = UserView(op.hart)
  <2>1. UserView(op.hart) = TargetView
    BY <1>1, TargetSeen
  <2>2. UserView(op.hart)' = TargetView'
    BY <1>1, NextTargetSeen
  <2> QED
    BY <1>3, <2>1, <2>2
<1>5. ASSUME NEW k \in Hart, k # op.hart PROVE UserView(k)' = UserView(k)
  BY <1>1, <1>5, OtherSeen
<1> QED
  BY <1>1, <1>4, <1>5, SameView

\* Reading data0/data1 ends the read of a register or memory, or saves what is borrowed.
LEMMA GetMaps ==
  ASSUME IInv, IInv', Advances, Effect, pos < Len(Script(op)), At(pos).do = "get", hart' = hart
  PROVE  [Debug!Next]_Debug!hdvars
<1>1. /\ Called /\ Called' /\ op' = op /\ driver = "busy" /\ driver' = driver /\ pos' = pos + 1
      /\ shadow' = shadow /\ op.hart \in Hart /\ Target' = Target /\ op \in Op /\ op.name \in Names
      /\ pos \in 1 .. 28 /\ Done /\ InPhase /\ PhaseTable
  <2>1. Called /\ Called'
    BY DEF Advances, Called
  <2>2. op \in Op /\ op.name \in Names /\ op.hart \in Hart
    BY <2>1, BusyShape
  <2> QED
    BY <2>1, <2>2, PhaseOf DEF Advances, Target, IInv, Types
<1>2. Formed(pos)
  BY <1>1, BusyShape DEF WellFormed
<1>3. dm.cmd = NoCmd /\ Eff = Target /\ local' = [local EXCEPT ![At(pos).dst] = Data]
  BY <1>1, NoneUnderWay DEF Effect
<1>4. Fetches(pos) /\ local \in Locals
  BY <1>2 DEF Formed, IInv, Types, Locals
<1>5. CASE At(pos).dst = "dcsr_reg"
  <2>1. op.name \in Steps
    BY <1>2, <1>5 DEF Formed
  <2>2. UNCHANGED Debug!hdvars
    BY <1>1, <1>3, <1>4, <1>5, <2>1, QuietMaps DEF Locals, Steps, Memory
  <2> QED
    BY <2>2
<1>6. /\ UserView(op.hart) = TargetView /\ UserView(op.hart)' = TargetView'
      /\ \A k \in Hart : k # op.hart => UserView(k)' = UserView(k)
  <2>1. ASSUME NEW k \in Hart, k # op.hart PROVE UserView(k)' = UserView(k)
    BY <1>1, <2>1, OtherSeen
  <2> QED
    BY <1>1, <2>1, TargetSeen, NextTargetSeen
<1>7. CASE At(pos).dst = "temp_a0"
  <2>1. pos = 5 /\ op.name \in Memory
    BY <1>4, <1>7 DEF Fetches, Memory
  <2>2. Data = Target.a0
    BY <1>1, <1>3, <2>1 DEF Done, ReadsMemory, WritesMemory, Reading, Memory
  <2>3. local'.temp_a0 = Data /\ local'.word = local.word /\ local'.temp_a1 = local.temp_a1
    BY <1>3, <1>4, <1>7 DEF Locals
  <2>4. pos' = 6
    BY <1>1, <2>1
  <2>5. TargetView' = TargetView
    BY <1>1, <2>1, <2>2, <2>3, <2>4 DEF TargetView
  <2> QED
    BY <1>1, <1>6, <2>3, <2>5, SameView
<1>8. CASE At(pos).dst = "temp_a1"
  <2>1. pos = 9 /\ op.name = "write_memory" /\ op.name \in Memory
    BY <1>4, <1>8 DEF Fetches, Memory
  <2>2. Data = Target.a1
    BY <1>1, <1>3, <2>1 DEF Done, WritesMemory, Reading
  <2>3. local'.temp_a1 = Data /\ local'.word = local.word /\ local'.temp_a0 = local.temp_a0
    BY <1>3, <1>4, <1>8 DEF Locals
  <2>4. pos' = 10
    BY <1>1, <2>1
  <2>5. TargetView' = TargetView
    BY <1>1, <2>1, <2>2, <2>3, <2>4 DEF TargetView
  <2> QED
    BY <1>1, <1>6, <2>3, <2>5, SameView
<1>9. CASE At(pos).dst = "word"
  <2>1. \/ pos = 4 /\ op.name = "read_reg"
        \/ pos = 6 /\ op.name = "read_rfpc_reg"
        \/ pos = 12 /\ op.name = "read_memory"
    BY <1>4, <1>9 DEF Fetches
  <2>2. local'.word = Data /\ local'.temp_a0 = local.temp_a0 /\ local'.temp_a1 = local.temp_a1
    BY <1>3, <1>4, <1>9 DEF Locals
  <2>3. Target.state = "halted"
    <3>1. Phase = "held"
      BY <1>1, <2>1 DEF PhaseTable, Steps, Stops, Leaves
    <3> QED
      BY <1>1, <3>1 DEF InPhase
  <2>4. TargetView' = TargetView
    <3>1. /\ op.name \in Memory => pos >= 6 /\ pos' >= 6
          /\ op.name # "write_memory"
      BY <1>1, <2>1 DEF Memory
    <3> QED
      BY <1>1, <2>2, <3>1 DEF TargetView
  <2>5. \A k \in Hart : UserView(k)' = UserView(k)
    BY <1>1, <1>6, <2>4
  <2>6. UserView(op.hart).state = "halted"
    BY <1>6, <2>3 DEF TargetView
  <2>7. op.name \in {"read_reg", "read_rfpc_reg"} => Data = UserView(op.hart)[op.reg]
    <3> SUFFICES ASSUME op.name \in {"read_reg", "read_rfpc_reg"}
                 PROVE  Data = UserView(op.hart)[op.reg]
      OBVIOUS
    <3>1. op.reg \in Regs /\ op.name \notin Memory
      BY <1>1 DEF Accesses, Memory
    <3>2. Data = Target[op.reg]
      BY <1>1, <1>3, <2>1 DEF Done, ReadsReg, Reading
    <3>3. TargetView[op.reg] = Target[op.reg]
      BY <3>1 DEF TargetView, Regs, Memory
    <3> QED
      BY <1>6, <3>2, <3>3
  <2>8. op.name = "read_memory" => Data = UserView(op.hart).mem
    <3>1. op.name = "read_memory" => Data = Target.mem
      BY <1>1, <1>3, <2>1 DEF Done, ReadsMemory
    <3> QED
      BY <1>6, <3>1 DEF TargetView
  <2>9. op.name \in {"read_reg", "read_rfpc_reg"} \/ op.name = "read_memory"
    BY <2>1
  <2>10. Debug!Read
    BY <1>1, <2>2, <2>5, <2>6, <2>7, <2>8, <2>9 DEF Debug!Read
  <2>11. driver # "idle" /\ op # [name |-> "none"]
    BY <1>1 DEF Names, Accesses
  <2> QED
    BY <2>10, <2>11 DEF Debug!Next, Debug!NoCall
<1> QED
  BY <1>4, <1>5, <1>7, <1>8, <1>9 DEF Fetches

\* Asking the target to resume is when it starts to run, unless it does so later.
LEMMA ResumeMaps ==
  ASSUME IInv, IInv', Advances, Effect, At(pos).do = "dmcontrol", op.name \in Steps \union Leaves,
         hart' = [hart EXCEPT ![op.hart].state = "running"], Target.state = "halted"
  PROVE  [Debug!Next]_Debug!hdvars
<1>1. /\ Called /\ Called' /\ op' = op /\ driver = "busy" /\ driver' = driver /\ pos' = pos + 1
      /\ shadow' = shadow /\ op.hart \in Hart /\ op \in Op /\ op.name \in Names
      /\ local' = local /\ hart \in [Hart -> Harts1]
  <2>1. Called /\ Called'
    BY DEF Advances, Called
  <2>2. op \in Op /\ op.name \in Names /\ op.hart \in Hart
    BY <2>1, BusyShape
  <2> QED
    BY <2>1, <2>2 DEF Advances, IInv, Types, Effect
<1>2. Target \in Harts1 /\ Target' = [Target EXCEPT !.state = "running"]
  BY <1>1 DEF Target
<1>3. op.name \notin Memory \union {"halt"}
  BY DEF Memory, Steps, Leaves
<1>4. TargetView' = [TargetView EXCEPT !.state = "running"]
  <2>1. /\ Target'.state = "running" /\ Target'.dpc = Target.dpc /\ Target'.mem = Target.mem
        /\ Target'.a0 = Target.a0 /\ Target'.a1 = Target.a1
    BY <1>2 DEF Harts1
  <2>2. /\ ~(op.name \in Memory) /\ ~(op'.name \in Memory)
        /\ op.name # "write_memory" /\ op'.name # "write_memory"
    BY <1>1, <1>3 DEF Memory
  <2> QED
    BY <2>1, <2>2 DEF TargetView
<1>5. /\ UserView(op.hart) = TargetView /\ UserView(op.hart)' = TargetView'
      /\ \A k \in Hart \ {op.hart} : UserView(k)' = UserView(k)
  <2>1. ASSUME NEW k \in Hart, k # op.hart PROVE UserView(k)' = UserView(k)
    BY <1>1, <2>1, OtherSeen
  <2> QED
    BY <1>1, <2>1, TargetSeen, NextTargetSeen
<1>6. Debug!SetView(op.hart, "state", "running")
  BY <1>1, <1>4, <1>5, SetsView
<1>7. UserView(op.hart).state = "halted"
  BY <1>5 DEF TargetView
<1>8. Debug!Start
  BY <1>1, <1>6, <1>7 DEF Debug!Start, Steps, Leaves
<1>9. op # [name |-> "none"]
  BY <1>1 DEF Names, Accesses
<1> QED
  BY <1>1, <1>8, <1>9 DEF Debug!Next, Debug!NoCall

\* Every access of a script that is not the last.
LEMMA AdvanceMaps ==
  ASSUME IInv, IInv', Driver, driver' = "busy", pos' # pos
  PROVE  [Debug!Next]_Debug!hdvars
<1>1. /\ Advances /\ Effect /\ pos < Len(Script(op)) /\ Called /\ op \in Op /\ op.hart \in Hart
      /\ pos \in 1 .. 28 /\ pos' = pos + 1 /\ op' = op /\ hart \in [Hart -> Harts1] /\ Target \in Harts1
      /\ local \in Locals
  <2>1. Advances /\ Effect /\ pos < Len(Script(op))
    BY Effects, AdvancesWithin
  <2>2. Called
    BY <2>1 DEF Advances, Called
  <2> QED
    BY <2>1, <2>2, BusyShape DEF Advances, IInv, Types, Locals
<1>2. Formed(pos) /\ Moves
  BY <1>1, BusyShape, PhasesInOrder DEF WellFormed
<1>3. /\ At(pos).do # "get" /\ op.name \in Memory => pos # 5
      /\ At(pos).do # "get" /\ op.name = "write_memory" => pos # 9
  BY <1>1, ReadMemoryTable, WriteMemoryTable DEF ReadsAt, Memory
<1>4. CASE At(pos).do = "get"
  <2>1. hart' = hart
    BY <1>1, <1>2, <1>4, DmTyped
  <2> QED
    BY <1>1, <1>4, <2>1, GetMaps
<1>5. CASE At(pos).do = "dmcontrol"
  <2>1. local' = local
    BY <1>1, <1>5 DEF Effect
  <2>2. \/ hart' = hart
        \/ /\ At(pos).req = "resume" /\ Target.state = "halted"
           /\ \/ hart' = [hart EXCEPT ![op.hart].resuming = TRUE]
              \/ hart' = [hart EXCEPT ![op.hart].state = "running"]
    BY <1>1, <1>2, <1>5, DmTyped
  <2>3. CASE hart' = hart
    <3>1. Target' = Target
      BY <1>1, <2>3 DEF Target
    <3> QED
      BY <1>1, <1>3, <1>5, <2>1, <2>3, <3>1, QuietMaps
  <2>4. CASE hart' = [hart EXCEPT ![op.hart].resuming = TRUE]
    <3>1. /\ Target'.state = Target.state /\ Target'.dpc = Target.dpc /\ Target'.mem = Target.mem
          /\ Target'.a0 = Target.a0 /\ Target'.a1 = Target.a1
      BY <1>1, <2>4 DEF Target, Harts1
    <3>2. \A k \in Hart : k # op.hart => hart'[k] = hart[k]
      BY <1>1, <2>4
    <3> QED
      BY <1>1, <1>3, <1>5, <2>1, <3>1, <3>2, QuietMaps
  <2>5. CASE /\ At(pos).req = "resume" /\ Target.state = "halted"
             /\ hart' = [hart EXCEPT ![op.hart].state = "running"]
    <3>1. op.name \in Steps \union Leaves
      BY <1>2, <1>5, <2>5 DEF Moves, Plain, Selects, Polls
    <3> QED
      BY <1>1, <1>5, <2>5, <3>1, ResumeMaps
  <2> QED
    BY <2>2, <2>3, <2>4, <2>5
<1>6. CASE At(pos).do \notin {"get", "dmcontrol"}
  <2>1. hart' = hart
    BY <1>1, <1>2, <1>6, DmTyped
  <2>2. /\ local'.word = local.word /\ local'.temp_a0 = local.temp_a0
        /\ local'.temp_a1 = local.temp_a1
    <3>1. local' = local \/ \E d : local' = [local EXCEPT !.dcsr_reg = d]
      BY <1>1, <1>2, <1>6 DEF Effect, Formed, Cmds
    <3> QED
      BY <1>1, <3>1 DEF Locals
  <2>3. Target' = Target
    BY <1>1, <2>1 DEF Target
  <2> QED
    BY <1>1, <1>3, <1>6, <2>1, <2>2, <2>3, QuietMaps
<1> QED
  BY <1>4, <1>5, <1>6

\* What the user sees of the target when the call returns is the hart itself.
LEMMA ReturnMaps ==
  ASSUME IInv, Return
  PROVE  Debug!Return
<1>1. /\ driver = "busy" /\ driver' = "idle" /\ op' = op /\ hart' = hart
      /\ shadow' = [shadow EXCEPT ![op.hart] = Expected(op, @)] /\ local'.word = local.word
      /\ local \in Locals /\ shadow \in [Hart -> [a1 : Word, dpc : 0 .. ProgLen - 1]]
  BY DEF Return, Do, IInv, Types, Locals
<1>2. /\ Called /\ op \in Op /\ op.hart \in Hart /\ op.name \in Names /\ Target \in Harts1
      /\ Eff = Target /\ pos = Len(Script(op)) /\ pos \in 1 .. 28 /\ InPhase /\ Done
      /\ op.name \in Accesses => op.reg \in Regs
      /\ Target.state = "halted" => Target.dpc = Expected(op, shadow[op.hart]).dpc
      /\ Phase = IF op.name \in Leaves THEN "left" ELSE "held"
  BY Returns, LastPhase
<1>3. Target.state = IF op.name \in Leaves THEN "running" ELSE "halted"
  BY <1>2 DEF InPhase
<1>4. /\ op.name = "read_memory" => Eff.a0 = local.temp_a0 /\ local.word = Eff.mem
      /\ op.name = "write_memory" =>
           Eff.a0 = local.temp_a0 /\ Eff.a1 = local.temp_a1 /\ Eff.mem = op.value
  <2>1. CASE op.name = "read_memory"
    <3>1. pos = 17 /\ ReadsMemory
      BY <1>2, <2>1, ReadMemoryTable DEF Length, Done
    <3> QED
      BY <2>1, <3>1 DEF ReadsMemory
  <2>2. CASE op.name = "write_memory"
    <3>1. pos = 25 /\ WritesMemory
      BY <1>2, <2>2, WriteMemoryTable DEF Length, Done
    <3> QED
      BY <2>2, <3>1 DEF WritesMemory
  <2> QED
    BY <2>1, <2>2
<1>5. op.name \in {"read_reg", "read_rfpc_reg"} /\ (op.reg = "dpc" => op.name = "read_reg")
        => local.word = Target[op.reg]
  <2>1. CASE op.name = "read_reg"
    <3>1. pos = 5
      BY <1>2, <2>1, ReadRegTable DEF Length
    <3>2. ReadsReg(0) /\ Phase = "held"
      BY <1>2, <2>1 DEF Done, Leaves
    <3> QED
      BY <1>2, <3>1, <3>2 DEF ReadsReg
  <2>2. CASE op.name = "read_rfpc_reg" /\ op.reg # "dpc"
    <3>1. pos = 9
      BY <1>2, <2>2, ReadRfpcTable DEF Length
    <3>2. ReadsReg(2)
      BY <1>2, <2>2 DEF Done
    <3> QED
      BY <1>2, <2>2, <3>1, <3>2 DEF ReadsReg
  <2> QED
    BY <2>1, <2>2
<1>6. op.name \in {"write_reg", "write_rfpc_reg"} /\ (op.reg = "dpc" => op.name = "write_reg")
        => Target[op.reg] = op.value
  <2>1. CASE op.name = "write_reg" /\ op.reg = "dpc"
    <3>1. pos = 8
      BY <1>2, <2>1, WriteRegTable DEF Length
    <3>2. WritesReg(0) /\ Phase = "held"
      BY <1>2, <2>1 DEF Done, Leaves
    <3> QED
      BY <1>2, <2>1, <3>1, <3>2 DEF WritesReg
  <2>2. CASE op.name = "write_reg" /\ op.reg # "dpc"
    <3>1. pos = 5
      BY <1>2, <2>2, WriteRegTable DEF Length
    <3>2. WritesReg(0)
      BY <1>2, <2>2 DEF Done
    <3> QED
      BY <1>2, <2>2, <3>1, <3>2 DEF WritesReg
  <2>3. CASE op.name = "write_rfpc_reg" /\ op.reg # "dpc"
    <3>1. pos = 9
      BY <1>2, <2>3, WriteRfpcTable DEF Length
    <3>2. WritesReg(2)
      BY <1>2, <2>3 DEF Done
    <3> QED
      BY <1>2, <2>3, <3>1, <3>2 DEF WritesReg
  <2> QED
    BY <2>1, <2>2, <2>3
<1>7. /\ op.name = "single_step" => Target.dpc = StepOf(shadow[op.hart].dpc)
      /\ op.name = "continue" => Target.dpc = Brk
  <2> SUFFICES ASSUME op.name \in Steps PROVE <1>7!:
    BY DEF Steps
  <2>1. pos = 28
    BY <1>2, StepsTable DEF Length
  <2>2. StepsHart
    BY <1>2 DEF Done
  <2>3. Eff.dpc = IF op.name = "single_step" THEN StepOf(shadow[op.hart].dpc) ELSE Brk
    BY <2>1, <2>2 DEF StepsHart
  <2> QED
    BY <1>2, <2>3
<1> DEFINE Shown == [state |-> Target.state, dpc |-> Target.dpc, mem |-> Target.mem,
                      a0 |-> Target.a0, a1 |-> Target.a1]
<1>8. UserView(op.hart) = Shown /\ UserView(op.hart)' = Shown
  <2>1. TargetView = Shown
    BY <1>2, <1>4 DEF TargetView, Memory
  <2>2. UserView(op.hart)' = Shown
    <3>1. ~Saved(op.hart, "temp_a0")' /\ ~Saved(op.hart, "temp_a1")'
      BY <1>1 DEF Saved
    <3> QED
      BY <1>1, <3>1 DEF UserView, Target
  <2> QED
    BY <1>2, <2>1, <2>2, TargetSeen
<1>9. \A k \in Hart : UserView(k)' = UserView(k)
  <2> SUFFICES ASSUME NEW k \in Hart, k # op.hart PROVE UserView(k)' = UserView(k)
    BY <1>1, <1>8
  <2> QED
    BY <1>1, OtherSeen DEF Called
<1>10. /\ Shown.state = Target.state /\ Shown.dpc = Target.dpc /\ Shown.mem = Target.mem
       /\ \A r \in Regs : Shown[r] = Target[r]
  BY DEF Regs
<1> HIDE DEF Shown
<1> DEFINE v == UserView(op.hart)
<1>11. /\ v.state = IF op.name \in {"resume", "read_rfpc_reg", "write_rfpc_reg"} THEN "running" ELSE "halted"
       /\ op.name \in {"write_reg", "write_rfpc_reg"} /\ (op.reg # "dpc" \/ v.state = "halted")
            => v[op.reg] = op.value
       /\ op.name \in {"read_reg", "read_rfpc_reg"} /\ (op.reg # "dpc" \/ v.state = "halted")
            => local.word = v[op.reg]
       /\ op.name = "write_memory" => v.mem = op.value
       /\ op.name = "read_memory" => local.word = v.mem
       /\ op.name = "single_step" => v.dpc = Debug!After(shadow[op.hart].dpc)
       /\ op.name = "continue" => v.dpc = Brk
  <2>1. v.state = Target.state /\ v.dpc = Target.dpc /\ v.mem = Target.mem
        /\ (op.name \in Accesses => v[op.reg] = Target[op.reg])
    BY <1>2, <1>8, <1>10
  <2>2. v.state = IF op.name \in {"resume", "read_rfpc_reg", "write_rfpc_reg"} THEN "running" ELSE "halted"
    BY <1>3, <2>1 DEF Leaves
  <2>3. op.name \in {"write_reg", "write_rfpc_reg"} /\ (op.reg # "dpc" \/ v.state = "halted")
            => v[op.reg] = op.value
    BY <1>6, <2>1, <2>2 DEF Accesses
  <2>4. op.name \in {"read_reg", "read_rfpc_reg"} /\ (op.reg # "dpc" \/ v.state = "halted")
            => local.word = v[op.reg]
    BY <1>5, <2>1, <2>2 DEF Accesses
  <2>5. StepOf(shadow[op.hart].dpc) = Debug!After(shadow[op.hart].dpc)
    BY DEF StepOf, Debug!After
  <2> QED
    BY <1>2, <1>4, <1>7, <2>1, <2>2, <2>3, <2>4, <2>5
<1>12. Debug!Complete
  BY <1>1, <1>2, <1>11 DEF Debug!Complete
<1>13. [k \in Hart |-> shadow'[k].dpc] =
         [[k \in Hart |-> shadow[k].dpc] EXCEPT ![op.hart] = IF v.state = "halted" THEN v.dpc ELSE @]
  <2>1. Expected(op, shadow[op.hart]).dpc = IF v.state = "halted" THEN v.dpc ELSE shadow[op.hart].dpc
    <3>1. op.name \in Leaves => Expected(op, shadow[op.hart]).dpc = shadow[op.hart].dpc
      BY <1>1, <1>2, ExpectedFields
    <3> QED
      BY <1>2, <1>3, <1>8, <1>10, <3>1
  <2>2. shadow'[op.hart] = Expected(op, shadow[op.hart])
        /\ \A k \in Hart : k # op.hart => shadow'[k] = shadow[k]
    BY <1>1, <1>2
  <2> HIDE DEF v
  <2> QED
    BY <1>2, <2>1, <2>2
<1>14. op # [name |-> "none"] /\ driver # "idle"
  BY <1>1, <1>2 DEF Names, Accesses
<1>15. [k \in Hart |-> UserView(k)]' = [k \in Hart |-> UserView(k)]
  BY <1>9
<1> HIDE DEF v
<1>16. [k \in Hart |-> shadow[k].dpc]' =
         [[k \in Hart |-> shadow[k].dpc] EXCEPT ![op.hart] =
            IF [k \in Hart |-> UserView(k)][op.hart].state = "halted"
            THEN [k \in Hart |-> UserView(k)][op.hart].dpc ELSE @]
  BY <1>2, <1>13 DEF v
<1> QED
  BY <1>1, <1>12, <1>14, <1>15, <1>16 DEF Debug!Return, Debug!NoCall

\* A panic may lose what the call has borrowed, and nothing else.
LEMMA LosesView ==
  ASSUME Called, Called', driver' = "timeout", op' = op, shadow' = shadow, local'.word = local.word,
         op \in Op, op.hart \in Hart, UserView(op.hart) = TargetView,
         NEW x \in Debug!Lost("a0"), NEW y \in Debug!Lost("a1"),
         NEW z, z = Target.mem \/ (op.name = "write_memory" /\ z = op.value),
         UserView(op.hart)' =
           [state |-> Target.state, dpc |-> Target.dpc, mem |-> z, a0 |-> x, a1 |-> y],
         \A k \in Hart : k # op.hart => UserView(k)' = UserView(k)
  PROVE  Debug!Fail
<1> DEFINE w == [k \in Hart |-> UserView(k)]
           call == IF driver = "idle" THEN [name |-> "none"] ELSE op
<1>1. /\ driver # "idle" /\ driver' # "idle" /\ op # [name |-> "none"] /\ call = op /\ call' = op
      /\ (driver \in {"idle", "busy"})' = FALSE
  BY DEF Called, Names, Accesses
<1>2. w[op.hart] = [state |-> Target.state, dpc |-> Target.dpc, mem |-> Target.mem,
                    a0 |-> w[op.hart].a0, a1 |-> w[op.hart].a1]
  BY DEF TargetView
<1>3. w' = [k \in Hart |-> w'[k]] /\ w = [k \in Hart |-> w[k]]
      /\ w'[op.hart] = [state |-> Target.state, dpc |-> Target.dpc, mem |-> z, a0 |-> x, a1 |-> y]
      /\ \A k \in Hart : k # op.hart => w'[k] = w[k]
  OBVIOUS
<1> HIDE DEF w, call
<1>4. \E c \in {FALSE, call.name = "write_memory"} : z = IF c THEN call.value ELSE w[call.hart].mem
  <2>1. w[op.hart].mem = Target.mem
    BY <1>2
  <2>2. CASE z = Target.mem
    BY <1>1, <2>1, <2>2
  <2>3. CASE op.name = "write_memory" /\ z = op.value
    <3>1. (call.name = "write_memory") = TRUE
      BY <1>1, <2>3
    <3>2. TRUE \in {FALSE, call.name = "write_memory"}
      BY <3>1
    <3> QED
      BY <1>1, <2>3, <3>2
  <2> QED
    BY <2>2, <2>3
<1>5. PICK c \in {FALSE, call.name = "write_memory"} : z = IF c THEN call.value ELSE w[call.hart].mem
  BY <1>4
<1>6. w' = [w EXCEPT ![call.hart].a0 = x, ![call.hart].a1 = y,
                     ![call.hart].mem = IF c THEN call.value ELSE @]
  <2> DEFINE w1 == [w EXCEPT ![call.hart].a0 = x]
             w2 == [w1 EXCEPT ![call.hart].a1 = y]
             w3 == [w2 EXCEPT ![call.hart].mem = z]
  <2>1. /\ w1 = [k \in Hart |-> w1[k]] /\ \A k \in Hart : k # op.hart => w1[k] = w[k]
        /\ w1[op.hart] = [state |-> Target.state, dpc |-> Target.dpc, mem |-> Target.mem,
                          a0 |-> x, a1 |-> w[op.hart].a1]
    BY <1>1, <1>2, <1>3
  <2> HIDE DEF w1
  <2>2. /\ w2 = [k \in Hart |-> w2[k]] /\ \A k \in Hart : k # op.hart => w2[k] = w[k]
        /\ w2[op.hart] = [state |-> Target.state, dpc |-> Target.dpc, mem |-> Target.mem,
                          a0 |-> x, a1 |-> y]
    BY <1>1, <2>1
  <2> HIDE DEF w2
  <2>3. /\ w3 = [k \in Hart |-> w3[k]] /\ \A k \in Hart : k # op.hart => w3[k] = w[k]
        /\ w3[op.hart] = [state |-> Target.state, dpc |-> Target.dpc, mem |-> z,
                          a0 |-> x, a1 |-> y]
    BY <1>1, <2>2
  <2> HIDE DEF w3
  <2>4. \A k \in Hart : w3[k] = w'[k]
    BY <1>3, <2>3
  <2>5. w' = w3
    BY <1>3, <2>3, <2>4
  <2>6. w3 = [w EXCEPT ![call.hart].a0 = x, ![call.hart].a1 = y, ![call.hart].mem = z]
    BY DEF w3, w2, w1
  <2> QED
    BY <1>5, <2>5, <2>6
<1>7. \E i \in Debug!Lost("a0"), j \in Debug!Lost("a1"), l \in {FALSE, call.name = "write_memory"} :
        w' = [w EXCEPT ![call.hart].a0 = i, ![call.hart].a1 = j,
                       ![call.hart].mem = IF l THEN call.value ELSE @]
  BY <1>6
<1>8. call # [name |-> "none"] /\ call' = call
  BY <1>1
<1>9. [k \in Hart |-> shadow[k].dpc]' = [k \in Hart |-> shadow[k].dpc]
  OBVIOUS
<1> QED
  BY <1>1, <1>7, <1>8, <1>9 DEF Debug!Fail, Debug!NoCall, w, call

\* A wait that gives up.
LEMMA TimeoutMaps ==
  ASSUME IInv, IInv', Timeout
  PROVE  Debug!Fail
<1>1. /\ driver = "busy" /\ driver' = "timeout" /\ UNCHANGED <<op, pos, local, dm, hart, shadow>>
      /\ Called /\ Called' /\ op \in Op /\ op.hart \in Hart /\ Target \in Harts1
  <2>1. driver = "busy" /\ driver' = "timeout" /\ UNCHANGED <<op, pos, local, dm, hart, shadow>>
    BY DEF Timeout, Waiting
  <2>2. Called /\ Called'
    BY <2>1 DEF Called
  <2> QED
    BY <2>1, <2>2, BusyShape
<1>2. /\ UserView(op.hart) = TargetView /\ UserView(op.hart)' = TargetView'
      /\ \A k \in Hart : k # op.hart => UserView(k)' = UserView(k)
  <2>1. ASSUME NEW k \in Hart, k # op.hart PROVE UserView(k)' = UserView(k)
    BY <1>1, <2>1, OtherSeen
  <2> QED
    BY <1>1, <2>1, TargetSeen, NextTargetSeen
<1>3. Target' = Target
  BY <1>1 DEF Target
<1>4. TargetView' = [state |-> Target.state, dpc |-> Target.dpc, mem |-> Target.mem,
                     a0 |-> Target.a0, a1 |-> Target.a1]
  BY <1>1, <1>3 DEF TargetView
<1>6. UserView(op.hart)' = [state |-> Target.state, dpc |-> Target.dpc,
                            mem |-> Target.mem,
                            a0 |-> Target.a0, a1 |-> Target.a1]
  BY <1>2, <1>4
<1>7. Target.a0 \in Debug!Lost("a0") /\ Target.a1 \in Debug!Lost("a1")
  <2>1. /\ Target.a0 \in Word /\ Target.a1 \in Word
        /\ op.name \notin Memory => UserView(op.hart).a0 = Target.a0
        /\ op.name # "write_memory" => UserView(op.hart).a1 = Target.a1
    BY <1>1, <1>2 DEF TargetView, Harts1
  <2>2. /\ op.name \in Memory <=> "a0" \in Debug!Borrowed
        /\ op.name = "write_memory" <=> "a1" \in Debug!Borrowed
    BY <1>1 DEF Debug!Borrowed, Memory
  <2> QED
    BY <1>1, <2>1, <2>2 DEF Debug!Lost, Called
<1>8. op' = op /\ shadow' = shadow /\ local'.word = local.word
  BY <1>1
<1> QED
  BY <1>1, <1>2, <1>6, <1>7, <1>8, LosesView

\* Steps of debug module and harts that show nothing.
LEMMA UnseenMaps ==
  ASSUME IInv, IInv', Called, UNCHANGED <<driver, op, pos, local, shadow>>,
         \A k \in Hart : k # op.hart => hart'[k] = hart[k], TargetView' = TargetView
  PROVE  UNCHANGED Debug!hdvars
<1>1. /\ Called' /\ op.hart \in Hart /\ op' = op /\ driver' = driver /\ shadow' = shadow
      /\ local'.word = local.word
  BY BusyShape DEF Called
<1>2. UserView(op.hart)' = UserView(op.hart)
  <2>1. UserView(op.hart) = TargetView
    BY TargetSeen
  <2>2. UserView(op.hart)' = TargetView'
    BY <1>1, NextTargetSeen
  <2> QED
    BY <2>1, <2>2
<1>3. ASSUME NEW k \in Hart, k # op.hart PROVE UserView(k)' = UserView(k)
  BY <1>1, <1>3, OtherSeen
<1> QED
  BY <1>1, <1>2, <1>3, SameView

\* Steps that change one field of the target.
LEMMA ShownMaps ==
  ASSUME IInv, IInv', Called, UNCHANGED <<driver, op, pos, local, shadow>>,
         \A k \in Hart : k # op.hart => hart'[k] = hart[k],
         NEW f, NEW v, TargetView' = [TargetView EXCEPT ![f] = v]
  PROVE  Debug!SetView(op.hart, f, v)
<1>1. /\ Called' /\ op.hart \in Hart /\ op' = op
  BY BusyShape DEF Called
<1>2. UserView(op.hart)' = [UserView(op.hart) EXCEPT ![f] = v]
  <2>1. UserView(op.hart) = TargetView
    BY TargetSeen
  <2>2. UserView(op.hart)' = TargetView'
    BY <1>1, NextTargetSeen
  <2> QED
    BY <2>1, <2>2
<1>3. ASSUME NEW k \in Hart, k # op.hart PROVE UserView(k)' = UserView(k)
  BY <1>1, <1>3, OtherSeen
<1> QED
  BY <1>1, <1>2, <1>3, SetsView

\* What the program buffer changes in its hart.
LEMMA RunChanges ==
  ASSUME NEW h
  PROVE  /\ dm.progbuf.do = "csrw" /\ dm.progbuf.csr = "dpc" => RunProgbuf(h) = [h EXCEPT !.dpc = h.a1]
         /\ dm.progbuf.do = "csrw" /\ dm.progbuf.csr = "dcsr" =>
              RunProgbuf(h) = [h EXCEPT !.dcsr = Dcsr(Cause(h.dcsr), HasEbreak(h.a1), HasStep(h.a1))]
         /\ dm.progbuf.do = "ld" => RunProgbuf(h) = [h EXCEPT !.a0 = IF h.a0 = Addr THEN h.mem ELSE 0]
         /\ dm.progbuf.do = "sd" =>
              RunProgbuf(h) = IF h.a0 = Addr THEN [h EXCEPT !.mem = h.a1] ELSE h
<1>1. CASE dm.progbuf.do = "csrw" /\ dm.progbuf.csr = "dpc"
  BY <1>1 DEF RunProgbuf, WriteCsr
<1>2. CASE dm.progbuf.do = "csrw" /\ dm.progbuf.csr = "dcsr"
  BY <1>2 DEF RunProgbuf, WriteCsr
<1>3. CASE dm.progbuf.do = "ld"
  BY <1>3 DEF RunProgbuf
<1>4. CASE dm.progbuf.do = "sd"
  BY <1>4 DEF RunProgbuf
<1> QED
  BY <1>1, <1>2, <1>3, <1>4

\* What the command under way changes in its hart.
LEMMA ExecutedFields ==
  ASSUME dm.cmd # NoCmd, dm.cmd \in Cmds, Target \in Harts1
  PROVE  /\ dm.cmd.kind = "read" => Eff = Target
         /\ dm.cmd.kind = "write" => Eff = [Target EXCEPT ![dm.cmd.reg] = dm.data]
         /\ dm.cmd.kind = "exec" /\ dm.progbuf = [do |-> "csrw", csr |-> "dpc"] =>
              Eff = [Target EXCEPT !.dpc = Target.a1]
         /\ dm.cmd.kind = "exec" /\ dm.progbuf = [do |-> "csrw", csr |-> "dcsr"] =>
              /\ Eff.state = Target.state /\ Eff.dpc = Target.dpc /\ Eff.mem = Target.mem
              /\ Eff.a0 = Target.a0 /\ Eff.a1 = Target.a1
         /\ dm.cmd.kind = "write_exec" /\ dm.progbuf = [do |-> "ld", csr |-> "none"] =>
              /\ Eff.state = Target.state /\ Eff.dpc = Target.dpc /\ Eff.mem = Target.mem
              /\ Eff.a1 = Target.a1
         /\ dm.cmd.kind = "write_exec" /\ dm.progbuf = [do |-> "sd", csr |-> "none"] =>
              /\ Eff.state = Target.state /\ Eff.dpc = Target.dpc /\ Eff.a1 = Target.a1
<1>1. Eff = Executed(Target)
  BY DEF Eff
<1>2. CASE dm.cmd.kind = "read"
  BY <1>1, <1>2 DEF Executed
<1>3. CASE dm.cmd.kind = "write"
  BY <1>1, <1>3 DEF Executed
<1>4. CASE dm.cmd.kind = "exec"
  <2>1. Eff = RunProgbuf(Target)
    BY <1>1, <1>4 DEF Executed
  <2>2. CASE dm.progbuf = [do |-> "csrw", csr |-> "dpc"]
    <3>1. dm.progbuf.do = "csrw" /\ dm.progbuf.csr = "dpc"
      BY <2>2
    <3>2. Eff = [Target EXCEPT !.dpc = Target.a1]
      BY <2>1, <3>1, RunChanges
    <3> QED
      BY <1>4, <2>2, <3>1, <3>2
  <2>3. CASE dm.progbuf = [do |-> "csrw", csr |-> "dcsr"]
    <3> DEFINE d == Dcsr(Cause(Target.dcsr), HasEbreak(Target.a1), HasStep(Target.a1))
    <3>1. dm.progbuf.do = "csrw" /\ dm.progbuf.csr = "dcsr"
      BY <2>3
    <3>2. Eff = [Target EXCEPT !.dcsr = d]
      BY <2>1, <3>1, RunChanges
    <3> HIDE DEF d
    <3> QED
      BY <1>4, <3>1, <3>2 DEF Harts1
  <2> QED
    BY <1>4, <2>2, <2>3
<1>5. CASE dm.cmd.kind = "write_exec"
  <2> DEFINE g == [Target EXCEPT !.a0 = dm.data]
             a == IF g.a0 = Addr THEN g.mem ELSE 0
             v == g.a1
  <2>1. Eff = RunProgbuf([Target EXCEPT ![dm.cmd.reg] = dm.data]) /\ dm.cmd.reg = "a0"
    BY <1>1, <1>5 DEF Executed, Cmds
  <2>2. Eff = RunProgbuf(g)
    BY <2>1
  <2>3. /\ g.state = Target.state /\ g.dpc = Target.dpc /\ g.mem = Target.mem /\ g.a1 = Target.a1
        /\ g.resuming = Target.resuming /\ g.dcsr = Target.dcsr /\ g.a0 = dm.data
    BY DEF Harts1
  <2>4. dm.progbuf.do = "ld" => Eff = [g EXCEPT !.a0 = a]
    BY <2>2, RunChanges
  <2>5. dm.progbuf.do = "sd" => Eff = IF g.a0 = Addr THEN [g EXCEPT !.mem = v] ELSE g
    BY <2>2, RunChanges
  <2>6. g = [state |-> g.state, resuming |-> g.resuming, a0 |-> g.a0, a1 |-> g.a1,
             dpc |-> g.dpc, mem |-> g.mem, dcsr |-> g.dcsr]
    BY DEF Harts1
  <2> HIDE DEF g, a, v
  <2>7. CASE dm.progbuf = [do |-> "ld", csr |-> "none"]
    <3>1. Eff = [g EXCEPT !.a0 = a]
      BY <2>4, <2>7
    <3>2. Eff.state = g.state /\ Eff.dpc = g.dpc /\ Eff.mem = g.mem /\ Eff.a1 = g.a1
      BY <2>6, <3>1
    <3> QED
      BY <1>5, <2>3, <2>7, <3>2
  <2>8. CASE dm.progbuf = [do |-> "sd", csr |-> "none"]
    <3>1. Eff = g \/ Eff = [g EXCEPT !.mem = v]
      BY <2>5, <2>8
    <3>2. Eff.state = g.state /\ Eff.dpc = g.dpc /\ Eff.a1 = g.a1
      BY <2>6, <3>1
    <3> QED
      BY <1>5, <2>3, <2>8, <3>2
  <2> QED
    BY <1>5, <2>7, <2>8
<1> QED
  BY <1>2, <1>3, <1>4, <1>5 DEF Cmds

\* Executing the command under way is the one write of the call, or nothing users see.
LEMMA ExecuteMaps ==
  ASSUME IInv, IInv', ExecuteCommand
  PROVE  [Debug!Next]_Debug!hdvars
<1>1. /\ dm.cmd # NoCmd /\ dm.cmd \in Cmds /\ Called /\ Called' /\ dm.hartsel = op.hart /\ pos \in 1 .. 28
      /\ UNCHANGED <<driver, op, pos, local, shadow>>
  BY DEF IInv, Pending, Types, ExecuteCommand, Called
<1>2. /\ Phase = "held" /\ Target.state = "halted" /\ op.hart \in Hart /\ op \in Op
      /\ hart \in [Hart -> Harts1] /\ Target \in Harts1 /\ Done /\ Commanded
      /\ op.name \in Names /\ (op.name \in Accesses => op.reg \in Regs)
  <2>1. Phase = "held"
    BY <1>1, HeldWhileCommanded
  <2>2. op \in Op
    BY <1>1, BusyShape
  <2> QED
    BY <1>1, <2>1, <2>2, BusyShape, CommandedAsScripted DEF IInv, InPhase, Types
<1>3. hart' = [hart EXCEPT ![op.hart] = Eff]
  BY <1>1, <1>2 DEF ExecuteCommand, Target, Eff
<1>4. /\ Target' = Eff /\ Eff \in Harts1
      /\ \A k \in Hart : k # op.hart => hart'[k] = hart[k]
  <2>1. hart' \in [Hart -> Harts1]
    BY DEF IInv, Types
  <2> QED
    BY <1>1, <1>2, <1>3, <2>1 DEF Target
<1>5. op # [name |-> "none"] /\ driver # "idle"
  BY <1>1, <1>2 DEF Names, Accesses, Called
<1>6. UserView(op.hart).state = "halted" /\ UserView(op.hart) = TargetView /\ UserView(op.hart)' = TargetView'
      /\ \A k \in Hart : k # op.hart => UserView(k)' = UserView(k)
  <2>1. ASSUME NEW k \in Hart, k # op.hart PROVE UserView(k)' = UserView(k)
    BY <1>1, <1>4, <2>1, OtherSeen
  <2> QED
    BY <1>1, <1>2, <2>1, TargetSeen, NextTargetSeen DEF TargetView
\* A write users see.
<1>7. ASSUME \/ /\ op.name \in {"write_reg", "write_rfpc_reg"}
                /\ Debug!SetView(op.hart, op.reg, op.value)
             \/ op.name = "write_memory" /\ Debug!SetView(op.hart, "mem", op.value)
             \/ /\ op.name \in Steps \/ (op.name \in {"write_reg", "write_rfpc_reg"} /\ op.reg = "dpc")
                /\ \E v \in Word : Debug!SetView(op.hart, "a1", v)
      PROVE  Debug!Next
  <2>1. Debug!Write
    <3>1. [k \in Hart |-> shadow[k].dpc]' = [k \in Hart |-> shadow[k].dpc]
      BY <1>1
    <3>2. driver' = driver /\ op' = op /\ local' = local
      BY <1>1
    <3> QED
      BY <1>2, <1>5, <1>6, <1>7, <3>1, <3>2 DEF Debug!Write, Debug!WritesCsr, Steps
  <2> QED
    BY <1>5, <2>1 DEF Debug!Next, Debug!NoCall
\* What a panic has lost.
<1>8. ASSUME driver = "timeout", op.name \in Memory, Eff.state = Target.state, Eff.dpc = Target.dpc,
             op.name = "read_memory" => Eff.a1 = Target.a1,
             Eff.mem = Target.mem \/ (op.name = "write_memory" /\ Eff.mem = op.value)
      PROVE  Debug!Next
  <2>1. UserView(op.hart)' = [state |-> Target.state, dpc |-> Target.dpc, mem |-> Eff.mem,
                              a0 |-> Eff.a0, a1 |-> Eff.a1]
    BY <1>1, <1>4, <1>6, <1>8 DEF TargetView
  <2>2. Eff.a0 \in Debug!Lost("a0") /\ Eff.a1 \in Debug!Lost("a1")
    <3>1. Eff.a0 \in Word /\ Eff.a1 \in Word
      BY <1>4 DEF Harts1
    <3>2. UserView(op.hart).a1 = Target.a1
      BY <1>6, <1>8 DEF TargetView
    <3>3. /\ "a0" \in Debug!Borrowed
          /\ op.name = "write_memory" <=> "a1" \in Debug!Borrowed
      BY <1>5, <1>8 DEF Debug!Borrowed, Memory
    <3> QED
      BY <1>2, <1>5, <1>8, <3>1, <3>2, <3>3 DEF Debug!Lost, Memory
  <2>3. op' = op /\ shadow' = shadow /\ local'.word = local.word /\ driver' = "timeout"
    BY <1>1, <1>8
  <2>4. Debug!Fail
    BY <1>1, <1>2, <1>6, <1>8, <2>1, <2>2, <2>3, LosesView
  <2> QED
    BY <2>4 DEF Debug!Next
<1>9. CASE dm.cmd.kind = "read"
  <2>1. Eff = Target
    BY <1>1, <1>2, <1>9, ExecutedFields
  <2>2. TargetView' = TargetView
    BY <1>1, <1>4, <2>1 DEF TargetView
  <2> QED
    BY <1>1, <1>4, <2>2, UnseenMaps
<1>10. CASE dm.cmd.kind # "read" /\ op.name \in {"write_reg", "write_rfpc_reg"} /\ op.reg # "dpc"
  <2>1. /\ dm.cmd.kind = "write" /\ dm.cmd.reg = op.reg /\ op.reg \in {"a0", "a1"}
        /\ pos = IF op.name = "write_reg" THEN 4 ELSE 6
    BY <1>2, <1>10 DEF Commanded, Accesses, Regs, Steps
  <2>2. Eff = [Target EXCEPT ![op.reg] = dm.data]
    BY <1>1, <1>2, <2>1, ExecutedFields
  <2>3. Eff[op.reg] = op.value
    BY <1>2, <1>10, <2>1 DEF Done, WritesReg, Writing
  <2>4. Eff = [Target EXCEPT ![op.reg] = op.value]
    BY <1>2, <2>1, <2>2, <2>3 DEF Harts1
  <2>5. TargetView' = [TargetView EXCEPT ![op.reg] = op.value]
    <3>1. ~(op.name \in Memory) /\ op.name # "write_memory"
      BY <1>10 DEF Memory
    <3>2. TargetView = [state |-> Target.state, dpc |-> Target.dpc, mem |-> Target.mem,
                        a0 |-> Target.a0, a1 |-> Target.a1]
      BY <3>1 DEF TargetView
    <3>3. TargetView' = [state |-> Eff.state, dpc |-> Eff.dpc, mem |-> Eff.mem,
                         a0 |-> Eff.a0, a1 |-> Eff.a1]
      BY <1>1, <1>4, <3>1 DEF TargetView
    <3> QED
      BY <1>2, <2>1, <2>4, <3>2, <3>3 DEF Harts1
  <2>6. Debug!SetView(op.hart, op.reg, op.value)
    BY <1>1, <1>4, <2>5, ShownMaps
  <2> QED
    BY <1>7, <1>10, <2>6
<1>11. CASE /\ dm.cmd = [kind |-> "write", reg |-> "a1"]
            /\ op.name \in Steps \/ (op.name \in {"write_reg", "write_rfpc_reg"} /\ op.reg = "dpc")
  <2>1. Eff = [Target EXCEPT !.a1 = dm.data]
    BY <1>1, <1>2, <1>11, ExecutedFields
  <2>2. TargetView' = [TargetView EXCEPT !.a1 = dm.data]
    <3>1. ~(op.name \in Memory) /\ op.name # "write_memory"
      BY <1>11 DEF Memory, Steps
    <3>2. TargetView = [state |-> Target.state, dpc |-> Target.dpc, mem |-> Target.mem,
                        a0 |-> Target.a0, a1 |-> Target.a1]
      BY <3>1 DEF TargetView
    <3>3. TargetView' = [state |-> Eff.state, dpc |-> Eff.dpc, mem |-> Eff.mem,
                         a0 |-> Eff.a0, a1 |-> Eff.a1]
      BY <1>1, <1>4, <3>1 DEF TargetView
    <3> QED
      BY <1>2, <2>1, <3>2, <3>3 DEF Harts1
  <2>3. dm.data \in Word
    BY DEF IInv, Types
  <2>4. Debug!SetView(op.hart, "a1", dm.data)
    BY <1>1, <1>4, <2>2, ShownMaps
  <2> QED
    BY <1>7, <1>11, <2>3, <2>4
<1>12. CASE dm.cmd.kind = "exec" /\ op.name \in {"write_reg", "write_rfpc_reg"} /\ op.reg = "dpc"
  <2>1. pos = IF op.name = "write_reg" THEN 7 ELSE 9
    BY <1>2, <1>12 DEF Commanded, Steps
  <2>2. Eff.dpc = op.value /\ dm.progbuf = [do |-> "csrw", csr |-> "dpc"]
    BY <1>2, <1>12, <2>1 DEF Done, WritesReg, WritingCsr
  <2>3. Eff = [Target EXCEPT !.dpc = Target.a1]
    BY <1>1, <1>2, <1>12, <2>2, ExecutedFields
  <2>4. TargetView' = [TargetView EXCEPT !.dpc = op.value]
    <3>1. ~(op.name \in Memory) /\ op.name # "write_memory"
      BY <1>12 DEF Memory
    <3>2. TargetView = [state |-> Target.state, dpc |-> Target.dpc, mem |-> Target.mem,
                        a0 |-> Target.a0, a1 |-> Target.a1]
      BY <3>1 DEF TargetView
    <3>3. TargetView' = [state |-> Eff.state, dpc |-> Eff.dpc, mem |-> Eff.mem,
                         a0 |-> Eff.a0, a1 |-> Eff.a1]
      BY <1>1, <1>4, <3>1 DEF TargetView
    <3> QED
      BY <1>2, <2>2, <2>3, <3>2, <3>3 DEF Harts1
  <2>5. Debug!SetView(op.hart, op.reg, op.value)
    BY <1>1, <1>4, <1>12, <2>4, ShownMaps
  <2> QED
    BY <1>7, <1>12, <2>5
<1>13. CASE dm.cmd.kind = "exec" /\ op.name \in Steps
  <2>1. pos \in {12, 27}
    BY <1>2, <1>13 DEF Commanded, Steps
  <2>2. dm.progbuf = [do |-> "csrw", csr |-> "dcsr"]
    BY <1>2, <1>13, <2>1 DEF Done, StepsHart, WritingCsr
  <2>3. /\ Eff.state = Target.state /\ Eff.dpc = Target.dpc /\ Eff.mem = Target.mem
        /\ Eff.a0 = Target.a0 /\ Eff.a1 = Target.a1
    BY <1>1, <1>2, <1>13, <2>2, ExecutedFields
  <2>4. TargetView' = TargetView
    BY <1>1, <1>4, <2>3 DEF TargetView
  <2> QED
    BY <1>1, <1>4, <2>4, UnseenMaps
<1>14. CASE dm.cmd.kind # "read" /\ op.name = "read_memory"
  <2>1. \/ dm.cmd = [kind |-> "write_exec", reg |-> "a0"] /\ pos = 9
        \/ dm.cmd = [kind |-> "write", reg |-> "a0"] /\ pos = 16
    BY <1>2, <1>14 DEF Commanded, Steps
  <2>2. pos = 9 => dm.progbuf = [do |-> "ld", csr |-> "none"]
    BY <1>2, <1>14 DEF Done, ReadsMemory
  <2>3. Eff.state = Target.state /\ Eff.dpc = Target.dpc /\ Eff.mem = Target.mem /\ Eff.a1 = Target.a1
    <3>1. CASE dm.cmd = [kind |-> "write_exec", reg |-> "a0"] /\ pos = 9
      BY <1>1, <1>2, <2>2, <3>1, ExecutedFields
    <3>2. CASE dm.cmd = [kind |-> "write", reg |-> "a0"]
      <4>1. Eff = [Target EXCEPT !.a0 = dm.data]
        BY <1>1, <1>2, <3>2, ExecutedFields
      <4> QED
        BY <1>2, <4>1 DEF Harts1
    <3> QED
      BY <2>1, <3>1, <3>2
  <2>4. CASE driver = "busy"
    <3>1. TargetView' = TargetView
      BY <1>1, <1>4, <1>14, <2>1, <2>3, <2>4 DEF TargetView, Memory
    <3> QED
      BY <1>1, <1>4, <3>1, UnseenMaps
  <2>5. CASE driver = "timeout"
    BY <1>8, <1>14, <2>3, <2>5 DEF Memory
  <2> QED
    BY <1>5, <2>4, <2>5 DEF IInv, Types
<1>15. CASE dm.cmd.kind # "read" /\ op.name = "write_memory"
  <2>1. \/ dm.cmd = [kind |-> "write", reg |-> "a1"] /\ pos \in {12, 24}
        \/ dm.cmd = [kind |-> "write_exec", reg |-> "a0"] /\ pos = 16
        \/ dm.cmd = [kind |-> "write", reg |-> "a0"] /\ pos = 20
    BY <1>2, <1>15 DEF Commanded, Steps
  <2>2. pos = 16 => dm.progbuf = [do |-> "sd", csr |-> "none"] /\ Eff.mem = op.value
    BY <1>2, <1>15 DEF Done, WritesMemory
  <2>3. Eff.state = Target.state /\ Eff.dpc = Target.dpc /\ (pos # 16 => Eff.mem = Target.mem)
    <3>1. CASE dm.cmd = [kind |-> "write_exec", reg |-> "a0"] /\ pos = 16
      BY <1>1, <1>2, <2>2, <3>1, ExecutedFields
    <3>2. CASE dm.cmd.kind = "write" /\ dm.cmd.reg \in {"a0", "a1"}
      <4>1. Eff = [Target EXCEPT ![dm.cmd.reg] = dm.data]
        BY <1>1, <1>2, <3>2, ExecutedFields
      <4> QED
        BY <1>2, <3>2, <4>1 DEF Harts1
    <3> QED
      BY <2>1, <3>1, <3>2
  <2>4. CASE driver = "busy"
    <3>1. TargetView' = [TargetView EXCEPT !.mem = Eff.mem]
      <4>1. pos >= 10 /\ op.name \in Memory
        BY <1>15, <2>1 DEF Memory
      <4>2. TargetView = [state |-> Target.state, dpc |-> Target.dpc, mem |-> Target.mem,
                          a0 |-> local.temp_a0, a1 |-> local.temp_a1]
        BY <1>1, <1>15, <2>4, <4>1 DEF TargetView
      <4>3. TargetView' = [state |-> Eff.state, dpc |-> Eff.dpc, mem |-> Eff.mem,
                           a0 |-> local.temp_a0, a1 |-> local.temp_a1]
        BY <1>1, <1>4, <1>15, <2>4, <4>1 DEF TargetView
      <4> QED
        BY <2>3, <4>2, <4>3
    <3>2. CASE pos # 16
      <4>1. TargetView' = TargetView
        BY <2>3, <3>1, <3>2 DEF TargetView
      <4> QED
        BY <1>1, <1>4, <4>1, UnseenMaps
    <3>3. CASE pos = 16
      <4>1. Debug!SetView(op.hart, "mem", op.value)
        BY <1>1, <1>4, <2>2, <3>1, <3>3, ShownMaps
      <4> QED
        BY <1>7, <1>15, <4>1
    <3> QED
      BY <3>2, <3>3
  <2>5. CASE driver = "timeout"
    BY <1>8, <1>15, <2>2, <2>3, <2>5 DEF Memory
  <2> QED
    BY <1>5, <2>4, <2>5 DEF IInv, Types
<1> QED
  BY <1>2, <1>9, <1>10, <1>11, <1>12, <1>13, <1>14, <1>15 DEF Commanded

\* What users see of a hart of which nothing is saved.
Bare(k) == [state |-> hart[k].state, dpc |-> hart[k].dpc, mem |-> hart[k].mem,
             a0 |-> hart[k].a0, a1 |-> hart[k].a1]

\* A hart moves on its own, or halts: it is seen as it is, and no other hart changes.
LEMMA MovesSeen ==
  ASSUME IInv, IInv', NEW k \in Hart, Resume(k) \/ HaltRequested(k) \/ Breakpoint(k) \/ Retire(k)
  PROVE  /\ UserView(k) = Bare(k) /\ UserView(k)' = Bare(k)'
         /\ \A j \in Hart : j # k => UserView(j)' = UserView(j)
         /\ UNCHANGED <<driver, op, shadow>> /\ local'.word = local.word
         /\ Called /\ op.hart = k => Phase # "held"
         /\ Called => op # [name |-> "none"] /\ op.hart \in Hart /\ op.name \in Names
         /\ hart \in [Hart -> Harts1] /\ hart[k] \in Harts1
<1>1. UNCHANGED <<driver, op, pos, local, dm, shadow>> /\ hart \in [Hart -> Harts1] /\ hart[k] \in Harts1
  BY DEF Resume, HaltRequested, Breakpoint, Retire, HartSteps, IInv, Types
<1>2. \A j \in Hart : j # k => hart'[j] = hart[j]
  BY <1>1 DEF Resume, HaltRequested, Breakpoint, Retire, HartSteps
<1>3. Called' = Called /\ Phase' = Phase
  BY <1>1 DEF Called, Phase
<1>4. ASSUME Called, op.hart = k
      PROVE  /\ Phase # "held" /\ op.name \notin Memory
             /\ UserView(k) = Bare(k) /\ UserView(k)' = Bare(k)'
  <2>1. InPhase /\ PhaseTable /\ op \in Op /\ Target = hart[k] /\ op.name \in Names
    BY <1>4, BusyShape, PhaseOf DEF IInv, Target
  <2>2. Phase # "held"
    BY <2>1 DEF InPhase, Resume, HaltRequested, Breakpoint, Retire
  <2>3. op.name \notin Memory
    BY <2>1, <2>2 DEF PhaseTable, Memory, Steps, Stops, Leaves
  <2>4. TargetView = Bare(k) /\ TargetView' = Bare(k)'
    <3>1. /\ ~(op.name \in Memory) /\ ~(op'.name \in Memory)
          /\ op.name # "write_memory" /\ op'.name # "write_memory" /\ op'.hart = k
      BY <1>1, <1>4, <2>3 DEF Memory
    <3> QED
      BY <1>4, <3>1 DEF TargetView, Bare, Target
  <2>5. op'.hart = k /\ Called'
    BY <1>1, <1>3, <1>4
  <2>6. UserView(k) = TargetView
    BY <1>4, TargetSeen
  <2>7. UserView(k)' = TargetView'
    BY <1>1, <1>4, <2>5, NextTargetSeen
  <2> QED
    BY <2>2, <2>3, <2>4, <2>6, <2>7
<1>5. ASSUME Called => op.hart # k
      PROVE  UserView(k) = Bare(k) /\ UserView(k)' = Bare(k)'
  <2>1. ~Saved(k, "temp_a0") /\ ~Saved(k, "temp_a1") /\ ~Saved(k, "temp_a0")' /\ ~Saved(k, "temp_a1")'
    BY <1>1, <1>5 DEF Saved, Called
  <2> QED
    BY <2>1 DEF UserView, Bare
<1>6. ASSUME NEW j \in Hart, j # k PROVE UserView(j)' = UserView(j)
  <2>1. hart'[j] = hart[j]
    BY <1>2, <1>6
  <2>2. CASE Called => op.hart # j
    BY <1>1, <1>3, <2>1, <2>2, OtherSeen
  <2>3. CASE Called /\ op.hart = j
    <3>1. op' = op /\ Called' /\ driver' = driver /\ pos' = pos /\ local' = local /\ Target' = Target
      BY <1>1, <1>3, <2>1, <2>3 DEF Target
    <3>2. TargetView' = TargetView
      BY <3>1 DEF TargetView
    <3>3. UserView(op.hart) = TargetView
      BY <2>3, TargetSeen
    <3>4. UserView(op.hart)' = TargetView'
      BY <3>1, NextTargetSeen
    <3> QED
      BY <2>3, <3>1, <3>2, <3>3, <3>4
  <2> QED
    BY <2>2, <2>3
<1>7. Called => op # [name |-> "none"] /\ op.hart \in Hart /\ op.name \in Names
  BY BusyShape DEF Names, Accesses
<1> QED
  BY <1>1, <1>4, <1>5, <1>6, <1>7

\* An instruction, as HartDebug has it.
LEMMA RunsView ==
  ASSUME NEW k \in Hart, UNCHANGED <<driver, op, shadow>>, local'.word = local.word,
         Called => op # [name |-> "none"],
         UserView(k).state = "running", NEW s,
         s = IF Called /\ op.hart = k /\ op.name = "single_step" THEN "halted" ELSE "running",
         UserView(k) = Bare(k), Bare(k)' = [Bare(k) EXCEPT !.dpc = StepOf(hart[k].dpc), !.state = s],
         UserView(k)' = Bare(k)',
         \A j \in Hart : j # k => UserView(j)' = UserView(j),
         Called /\ op.hart = k /\ op.name = "continue" => hart[k].dpc # Brk,
         Called /\ op.hart = k /\ op.name = "single_step" => hart[k].dpc = shadow[k].dpc
  PROVE  Debug!Run(k)
<1> DEFINE w == [j \in Hart |-> UserView(j)]
           call == IF driver = "idle" THEN [name |-> "none"] ELSE op
           mine == call # [name |-> "none"] /\ call.hart = k
           seen == [j \in Hart |-> shadow[j].dpc]
<1>1. /\ mine <=> Called /\ op.hart = k
      /\ mine => call = op
      /\ call' = call /\ seen' = seen /\ seen[k] = shadow[k].dpc
  BY DEF Called
<1>2. /\ w = [j \in Hart |-> w[j]] /\ w' = [j \in Hart |-> w'[j]]
      /\ w[k] = Bare(k) /\ w'[k] = [Bare(k) EXCEPT !.dpc = StepOf(hart[k].dpc), !.state = s]
      /\ \A j \in Hart : j # k => w'[j] = w[j]
      /\ w[k].state = "running"
  OBVIOUS
<1>3. w[k].dpc = hart[k].dpc
  BY <1>2 DEF Bare
<1> HIDE DEF w, call, mine, seen
<1>4. s = IF mine /\ call.name = "single_step" THEN "halted" ELSE w[k].state
  BY <1>1, <1>2
<1>5. StepOf(hart[k].dpc) = Debug!After(w[k].dpc)
  BY <1>3 DEF StepOf, Debug!After
<1>6. w' = [w EXCEPT ![k].dpc = Debug!After(@), ![k].state = s]
  <2> DEFINE x == Debug!After(w[k].dpc)
             w1 == [w EXCEPT ![k].dpc = x]
             w2 == [w1 EXCEPT ![k].state = s]
  <2>1. w'[k] = [w[k] EXCEPT !.dpc = x, !.state = s]
    BY <1>2, <1>5
  <2> HIDE DEF x
  <2>2. /\ w1 = [j \in Hart |-> w1[j]] /\ \A j \in Hart : j # k => w1[j] = w[j]
        /\ w1[k] = [w[k] EXCEPT !.dpc = x]
    BY <1>2
  <2> HIDE DEF w1
  <2>3. /\ w2 = [j \in Hart |-> w2[j]] /\ \A j \in Hart : j # k => w2[j] = w[j]
        /\ w2[k] = [w1[k] EXCEPT !.state = s]
    BY <2>2
  <2> HIDE DEF w2
  <2>4. \A j \in Hart : w2[j] = w'[j]
    BY <1>2, <2>1, <2>2, <2>3
  <2>5. w' = w2
    BY <1>2, <2>3, <2>4
  <2>6. w2 = [w EXCEPT ![k].dpc = x, ![k].state = s]
    BY DEF w2, w1
  <2> QED
    BY <2>5, <2>6 DEF x
<1>7. w' = [w EXCEPT ![k].dpc = Debug!After(@),
                     ![k].state = IF mine /\ call.name = "single_step" THEN "halted" ELSE @]
  BY <1>4, <1>6
<1>8. /\ mine /\ call.name = "continue" => w[k].dpc # Brk
      /\ mine /\ call.name = "single_step" => w[k].dpc = seen[k]
  BY <1>1, <1>3
<1> QED
  BY <1>1, <1>2, <1>7, <1>8 DEF Debug!Run, Debug!NoCall, w, call, mine, seen

\* An instruction of a hart is one of HartDebug: the one that a single step is for ends it.
LEMMA RetireMaps ==
  ASSUME IInv, IInv', NEW k \in Hart, Retire(k)
  PROVE  Debug!Run(k)
<1> DEFINE g == [hart[k] EXCEPT !.dpc = StepOf(@)]
           h == IF HasStep(g.dcsr) THEN Halted(g, StepCause) ELSE g
           mine == Called /\ op.hart = k
<1>1. /\ UserView(k) = Bare(k) /\ UserView(k)' = Bare(k)'
      /\ \A j \in Hart : j # k => UserView(j)' = UserView(j)
      /\ UNCHANGED <<driver, op, shadow>> /\ local'.word = local.word
      /\ mine => Phase # "held"
      /\ Called => op # [name |-> "none"] /\ op.hart \in Hart /\ op.name \in Names
      /\ hart \in [Hart -> Harts1] /\ hart[k] \in Harts1
  BY MovesSeen
<1>2. /\ hart[k].state = "running" /\ hart' = [hart EXCEPT ![k] = h]
      /\ ~(hart[k].dpc = Brk /\ HasEbreak(hart[k].dcsr))
  BY DEF Retire, HartSteps
<1>3. /\ g \in Harts1 /\ g.a0 = hart[k].a0 /\ g.a1 = hart[k].a1 /\ g.mem = hart[k].mem
      /\ g.dcsr = hart[k].dcsr /\ g.state = "running" /\ g.dpc = StepOf(hart[k].dpc)
  BY <1>1, <1>2 DEF Harts1, StepOf
<1> HIDE DEF g
<1>4. /\ HasStep(hart[k].dcsr) <=> mine /\ op.name = "single_step"
      /\ HasEbreak(hart[k].dcsr) <=> mine /\ op.name = "continue"
  <2>1. CASE mine
    <3>1. /\ op.name \notin Steps => Clear(hart[k].dcsr)
          /\ op.name \in Steps => Flagged(hart[k].dcsr)
      BY <1>1, <2>1, FlagsByCall DEF Target
    <3> QED
      BY <2>1, <3>1 DEF Clear, Flagged, Steps
  <2>2. CASE ~mine
    <3>1. Left(k)
      BY <2>2 DEF IInv
    <3> QED
      BY <2>2, <3>1 DEF Left, Clear
  <2> QED
    BY <2>1, <2>2
<1>5. mine /\ op.name = "single_step" => hart[k].dpc = shadow[k].dpc
  <2> SUFFICES ASSUME mine, op.name = "single_step" PROVE hart[k].dpc = shadow[k].dpc
    OBVIOUS
  <2>1. Phase = "away" /\ Eff = Target /\ Target = hart[k]
    BY <1>1, FlagsByCall, HeldWhileCommanded DEF Steps, Target
  <2>2. InPhase
    BY DEF IInv
  <2> QED
    BY <1>2, <2>1, <2>2 DEF InPhase, Away
<1>6. mine /\ op.name = "continue" => hart[k].dpc # Brk
  BY <1>2, <1>4
<1> DEFINE s == IF mine /\ op.name = "single_step" THEN "halted" ELSE "running"
<1>7. /\ h.a0 = hart[k].a0 /\ h.a1 = hart[k].a1 /\ h.mem = hart[k].mem
      /\ h.state = s /\ h.dpc = StepOf(hart[k].dpc)
  <2>1. CASE HasStep(hart[k].dcsr)
    <3>1. h = Halted(g, StepCause)
      BY <1>3, <2>1
    <3>2. /\ h.state = "halted" /\ h.a0 = g.a0 /\ h.a1 = g.a1 /\ h.mem = g.mem /\ h.dpc = g.dpc
      BY <1>3, <3>1, HaltedFields DEF StepCause
    <3> QED
      BY <1>3, <1>4, <2>1, <3>2
  <2>2. CASE ~HasStep(hart[k].dcsr)
    BY <1>3, <1>4, <2>2
  <2> QED
    BY <2>1, <2>2
<1> HIDE DEF h
<1>8. hart'[k] = h
  BY <1>1, <1>2
<1>9. Bare(k)' = [Bare(k) EXCEPT !.dpc = StepOf(hart[k].dpc), !.state = s]
  <2>1. Bare(k)' = [state |-> h.state, dpc |-> h.dpc, mem |-> h.mem, a0 |-> h.a0, a1 |-> h.a1]
    BY <1>8 DEF Bare
  <2>2. Bare(k) = [state |-> hart[k].state, dpc |-> hart[k].dpc, mem |-> hart[k].mem,
                    a0 |-> hart[k].a0, a1 |-> hart[k].a1]
    BY DEF Bare
  <2> DEFINE p == StepOf(hart[k].dpc)
  <2>3. /\ h.a0 = hart[k].a0 /\ h.a1 = hart[k].a1 /\ h.mem = hart[k].mem
        /\ h.state = s /\ h.dpc = p
    BY <1>7
  <2> HIDE DEF s, p
  <2> DEFINE r == [Bare(k) EXCEPT !.dpc = p]
  <2>4. [Bare(k) EXCEPT !.dpc = p, !.state = s] =
          [state |-> s, dpc |-> p, mem |-> hart[k].mem, a0 |-> hart[k].a0, a1 |-> hart[k].a1]
    <3>1. r = [state |-> hart[k].state, dpc |-> p, mem |-> hart[k].mem, a0 |-> hart[k].a0,
               a1 |-> hart[k].a1]
      BY <2>2
    <3>2. [Bare(k) EXCEPT !.dpc = p, !.state = s] = [r EXCEPT !.state = s]
      OBVIOUS
    <3> HIDE DEF r
    <3>3. [r EXCEPT !.state = s] =
            [state |-> s, dpc |-> p, mem |-> hart[k].mem, a0 |-> hart[k].a0, a1 |-> hart[k].a1]
      BY <3>1
    <3> QED
      BY <3>2, <3>3
  <2>5. Bare(k)' = [Bare(k) EXCEPT !.dpc = p, !.state = s]
    BY <2>1, <2>3, <2>4
  <2> QED
    BY <2>5 DEF p
<1>10. UserView(k).state = "running"
  BY <1>1, <1>2 DEF Bare
<1> QED
  BY <1>1, <1>5, <1>6, <1>9, <1>10, RunsView

\* A hart that was asked to resume starts to run.
LEMMA ResumesMaps ==
  ASSUME IInv, IInv', NEW k \in Hart, Resume(k)
  PROVE  [Debug!Next]_Debug!hdvars
<1>1. /\ UserView(k) = Bare(k) /\ UserView(k)' = Bare(k)'
      /\ \A j \in Hart : j # k => UserView(j)' = UserView(j)
      /\ UNCHANGED <<driver, op, shadow>> /\ local'.word = local.word
      /\ Called => op # [name |-> "none"] /\ op.hart \in Hart /\ op.name \in Names
      /\ hart \in [Hart -> Harts1] /\ hart[k] \in Harts1
  BY MovesSeen
<1>2. hart[k].resuming /\ hart' = [hart EXCEPT ![k] = [hart[k] EXCEPT !.resuming = FALSE, !.state = "running"]]
  BY DEF Resume, HartSteps
<1>3. Called /\ op.hart = k
  BY <1>2 DEF IInv, Left
<1>4. hart[k].state = "halted" /\ op.name \in Leaves \union Steps
  <2>1. InPhase /\ PhaseTable
    BY <1>3, BusyShape, PhaseOf DEF IInv
  <2>2. Phase \in {"leaving", "away"} /\ hart[k].state = "halted"
    BY <1>2, <1>3, <2>1 DEF InPhase, Target
  <2> QED
    BY <1>1, <1>3, <2>2 DEF Phase
<1>5. UserView(k)' = [UserView(k) EXCEPT !.state = "running"]
  <2>1. Bare(k)' = [Bare(k) EXCEPT !.state = "running"]
    BY <1>1, <1>2 DEF Bare, Harts1
  <2> QED
    BY <1>1, <2>1
<1>6. Debug!SetView(op.hart, "state", "running")
  BY <1>1, <1>3, <1>5, SetsView
<1>7. UserView(op.hart).state = "halted"
  BY <1>1, <1>3, <1>4 DEF Bare
<1>8. [j \in Hart |-> shadow[j].dpc]' = [j \in Hart |-> shadow[j].dpc]
  BY <1>1
<1>9. Debug!Start
  BY <1>1, <1>3, <1>4, <1>6, <1>7, <1>8 DEF Debug!Start, Leaves, Steps, Called
<1> QED
  BY <1>1, <1>3, <1>9 DEF Debug!Next, Debug!NoCall, Called

\* A hart halts because the call asks it to, or at the ebreak that it was continued to.
LEMMA StopsMaps ==
  ASSUME IInv, IInv', NEW k \in Hart, HaltRequested(k) \/ Breakpoint(k)
  PROVE  [Debug!Next]_Debug!hdvars
<1>1. /\ UserView(k) = Bare(k) /\ UserView(k)' = Bare(k)'
      /\ \A j \in Hart : j # k => UserView(j)' = UserView(j)
      /\ UNCHANGED <<driver, op, shadow>> /\ local'.word = local.word
      /\ Called /\ op.hart = k => Phase # "held"
      /\ Called => op # [name |-> "none"] /\ op.hart \in Hart /\ op.name \in Names
      /\ hart \in [Hart -> Harts1] /\ hart[k] \in Harts1
  BY MovesSeen
<1>2. PICK cause \in {HaltreqCause, EbreakCause} : hart' = [hart EXCEPT ![k] = Halted(hart[k], cause)]
  BY DEF HaltRequested, Breakpoint, HartSteps
<1>3. hart[k].state = "running"
  BY DEF HaltRequested, Breakpoint
<1>4. /\ Called /\ op.hart = k
      /\ op.name \in Stops \/ (op.name = "continue" /\ hart[k].dpc = Brk)
  <2>1. CASE HaltRequested(k)
    <3>1. Called /\ Phase = "asked" /\ op.hart = k
      BY <2>1 DEF HaltRequested, IInv, Requests
    <3>2. op.name \in Stops
      BY <3>1 DEF Phase
    <3> QED
      BY <3>1, <3>2
  <2>2. CASE Breakpoint(k)
    <3>1. hart[k].dpc = Brk /\ HasEbreak(hart[k].dcsr)
      BY <2>2 DEF Breakpoint
    <3>2. Called /\ op.hart = k
      BY <3>1 DEF IInv, Left, Clear
    <3>3. /\ op.name \notin Steps => Clear(hart[k].dcsr)
          /\ op.name \in Steps => Flagged(hart[k].dcsr)
      BY <1>1, <3>2, FlagsByCall DEF Target
    <3> QED
      BY <3>1, <3>2, <3>3 DEF Clear, Flagged
  <2> QED
    BY <2>1, <2>2
<1>5. UserView(k)' = [UserView(k) EXCEPT !.state = "halted"]
  <2> DEFINE h == Halted(hart[k], cause)
  <2>1. h.state = "halted" /\ h.dpc = hart[k].dpc /\ h.mem = hart[k].mem /\ h.a0 = hart[k].a0 /\ h.a1 = hart[k].a1
    BY <1>1, HaltedFields DEF HaltreqCause, EbreakCause
  <2> HIDE DEF h
  <2>2. hart'[k] = h
    BY <1>1, <1>2 DEF h
  <2>3. Bare(k)' = [state |-> h.state, dpc |-> h.dpc, mem |-> h.mem, a0 |-> h.a0, a1 |-> h.a1]
    BY <2>2 DEF Bare
  <2>4. Bare(k)' = [Bare(k) EXCEPT !.state = "halted"]
    BY <2>1, <2>3 DEF Bare
  <2> QED
    BY <1>1, <2>4
<1>6. Debug!SetView(op.hart, "state", "halted")
  BY <1>1, <1>4, <1>5, SetsView
<1>7. UserView(op.hart).state = "running" /\ UserView(op.hart).dpc = hart[k].dpc
  BY <1>1, <1>3, <1>4 DEF Bare
<1>8. [j \in Hart |-> shadow[j].dpc]' = [j \in Hart |-> shadow[j].dpc]
  BY <1>1
<1>9. Debug!Stop
  BY <1>1, <1>4, <1>6, <1>7, <1>8 DEF Debug!Stop, Stops, Called
<1> QED
  BY <1>1, <1>4, <1>9 DEF Debug!Next, Debug!NoCall, Called

\* A poll that is repeated shows nothing.
LEMMA StutterMaps ==
  ASSUME UNCHANGED <<driver, op, pos, local, dm, hart, shadow>>
  PROVE  UNCHANGED Debug!hdvars
<1>1. ASSUME NEW k \in Hart PROVE UserView(k)' = UserView(k)
  <2>1. /\ Saved(k, "temp_a0")' <=> Saved(k, "temp_a0")
        /\ Saved(k, "temp_a1")' <=> Saved(k, "temp_a1")
    BY DEF Saved
  <2> QED
    BY <2>1 DEF UserView
<1> QED
  BY <1>1, SameView

LEMMA InitMaps == Init => Debug!Init
<1> SUFFICES ASSUME Init PROVE Debug!Init
  OBVIOUS
<1>1. /\ driver = "idle" /\ local.word = 0 /\ shadow = [k \in Hart |-> [a1 |-> 2, dpc |-> 0]]
      /\ \A k \in Hart : /\ hart[k].state = "halted" /\ hart[k].a0 = 1 /\ hart[k].a1 = 2
                         /\ hart[k].dpc = 0 /\ hart[k].mem = 3
  BY DEF Init
<1>2. ASSUME NEW k \in Hart
      PROVE  UserView(k) = [state |-> "halted", dpc |-> 0, mem |-> 3, a0 |-> 1, a1 |-> 2]
  BY <1>1, <1>2 DEF UserView, Saved
<1>3. 0 \in 0 .. ProgLen - 1 /\ 1 \in Word /\ 2 \in Word /\ 3 \in Word
  BY DEF Word
<1>4. [k \in Hart |-> UserView(k)] \in
        [Hart -> [state : {"halted"}, a0 : Word, a1 : Word, dpc : 0 .. ProgLen - 1, mem : Word]]
  BY <1>2, <1>3
<1>5. [k \in Hart |-> shadow[k].dpc] = [k \in Hart |-> UserView(k).dpc]
  BY <1>1, <1>2
<1> QED
  BY <1>1, <1>4, <1>5 DEF Debug!Init, Debug!NoCall

LEMMA NextMaps ==
  ASSUME IInv, IInv', [Next]_vars
  PROVE  [Debug!Next]_Debug!hdvars
<1>1. CASE UNCHANGED vars
  BY <1>1, StutterMaps DEF vars
<1>2. CASE \E o \in Op : Call(o)
  BY <1>2, CallMaps DEF Debug!Next
<1>3. CASE Driver
  <2>1. CASE Return
    BY <2>1, ReturnMaps DEF Debug!Next
  <2>2. CASE PollAgain
    BY <2>2, StutterMaps DEF PollAgain
  <2>3. CASE Timeout
    BY <2>3, TimeoutMaps DEF Debug!Next
  <2>4. CASE ~Return /\ ~PollAgain /\ ~Timeout
    <3>1. driver = "busy" /\ pos \in 1 .. 28
      BY <1>3, <2>4 DEF Driver, WriteDmcontrol, WriteData, WriteProgbuf, WriteCommand, ReadData,
         ChangeFlag, CheckDcsrCause, PollDone, Do, Waiting, IInv, Types
    <3>2. driver' = "busy" /\ pos' = pos + 1
      <4>1. CASE CheckDcsrCause
        <5>1. Next1 /\ UNCHANGED driver
          BY <4>1, CauseAsExpected DEF CheckDcsrCause
        <5> QED
          BY <3>1, <5>1 DEF Next1
      <4>2. CASE ~CheckDcsrCause
        BY <1>3, <2>4, <3>1, <4>2 DEF Driver, WriteDmcontrol, WriteData, WriteProgbuf, WriteCommand,
           ReadData, ChangeFlag, PollDone, Next1
      <4> QED
        BY <4>1, <4>2
    <3>3. pos' # pos
      BY <3>1, <3>2
    <3> QED
      BY <1>3, <3>2, <3>3, AdvanceMaps
  <2> QED
    BY <2>1, <2>2, <2>3, <2>4
<1>4. CASE ExecuteCommand
  BY <1>4, ExecuteMaps
<1>5. ASSUME NEW k \in Hart, Resume(k) \/ HaltRequested(k) \/ Breakpoint(k) \/ Retire(k)
      PROVE  [Debug!Next]_Debug!hdvars
  <2>1. CASE Resume(k)
    BY <2>1, ResumesMaps
  <2>2. CASE HaltRequested(k) \/ Breakpoint(k)
    BY <2>2, StopsMaps
  <2>3. CASE Retire(k)
    BY <2>3, RetireMaps DEF Debug!Next
  <2> QED
    BY <1>5, <2>1, <2>2, <2>3
<1> QED
  BY <1>1, <1>2, <1>3, <1>4, <1>5 DEF Next, Harts

-----------------------------------------------------------------------------
(* The theorems.                                                           *)

LEMMA Invariance == Spec /\ [][~OldHaltTaken]_vars => []IInv
<1>1. Init => IInv
  BY InitIInv
<1>2. IInv /\ [Next]_vars /\ [~OldHaltTaken]_vars => IInv'
  BY Inductive
<1> QED
  BY <1>1, <1>2, PTL DEF Spec

\* Where a hart may report halted after it was asked to resume, the driver waits for it to run.
LateWhereWaited == LateCalls \subseteq Leaves

\* No hart that is stepped or continued still has its resume before it.
NoneLate == Called /\ op.name \in Steps => ~Target.resuming

LEMMA NewHalt ==
  ASSUME IInv, NoneLate
  PROVE  ~OldHaltTaken
<1> SUFFICES ASSUME OldHaltTaken PROVE FALSE
  OBVIOUS
<1>1. /\ Called /\ Driver /\ driver = "busy" /\ driver' = "busy" /\ pos' = pos + 1
      /\ Instr.do = "poll" /\ Instr.until = "halted" /\ hart[dm.hartsel].resuming
  BY DEF OldHaltTaken, PollDone, Waiting, Called, Next1, Driver
<1>2. dm.hartsel \in Hart /\ op \in Op /\ Instr = At(pos) /\ pos \in 1 .. 28 /\ InPhase
  BY <1>1, BusyShape DEF IInv, Types
<1>3. op.hart = dm.hartsel
  BY <1>1, <1>2 DEF IInv, Left
<1>4. Phase = "leaving"
  <2>1. Phase \in {"leaving", "away"} /\ op.name \notin Steps
    BY <1>1, <1>2, <1>3 DEF InPhase, Target, NoneLate
  <2> QED
    BY <2>1 DEF Phase
<1>5. Moves
  <2>1. pos' # pos
    BY <1>1, <1>2
  <2>2. Advances /\ pos < Len(Script(op))
    BY <1>1, <2>1, Effects, AdvancesWithin
  <2> QED
    BY <1>1, <1>2, <2>2, PhasesInOrder DEF Advances
<1>6. At(pos) = Polls("running")
  BY <1>4, <1>5 DEF Moves
<1> QED
  BY <1>1, <1>2, <1>6 DEF Polls

LEMMA NoneLateStep ==
  ASSUME IInv, IInv', NoneLate, LateWhereWaited, [Next]_vars
  PROVE  NoneLate'
<1> SUFFICES ASSUME Called', op'.name \in Steps PROVE ~Target'.resuming
  BY DEF NoneLate
<1>1. hart \in [Hart -> Harts1] /\ op' \in Op /\ op'.hart \in Hart
  BY DEF IInv, Types
<1>2. CASE UNCHANGED vars
  BY <1>2 DEF vars, NoneLate, Called, Target
<1>3. CASE \E o \in Op : Call(o)
  BY <1>1, <1>3 DEF Call, IInv, Left, Called, Target
<1>4. CASE Driver
  <2>1. Called /\ op' = op /\ ~hart[op.hart].resuming
    <3>1. Called /\ op' = op
      BY <1>4 DEF Driver, WriteDmcontrol, WriteData, WriteProgbuf, WriteCommand, ReadData, ChangeFlag,
         CheckDcsrCause, PollDone, PollAgain, Timeout, Return, Do, Waiting, Called
    <3> QED
      BY <3>1 DEF NoneLate, Target
  <2>2. CASE WriteDmcontrol
    <3>1. op.name \notin LateCalls
      BY <2>1 DEF LateWhereWaited, Leaves, Steps
    <3>2. hart' = hart \/ hart' = [hart EXCEPT ![Instr.hart].state = "running"]
      BY <2>2, <3>1 DEF WriteDmcontrol
    <3>3. hart'[op.hart].resuming = hart[op.hart].resuming
      BY <1>1, <2>1, <3>2 DEF Harts1
    <3> QED
      BY <2>1, <3>3 DEF Target
  <2>3. CASE ~WriteDmcontrol
    <3>1. hart' = hart
      BY <1>4, <2>3 DEF Driver, WriteData, WriteProgbuf, WriteCommand, ReadData, ChangeFlag,
         CheckDcsrCause, PollDone, PollAgain, Timeout, Return
    <3> QED
      BY <2>1, <3>1 DEF Target
  <2> QED
    BY <2>2, <2>3
<1>5. CASE ExecuteCommand
  <2>1. UNCHANGED <<driver, op, pos>> /\ dm.cmd # NoCmd /\ Called
    BY <1>5 DEF ExecuteCommand, Called
  <2>2. Phase' = "held"
    BY <2>1, HeldWhileCommanded DEF Phase
  <2> QED
    BY <2>2 DEF IInv, InPhase
<1>6. ASSUME NEW k \in Hart, Resume(k) \/ HaltRequested(k) \/ Breakpoint(k) \/ Retire(k)
      PROVE  ~Target'.resuming
  <2>1. Called /\ op' = op /\ ~hart[op.hart].resuming
    <3>1. UNCHANGED <<driver, op>>
      BY <1>6 DEF Resume, HaltRequested, Breakpoint, Retire, HartSteps
    <3> QED
      BY <3>1 DEF NoneLate, Target, Called
  <2>2. PICK h : hart' = [hart EXCEPT ![k] = h] /\ (hart[k].resuming \/ h.resuming = hart[k].resuming)
    BY <1>1, <1>6 DEF Resume, HaltRequested, Breakpoint, Retire, HartSteps, Halted, Harts1
  <2> QED
    BY <1>1, <2>1, <2>2 DEF Target
<1> QED
  BY <1>2, <1>3, <1>4, <1>5, <1>6 DEF Next, Harts

\* A driver that waits for running wherever a hart may resume late never takes an old halt
\* for a new one: what follows holds of it without an exception.
THEOREM HaltsAreNew ==
  ASSUME LateWhereWaited
  PROVE  Spec => [][~OldHaltTaken]_vars
<1>1. Init => IInv /\ NoneLate
  BY InitIInv DEF Init, NoneLate, Called
<1>2. IInv /\ NoneLate /\ [Next]_vars => IInv' /\ NoneLate'
  <2> SUFFICES ASSUME IInv, NoneLate, [Next]_vars PROVE IInv' /\ NoneLate'
    OBVIOUS
  <2>1. IInv'
    BY NewHalt, Inductive
  <2> QED
    BY <2>1, NoneLateStep
<1>3. IInv /\ NoneLate => [~OldHaltTaken]_vars
  BY NewHalt
<1> QED
  BY <1>1, <1>2, <1>3, PTL DEF Spec

\* Every variable of the driver, the debug module and the harts has its type.
THEOREM TypeCorrect == Spec /\ [][~OldHaltTaken]_vars => []TypeOK
<1>1. IInv => TypeOK
  <2> SUFFICES ASSUME IInv PROVE TypeOK
    OBVIOUS
  <2>1. \A d \in Dcsrs : d \in Word
    BY DEF Dcsrs, Word
  <2>2. /\ driver \in {"idle", "busy", "timeout", "wrong_cause"} /\ pos \in 1 .. 50
        /\ polled \in BOOLEAN /\ local \in [{"temp_a0", "temp_a1", "dcsr_reg", "word"} -> Word]
        /\ dm.hartsel \in Hart /\ dm.data \in Word
    BY DEF IInv, Types
  <2>3. ASSUME NEW k \in Hart
        PROVE  /\ hart[k].state \in {"halted", "running"} /\ hart[k].resuming \in BOOLEAN
               /\ \A r \in {"a0", "a1", "mem", "dcsr"} : hart[k][r] \in Word
               /\ hart[k].dpc \in 0 .. ProgLen - 1
               /\ shadow[k].a1 \in Word /\ shadow[k].dpc \in 0 .. ProgLen - 1
    BY <2>1, <2>3 DEF IInv, Types, Harts1
  <2> QED
    BY <2>2, <2>3 DEF TypeOK
<1> QED
  BY <1>1, Invariance, PTL

\* Whatever harts do, and however late any call's resume takes effect, commands are only
\* given to halted harts, so that cmderr, which the driver neither reads nor clears, is
\* never set: for as long as no poll for the halt after a step or continue is answered by
\* the halt of before it.  Where that happens the theorem says nothing, and commands do
\* fail: the driver does not look at ALLRESUMEACK (rfpc_debugger.rs:249).
THEOREM NoCommandFailsHolds == Spec /\ [][~OldHaltTaken]_vars => []NoCommandFails
<1>1. IInv => NoCommandFails
  BY DEF IInv, Types, NoCommandFails
<1> QED
  BY <1>1, Invariance, PTL

\* rfpc_dbg_single_step and rfpc_dbg_continue find the cause they check for, whatever the
\* other calls were and however late a hart resumes, and no call leaves a flag in dcsr: for
\* as long as no poll takes the halt of before a step or continue for the one after it.  A
\* driver that did would check the cause of the old halt, and panic.
THEOREM CausesAreRight == Spec /\ [][~OldHaltTaken]_vars => []CauseIsRight
<1>1. IInv => CauseIsRight
  BY DEF IInv, Types, Left, Clear, CauseIsRight, FlagsCleared, Idle, Called
<1> QED
  BY <1>1, Invariance, PTL

\* The users of the driver see the behaviour of HartDebug: however the accesses of a call
\* interleave with the harts, each call is one write, read, start or stop of the hart it names,
\* as long as no poll takes an old halt for a new one.
THEOREM Refinement == Spec /\ [][~OldHaltTaken]_vars => ImplementsHartDebug
<1>1. Init => Debug!Init
  BY InitMaps
<1>2. IInv /\ IInv' /\ [Next]_vars => [Debug!Next]_Debug!hdvars
  BY NextMaps
<1> QED
  BY <1>1, <1>2, Invariance, PTL DEF Spec, ImplementsHartDebug, Debug!Spec
=============================================================================
