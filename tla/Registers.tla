------------------------------ MODULE Registers ------------------------------
(***************************************************************************)
(* Reading and writing registers through the RSP server: the requests g, p *)
(* and P (read_gprs, read_reg and write_reg of libs/rsp_server_stub.rs),   *)
(* the register numbers of libs/rfpc.rs, and the core that requests go to. *)
(*                                                                         *)
(* GDB knows registers by the numbers of the target description; the       *)
(* server numbers them a second time, in the arrays of p and of P and in   *)
(* the order in which g reads them, and the debug module by address.       *)
(* Words have two bytes here instead of eight.  Calls of the debug driver  *)
(* are one step each, as HartDebug promises, on halted harts.  Definitions *)
(* with a suffix are slips the code might have had.                        *)
(***************************************************************************)
EXTENDS Naturals, Sequences

CONSTANTS
  First,     \* the core given on the command line: [cluster, group, core]
  Thread,    \* the threads the client selects
  Written,   \* the numbers of the registers it writes, and the values
  Value,
  MaxWrites, \* it writes so often
  Contents   \* what the registers hold at first: Contents[h][a] is at address a of hart h

Core == [cluster : 0 .. 2, group : 0 .. 3, core : 0 .. 7]
ASSUME FirstAssumption == First \in Core
ASSUME ThreadAssumption == Thread \subseteq 0 .. 31
ASSUME WrittenAssumption == Written \subseteq 0 .. 57 /\ MaxWrites \in Nat

\* The target description, regnum by regnum from 0.
Description ==
  <<"zero", "ra", "sp", "gp", "tp", "t0", "t1", "t2", "fp", "s1", "a0", "a1", "a2", "a3",
    "a4", "a5", "a6", "a7", "s2", "s3", "s4", "s5", "s6", "s7", "s8", "s9", "s10", "s11",
    "t3", "t4", "t5", "t6", "mstatus", "misa", "medeleg", "mideleg", "mie", "mtvec",
    "mscratch", "mepc", "mcause", "mtval", "mip", "dcsr", "pc", "dscratch0", "dscratch1",
    "mlmemprot", "mafstatus", "mcycle", "minstret", "cycle", "time", "instret",
    "mvendorid", "marchid", "mimpid", "mhartid">>
Number == 0 .. Len(Description) - 1

From(a, b) == [i \in 1 .. b - a + 1 |-> a + i - 1]

\* RfpcGpr::reg_addr and RfpcCsr::reg_addr.
GprAddr == From(4096, 4127)
CsrAddr ==
  [Mstatus |-> 768, Misa |-> 769, Medeleg |-> 770, Mideleg |-> 771, Mie |-> 772,
   Mtvec |-> 773, Mscratch |-> 832, Mepc |-> 833, Mcause |-> 834, Mtval |-> 835,
   Mip |-> 836, Dcsr |-> 1968, Dpc |-> 1969, Dscratch0 |-> 1970, Dscratch1 |-> 1971,
   Mlmemprot |-> 1984, Mafstatus |-> 1985, Mcycle |-> 2816, Minstret |-> 2818,
   Cycle |-> 3072, Time |-> 3073, Instret |-> 3074, Mvendorid |-> 3857,
   Marchid |-> 3858, Mimpid |-> 3859, Mhartid |-> 3860]

\* The architecture's place of each register of the description: what the debug
\* module reads and writes at an address.
Place(n) ==
  LET csr == [mstatus |-> 768, misa |-> 769, medeleg |-> 770, mideleg |-> 771, mie |-> 772,
              mtvec |-> 773, mscratch |-> 832, mepc |-> 833, mcause |-> 834, mtval |-> 835,
              mip |-> 836, dcsr |-> 1968, pc |-> 1969, dscratch0 |-> 1970,
              dscratch1 |-> 1971, mlmemprot |-> 1984, mafstatus |-> 1985,
              mcycle |-> 2816, minstret |-> 2818, cycle |-> 3072, time |-> 3073,
              instret |-> 3074, mvendorid |-> 3857, marchid |-> 3858,
              mimpid |-> 3859, mhartid |-> 3860]
  IN IF n < 32 THEN 4096 + n ELSE csr[Description[n + 1]]
PlaceOf == [n \in Number |-> Place(n)]
Address == {PlaceOf[n] : n \in Number}
A1 == 4107
ReadOnly(a) == a \in 3072 .. 4095      \* a csrw to these is an illegal instruction

\* The arrays of read_reg and write_reg: register numbers to addresses.
csr_regs ==
  <<"Mstatus", "Misa", "Medeleg", "Mideleg", "Mie", "Mtvec", "Mscratch", "Mepc", "Mcause",
    "Mtval", "Mip", "Dcsr", "Dpc", "Dscratch0", "Dscratch1", "Mlmemprot", "Mafstatus",
    "Mcycle", "Minstret", "Cycle", "Time", "Instret", "Mvendorid", "Marchid", "Mimpid",
    "Mhartid">>
ReadAddr(n) == IF n < 32 THEN GprAddr[n + 1] ELSE CsrAddr[csr_regs[n - 31]]

WriteAddr_CountersSwapped(n) ==
  IF n < 32 THEN GprAddr[n + 1]
  ELSE CsrAddr[csr_regs[IF n \in {49, 50} THEN 68 - n ELSE n - 31]]

WriteAddr(n) == IF n < 32 THEN GprAddr[n + 1] ELSE CsrAddr[csr_regs[n - 31]]

\* The addresses in the order read_gprs reads them: four ranges of CSRs, two
\* single ones with a gap between them, two ranges.
Csr(first, last) == From(CsrAddr[first], CsrAddr[last])
ReadOrder_NoGap ==
  GprAddr \o Csr("Mstatus", "Mtvec") \o Csr("Mscratch", "Mip") \o Csr("Dcsr", "Dscratch1")
  \o Csr("Mlmemprot", "Mafstatus") \o Csr("Mcycle", "Minstret")
  \o Csr("Cycle", "Instret") \o Csr("Mvendorid", "Mhartid")

ReadOrder ==
  GprAddr \o Csr("Mstatus", "Mtvec") \o Csr("Mscratch", "Mip") \o Csr("Dcsr", "Dscratch1")
  \o Csr("Mlmemprot", "Mafstatus") \o Csr("Mcycle", "Mcycle") \o Csr("Minstret", "Minstret")
  \o Csr("Cycle", "Instret") \o Csr("Mvendorid", "Mhartid")

dm_hartsel_GroupIgnored(r) == <<r.cluster, r.core>>

\* The hart a core is: its cluster has one debug module (dm_xpb_base), in which
\* hartsel selects it.
dm_hartsel(r) == <<r.cluster, 8 * r.group + r.core>>

\* Where the device has the registers of a core.
HartOf(r) == <<r.cluster, 8 * r.group + r.core>>

thread_map == [t \in 0 .. 31 |-> [cluster |-> 0, group |-> t \div 8, core |-> t % 8]]

\* Numbers as bytes: a word is hi * Byte + lo.
Byte == 256
Word == 0 .. Byte * Byte - 1
ASSUME ValueAssumption == Value \subseteq Word

swap_bytes_Shifted(w) == (w % Byte) * Byte * Byte + w \div Byte

swap_bytes(w) == (w % Byte) * Byte + w \div Byte
Hex(w) == <<w \div Byte, w % Byte>>            \* {:016x}: the high byte first
FromHex(text) == text[1] * Byte + text[2]
\* The client's side: values in target byte order, the low byte first.
Decoded(text) == text[1] + text[2] * Byte
Encoded(w) == <<w % Byte, w \div Byte>>

\* The harts that matter.
Hart == {HartOf(First)} \union {HartOf(thread_map[t]) : t \in Thread}
ASSUME ContentsAssumption == Contents \in [Hart -> [Address -> Word]]

VARIABLES
  rfpc,     \* the core the server works on
  reg,      \* reg[h][a]: the register at address a of hart h
  cmderr,   \* the debug modules that ignore commands, after one that failed
  reply,    \* the server's last answer: the request and its text
  current,  \* the core the client thinks it works on
  writes    \* the number of writes so far

regvars == <<rfpc, reg, cmderr, reply, current, writes>>

RegInit == /\ rfpc = First /\ current = First
           /\ reg = Contents
           /\ cmderr = {}
           /\ reply = [cmd |-> "none"]
           /\ writes = 0

\* What rfpc_dbg_read_reg finds in data0 and data1: a command that fails, and every
\* one after it, leaves there what was there, here a word no register holds.
Stale == Byte * Byte - 1
Found(a) == LET h == dm_hartsel(rfpc)
            IN IF h[1] \in cmderr \/ h \notin Hart \/ a \notin Address THEN Stale ELSE reg[h][a]

Answer(cmd, n, text) == reply' = [cmd |-> cmd, n |-> n, text |-> text]

read_reg(n) == /\ Answer("p", n, Hex(swap_bytes(Found(ReadAddr(n)))))
               /\ UNCHANGED <<rfpc, reg, cmderr, current, writes>>

read_gprs == /\ Answer("g", 0, [i \in 1 .. Len(ReadOrder) |-> Hex(swap_bytes(Found(ReadOrder[i])))])
             /\ UNCHANGED <<rfpc, reg, cmderr, current, writes>>

\* x0 stays zero, whatever it is written with: here as it was.
Written1(h, a, w) == IF a = 4096 THEN reg[h] ELSE [reg[h] EXCEPT ![a] = w]

\* A CSR is written by way of a1, and the program buffer raises an exception if
\* it cannot be.
write_reg(n, text) ==
  LET w == swap_bytes(FromHex(text))
      a == WriteAddr(n)
      h == dm_hartsel(rfpc)
  IN /\ writes < MaxWrites /\ writes' = writes + 1
     /\ cmderr' = cmderr \union (IF ReadOnly(a) THEN {h[1]} ELSE {})
     /\ reg' = [reg EXCEPT ![h] =
                  IF h[1] \in cmderr THEN @
                  ELSE IF a >= 4096 THEN Written1(h, a, w)
                  ELSE IF ReadOnly(a) THEN [@ EXCEPT ![A1] = w]
                  ELSE [@ EXCEPT ![A1] = w, ![a] = w]]
     /\ Answer("P", n, text)
     /\ UNCHANGED <<rfpc, current>>

\* vCont;t:<thread>: the client writes the number in hexadecimal, the server
\* reads it as decimal; at other digits it panics, which ends the session.
ThreadRead(t) == 10 * (t \div 16) + (t % 16)
multicore_actions(t) ==
  /\ t % 16 < 10
  /\ rfpc' = thread_map[ThreadRead(t)]
  /\ current' = thread_map[t]
  /\ reply' = [cmd |-> "vCont"]
  /\ UNCHANGED <<reg, cmderr, writes>>

RegNext == \/ \E n \in Number : read_reg(n)
           \/ read_gprs
           \/ \E n \in Written, v \in Value : write_reg(n, Encoded(v))
           \/ \E t \in Thread : multicore_actions(t)

RegSpec == RegInit /\ [][RegNext]_regvars

-----------------------------------------------------------------------------
(* Properties                                                              *)

RegTypeOK == /\ rfpc \in Core /\ current \in Core
             /\ \A h \in Hart, a \in Address : reg[h][a] \in Word
             /\ cmderr \subseteq 0 .. 2
             /\ writes \in 0 .. MaxWrites

Register(n) == reg[HartOf(current)][PlaceOf[n]]

\* Every value in an answer is that of the register which the target description
\* gives the number it is asked by, or the place it has in g, of the core the
\* client has selected, in the byte order of the target.
AnswersAsDescribed ==
  /\ reply.cmd = "p" => Decoded(reply.text) = Register(reply.n)
  /\ reply.cmd = "g" => /\ Len(reply.text) = Len(Description)
                        /\ \A n \in Number : Decoded(reply.text[n + 1]) = Register(n)

\* A register the client has just written holds what was written.
WriteReaches ==
  reply.cmd = "P" /\ reply.n # 0 => Register(reply.n) = Decoded(reply.text)

\* A write changes no register but the one named, and a1 if that is a CSR, of no
\* core but the one selected; reads and selections change none.
OnlyNamedChanges ==
  [][\A h \in Hart, a \in Address : reg'[h][a] # reg[h][a] =>
       /\ reply'.cmd = "P"
       /\ h = HartOf(current)
       /\ a = PlaceOf[reply'.n] \/ (a = A1 /\ reply'.n > 31)]_regvars
=============================================================================
