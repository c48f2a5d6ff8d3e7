----------------------------- MODULE ExplicitBar -----------------------------
(***************************************************************************)
(* Explicit commands (libs/explicit_bar.rs): explicit_bar_cfg, which       *)
(* checks and writes the four CSRs of an explicit BAR one by one, and      *)
(* run_explicit_cmd, which puts the pull data into PCIe SRAM, triggers the *)
(* command by a read of the window, and reads the push data there or in    *)
(* SRAM.  Users in several processes share the device.                     *)
(*                                                                         *)
(* An address is the set of the positions of its one bits; Fields stands   *)
(* for everything else in a command.  Definitions with a suffix, as        *)
(* csr_offset_First, are slips the code might have had.                    *)
(***************************************************************************)
EXTENDS Integers, FiniteSetsExt

CONSTANTS
  Users,
  Index,      \* expl_bar_index of each user
  Fields,     \* the parameters of explicit_bar_cfg except the address
  BadFields,  \* those with sig_type and a master or reference too
  Addresses,  \* 48-bit addresses
  LogSize,    \* log2 of the window of one explicit BAR
  Cropped     \* the address bits cfg3 has no room for, 16 in the code

ASSUME IndexAssumption == Index \in [Users -> 0 .. 3]
ASSUME FieldAssumption == BadFields \subseteq Fields
ASSUME AddressAssumption == Addresses \subseteq SUBSET (0 .. 47)
ASSUME SizeAssumption == LogSize \in Nat /\ Cropped \in Nat

VARIABLES
  pc,     \* where each user is
  asked,  \* the command each user asks for
  csr,    \* the CSRs of each explicit BAR
  sram,   \* the transfer memory of each explicit BAR
  ran,    \* the command the device ran for each user
  got     \* the push data each user gets back

vars == <<pc, asked, csr, sram, ran, got>>

NoData == <<"none", "none", {}>>
Nothing == [fields |-> "none", addr |-> {}, data |-> NoData]
NoCommand == [fields |-> "none", addr |-> {}, pull |-> "none", push |-> "none"]
Pull == {"none", "fits", "long"}
Push == {"none", "direct", "sram", "long"}
Command == [fields : Fields, addr : Addresses, pull : Pull, push : Push]
Zero == [words |-> <<"none", "none", "none">>, base |-> {}]

Init == /\ pc = [u \in Users |-> "idle"]
        /\ asked = [u \in Users |-> NoCommand]
        /\ ran = [u \in Users |-> Nothing] /\ got = [u \in Users |-> NoData]
        /\ csr = [i \in 0 .. 3 |-> Zero] /\ sram = [i \in 0 .. 3 |-> NoData]

Goto(u, from, to) == pc[u] = from /\ pc' = [pc EXCEPT ![u] = to]

-----------------------------------------------------------------------------
(* explicit_bar_cfg                                                        *)

csr_offset_First(u) == 0
csr_offset(u) == Index[u]
sram_data_offset_First(u) == 0
sram_data_offset(u) == Index[u]

\* split_addr48 with the window of the explicit BAR.
Base(addr) == {b \in addr : b >= LogSize}
Offset(addr) == {b \in addr : b < LogSize}

\* leading_zeros of the lowest one bit, less one and not below zero, is in 0..16.
Truncates(base) == base # {} /\ 63 - Min(base) - 1 < Cropped

Configure(u, c) ==
  LET bad == c.fields \in BadFields \/ Truncates(Base(c.addr)) IN
  /\ Goto(u, "idle", IF bad THEN "panicked" ELSE "csr1")
  /\ asked' = IF bad THEN asked ELSE [asked EXCEPT ![u] = c]
  /\ UNCHANGED <<csr, sram, ran, got>>

Shifted(base) == {b - Cropped : b \in {x \in base : x >= Cropped}}

\* cfg0, cfg1 and cfg2 hold the fields; cfg3 the base address without its low bits.
Write(u, n, from, to) ==
  /\ Goto(u, from, to)
  /\ csr' = [csr EXCEPT ![csr_offset(u)] =
       IF n < 4 THEN [words |-> [@.words EXCEPT ![n] = asked[u].fields], base |-> @.base]
       ELSE [words |-> @.words, base |-> Shifted(Base(asked[u].addr))]]
  /\ UNCHANGED <<asked, sram, ran, got>>
expl_bar_config_write(u) ==
  \/ Write(u, 1, "csr1", "csr2") \/ Write(u, 2, "csr2", "csr3") \/ Write(u, 3, "csr3", "csr4")
  \/ Write(u, 4, "csr4", IF asked[u].pull = "none" THEN "trigger" ELSE "pull")

-----------------------------------------------------------------------------
(* run_explicit_cmd                                                        *)

DataOf(u) == <<u, asked[u].fields, {}>>
write_data(u) == /\ asked[u].pull = "fits" /\ Goto(u, "pull", "trigger")
                 /\ sram' = [sram EXCEPT ![sram_data_offset(u)] = DataOf(u)]
                 /\ UNCHANGED <<asked, csr, ran, got>>
\* panic!("Length of data exceeds the SRAM size!")
TooLong(u) == /\ \/ asked[u].pull = "long" /\ Goto(u, "pull", "panicked")
                 \/ asked[u].push = "long" /\ Goto(u, "push", "panicked")
              /\ UNCHANGED <<asked, csr, sram, ran, got>>

\* What the device runs when it is read at a window's offset (external).
Uniform(words) == IF \A w \in {words[1], words[2], words[3]} : w = words[1] THEN words[1] ELSE "mixed"
Executed(i, offset, pulls) ==
  [fields |-> Uniform(csr[i].words),
   addr |-> {b + Cropped : b \in csr[i].base} \union offset,
   data |-> IF pulls THEN sram[i] ELSE NoData]
PushData(command) == <<"device", command.fields, command.addr>>

\* use_sram, and push_data_len given.
AfterTrigger_ReadsAlways(u) == IF asked[u].push = "direct" THEN "done" ELSE "push"
AfterTrigger(u) == IF asked[u].push \in {"sram", "long"} THEN "push" ELSE "done"

trigger(u) ==
  LET offset == Offset(asked[u].addr)
      command == Executed(Index[u], offset, asked[u].pull # "none")
      direct == asked[u].push = "direct" IN
  /\ Goto(u, "trigger", AfterTrigger(u))
  /\ ran' = [ran EXCEPT ![u] = command]
  /\ got' = [got EXCEPT ![u] = IF direct THEN PushData(command) ELSE NoData]
  /\ sram' = IF asked[u].push \in {"sram", "long"}
             THEN [sram EXCEPT ![Index[u]] = PushData(command)] ELSE sram
  /\ UNCHANGED <<asked, csr>>

read_data(u) == /\ asked[u].push = "sram" /\ Goto(u, "push", "done")
                /\ got' = [got EXCEPT ![u] = sram[sram_data_offset(u)]]
                /\ UNCHANGED <<asked, csr, sram, ran>>

Return(u) == /\ Goto(u, "done", "idle")
             /\ asked' = [asked EXCEPT ![u] = NoCommand]
             /\ ran' = [ran EXCEPT ![u] = Nothing] /\ got' = [got EXCEPT ![u] = NoData]
             /\ UNCHANGED <<csr, sram>>

User(u) == \/ \E c \in Command : Configure(u, c)
           \/ expl_bar_config_write(u) \/ write_data(u) \/ TooLong(u)
           \/ trigger(u) \/ read_data(u) \/ Return(u)

Next == \E u \in Users : User(u)

Spec == Init /\ [][Next]_vars

-----------------------------------------------------------------------------
(* Properties                                                              *)

AskedOf(u) == [fields |-> asked[u].fields, addr |-> asked[u].addr,
               data |-> IF asked[u].pull = "none" THEN NoData ELSE DataOf(u)]

\* Every variable has its type; data is only pulled and pushed by commands that do.
TypeOK ==
  /\ pc \in [Users -> {"idle", "csr1", "csr2", "csr3", "csr4", "pull", "trigger", "push",
                       "done", "panicked"}]
  /\ \A u \in Users :
       /\ pc[u] \notin {"idle", "panicked"} => asked[u] \in Command
       /\ pc[u] = "pull" => asked[u].pull # "none"
       /\ pc[u] = "push" => asked[u].push \in {"sram", "long"}
  /\ \A i \in 0 .. 3 : csr[i].base \subseteq 0 .. 31

\* The device runs each user's own command on the user's own data, although the
\* registers are written one by one while other users write theirs.
OwnCommands == \A u \in Users : pc[u] \in {"push", "done"} => ran[u] = AskedOf(u)

\* A user gets the push data of the command it ran.
OwnData == \A u \in Users :
  pc[u] = "done" /\ asked[u].push # "none" => got[u] = PushData(AskedOf(u))

\* A command goes to the address it was asked for, or is refused.
AddressKept == \A u \in Users : pc[u] \in {"push", "done"} => ran[u].addr = asked[u].addr
=============================================================================
