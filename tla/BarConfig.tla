----------------------------- MODULE BarConfig ------------------------------
(***************************************************************************)
(* What the two configuration words of an expansion BAR say                *)
(* (ExpansionBar::expansion_bar_cfg, libs/expansion_bar.rs), and how       *)
(* XpbBus, MemAccess, CppBus and ExplicitBar::new make them: the CPP       *)
(* command of a call is split over the words, in places that depend on the *)
(* map type, and over the offset in the window.  ExpansionBar.tla takes    *)
(* over from here, with a pair of words as one opaque value.               *)
(*                                                                         *)
(* A word, an address or a field is the set of the positions of its bits,  *)
(* so that 48-bit addresses stay within reach: OR is \union, AND with a    *)
(* mask is \intersect, a shift moves positions.  Definitions with a suffix, *)
(* as Refused_OffByOne, are slips the code might have had.                 *)
(***************************************************************************)
EXTENDS Integers

CONSTANTS
  Sizes,      \* the possible values of log2 of exp_bar_size
  Islands,    \* the islands called, by id
  CppAddrs,   \* the addresses of the memory and plain CPP accesses
  XpbAddrs,   \* the addresses of the XPB accesses
  DebugBuild  \* built by plain `cargo build': integer overflow panics

\* Addresses are u64; an island id fills its seven bits of a configuration word.
ASSUME SizesAssumption == Sizes \subseteq Nat
ASSUME IslandsAssumption == Islands \subseteq 0 .. 127
ASSUME AddressAssumption == CppAddrs \subseteq SUBSET (0 .. 63)
ASSUME DebugBuildAssumption == DebugBuild \in BOOLEAN

VARIABLES
  log2_bar_size,  \* of the device: an eighth of physical BAR 2
  exp_bar_map,    \* MapType of the handle
  cached,         \* exp_bar_cached_cfg
  reg,            \* the registers of the bar, in the device
  request,        \* the CPP command of the last call
  offset,         \* where in the window it is accessed
  outcome         \* of the last call: "none", "ok" or "panic"

vars == <<log2_bar_size, exp_bar_map, cached, reg, request, offset, outcome>>

Map == [Fixed |-> {}, Bulk |-> {0}, Target |-> {1}, General |-> {0, 1}, Explicit |-> {2}]
MapType == DOMAIN Map

\* The bits of an id, an action or a token, all of them u8.
Bits(n) == {b \in 0 .. 7 : (n \div 2^b) % 2 = 1}

\* ((x >> from) & (2^width - 1)) << to
Move(x, from, width, to) == {b - from + to : b \in x \intersect (from .. from + width - 1)}

Zero == [r0 |-> {}, r1 |-> {}]
ChipExec == 1
Mem == 7
Ct == 14
Cls == 15

Command(island, target, action, token, len, address) ==
  [island |-> Bits(island), target |-> Bits(target), action |-> Bits(action),
   token |-> Bits(token), len |-> Bits(len), address |-> address]

NoRequest == Command(0, 0, 0, 0, 0, {})

\* MuMemoryEngine: the actions of reads and writes (their tokens are all 0) and
\* the id of the CPP length.  A CLS takes the same pair for every engine.
read_command == [Atomic32 |-> 34, Bulk32 |-> 28, Bulk64 |-> 0, Cls |-> 0]
write_command == [Atomic32 |-> 4, Bulk32 |-> 31, Bulk64 |-> 1, Cls |-> 1]
cpp_length == [Atomic32 |-> 0, Bulk32 |-> 0, Bulk64 |-> 1, Cls |-> 0]
Engine == DOMAIN cpp_length

MemRequest(island, engine, action, address) ==
  Command(island, IF engine = "Cls" THEN Cls ELSE Mem,
          action, 0, cpp_length[engine], address)

\* xpb_read and xpb_write: the action is 0 for both.
XpbRequest(island, address, xpbm) ==
  Command(IF xpbm THEN ChipExec ELSE island, Ct, 0, 0, 0,
          (address \intersect 0 .. 23) \union Move(Bits(island), 0, 7, 24)
            \union (IF xpbm THEN {31} ELSE {}))

-----------------------------------------------------------------------------
(* expansion_bar_cfg                                                       *)

base_addr_width_Bulk40 == [Fixed |-> 32, Bulk |-> 40, Target |-> 40, General |-> 44]

base_addr_width == [Fixed |-> 32, Bulk |-> 38, Target |-> 40, General |-> 44]

Refused_OffByOne(map, base) ==
  /\ map # "Explicit"
  /\ \/ \E b \in base : b >= 48
     \/ base = {} /\ DebugBuild
     \/ \E b \in base : b <= 48 - base_addr_width[map]

\* The panics.  bit_length - 1 underflows for base address 0: that is a panic in
\* a debug build; in a release build it wraps to a value outside the range.
Refused(map, base) ==
  /\ map # "Explicit"
  /\ \/ \E b \in base : b >= 48
     \/ base = {} /\ DebugBuild
     \/ \E b \in base : b < 48 - base_addr_width[map]

\* The top bits of the base address go into the fields of register 0 that the
\* map type does not need; addr_idx counts down from 48.
Word0(map, c, base) ==
  {31} \union Move(Map[map], 0, 3, 20)
    \union (IF map = "Explicit" THEN {}
            ELSE Move(c.len, 0, 2, 16) \union Move(c.island, 0, 7, 24)
                   \union (IF map = "General" THEN Move(base, 44, 4, 12)
                           ELSE Move(c.target, 0, 4, 12))
                   \union CASE map = "Fixed" -> Move(c.token, 0, 2, 8) \union Move(c.action, 0, 6, 0)
                            [] map = "Bulk" -> Move(c.token, 0, 2, 8) \union Move(base, 42, 6, 0)
                            [] map = "Target" -> Move(base, 46, 2, 8) \union Move(base, 40, 6, 0)
                            [] map = "General" -> Move(base, 42, 2, 8) \union Move(base, 36, 6, 0))

Word1_Untruncated(map, base) == IF map = "Explicit" THEN {}
                                ELSE Move(base, 48 - base_addr_width[map], 48, 0)

Word1(map, base) == IF map = "Explicit" THEN {}
                    ELSE Move(base, 48 - base_addr_width[map], 32, 0)

Words(map, c, base) == [r0 |-> Word0(map, c, base), r1 |-> Word1(map, base)]

\* A panic unwinds through the handle; the next call needs a new one.
Configure(map, c, base) ==
  /\ outcome # "panic"
  /\ exp_bar_map' = map
  /\ request' = c
  /\ offset' = c.address \ base
  /\ IF Refused(map, base)
     THEN outcome' = "panic" /\ UNCHANGED <<cached, reg>>
     ELSE /\ outcome' = "ok"
          /\ cached' = Words(map, c, base)
          /\ reg' = IF cached = cached' THEN reg ELSE cached'
  /\ UNCHANGED log2_bar_size

\* CppBus::configure_exp_bar: the bits of the address above the window.
Base(address) == address \intersect (log2_bar_size .. 47)

-----------------------------------------------------------------------------
(* The callers                                                             *)

SramBase == {13, 14, 15, 18}
\* The bars of an ExplicitBar are private to it and configured once.
Usable == exp_bar_map # "Explicit" /\ request.address # SramBase

\* ExpansionBar::new on a bar whose registers an earlier owner has written.
New == /\ exp_bar_map' = "Fixed"
       /\ cached' = Zero
       /\ request' = NoRequest
       /\ offset' = {}
       /\ outcome' = "none"
       /\ UNCHANGED <<log2_bar_size, reg>>

XpbAccess(island, address, xpbm) ==
  LET c == XpbRequest(island, address, xpbm)
  IN  Usable /\ Configure("Bulk", c, Base(c.address))

\* mem_read and mem_write.
MemAccess(island, engine, address) ==
  /\ Usable
  /\ \E action \in {read_command[engine], write_command[engine]} :
        Configure("Fixed", MemRequest(island, engine, action, address), Base(address))

\* CppBus used directly, by a caller that sets the public field exp_bar_map.
CppAccess(map, island, address) ==
  LET c == Command(island, Mem, 42, 2, 3, address)
  IN  Usable /\ Configure(map, c, Base(address))

\* ExplicitBar::new: no field of the trigger bar but the map type matters, and
\* the data bar is put over the SRAM of the PCIe block, at 0x4E000.
TriggerBar == outcome = "none" /\ Configure("Explicit", NoRequest, {})
DataBar == outcome = "none" /\ Configure("General", [NoRequest EXCEPT !.address = SramBase], SramBase)

Init == /\ log2_bar_size \in Sizes
        /\ exp_bar_map = "Fixed"
        /\ cached = Zero
        /\ reg = Zero
        /\ request = NoRequest
        /\ offset = {}
        /\ outcome = "none"

Next == \/ New
        \/ \E i \in Islands, a \in XpbAddrs, g \in BOOLEAN : XpbAccess(i, a, g)
        \/ \E i \in Islands, e \in Engine, a \in CppAddrs : MemAccess(i, e, a)
        \/ \E m \in MapType \ {"Explicit"}, i \in Islands, a \in CppAddrs : CppAccess(m, i, a)
        \/ TriggerBar
        \/ DataBar

Spec == Init /\ [][Next]_vars

-----------------------------------------------------------------------------
(* Properties                                                              *)

\* Every variable has its type; the words fit in 32 bits.
TypeOK == /\ log2_bar_size \in Sizes
          /\ exp_bar_map \in MapType
          /\ \A w \in {cached, reg} : w.r0 \union w.r1 \subseteq 0 .. 31
          /\ offset \subseteq request.address
          /\ outcome \in {"none", "ok", "panic"}

\* The device takes the fields of the words apart at fixed places: the map type
\* says whether target, token and action come from register 0 or whether these
\* bits extend the base address, and the offset in the window is added.
Decoded ==
  LET map == CHOOSE m \in MapType : Map[m] = Move(reg.r0, 20, 3, 0)
      low == 48 - base_addr_width[map]
  IN  [island |-> Move(reg.r0, 24, 7, 0), len |-> Move(reg.r0, 16, 2, 0),
       target |-> IF map = "General" THEN {} ELSE Move(reg.r0, 12, 4, 0),
       token |-> IF map \in {"Fixed", "Bulk"} THEN Move(reg.r0, 8, 2, 0) ELSE {},
       action |-> IF map = "Fixed" THEN Move(reg.r0, 0, 6, 0) ELSE {},
       address |-> Move(reg.r1, 0, 32, low) \union offset
                     \union (IF map # "Fixed" THEN Move(reg.r0, 0, 6, low + 32) ELSE {})
                     \union (IF map \in {"Target", "General"} THEN Move(reg.r0, 8, 2, low + 38) ELSE {})
                     \union (IF map = "General" THEN Move(reg.r0, 12, 4, low + 40) ELSE {})]

\* The part of a command that a map type carries: the other fields are left to
\* the device.
Carried(map, c) ==
  [c EXCEPT !.target = IF map = "General" THEN {} ELSE @,
            !.token = IF map \in {"Fixed", "Bulk"} THEN @ ELSE {},
            !.action = IF map = "Fixed" THEN @ ELSE {}]

\* Whatever sequence of XPB, memory and SRAM accesses a handle has made, and
\* whatever the size of the window and the words left in the device, the command
\* the device makes of the registers and the offset is the one that was asked
\* for: no field overlaps another, no bit of the address is lost or moved, and
\* the write is skipped only when the registers hold the same command.
DeviceDecodesRequest ==
  outcome = "ok" /\ exp_bar_map # "Explicit" =>
    Decoded = Carried(exp_bar_map, request)

\* A bar whose window is at least 64 KiB serves every 48-bit address: the base
\* address is never refused.  (The callers have no way to handle the panic.)
EveryAddressServed ==
  log2_bar_size >= 16 /\ request.address \subseteq 0 .. 47 => outcome # "panic"
=============================================================================
