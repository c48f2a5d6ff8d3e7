---------------------------- MODULE ExpansionBar ----------------------------
(***************************************************************************)
(* The expansion BARs of physical PCIe BAR 2 (libs/expansion_bar.rs), as   *)
(* used by CppBus, XpbBus and MemAccess: allocation under advisory lock    *)
(* files, the two configuration registers of each expansion BAR with the   *)
(* copy of them an ExpansionBar keeps, accesses through the mapped window, *)
(* panics, Drop, and processes that are killed.                            *)
(*                                                                         *)
(* A Handle is one ExpansionBar value: fs2 locks belong to the open file,  *)
(* so two of them exclude each other in one process as in two.  A pair of  *)
(* register words stands for a whole CPP command (island, target, action,  *)
(* token, base address): BarConfig.tla models how the words are made.      *)
(*                                                                         *)
(* A definition with a suffix, as TakeBar_Unlocked, is a slip the code     *)
(* might have had: no specification uses it, and a property fails when it  *)
(* stands in for the definition it is named after.                         *)
(***************************************************************************)
EXTENDS Naturals, FiniteSets

CONSTANTS
  Handle,    \* the ExpansionBar values that may exist at the same time
  Named,     \* those built with an explicit (phys_bar, exp_bar)
  NumBars,   \* CPP_MAX_NUM_EXPANSION_BARS
  Cfg0,      \* the values of configuration register 0 users ask for
  Cfg1,      \* the values of configuration register 1 users ask for
  Free       \* no handle holds the lock

ASSUME HandleAssumption == IsFiniteSet(Handle) /\ Named \subseteq Handle /\ Free \notin Handle
ASSUME BarsAssumption == NumBars \in Nat \ {0}
\* Bit 31 of configuration register 0 is the enable bit, always set.
ASSUME EnableBitAssumption == 0 \notin Cfg0

Bar == 0 .. NumBars - 1
Config == [r0 : Cfg0, r1 : Cfg1]
Zero == [r0 |-> 0, r1 |-> 0]
RegValue == [r0 : Cfg0 \union {0}, r1 : Cfg1 \union {0}]

VARIABLES
  lock,      \* lock[b]: the handle whose open lock file holds the lock of bar b
  reg,       \* reg[b]: the configuration registers of bar b, in the device
  pc,        \* pc[h]: where the code that owns handle h is
  exp_bar,   \* exp_bar[h]: the bar being tried, then the bar held
  cached,    \* cached[h]: exp_bar_cached_cfg
  want,      \* want[h]: cfg0 and cfg1 of the access being made
  served,    \* served[h]: the configuration the device translated h's last access with
  unopened   \* unopened[h], history: the attempts on a lock file, h's and others',
             \* that failed for another reason than the lock while h has scanned

vars == <<lock, reg, pc, exp_bar, cached, want, served, unopened>>

PC == {"absent", "scan", "locked", "open", "cfg0", "cfg1", "access", "drop", "unmap"}

\* Configuration registers keep what earlier users left in them.
Init == /\ lock = [b \in Bar |-> Free]
        /\ reg \in [Bar -> RegValue]
        /\ pc = [h \in Handle |-> "absent"]
        /\ exp_bar = [h \in Handle |-> 0]
        /\ cached = [h \in Handle |-> Zero]
        /\ want = [h \in Handle |-> Zero]
        /\ served = [h \in Handle |-> Zero]
        /\ unopened = [h \in Handle |-> 0]

Goto(h, from, to) == pc[h] = from /\ pc' = [pc EXCEPT ![h] = to]

\* The values an ExpansionBar and the call in progress hold are gone.
Forget(h) == /\ want' = [want EXCEPT ![h] = Zero]
             /\ served' = [served EXCEPT ![h] = Zero]
             /\ cached' = [cached EXCEPT ![h] = Zero]

-----------------------------------------------------------------------------
(* ExpansionBar::new                                                       *)

\* bar_mapping is None: allocate_exp_bar tries the lock files in order.
Allocate(h) == /\ h \notin Named
               /\ Goto(h, "absent", "scan")
               /\ UNCHANGED <<lock, reg, exp_bar, cached, want, served, unopened>>

TakeBar_Unlocked(h) == /\ Goto(h, "scan", "locked")
                       /\ exp_bar[h] \in Bar
                       /\ lock' = [lock EXCEPT ![exp_bar[h]] = h]
                       /\ unopened' = [unopened EXCEPT ![h] = 0]
                       /\ UNCHANGED <<reg, exp_bar, cached, want, served>>

TakeBar(h) == /\ Goto(h, "scan", "locked")
              /\ exp_bar[h] \in Bar /\ lock[exp_bar[h]] = Free
              /\ lock' = [lock EXCEPT ![exp_bar[h]] = h]
              /\ unopened' = [unopened EXCEPT ![h] = 0]
              /\ UNCHANGED <<reg, exp_bar, cached, want, served>>

SkipBar_Unbounded(h) == /\ pc[h] = "scan"
                        /\ exp_bar[h] \in Bar => lock[exp_bar[h]] # Free
                        /\ exp_bar' = [exp_bar EXCEPT ![h] = @ + 1]
                        /\ UNCHANGED <<lock, reg, pc, cached, want, served, unopened>>

SkipBar(h) == /\ pc[h] = "scan"
              /\ exp_bar[h] \in Bar /\ lock[exp_bar[h]] # Free
              /\ exp_bar' = [exp_bar EXCEPT ![h] = @ + 1]
              /\ UNCHANGED <<lock, reg, pc, cached, want, served, unopened>>

\* File::create or the lock call fails for another reason, whoever holds the
\* bar: every handle that scans counts it, up to NumBars.
CreateFails(h) ==
  /\ pc[h] = "scan" /\ exp_bar[h] \in Bar
  /\ exp_bar' = [exp_bar EXCEPT ![h] = @ + 1]
  /\ unopened' = [g \in Handle |-> IF pc[g] = "scan" /\ unopened[g] < NumBars
                                   THEN unopened[g] + 1 ELSE unopened[g]]
  /\ UNCHANGED <<lock, reg, pc, cached, want, served>>

\* panic!("No expansion BARs available!")
NoBars(h) == /\ exp_bar[h] \notin Bar
             /\ Goto(h, "scan", "absent")
             /\ exp_bar' = [exp_bar EXCEPT ![h] = 0]
             /\ unopened' = [unopened EXCEPT ![h] = 0]
             /\ UNCHANGED <<lock, reg, cached, want, served>>

\* bar_mapping is Some: that lock or a panic, which changes nothing.
NewAt(h, b) == /\ h \in Named
               /\ lock[b] = Free
               /\ Goto(h, "absent", "locked")
               /\ lock' = [lock EXCEPT ![b] = h]
               /\ exp_bar' = [exp_bar EXCEPT ![h] = b]
               /\ UNCHANGED <<reg, cached, want, served, unopened>>

MapWindow(h) == /\ Goto(h, "locked", "open")
                /\ cached' = [cached EXCEPT ![h] = Zero]
                /\ UNCHANGED <<lock, reg, exp_bar, want, served, unopened>>

MapFails_StillLocked(h) == /\ Goto(h, "locked", "absent")
                           /\ exp_bar' = [exp_bar EXCEPT ![h] = 0]
                           /\ UNCHANGED <<lock, reg, cached, want, served, unopened>>

\* One of the expect calls panics: the lock file is closed, there is no Drop.
MapFails(h) == /\ Goto(h, "locked", "absent")
               /\ lock' = [lock EXCEPT ![exp_bar[h]] = Free]
               /\ exp_bar' = [exp_bar EXCEPT ![h] = 0]
               /\ UNCHANGED <<reg, cached, want, served, unopened>>

-----------------------------------------------------------------------------
(* expansion_bar_cfg, then read or write through the window                *)

Ask_ComparesFirst(h, c) ==
  /\ Goto(h, "open", IF c.r0 = cached[h].r0 THEN "access" ELSE "cfg0")
  /\ want' = [want EXCEPT ![h] = c]
  /\ served' = [served EXCEPT ![h] = Zero]
  /\ UNCHANGED <<lock, reg, exp_bar, cached, unopened>>

Ask(h, c) == /\ Goto(h, "open", IF c = cached[h] THEN "access" ELSE "cfg0")
             /\ want' = [want EXCEPT ![h] = c]
             /\ served' = [served EXCEPT ![h] = Zero]
             /\ UNCHANGED <<lock, reg, exp_bar, cached, unopened>>

WriteCfg0(h) == /\ Goto(h, "cfg0", "cfg1")
                /\ reg' = [reg EXCEPT ![exp_bar[h]].r0 = want[h].r0]
                /\ UNCHANGED <<lock, exp_bar, cached, want, served, unopened>>

WriteCfg1_CachesFirst(h) == /\ Goto(h, "cfg1", "access")
                            /\ reg' = [reg EXCEPT ![exp_bar[h]].r1 = want[h].r1]
                            /\ cached' = [cached EXCEPT ![h].r0 = want[h].r0]
                            /\ UNCHANGED <<lock, exp_bar, want, served, unopened>>

WriteCfg1_Unwritten(h) == /\ Goto(h, "cfg1", "access")
                          /\ cached' = [cached EXCEPT ![h] = want[h]]
                          /\ UNCHANGED <<lock, reg, exp_bar, want, served, unopened>>

WriteCfg1(h) == /\ Goto(h, "cfg1", "access")
                /\ reg' = [reg EXCEPT ![exp_bar[h]].r1 = want[h].r1]
                /\ cached' = [cached EXCEPT ![h] = want[h]]
                /\ UNCHANGED <<lock, exp_bar, want, served, unopened>>

Access(h) == /\ Goto(h, "access", "open")
             /\ served' = [served EXCEPT ![h] = reg[exp_bar[h]]]
             /\ UNCHANGED <<lock, reg, exp_bar, cached, want, unopened>>

-----------------------------------------------------------------------------
(* The end of a handle                                                     *)

\* The handle goes out of scope, or a panic unwinds through it: at "open" a
\* base address that is too long or would be truncated, at "cfg0" an I/O error
\* before the registers are written, at "access" a region past the window.
Abandon(h) == /\ pc[h] \in {"open", "cfg0", "access"}
              /\ pc' = [pc EXCEPT ![h] = "drop"]
              /\ Forget(h)
              /\ UNCHANGED <<lock, reg, exp_bar, unopened>>

\* Drop unlocks first and unmaps the window after that.
Unlock(h) == /\ Goto(h, "drop", "unmap")
             /\ lock' = [lock EXCEPT ![exp_bar[h]] = Free]
             /\ UNCHANGED <<reg, exp_bar, cached, want, served, unopened>>

Unmap(h) == /\ Goto(h, "unmap", "absent")
            /\ exp_bar' = [exp_bar EXCEPT ![h] = 0]
            /\ UNCHANGED <<lock, reg, cached, want, served, unopened>>

\* The process is killed: the kernel closes the lock file, so the lock goes,
\* and the registers stay as they are, half written or not.
Crash(h) == /\ pc[h] # "absent"
            /\ pc' = [pc EXCEPT ![h] = "absent"]
            /\ lock' = [b \in Bar |-> IF lock[b] = h THEN Free ELSE lock[b]]
            /\ exp_bar' = [exp_bar EXCEPT ![h] = 0]
            /\ unopened' = [unopened EXCEPT ![h] = 0]
            /\ Forget(h)
            /\ UNCHANGED reg

New(h) == \/ Allocate(h) \/ TakeBar(h) \/ SkipBar(h) \/ CreateFails(h) \/ NoBars(h)
          \/ \E b \in Bar : NewAt(h, b)
          \/ MapWindow(h) \/ MapFails(h)
Use(h) == (\E c \in Config : Ask(h, c)) \/ WriteCfg0(h) \/ WriteCfg1(h) \/ Access(h)
End(h) == Abandon(h) \/ Unlock(h) \/ Unmap(h) \/ Crash(h)

Next == \E h \in Handle : New(h) \/ Use(h) \/ End(h)

Spec == Init /\ [][Next]_vars

-----------------------------------------------------------------------------
(* Properties                                                              *)

Holding == {"locked", "open", "cfg0", "cfg1", "access", "drop"}
Holder(h) == pc[h] \in Holding

\* Every variable has its type.
TypeOK == /\ lock \in [Bar -> Handle \union {Free}]
          /\ reg \in [Bar -> RegValue]
          /\ pc \in [Handle -> PC]
          /\ exp_bar \in [Handle -> 0 .. NumBars]
          /\ cached \in [Handle -> Config \union {Zero}]
          /\ want \in [Handle -> Config \union {Zero}]
          /\ served \in [Handle -> RegValue]
          /\ unopened \in [Handle -> 0 .. NumBars]

\* The lock files and the handles agree: a handle between acquire_lock_file and
\* unlock has the lock of its bar, and a lock is held by a handle that uses that
\* bar.  So no two live handles share a bar, whatever panics or is killed.
LocksMatchHandles ==
  /\ \A h \in Handle : Holder(h) => exp_bar[h] \in Bar /\ lock[exp_bar[h]] = h
  /\ \A b \in Bar : lock[b] # Free => Holder(lock[b]) /\ exp_bar[lock[b]] = b

\* When an access goes through a window the device's registers hold the
\* configuration of that access: not one left by an earlier owner, not a half
\* written one, not that of another handle, although the write is skipped
\* whenever the cached copy equals the new configuration.
AccessUsesOwnConfig ==
  \A h \in Handle : pc[h] = "access" => reg[exp_bar[h]] = want[h]

\* The cached copy is zero or what the registers of the bar hold, except while
\* the registers are being rewritten.
CacheMatchesRegisters ==
  \A h \in Handle : pc[h] \in {"open", "cfg0", "access"} =>
                      cached[h] \in {Zero, reg[exp_bar[h]]}

\* The scan of the lock files is not atomic and a bar may be freed behind it.
\* Still, while every handle is allocated this way, allocate_exp_bar does not
\* panic with "No expansion BARs available!" unless there are more handles than
\* bars.  A lock file that cannot be created or locked for another reason, which
\* acquire_lock_file also answers with Err, costs at most the one bar: each such
\* failure, h's own or another's, while h scans is made good by a bar to spare.
NoFalseExhaustion ==
  Named = {} =>
     \A h \in Handle : Cardinality(Handle) + unopened[h] <= NumBars => exp_bar[h] \in Bar

\* Every user of ExpansionBar sees the behaviour of WindowPool.
PhaseOf(p) == IF p = "open" THEN "idle"
              ELSE IF p \in {"cfg0", "cfg1", "access"} THEN "asked" ELSE "out"
Phase == [h \in Handle |-> PhaseOf(pc[h])]
Pool == INSTANCE WindowPool
          WITH User <- Handle, Window <- Bar, Nothing <- Zero,
               owner <- lock, phase <- Phase, asked <- want, translated <- served
ImplementsPool == Pool!Spec
=============================================================================
