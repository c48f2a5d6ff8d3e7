------------------------- MODULE ExpansionBarProofs -------------------------
(***************************************************************************)
(* Proofs about ExpansionBar for any number of handles and bars and any    *)
(* configurations: the invariants, and that it implements WindowPool.      *)
(***************************************************************************)
EXTENDS ExpansionBar, FiniteSetTheorems, TLAPS

\* A handle whose first register is written, or whose access is being made,
\* works on a configuration some user asked for.
HalfWritten ==
  \A h \in Handle :
    /\ pc[h] \in {"cfg0", "cfg1", "access"} => want[h] \in Config
    /\ pc[h] = "cfg1" => reg[exp_bar[h]].r0 = want[h].r0

\* A handle that is not open remembers nothing of its accesses, and keeps its
\* bar until it is unmapped.
Forgotten ==
  \A h \in Handle :
    /\ PhaseOf(pc[h]) = "out" => want[h] = Zero /\ served[h] = Zero
    /\ pc[h] = "absent" => exp_bar[h] = 0
    /\ pc[h] = "unmap" => exp_bar[h] \in Bar

IInv == /\ TypeOK /\ LocksMatchHandles /\ AccessUsesOwnConfig
        /\ CacheMatchesRegisters /\ HalfWritten /\ Forgotten

USE HandleAssumption, BarsAssumption, EnableBitAssumption

\* The registers and configurations have the shapes the updates rely on.
LEMMA RegShape ==
  /\ \A c \in Config : c \in RegValue /\ c # Zero
  /\ Zero \in RegValue
  /\ \A r \in RegValue, v \in Cfg0 : [r EXCEPT !.r0 = v] \in RegValue
                                     /\ [r EXCEPT !.r0 = v].r0 = v
  /\ \A r \in RegValue, c \in Config :
        [r EXCEPT !.r1 = c.r1] \in RegValue
        /\ (r.r0 = c.r0 => [r EXCEPT !.r1 = c.r1] = c)
  BY DEF Config, RegValue, Zero

LEMMA InitIInv == Init => IInv
<1> SUFFICES ASSUME Init PROVE IInv
  OBVIOUS
<1>1. TypeOK
  BY RegShape DEF Init, TypeOK, PC, Bar
<1>2. LocksMatchHandles /\ AccessUsesOwnConfig /\ CacheMatchesRegisters
  BY DEF Init, LocksMatchHandles, Holder, Holding, AccessUsesOwnConfig, CacheMatchesRegisters
<1>3. HalfWritten /\ Forgotten
  BY DEF Init, HalfWritten, Forgotten
<1> QED
  BY <1>1, <1>2, <1>3 DEF IInv

\* The steps of ExpansionBar::new keep the invariant.
LEMMA NewStep == ASSUME IInv, NEW h \in Handle, New(h) PROVE IInv'
<1> USE DEF IInv, TypeOK, LocksMatchHandles, AccessUsesOwnConfig, CacheMatchesRegisters,
            HalfWritten, Forgotten, Holder, Holding, PhaseOf, PC, Bar, Goto
<1>1. CASE Allocate(h)
  BY <1>1 DEF Allocate
<1>2. CASE TakeBar(h)
  BY <1>2 DEF TakeBar
<1>3. CASE SkipBar(h)
  BY <1>3 DEF SkipBar
<1>4. CASE NoBars(h)
  BY <1>4 DEF NoBars
<1>5. ASSUME NEW b \in Bar, NewAt(h, b) PROVE IInv'
  BY <1>5 DEF NewAt
<1>6. CASE MapWindow(h)
  BY <1>6 DEF MapWindow
<1>7. CASE MapFails(h)
  BY <1>7 DEF MapFails
<1>8. CASE CreateFails(h)
  BY <1>8 DEF CreateFails
<1> QED
  BY <1>1, <1>2, <1>3, <1>4, <1>5, <1>6, <1>7, <1>8 DEF New

\* So do the steps of expansion_bar_cfg, read and write.
LEMMA UseStep == ASSUME IInv, NEW h \in Handle, Use(h) PROVE IInv'
<1> USE RegShape DEF IInv, TypeOK, LocksMatchHandles, AccessUsesOwnConfig,
      CacheMatchesRegisters, HalfWritten, Forgotten, Holder, Holding, PhaseOf, PC, Goto
<1>1. ASSUME NEW c \in Config, Ask(h, c) PROVE IInv'
  BY <1>1 DEF Ask
<1>2. CASE WriteCfg0(h)
  <2> DEFINE b == exp_bar[h]
             r == [reg[b] EXCEPT !.r0 = want[h].r0]
  <2>1. b \in Bar /\ want[h] \in Config /\ want[h].r0 \in Cfg0 /\ reg[b] \in RegValue
    BY <1>2 DEF WriteCfg0, Config
  <2>2. r \in RegValue /\ r.r0 = want[h].r0
    BY <2>1
  <2>3. reg' = [reg EXCEPT ![b] = r]
    BY <1>2, <2>1 DEF WriteCfg0
  <2>4. TypeOK' /\ LocksMatchHandles' /\ Forgotten'
    BY <1>2, <2>2, <2>3 DEF WriteCfg0
  <2>5. \A g \in Handle : g # h /\ Holder(g) => reg'[exp_bar[g]] = reg[exp_bar[g]]
    BY <2>1, <2>3, <1>2 DEF WriteCfg0
  <2>6. AccessUsesOwnConfig' /\ CacheMatchesRegisters'
    BY <1>2, <2>5 DEF WriteCfg0
  <2>7. HalfWritten'
    BY <1>2, <2>1, <2>2, <2>3, <2>5 DEF WriteCfg0
  <2> QED
    BY <2>4, <2>6, <2>7
<1>3. CASE WriteCfg1(h)
  BY <1>3 DEF WriteCfg1
<1>4. CASE Access(h)
  BY <1>4 DEF Access
<1> QED
  BY <1>1, <1>2, <1>3, <1>4 DEF Use

\* And the ways a handle ends.
LEMMA EndStep == ASSUME IInv, NEW h \in Handle, End(h) PROVE IInv'
<1> USE RegShape DEF IInv, TypeOK, LocksMatchHandles, AccessUsesOwnConfig,
      CacheMatchesRegisters, HalfWritten, Forgotten, Holder, Holding, PhaseOf, PC, Goto,
      Forget, Bar
<1>1. CASE Abandon(h)
  BY <1>1 DEF Abandon
<1>2. CASE Unlock(h)
  BY <1>2 DEF Unlock
<1>3. CASE Unmap(h)
  BY <1>3 DEF Unmap
<1>4. CASE Crash(h)
  BY <1>4 DEF Crash
<1> QED
  BY <1>1, <1>2, <1>3, <1>4 DEF End

LEMMA StepIInv == IInv /\ [Next]_vars => IInv'
<1> SUFFICES ASSUME IInv, [Next]_vars PROVE IInv'
  OBVIOUS
<1>1. CASE UNCHANGED vars
  BY <1>1 DEF vars, IInv, TypeOK, LocksMatchHandles, AccessUsesOwnConfig,
     CacheMatchesRegisters, HalfWritten, Forgotten, Holder
<1>2. ASSUME NEW h \in Handle, New(h) \/ Use(h) \/ End(h) PROVE IInv'
  BY <1>2, NewStep, UseStep, EndStep
<1> QED
  BY <1>1, <1>2 DEF Next

LEMMA IInvHolds == Spec => []IInv
  BY InitIInv, StepIInv, PTL DEF Spec

\* TypeOK holds for every number of handles and bars.
THEOREM TypeCorrect == Spec => []TypeOK
<1>1. IInv => TypeOK
  BY DEF IInv
<1> QED
  BY <1>1, IInvHolds, PTL

\* A lock is held exactly by the handle that uses its bar, so that two live
\* handles never share a bar.
THEOREM BarsAreExclusive == Spec => []LocksMatchHandles
<1>1. IInv => LocksMatchHandles
  BY DEF IInv
<1> QED
  BY <1>1, IInvHolds, PTL

\* The device translates every access with the configuration of that access.
THEOREM AccessesAreTranslatedRight == Spec => []AccessUsesOwnConfig
<1>1. IInv => AccessUsesOwnConfig
  BY DEF IInv
<1> QED
  BY <1>1, IInvHolds, PTL

\* The cached copy never claims a configuration the registers do not hold.
THEOREM CacheIsTrue == Spec => []CacheMatchesRegisters
<1>1. IInv => CacheMatchesRegisters
  BY DEF IInv
<1> QED
  BY <1>1, IInvHolds, PTL

-----------------------------------------------------------------------------
(* No false exhaustion.  A handle climbs from bar k to bar k + 1 past the  *)
(* holder of bar k, which stays below, or past a lock file that failed: so *)
(* for a handle that scans, each bar below it has one more handle out of   *)
(* its way or one more failure on its count, and past the last bar there   *)
(* would be more handles and failures than bars.                           *)

\* The handles but h at or above bar k, when e gives the bar each is at.
Others(e, h, k) == {g \in Handle \ {h} : e[g] >= k}

\* u failures allow h to be at bar b.
Thinned(e, h, b, u) ==
  \A k \in 0 .. b : Cardinality(Others(e, h, k)) + k + 1 <= Cardinality(Handle) + u

ThinningInv ==
  Named = {} => \A h \in Handle : pc[h] = "scan" => Thinned(exp_bar, h, exp_bar[h], unopened[h])

LEMMA OthersFinite ==
  ASSUME NEW e, NEW h, NEW k
  PROVE  IsFiniteSet(Others(e, h, k)) /\ Cardinality(Others(e, h, k)) \in Nat
<1>1. Others(e, h, k) \subseteq Handle
  BY DEF Others
<1> QED
  BY <1>1, FS_Subset, FS_CardinalityType

LEMMA HandlesCounted == IsFiniteSet(Handle) /\ Cardinality(Handle) \in Nat
  BY FS_CardinalityType

\* A handle that starts its scan has every other one possibly above it.
LEMMA ScanStarts ==
  ASSUME NEW e \in [Handle -> Nat], NEW h \in Handle, NEW u \in Nat
  PROVE  Thinned(e, h, 0, u)
<1>1. Cardinality(Handle \ {h}) = Cardinality(Handle) - 1 /\ IsFiniteSet(Handle \ {h})
  BY FS_RemoveElement
<1>2. Others(e, h, 0) \subseteq Handle \ {h}
  BY DEF Others
<1>3. Cardinality(Others(e, h, 0)) <= Cardinality(Handle \ {h})
  BY <1>1, <1>2, FS_Subset
<1>4. \A k \in 0 .. 0 : k = 0
  OBVIOUS
<1> QED
  BY <1>1, <1>3, <1>4, OthersFinite, HandlesCounted DEF Thinned

\* Other handles that stay where they are or go down keep the bound.
LEMMA DescentThins ==
  ASSUME NEW e \in [Handle -> Nat], NEW f \in [Handle -> Nat], NEW h \in Handle,
         NEW b \in Nat, NEW u \in Nat, Thinned(e, h, b, u),
         \A g \in Handle \ {h} : f[g] <= e[g]
  PROVE  Thinned(f, h, b, u)
<1> SUFFICES ASSUME NEW k \in 0 .. b
             PROVE  Cardinality(Others(f, h, k)) + k + 1 <= Cardinality(Handle) + u
  BY DEF Thinned
<1>1. Others(f, h, k) \subseteq Others(e, h, k)
  BY DEF Others
<1>2. Cardinality(Others(f, h, k)) <= Cardinality(Others(e, h, k))
  BY <1>1, FS_Subset, OthersFinite
<1> QED
  BY <1>2, HandlesCounted, OthersFinite DEF Thinned

\* Whoever climbs, h or another, past the holder of its bar keeps it too.
LEMMA ClimbThins ==
  ASSUME NEW e \in [Handle -> Nat], NEW h \in Handle, NEW u \in Nat,
         Thinned(e, h, e[h], u),
         NEW c \in Handle, NEW g \in Handle, g # c, g # h, e[g] = e[c]
  PROVE  LET f == [e EXCEPT ![c] = @ + 1] IN Thinned(f, h, f[h], u)
<1> DEFINE f == [e EXCEPT ![c] = @ + 1]
<1> SUFFICES ASSUME NEW k \in 0 .. f[h]
             PROVE  Cardinality(Others(f, h, k)) + k + 1 <= Cardinality(Handle) + u
  BY DEF Thinned
<1>1. CASE k # e[c] + 1
  <2>1. Others(f, h, k) = Others(e, h, k) /\ k \in 0 .. e[h]
    BY <1>1 DEF Others
  <2> QED
    BY <2>1 DEF Thinned
<1>2. CASE k = e[c] + 1
  <2> DEFINE above == Others(e, h, e[c])
  <2>1. Others(f, h, k) \subseteq above \ {g} /\ g \in above /\ e[c] \in 0 .. e[h]
    BY <1>2 DEF Others
  <2>2. IsFiniteSet(above) /\ Cardinality(above) \in Nat
    BY OthersFinite
  <2>3. IsFiniteSet(above \ {g}) /\ Cardinality(above \ {g}) = Cardinality(above) - 1
    BY <2>1, <2>2, FS_RemoveElement
  <2>4. Cardinality(Others(f, h, k)) <= Cardinality(above \ {g})
    BY <2>1, <2>3, FS_Subset
  <2>5. Cardinality(above) + e[c] + 1 <= Cardinality(Handle) + u
    BY <2>1 DEF Thinned
  <2>6. Cardinality(Others(f, h, k)) \in Nat
    BY OthersFinite
  <2> HIDE DEF above, f
  <2> QED
    BY HandlesCounted, <1>2, <2>2, <2>3, <2>4, <2>5, <2>6
<1> QED
  BY <1>1, <1>2

\* A lock file that fails lets one handle climb, and is one more failure.
LEMMA FailureThins ==
  ASSUME NEW e \in [Handle -> Nat], NEW h \in Handle, NEW u \in Nat,
         Thinned(e, h, e[h], u), NEW c \in Handle
  PROVE  LET f == [e EXCEPT ![c] = @ + 1] IN Thinned(f, h, f[h], u + 1)
<1> DEFINE f == [e EXCEPT ![c] = @ + 1]
<1> SUFFICES ASSUME NEW k \in 0 .. f[h]
             PROVE  Cardinality(Others(f, h, k)) + k + 1 <= Cardinality(Handle) + (u + 1)
  BY DEF Thinned
<1>1. CASE k = 0
  <2>1. Others(f, h, k) = Others(e, h, k) /\ k \in 0 .. e[h]
    BY <1>1 DEF Others
  <2> QED
    BY <2>1, OthersFinite, HandlesCounted DEF Thinned
<1>2. CASE k # 0
  <2>1. Others(f, h, k) \subseteq Others(e, h, k - 1) /\ k - 1 \in 0 .. e[h]
    BY <1>2 DEF Others
  <2>2. Cardinality(Others(f, h, k)) <= Cardinality(Others(e, h, k - 1))
    BY <2>1, OthersFinite, FS_Subset
  <2>3. Cardinality(Others(e, h, k - 1)) + (k - 1) + 1 <= Cardinality(Handle) + u
    BY <2>1 DEF Thinned
  <2> HIDE DEF f
  <2> QED
    BY <1>2, <2>2, <2>3, OthersFinite, HandlesCounted
<1> QED
  BY <1>1, <1>2

\* NumBars failures or more allow anything.
LEMMA SaturationThins ==
  ASSUME NEW e \in [Handle -> Nat], NEW h \in Handle, NEW b \in 0 .. NumBars
  PROVE  Thinned(e, h, b, NumBars)
<1> SUFFICES ASSUME NEW k \in 0 .. b
             PROVE  Cardinality(Others(e, h, k)) + k + 1 <= Cardinality(Handle) + NumBars
  BY DEF Thinned
<1>1. Cardinality(Handle \ {h}) = Cardinality(Handle) - 1 /\ IsFiniteSet(Handle \ {h})
  BY FS_RemoveElement
<1>2. Others(e, h, k) \subseteq Handle \ {h}
  BY DEF Others
<1>3. Cardinality(Others(e, h, k)) <= Cardinality(Handle \ {h})
  BY <1>1, <1>2, FS_Subset
<1> QED
  BY <1>1, <1>3, OthersFinite, HandlesCounted

LEMMA ThinningInit == Init => ThinningInv
  BY DEF Init, ThinningInv

LEMMA ThinningStep == IInv /\ ThinningInv /\ [Next]_vars => ThinningInv'
<1> SUFFICES ASSUME IInv, IInv', ThinningInv, [Next]_vars, Named = {},
                    NEW h \in Handle, pc'[h] = "scan"
             PROVE  Thinned(exp_bar', h, exp_bar'[h], unopened'[h])
  BY StepIInv DEF ThinningInv, Thinned, Others
<1>1. /\ exp_bar \in [Handle -> Nat] /\ exp_bar' \in [Handle -> Nat]
      /\ exp_bar'[h] \in 0 .. NumBars
      /\ unopened[h] \in Nat /\ unopened'[h] \in Nat
  BY DEF IInv, TypeOK
<1>2. ASSUME pc[h] = "scan", exp_bar'[h] = exp_bar[h], unopened'[h] = unopened[h],
             \A g \in Handle \ {h} : exp_bar'[g] <= exp_bar[g]
      PROVE  Thinned(exp_bar', h, exp_bar'[h], unopened'[h])
  BY <1>1, <1>2, DescentThins DEF ThinningInv
<1>3. CASE UNCHANGED vars
  BY <1>1, <1>2, <1>3 DEF vars
<1>4. ASSUME NEW c \in Handle, SkipBar(c) PROVE Thinned(exp_bar', h, exp_bar'[h], unopened'[h])
  <2> DEFINE g == lock[exp_bar[c]]
  <2>1. exp_bar[c] \in Bar /\ pc[c] = "scan" /\ g # Free /\ pc[h] = "scan"
    BY <1>4 DEF SkipBar
  <2>2. g \in Handle /\ Holder(g) /\ exp_bar[g] = exp_bar[c]
    BY <2>1 DEF IInv, TypeOK, LocksMatchHandles
  <2>3. g # c /\ g # h
    BY <2>1, <2>2 DEF Holder, Holding
  <2>4. Thinned(exp_bar, h, exp_bar[h], unopened[h])
    BY <2>1 DEF ThinningInv
  <2>5. exp_bar' = [exp_bar EXCEPT ![c] = @ + 1] /\ unopened' = unopened
    BY <1>4 DEF SkipBar
  <2> HIDE DEF g
  <2> QED
    BY <1>1, <2>2, <2>3, <2>4, <2>5, ClimbThins
<1>5. ASSUME NEW c \in Handle, CreateFails(c) PROVE Thinned(exp_bar', h, exp_bar'[h], unopened'[h])
  <2>1. pc[h] = "scan" /\ exp_bar' = [exp_bar EXCEPT ![c] = @ + 1]
    BY <1>5 DEF CreateFails
  <2>2. Thinned(exp_bar, h, exp_bar[h], unopened[h])
    BY <2>1 DEF ThinningInv
  <2>3. CASE unopened[h] < NumBars
    <3>1. unopened'[h] = unopened[h] + 1
      BY <1>5, <2>1, <2>3 DEF CreateFails
    <3>2. Thinned([exp_bar EXCEPT ![c] = @ + 1], h, [exp_bar EXCEPT ![c] = @ + 1][h],
                  unopened[h] + 1)
      BY <1>1, <2>2, FailureThins
    <3> QED
      BY <2>1, <3>1, <3>2
  <2>4. CASE unopened[h] = NumBars
    <3>1. unopened'[h] = NumBars
      BY <1>5, <2>1, <2>4 DEF CreateFails
    <3> QED
      BY <1>1, <3>1, SaturationThins
  <2>5. unopened[h] \in 0 .. NumBars
    BY DEF IInv, TypeOK
  <2> QED
    BY <2>3, <2>4, <2>5
<1>6. ASSUME NEW c \in Handle, New(c), ~SkipBar(c), ~CreateFails(c)
      PROVE  Thinned(exp_bar', h, exp_bar'[h], unopened'[h])
  <2>1. \/ Allocate(c) \/ TakeBar(c) \/ NoBars(c) \/ MapWindow(c) \/ MapFails(c)
    BY <1>6 DEF New, NewAt
  <2>2. \A g \in Handle : exp_bar'[g] <= exp_bar[g]
    BY <1>1, <2>1 DEF Allocate, TakeBar, NoBars, MapWindow, MapFails
  <2>3. CASE pc[h] = "scan"
    <3>1. c # h
      BY <2>1, <2>3 DEF Allocate, TakeBar, NoBars, MapWindow, MapFails, Goto, IInv, TypeOK
    <3>2. exp_bar'[h] = exp_bar[h] /\ unopened'[h] = unopened[h]
      BY <2>1, <3>1 DEF Allocate, TakeBar, NoBars, MapWindow, MapFails, IInv, TypeOK
    <3> QED
      BY <2>2, <2>3, <3>2, <1>2
  <2>4. CASE pc[h] # "scan"
    <3>1. c = h /\ Allocate(h)
      BY <2>1, <2>4 DEF Allocate, TakeBar, NoBars, MapWindow, MapFails, Goto, IInv, TypeOK
    <3>2. exp_bar'[h] = 0
      BY <3>1 DEF Allocate, Goto, IInv, Forgotten
    <3> QED
      BY <1>1, <3>2, ScanStarts
  <2> QED
    BY <2>3, <2>4
<1>7. ASSUME NEW c \in Handle, Use(c) \/ End(c)
      PROVE  Thinned(exp_bar', h, exp_bar'[h], unopened'[h])
  <2>1. pc[h] = "scan" /\ c # h
    BY <1>7 DEF Use, Ask, WriteCfg0, WriteCfg1, Access, End, Abandon, Unlock, Unmap, Crash, Goto,
       IInv, TypeOK
  <2>2. CASE Crash(c) \/ Unmap(c)
    <3>1. exp_bar' = [exp_bar EXCEPT ![c] = 0] /\ unopened'[h] = unopened[h]
      BY <2>1, <2>2 DEF Crash, Unmap, IInv, TypeOK
    <3>2. exp_bar'[h] = exp_bar[h] /\ \A g \in Handle : exp_bar'[g] <= exp_bar[g]
      BY <1>1, <2>1, <3>1
    <3> QED
      BY <2>1, <3>1, <3>2, <1>2
  <2>3. CASE ~Crash(c) /\ ~Unmap(c)
    <3>1. exp_bar' = exp_bar /\ unopened' = unopened
      BY <1>7, <2>3 DEF Use, Ask, WriteCfg0, WriteCfg1, Access, End, Abandon, Unlock
    <3>2. \A g \in Handle : exp_bar'[g] <= exp_bar[g]
      BY <1>1, <3>1
    <3> QED
      BY <2>1, <3>1, <3>2, <1>2
  <2> QED
    BY <2>2, <2>3
<1> QED
  BY <1>3, <1>4, <1>5, <1>6, <1>7 DEF Next

\* While every ExpansionBar is allocated by the scan, a scan runs past the last
\* bar, and allocate_exp_bar panics, only when the handles and the lock files
\* that failed for another reason than the lock since the scan began are more
\* than the bars, although bars may be freed behind it all the time.
THEOREM ScanNeverExhausted == Spec => []NoFalseExhaustion
<1>1. IInv /\ ThinningInv => NoFalseExhaustion
  <2> SUFFICES ASSUME IInv, ThinningInv, Named = {}, NEW h \in Handle,
                      Cardinality(Handle) + unopened[h] <= NumBars, exp_bar[h] \notin Bar
               PROVE  FALSE
    BY DEF NoFalseExhaustion
  <2>1. exp_bar[h] = NumBars /\ unopened[h] \in Nat
    BY DEF IInv, TypeOK, Bar
  <2>2. pc[h] = "scan"
    <3>1. h \in Handle /\ pc[h] \in PC /\ exp_bar[h] # 0
      BY <2>1 DEF IInv, TypeOK
    <3>2. pc[h] \notin Holding
      BY DEF IInv, LocksMatchHandles, Holder
    <3>3. pc[h] # "absent" /\ pc[h] # "unmap"
      BY <3>1 DEF IInv, Forgotten
    <3> QED
      BY <3>1, <3>2, <3>3 DEF PC, Holding
  <2>3. Cardinality(Others(exp_bar, h, NumBars)) + NumBars + 1
          <= Cardinality(Handle) + unopened[h]
    BY <2>1, <2>2 DEF ThinningInv, Thinned
  <2> QED
    BY <2>1, <2>3, OthersFinite, HandlesCounted
<1> QED
  BY <1>1, IInvHolds, ThinningInit, ThinningStep, PTL DEF Spec

-----------------------------------------------------------------------------
(* Refinement of WindowPool.                                               *)

LEMMA PoolInit == Init => Pool!Init
  BY DEF Init, Pool!Init, Phase, PhaseOf

\* Steps that change none of what WindowPool keeps.
LEMMA PoolStutter ==
  ASSUME IInv, NEW h \in Handle,
         \/ Allocate(h) \/ SkipBar(h) \/ CreateFails(h) \/ NoBars(h)
         \/ WriteCfg0(h) \/ WriteCfg1(h) \/ Unmap(h)
  PROVE  UNCHANGED Pool!vars
<1>1. UNCHANGED <<lock, want, served>>
  BY DEF Allocate, SkipBar, CreateFails, NoBars, WriteCfg0, WriteCfg1, Unmap
<1>2. \A g \in Handle : PhaseOf(pc'[g]) = PhaseOf(pc[g])
  BY DEF Allocate, SkipBar, CreateFails, NoBars, WriteCfg0, WriteCfg1, Unmap, Goto, PhaseOf,
     IInv, TypeOK
<1> QED
  BY <1>1, <1>2 DEF Pool!vars, Phase

\* The phase of the handle that moves changes and no other.
LEMMA PhaseUpdate ==
  ASSUME IInv, NEW h \in Handle, NEW p, pc' = [pc EXCEPT ![h] = p]
  PROVE  Phase' = [Phase EXCEPT ![h] = PhaseOf(p)]
  BY DEF IInv, TypeOK, Phase

LEMMA PoolUse ==
  ASSUME IInv, NEW h \in Handle,
         \/ \E b \in Bar : NewAt(h, b)
         \/ \E c \in Config : Ask(h, c)
         \/ TakeBar(h) \/ MapWindow(h) \/ Access(h)
  PROVE  Pool!Next
<1> USE DEF Goto, IInv, TypeOK, LocksMatchHandles, Holder, Holding, Bar
<1>1. ASSUME NEW b \in Bar, NewAt(h, b) PROVE Pool!Acquire(h, b)
  <2>1. Phase' = Phase /\ Phase[h] = "out"
    BY <1>1 DEF NewAt, Phase, PhaseOf
  <2> QED
    BY <1>1, <2>1 DEF NewAt, Pool!Acquire
<1>2. ASSUME TakeBar(h) PROVE Pool!Acquire(h, exp_bar[h])
  <2>1. Phase' = Phase /\ Phase[h] = "out"
    BY <1>2 DEF TakeBar, Phase, PhaseOf
  <2> QED
    BY <1>2, <2>1 DEF TakeBar, Pool!Acquire
<1>3. ASSUME NEW c \in Config, Ask(h, c) PROVE Pool!Ask(h, c)
  <2>1. Phase' = [Phase EXCEPT ![h] = "asked"] /\ Phase[h] = "idle"
    BY <1>3, PhaseUpdate DEF Ask, Phase, PhaseOf
  <2> QED
    BY <1>3, <2>1 DEF Ask, Pool!Ask
<1>4. ASSUME MapWindow(h) PROVE Pool!Enter(h)
  <2>1. Phase' = [Phase EXCEPT ![h] = "idle"] /\ Phase[h] = "out"
    BY <1>4, PhaseUpdate DEF MapWindow, Phase, PhaseOf
  <2> QED
    BY <1>4, <2>1 DEF MapWindow, Pool!Enter
<1>5. ASSUME Access(h) PROVE Pool!Serve(h)
  <2>1. Phase' = [Phase EXCEPT ![h] = "idle"] /\ Phase[h] = "asked"
    BY <1>5, PhaseUpdate DEF Access, Phase, PhaseOf
  <2>2. served' = [served EXCEPT ![h] = want[h]]
    BY <1>5 DEF Access, AccessUsesOwnConfig
  <2> QED
    BY <1>5, <2>1, <2>2 DEF Access, Pool!Serve
<1>6. TakeBar(h) => exp_bar[h] \in Bar
  BY DEF TakeBar
<1> QED
  BY <1>1, <1>2, <1>3, <1>4, <1>5, <1>6 DEF Pool!Next

\* The lock goes with the handle, at once or after it has left.
LEMMA PoolEnd ==
  ASSUME IInv, NEW h \in Handle, MapFails(h) \/ End(h), ~Unmap(h)
  PROVE  Pool!Next \/ UNCHANGED Pool!vars
<1> USE DEF Goto, IInv, TypeOK, LocksMatchHandles, Holder, Holding, Forgotten, Forget
<1>1. ASSUME MapFails(h) \/ Unlock(h) PROVE Pool!Release(h, exp_bar[h]) /\ exp_bar[h] \in Bar
  <2>1. Phase' = [Phase EXCEPT ![h] = "out"]
    BY <1>1, PhaseUpdate DEF MapFails, Unlock, PhaseOf
  <2>2. want[h] = Zero /\ served[h] = Zero
    BY <1>1 DEF MapFails, Unlock, PhaseOf
  <2>3. /\ lock' = [lock EXCEPT ![exp_bar[h]] = Free]
        /\ want' = want /\ served' = served
        /\ lock[exp_bar[h]] = h /\ exp_bar[h] \in Bar
    BY <1>1 DEF MapFails, Unlock
  <2> QED
    BY <2>1, <2>2, <2>3 DEF Pool!Release
<1>2. ASSUME Abandon(h) PROVE Pool!Leave(h)
  <2>1. Phase' = [Phase EXCEPT ![h] = "out"] /\ Phase[h] # "out"
    BY <1>2, PhaseUpdate DEF Abandon, Phase, PhaseOf
  <2> QED
    BY <1>2, <2>1 DEF Abandon, Pool!Leave
<1>3. ASSUME Crash(h), Holder(h) PROVE Pool!Release(h, exp_bar[h]) /\ exp_bar[h] \in Bar
  <2>1. /\ pc' = [pc EXCEPT ![h] = "absent"]
        /\ lock' = [b \in Bar |-> IF lock[b] = h THEN Free ELSE lock[b]]
        /\ want' = [want EXCEPT ![h] = Zero] /\ served' = [served EXCEPT ![h] = Zero]
    BY <1>3 DEF Crash
  <2>2. Phase' = [Phase EXCEPT ![h] = "out"]
    <3>1. pc' = [pc EXCEPT ![h] = "absent"]
      BY <2>1
    <3>2. Phase' = [Phase EXCEPT ![h] = PhaseOf("absent")]
      BY <3>1, PhaseUpdate
    <3> QED
      BY <3>2 DEF PhaseOf
  <2>3. exp_bar[h] \in Bar /\ lock[exp_bar[h]] = h
    BY <1>3
  <2>4. \A b \in Bar : lock[b] = h => b = exp_bar[h]
    BY <1>3
  <2>5. lock' = [lock EXCEPT ![exp_bar[h]] = Free]
    BY <2>1, <2>3, <2>4
  <2> QED
    BY <2>1, <2>2, <2>3, <2>5 DEF Pool!Release
<1>4. ASSUME Crash(h), ~Holder(h) PROVE UNCHANGED Pool!vars
  <2>1. Phase' = Phase
    BY <1>4 DEF Crash, Phase, PhaseOf, PC
  <2>2. lock' = lock
    BY <1>4 DEF Crash
  <2>3. want[h] = Zero /\ served[h] = Zero
    BY <1>4 DEF Crash, PhaseOf
  <2> QED
    BY <1>4, <2>1, <2>2, <2>3 DEF Crash, Pool!vars
<1> QED
  BY <1>1, <1>2, <1>3, <1>4 DEF End, Pool!Next

LEMMA PoolStep == IInv /\ [Next]_vars => [Pool!Next]_(Pool!vars)
<1> SUFFICES ASSUME IInv, [Next]_vars PROVE Pool!Next \/ UNCHANGED Pool!vars
  OBVIOUS
<1>1. CASE UNCHANGED vars
  BY <1>1 DEF vars, Pool!vars, Phase
<1>2. ASSUME NEW h \in Handle, New(h) PROVE Pool!Next \/ UNCHANGED Pool!vars
  BY <1>2, PoolStutter, PoolUse, PoolEnd DEF New, MapFails, Unmap, Goto
<1>3. ASSUME NEW h \in Handle, Use(h) PROVE Pool!Next \/ UNCHANGED Pool!vars
  BY <1>3, PoolStutter, PoolUse DEF Use
<1>4. ASSUME NEW h \in Handle, End(h) PROVE Pool!Next \/ UNCHANGED Pool!vars
  BY <1>4, PoolStutter, PoolEnd
<1> QED
  BY <1>1, <1>2, <1>3, <1>4 DEF Next

\* ExpansionBar implements WindowPool: whatever the scans, skipped register
\* writes, panics and kills, users see windows of their own that translate
\* their accesses as asked.
THEOREM PoolRefinement == Spec => ImplementsPool
  BY PoolInit, PoolStep, IInvHolds, PTL DEF Spec, Pool!Spec, ImplementsPool
=============================================================================
