------------------------------ MODULE PaConfig ------------------------------
(***************************************************************************)
(* Configuring the Performance Analyzer (libs/performance_analyzer.rs):    *)
(* PerformanceAnalyzer::new, the set_ methods that build the local         *)
(* configuration, start_pa, whose apply_configuration writes it, one       *)
(* register after the other, and set_trigger_counter_restart; and          *)
(* pa_trigger_on_uncomp_trace (libs/rfpc_trace.rs), which configures the   *)
(* analyzer for a trace and then makes the group of a core put its trace   *)
(* on the bus, with two registers each group has of its own.  The          *)
(* registers outlive the process that wrote them, so a session finds what  *)
(* earlier ones left.                                                      *)
(*                                                                         *)
(* A unit is named by its kind and number; a setting stands for all the    *)
(* fields a call sets.  Definitions with a suffix, as ApplyNext_SkipsZero, *)
(* are slips the code might have had.                                      *)
(***************************************************************************)
EXTENDS Integers, Sequences

CONSTANTS
  Settings,     \* what a unit can be set to
  Zero,         \* the fields of a word that was never set
  MaskUnits,    \* mask/compare units, 16 in the code
  DetectUnits,  \* mask compare detect units, 8 in the code
  Transitions,  \* state transitions kept locally, 7 in the code
  TransitionNums, \* transition numbers the check lets through, 8 in the code
  TcamUnits,    \* TCAM capture units, 8 in the code
  TriggerCounters, \* trigger counters, 2 in the code
  TraceMasks,   \* mask/compare units that a trace uses, 4 in the code
  Groups,       \* the groups of the island, 4 in each of its clusters
  Cores, NoCore \* the cores of a group; none of them

ASSUME SettingAssumption == Zero \notin Settings
ASSUME UnitAssumption == {MaskUnits, DetectUnits, Transitions, TransitionNums, TcamUnits} \subseteq Nat \ {0}
ASSUME TraceAssumption == TraceMasks \in 1 .. MaskUnits
ASSUME CounterAssumption == TriggerCounters \in Nat
ASSUME CoreAssumption == NoCore \notin Cores /\ NoCore \notin Groups \X Cores

VARIABLES
  pc,    \* where the session is
  local, \* the local configuration
  asked, \* what the session was asked for
  next,  \* the write apply_configuration does next
  reg,   \* the units of the analyzer
  restart, \* PATriggerCounterRestart of its trigger counters
  traced, \* the group and the core the session traces, if it does
  lanes, control \* PerfMuxConfig of each group, set up or not; the core its PAControl enables

vars == <<pc, local, asked, next, reg, restart, traced, lanes, control>>

Units(kind, count) == {<<kind, i>> : i \in 0 .. count - 1}
Unit == UNION {Units("config", 1), Units("mask", MaskUnits), Units("detect", DetectUnits),
               Units("transition0", Transitions), Units("transition1", Transitions),
               Units("tcam", TcamUnits)}
Unset == [u \in Unit |-> Zero]

Counter == 0 .. TriggerCounters - 1

Init == /\ pc = "none" /\ local = Unset /\ asked = Unset /\ next = 0
        /\ reg = Unset /\ restart = [c \in Counter |-> Zero]
        /\ traced = NoCore
        /\ lanes = [g \in Groups |-> FALSE] /\ control = [g \in Groups |-> NoCore]

-----------------------------------------------------------------------------
(* Building the local configuration                                        *)

Over == pc \in {"none", "started", "refused", "index"}

New == /\ Over
       /\ pc' = "building" /\ local' = Unset /\ asked' = Unset /\ traced' = NoCore
       /\ UNCHANGED <<next, reg, restart, lanes, control>>

\* The methods hand the analyzer on, also after start_pa.
InUse == pc \in {"building", "started"}

Assign(units, s) == /\ InUse
                    /\ pc' = "building" /\ traced' = NoCore
                    /\ local' = [u \in Unit |-> IF u \in units THEN s ELSE local[u]]
                    /\ asked' = [u \in Unit |-> IF u \in units THEN s ELSE asked[u]]
                    /\ UNCHANGED <<next, reg, restart, lanes, control>>

\* panic!("... can only be 3 bits maximum."), or an index out of bounds.
PanicWith(why) == /\ InUse /\ pc' = why
                  /\ UNCHANGED <<local, asked, next, reg, restart, traced, lanes, control>>

\* The methods check the number, then index the vector of units.
SetUnit(kinds, i, s, checked, count) ==
  \/ i < checked /\ i < count /\ Assign({<<k, i>> : k \in kinds}, s)
  \/ i >= checked /\ PanicWith("refused")
  \/ i < checked /\ i >= count /\ PanicWith("index")

set_pa_global_config(s) == Assign({<<"config", 0>>}, s)
set_mask_compare(i, s) == SetUnit({"mask"}, i, s, MaskUnits, MaskUnits)
set_mask_compare_detect(i, s) == SetUnit({"detect"}, i, s, DetectUnits, DetectUnits)
set_capture_tcam(i, s) == SetUnit({"tcam"}, i, s, TcamUnits, TcamUnits)
set_state_transition(i, s) ==
  SetUnit({"transition0", "transition1"}, i, s, TransitionNums, Transitions)

\* The one method that writes its register at once.
set_trigger_counter_restart(i, s) ==
  \/ /\ InUse /\ i \in Counter
     /\ restart' = [restart EXCEPT ![i] = s]
     /\ UNCHANGED <<pc, local, asked, next, reg, traced, lanes, control>>
  \/ i \notin Counter /\ PanicWith("refused")

-----------------------------------------------------------------------------
(* Applying it                                                             *)

start_pa == /\ InUse /\ pc' = "applying" /\ next' = 1 /\ traced' = NoCore
            /\ UNCHANGED <<local, asked, reg, restart, lanes, control>>

\* A trace of c, a group and a core of it: new, a fixed chain of the methods
\* above, and start_pa.
TraceUnits == {<<"config", 0>>, <<"detect", 0>>, <<"tcam", 0>>} \union Units("mask", TraceMasks)
pa_trigger_on_uncomp_trace(c, s) ==
  /\ Over
  /\ pc' = "applying" /\ next' = 1
  /\ local' = [u \in Unit |-> IF u \in TraceUnits THEN s ELSE Zero]
  /\ asked' = local'
  /\ traced' = c
  /\ UNCHANGED <<reg, restart, lanes, control>>

\* panic!("Invalid word index!"), or new for another island than Rfpc0: nothing is written.
RefusedAtOnce == /\ Over /\ pc' = "refused"
                 /\ UNCHANGED <<local, asked, next, reg, restart, traced, lanes, control>>

Numbered(kind, count) == [i \in 1 .. count |-> <<kind, i - 1>>]
Paired(count) == [i \in 1 .. 2 * count |->
  <<IF i % 2 = 1 THEN "transition0" ELSE "transition1", (i - 1) \div 2>>]
Order == <<<<"config", 0>>>> \o Numbered("mask", MaskUnits) \o Numbered("detect", DetectUnits)
         \o Paired(Transitions) \o Numbered("tcam", TcamUnits)

\* All mask/compare words go to one register; the number of the unit is in the
\* word, where set_mask_compare put it.
Destination(u) == IF u[1] = "mask" /\ local[u] = Zero THEN <<"mask", 0>> ELSE u

ApplyNext_SkipsZero == /\ pc = "applying" /\ next <= Len(Order)
                       /\ reg' = IF local[Order[next]] = Zero THEN reg
                                 ELSE [reg EXCEPT ![Order[next]] = local[Order[next]]]
                       /\ next' = next + 1
                       /\ UNCHANGED <<pc, local, asked, restart, traced, lanes, control>>
ApplyNext == /\ pc = "applying" /\ next <= Len(Order)
             /\ reg' = [reg EXCEPT ![Destination(Order[next])] = local[Order[next]]]
             /\ next' = next + 1
             /\ UNCHANGED <<pc, local, asked, restart, traced, lanes, control>>

Started_Early == /\ pc = "applying"
                 /\ pc' = IF traced = NoCore THEN "started" ELSE "to_lanes"
                 /\ UNCHANGED <<local, asked, next, reg, restart, traced, lanes, control>>
Started == /\ pc = "applying" /\ next > Len(Order)
           /\ pc' = IF traced = NoCore THEN "started" ELSE "to_lanes"
           /\ UNCHANGED <<local, asked, next, reg, restart, traced, lanes, control>>

\* The group of the traced core: the lanes of its bus, then the core and its trace output.
\* Nothing disables a group that an earlier session traced.
SelectLanes == /\ pc = "to_lanes" /\ pc' = "to_control"
               /\ lanes' = [lanes EXCEPT ![traced[1]] = TRUE]
               /\ UNCHANGED <<local, asked, next, reg, restart, traced, control>>
EnableTrace == /\ pc = "to_control" /\ pc' = "started"
               /\ control' = [control EXCEPT ![traced[1]] = traced[2]]
               /\ UNCHANGED <<local, asked, next, reg, restart, traced, lanes>>

\* The process is killed between two writes.
Killed == /\ pc \in {"applying", "to_lanes", "to_control"} /\ pc' = "none"
          /\ UNCHANGED <<local, asked, next, reg, restart, traced, lanes, control>>

Next == \/ New \/ start_pa \/ ApplyNext \/ Started \/ Killed
        \/ RefusedAtOnce \/ SelectLanes \/ EnableTrace
        \/ \E s \in Settings :
             \/ \E c \in Groups \X Cores : pa_trigger_on_uncomp_trace(c, s)
             \/ \E i \in 0 .. TriggerCounters : set_trigger_counter_restart(i, s)
             \/ set_pa_global_config(s)
             \/ \E i \in 0 .. MaskUnits : set_mask_compare(i, s)
             \/ \E i \in 0 .. DetectUnits : set_mask_compare_detect(i, s)
             \/ \E i \in 0 .. TcamUnits : set_capture_tcam(i, s)
             \/ \E i \in 0 .. TransitionNums : set_state_transition(i, s)

Spec == Init /\ [][Next]_vars

-----------------------------------------------------------------------------
(* Properties                                                              *)

\* Every variable has its type; a session that has started wrote every register.
TypeOK == /\ pc \in {"none", "building", "applying", "to_lanes", "to_control", "started",
                     "refused", "index"}
          /\ local \in [Unit -> Settings \union {Zero}]
          /\ asked \in [Unit -> Settings \union {Zero}]
          /\ reg \in [Unit -> Settings \union {Zero}]
          /\ next \in 0 .. Len(Order) + 1
          /\ restart \in [Counter -> Settings \union {Zero}]
          /\ traced \in (Groups \X Cores) \union {NoCore}
          /\ control \in [Groups -> Cores \union {NoCore}]
          /\ lanes \in [Groups -> BOOLEAN]
          /\ pc \in {"to_lanes", "to_control", "started"} => next = Len(Order) + 1

\* A mask/compare unit that is written last: it was set, and no word without a
\* number is written after it.
AllMaskSet == \A u \in Units("mask", MaskUnits) : asked[u] # Zero
WrittenLast(u) == u[1] = "mask" => asked[u] # Zero /\ (u[2] = 0 => AllMaskSet)

\* When start_pa returns, the analyzer is configured as the session asked: nothing
\* of an earlier session is left in any detect, TCAM or transition unit, in
\* PAConfig, or in a mask/compare unit whose word is the last one sent to it.  Only
\* then does a trace session touch the group of its core, and when it is done that
\* group has the traced core, not one of an earlier session, put its trace on the bus.
\* Of the other groups nothing is said: see OneGroupOnBus.
AppliedAsAsked ==
  /\ pc \in {"to_lanes", "to_control", "started"} =>
       \A u \in Unit : WrittenLast(u) => reg[u] = asked[u]
  /\ pc = "started" /\ traced # NoCore =>
       control[traced[1]] = traced[2] /\ lanes[traced[1]]

\* The same of every unit.
EveryUnitAsAsked == pc \in {"to_lanes", "to_control", "started"} => reg = asked

\* The traced core is the only one on the bus, onto which the groups' signals are ORed.
\* It is not when an earlier session traced a core of another group.
OneGroupOnBus ==
  pc = "started" /\ traced # NoCore => \A g \in Groups \ {traced[1]} : control[g] = NoCore
=============================================================================
