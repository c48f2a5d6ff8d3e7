--------------------------- MODULE PaConfigProofs ---------------------------
(***************************************************************************)
(* Proofs about PaConfig: an analyzer with any numbers of units, after any *)
(* sessions, completed, refused or killed, is configured as the session    *)
(* that started it asked.                                                  *)
(***************************************************************************)
EXTENDS PaConfig, TLAPS

Elements(s) == {s[i] : i \in DOMAIN s}

Values == Settings \union {Zero}

Shape == /\ local \in [Unit -> Values] /\ asked \in [Unit -> Values]
         /\ reg \in [Unit -> Values]
         /\ next \in Nat
         /\ pc \in {"none", "building", "applying", "to_lanes", "to_control", "started",
                     "refused", "index"}
         /\ restart \in [Counter -> Values]
         /\ traced \in (Groups \X Cores) \union {NoCore}
         /\ control \in [Groups -> Cores \union {NoCore}]
         /\ lanes \in [Groups -> BOOLEAN]

\* The words that start_pa has written so far are in the analyzer, but for those of
\* mask/compare units that a word without a number replaces.
WrittenSoFar ==
  pc = "applying" =>
    \A j \in 1 .. Len(Order) :
      j < next /\ WrittenLast(Order[j]) => reg[Order[j]] = local[Order[j]]

Progress == /\ pc = "applying" => next \in 1 .. Len(Order) + 1
            /\ pc \in {"to_lanes", "to_control", "started"} => next = Len(Order) + 1
            /\ next <= Len(Order) + 1
            /\ pc \in {"to_lanes", "to_control"} => traced \in Groups \X Cores
            /\ pc = "to_control" => lanes[traced[1]]

IInv == Shape /\ asked = local /\ Progress /\ WrittenSoFar /\ AppliedAsAsked

USE SettingAssumption, UnitAssumption

-----------------------------------------------------------------------------
(* The order of the writes                                                 *)

LEMMA ConcatElements ==
  ASSUME NEW S, NEW s \in Seq(S), NEW t \in Seq(S)
  PROVE  s \o t \in Seq(S) /\ Elements(s \o t) = Elements(s) \union Elements(t)
  <1>1. /\ s \o t \in Seq(S) /\ Len(s \o t) = Len(s) + Len(t)
        /\ Len(s) \in Nat /\ Len(t) \in Nat
        /\ \A i \in 1 .. Len(s) : (s \o t)[i] = s[i]
        /\ \A i \in 1 .. Len(t) : (s \o t)[Len(s) + i] = t[i]
    OBVIOUS
  <1>2. Elements(s) \union Elements(t) \subseteq Elements(s \o t)
    <2>1. ASSUME NEW i \in 1 .. Len(s) PROVE s[i] \in Elements(s \o t)
      BY <1>1, i \in DOMAIN (s \o t) DEF Elements
    <2>2. ASSUME NEW i \in 1 .. Len(t) PROVE t[i] \in Elements(s \o t)
      BY <1>1, Len(s) + i \in DOMAIN (s \o t) DEF Elements
    <2>3. DOMAIN s = 1 .. Len(s) /\ DOMAIN t = 1 .. Len(t)
      OBVIOUS
    <2>4. /\ \A x \in Elements(s) : \E i \in 1 .. Len(s) : x = s[i]
          /\ \A x \in Elements(t) : \E i \in 1 .. Len(t) : x = t[i]
      BY <2>3, Zenon DEF Elements
    <2>5. ASSUME NEW x \in Elements(s) PROVE x \in Elements(s \o t)
      BY <2>1, <2>4, <2>5, Zenon
    <2>6. ASSUME NEW x \in Elements(t) PROVE x \in Elements(s \o t)
      BY <2>2, <2>4, <2>6, Zenon
    <2> QED
      BY <2>5, <2>6, Zenon
  <1>3. ASSUME NEW i \in 1 .. Len(s) + Len(t)
        PROVE  (s \o t)[i] \in Elements(s) \union Elements(t)
    <2>1. CASE i <= Len(s)
      BY <2>1, <1>1 DEF Elements
    <2>2. CASE i > Len(s)
      <3>1. i - Len(s) \in 1 .. Len(t) /\ Len(s) + (i - Len(s)) = i
        BY <2>2, <1>1
      <3> QED
        BY <3>1, <1>1 DEF Elements
    <2> QED
      BY <2>1, <2>2, <1>1
  <1>4. \A x \in Elements(s \o t) : x \in Elements(s) \union Elements(t)
    <2>1. DOMAIN (s \o t) = 1 .. Len(s) + Len(t)
      BY <1>1
    <2>2. \A x \in Elements(s \o t) : \E i \in 1 .. Len(s) + Len(t) : x = (s \o t)[i]
      BY <2>1, Zenon DEF Elements
    <2> QED
      BY <2>2, <1>3, Zenon
  <1> QED
    BY <1>1, <1>2, <1>4, Zenon

LEMMA NumberedElements ==
  ASSUME NEW kind, NEW count \in Nat
  PROVE  /\ Elements(Numbered(kind, count)) = Units(kind, count)
         /\ \A S : Units(kind, count) \subseteq S => Numbered(kind, count) \in Seq(S)
  <1>1. \A i \in 1 .. count : i - 1 \in 0 .. count - 1
    OBVIOUS
  <1>2. \A i \in 0 .. count - 1 : i + 1 \in 1 .. count /\ (i + 1) - 1 = i
    OBVIOUS
  <1>3. Elements(Numbered(kind, count)) = Units(kind, count)
    BY <1>1, <1>2 DEF Elements, Numbered, Units
  <1>4. ASSUME NEW S, Units(kind, count) \subseteq S PROVE Numbered(kind, count) \in Seq(S)
    BY <1>1, <1>4 DEF Numbered, Units
  <1> QED
    BY <1>3, <1>4

LEMMA PairedElements ==
  ASSUME NEW count \in Nat
  PROVE  LET both == Units("transition0", count) \union Units("transition1", count) IN
         /\ Elements(Paired(count)) = both
         /\ \A S : both \subseteq S => Paired(count) \in Seq(S)
  <1> DEFINE both == Units("transition0", count) \union Units("transition1", count)
  <1>1. \A i \in 1 .. 2 * count : (i - 1) \div 2 \in 0 .. count - 1
    OBVIOUS
  <1>2. \A i \in 1 .. 2 * count : Paired(count)[i] \in both
    BY <1>1 DEF Paired, Units
  <1>3. ASSUME NEW i \in 0 .. count - 1
        PROVE  /\ <<"transition0", i>> \in Elements(Paired(count))
               /\ <<"transition1", i>> \in Elements(Paired(count))
    <2>1. /\ 2 * i + 1 \in 1 .. 2 * count /\ 2 * i + 2 \in 1 .. 2 * count
          /\ (2 * i + 1) % 2 = 1 /\ (2 * i + 2) % 2 # 1
          /\ (2 * i + 1 - 1) \div 2 = i /\ (2 * i + 2 - 1) \div 2 = i
      OBVIOUS
    <2>2. /\ Paired(count)[2 * i + 1] = <<"transition0", i>>
          /\ Paired(count)[2 * i + 2] = <<"transition1", i>>
      BY <2>1 DEF Paired
    <2>3. DOMAIN Paired(count) = 1 .. 2 * count
      BY DEF Paired
    <2> QED
      BY <2>1, <2>2, <2>3 DEF Elements
  <1>4. Elements(Paired(count)) = both
    <2>1. Elements(Paired(count)) \subseteq both
      BY <1>2 DEF Elements, Paired
    <2> QED
      BY <2>1, <1>3 DEF Units
  <1>5. ASSUME NEW S, both \subseteq S PROVE Paired(count) \in Seq(S)
    <2>1. \A i \in 1 .. 2 * count : Paired(count)[i] \in S
      BY <1>2, <1>5
    <2>2. Paired(count) = [i \in 1 .. 2 * count |-> Paired(count)[i]]
      BY DEF Paired
    <2> HIDE DEF both
    <2> QED
      BY <2>1, <2>2
  <1> QED
    BY <1>4, <1>5

\* Each unit is written, and nothing else.
LEMMA OrderIsComplete == Order \in Seq(Unit) /\ Elements(Order) = Unit
  <1> DEFINE config == <<<<"config", 0>>>>
             mask == Numbered("mask", MaskUnits)
             detect == Numbered("detect", DetectUnits)
             pairs == Paired(Transitions)
             tcam == Numbered("tcam", TcamUnits)
             C == Units("config", 1)
             M == Units("mask", MaskUnits)
             D == Units("detect", DetectUnits)
             P == Units("transition0", Transitions) \union Units("transition1", Transitions)
             T == Units("tcam", TcamUnits)
  <1>1. Unit = C \union M \union D \union P \union T
    BY DEF Unit
  <1>2. config \in Seq(Unit) /\ Elements(config) = C
    <2>1. C = {<<"config", 0>>}
      BY DEF Units
    <2> QED
      BY <2>1, <1>1 DEF Elements
  <1>3. /\ mask \in Seq(Unit) /\ Elements(mask) = M
        /\ detect \in Seq(Unit) /\ Elements(detect) = D
        /\ tcam \in Seq(Unit) /\ Elements(tcam) = T
    BY <1>1, NumberedElements
  <1>4. pairs \in Seq(Unit) /\ Elements(pairs) = P
    BY <1>1, PairedElements
  <1> HIDE DEF config, mask, detect, pairs, tcam, C, M, D, P, T
  <1> DEFINE two == config \o mask
             three == two \o detect
             four == three \o pairs
  <1>5. two \in Seq(Unit) /\ Elements(two) = C \union M
    BY <1>2, <1>3, ConcatElements
  <1> HIDE DEF two
  <1>6. three \in Seq(Unit) /\ Elements(three) = C \union M \union D
    <2>1. Elements(three) = Elements(two) \union Elements(detect) /\ three \in Seq(Unit)
      BY <1>3, <1>5, ConcatElements
    <2> QED
      BY <2>1, <1>3, <1>5
  <1> HIDE DEF three
  <1>7. four \in Seq(Unit) /\ Elements(four) = C \union M \union D \union P
    <2>1. Elements(four) = Elements(three) \union Elements(pairs) /\ four \in Seq(Unit)
      BY <1>4, <1>6, ConcatElements
    <2> QED
      BY <2>1, <1>4, <1>6
  <1> HIDE DEF four
  <1>8. four \o tcam \in Seq(Unit) /\ Elements(four \o tcam) = C \union M \union D \union P \union T
    <2>1. Elements(four \o tcam) = Elements(four) \union Elements(tcam) /\ four \o tcam \in Seq(Unit)
      BY <1>3, <1>7, ConcatElements
    <2> QED
      BY <2>1, <1>3, <1>7
  <1>9. Order = four \o tcam
    BY DEF Order, config, mask, detect, pairs, tcam, two, three, four
  <1> QED
    BY <1>1, <1>8, <1>9

-----------------------------------------------------------------------------
\* A write of apply_configuration keeps what was written, or goes over a unit that
\* is not written last.
LEMMA ApplyStep ==
  ASSUME IInv, ApplyNext PROVE IInv'
  <1> DEFINE u == Order[next]
  <1>1. /\ pc = "applying" /\ pc' = pc /\ local' = local /\ asked' = asked
        /\ UNCHANGED <<restart, traced, lanes, control>>
        /\ next \in 1 .. Len(Order) /\ next' = next + 1 /\ Len(Order) \in Nat
        /\ reg' = [reg EXCEPT ![Destination(u)] = local[u]]
    BY OrderIsComplete DEF ApplyNext, IInv, Shape, Progress
  <1>2. /\ u \in Unit /\ local[u] \in Values
        /\ \A j \in 1 .. Len(Order) : Order[j] \in Unit
    BY <1>1, OrderIsComplete DEF IInv, Shape
  <1>3. Destination(u) = u \/ (Destination(u) = <<"mask", 0>> /\ local[u] = Zero /\ u[1] = "mask")
    BY DEF Destination
  <1>4. u[1] = "mask" => u \in Units("mask", MaskUnits)
    BY <1>2 DEF Unit, Units
  <1>5. Shape'
    <2> DEFINE d == Destination(u)
               v == local[u]
    <2>1. reg' = [reg EXCEPT ![d] = v] /\ v \in Values /\ reg \in [Unit -> Values]
      BY <1>1, <1>2 DEF IInv, Shape
    <2>2. reg' \in [Unit -> Values]
      <3> HIDE DEF d, v, u
      <3> QED
        BY <2>1
    <2> QED
      BY <1>1, <2>2 DEF IInv, Shape
  <1>6. ASSUME NEW j \in 1 .. Len(Order), j < next + 1, WrittenLast(Order[j])
        PROVE  reg'[Order[j]] = local[Order[j]]
    <2> DEFINE d == Order[j]
    <2>1. d \in DOMAIN reg
      BY <1>2 DEF IInv, Shape
    <2>2. CASE d = Destination(u) /\ d = u
      BY <2>1, <2>2, <1>1
    <2>3. CASE d = Destination(u) /\ d # u
      <3>1. d = <<"mask", 0>> /\ local[u] = Zero /\ u \in Units("mask", MaskUnits)
        BY <2>3, <1>3, <1>4
      <3>2. AllMaskSet
        BY <1>6, <3>1 DEF WrittenLast
      <3> QED
        BY <3>1, <3>2 DEF AllMaskSet, IInv
    <2>4. CASE d # Destination(u)
      <3>1. j # next
        <4>1. CASE Destination(u) = u
          BY <4>1, <2>4
        <4>2. CASE Destination(u) # u
          \* A word that was never set is not asked for, and so not written last.
          <5>1. u[1] = "mask" /\ local[u] = Zero
            BY <4>2, <1>3
          <5> QED
            BY <5>1, <1>6 DEF WrittenLast, IInv
        <4> QED
          BY <4>1, <4>2
      <3>2. j < next
        BY <1>1, <1>6, <3>1
      <3>3. reg[d] = local[d]
        BY <1>1, <1>6, <3>2 DEF IInv, WrittenSoFar
      <3> QED
        BY <2>1, <2>4, <3>3, <1>1
    <2> QED
      BY <2>2, <2>3, <2>4
  <1>7. WrittenSoFar'
    BY <1>1, <1>6 DEF WrittenSoFar, WrittenLast, AllMaskSet
  <1>8. Progress' /\ AppliedAsAsked' /\ asked' = local'
    BY <1>1 DEF Progress, AppliedAsAsked, IInv
  <1> QED
    BY <1>5, <1>7, <1>8 DEF IInv

\* When all is written each unit has been.
LEMMA StartedStep ==
  ASSUME IInv, Started PROVE IInv'
  <1>1. /\ pc = "applying" /\ next = Len(Order) + 1 /\ Len(Order) \in Nat
        /\ pc' = IF traced = NoCore THEN "started" ELSE "to_lanes"
        /\ UNCHANGED <<local, asked, next, reg, restart, traced, lanes, control>>
    BY OrderIsComplete DEF Started, IInv, Progress
  <1>2. ASSUME NEW u \in Unit, WrittenLast(u) PROVE reg[u] = asked[u]
    <2>1. PICK j \in 1 .. Len(Order) : Order[j] = u
      BY OrderIsComplete DEF Elements
    <2>2. j < next
      BY <1>1
    <2> QED
      BY <1>1, <1>2, <2>1, <2>2 DEF IInv, WrittenSoFar
  <1>3. AppliedAsAsked'
    BY <1>1, <1>2 DEF AppliedAsAsked, WrittenLast, AllMaskSet
  <1> QED
    BY <1>1, <1>3 DEF IInv, Shape, Progress, WrittenSoFar

\* Building the local configuration, starting to write it, being killed, and the two
\* registers of the group, which leave the analyzer alone.
LEMMA OtherStep ==
  ASSUME IInv,
         \/ New \/ start_pa \/ Killed \/ RefusedAtOnce \/ SelectLanes \/ EnableTrace
         \/ \E c \in Groups \X Cores, s \in Settings : pa_trigger_on_uncomp_trace(c, s)
         \/ \E i, s : s \in Settings /\ set_trigger_counter_restart(i, s)
         \/ \E units, s : s \in Settings /\ Assign(units, s)
         \/ \E why \in {"refused", "index"} : PanicWith(why)
  PROVE  IInv'
  <1>1. Len(Order) \in Nat
    BY OrderIsComplete
  <1> USE DEF IInv, Shape, Progress, WrittenSoFar, AppliedAsAsked
  <1>2. CASE New
    BY <1>2, <1>1 DEF New, Over, Unset, Values
  <1>3. CASE start_pa
    BY <1>3, <1>1 DEF start_pa
  <1>4. CASE Killed
    BY <1>4, <1>1 DEF Killed
  <1>5. ASSUME NEW units, NEW s \in Settings, Assign(units, s) PROVE IInv'
    <2>1. local' \in [Unit -> Values] /\ asked' = local'
      BY <1>5 DEF Assign, Values
    <2> QED
      BY <1>5, <2>1, <1>1 DEF Assign
  <1>6. ASSUME NEW why \in {"refused", "index"}, PanicWith(why) PROVE IInv'
    BY <1>6, <1>1 DEF PanicWith
  <1>7. CASE RefusedAtOnce
    BY <1>7, <1>1 DEF RefusedAtOnce
  <1>8. CASE SelectLanes
    BY <1>8, <1>1 DEF SelectLanes, WrittenLast, AllMaskSet
  <1>9. CASE EnableTrace
    BY <1>9, <1>1 DEF EnableTrace, WrittenLast, AllMaskSet
  <1>10. ASSUME NEW c \in Groups \X Cores, NEW s \in Settings, pa_trigger_on_uncomp_trace(c, s) PROVE IInv'
    <2>1. local' \in [Unit -> Values] /\ asked' = local'
      BY <1>10 DEF pa_trigger_on_uncomp_trace, Values
    <2> QED
      BY <1>10, <2>1, <1>1 DEF pa_trigger_on_uncomp_trace
  <1>11. ASSUME NEW i, NEW s \in Settings, set_trigger_counter_restart(i, s) PROVE IInv'
    <2>1. CASE i \notin Counter /\ PanicWith("refused")
      BY <2>1, <1>6
    <2>2. CASE /\ i \in Counter /\ restart' = [restart EXCEPT ![i] = s]
               /\ UNCHANGED <<pc, local, asked, next, reg, traced, lanes, control>>
      <3>1. restart' \in [Counter -> Values]
        BY <2>2 DEF Values
      <3> QED
        BY <2>2, <3>1 DEF WrittenLast, AllMaskSet
    <2> QED
      BY <1>11, <2>1, <2>2 DEF set_trigger_counter_restart
  <1> QED
    BY <1>2, <1>3, <1>4, <1>5, <1>6, <1>7, <1>8, <1>9, <1>10, <1>11

LEMMA InitIInv == Init => IInv
  <1> SUFFICES ASSUME Init PROVE IInv
    OBVIOUS
  <1>1. Unset \in [Unit -> Values] /\ [c \in Counter |-> Zero] \in [Counter -> Values]
    BY DEF Unset, Values
  <1>2. Shape
    BY <1>1 DEF Init, Shape
  <1>3. Len(Order) \in Nat
    BY OrderIsComplete
  <1>4. Progress /\ WrittenSoFar /\ AppliedAsAsked
    BY <1>3 DEF Init, Progress, WrittenSoFar, AppliedAsAsked
  <1> QED
    BY <1>2, <1>4 DEF Init, IInv

LEMMA NextIInv == ASSUME IInv, [Next]_vars PROVE IInv'
  <1>1. CASE UNCHANGED vars
    BY <1>1 DEF vars, IInv, Shape, Progress, WrittenSoFar, AppliedAsAsked, WrittenLast, AllMaskSet
  <1>2. CASE ApplyNext \/ Started
    BY <1>2, ApplyStep, StartedStep
  <1>3. ASSUME New \/ start_pa \/ Killed \/ RefusedAtOnce \/ SelectLanes \/ EnableTrace PROVE IInv'
    BY <1>3, OtherStep
  <1>4. ASSUME NEW s \in Settings, NEW kinds, NEW i, NEW checked, NEW count,
               \/ SetUnit(kinds, i, s, checked, count)
               \/ set_pa_global_config(s)
               \/ set_trigger_counter_restart(i, s)
               \/ \E c \in Groups \X Cores : pa_trigger_on_uncomp_trace(c, s)
        PROVE  IInv'
    BY <1>4, OtherStep DEF SetUnit, set_pa_global_config
  <1> QED
    BY <1>1, <1>2, <1>3, <1>4
    DEF Next, set_mask_compare, set_mask_compare_detect, set_capture_tcam, set_state_transition

\* When start_pa returns the analyzer is configured as the session asked, whatever
\* earlier sessions left there and wherever they were killed; and the group of a traced
\* core has that core enabled, although other groups may still be enabled too.
THEOREM StartedAsAsked == Spec => []AppliedAsAsked
  <1>1. IInv => AppliedAsAsked
    BY DEF IInv
  <1> QED
    BY <1>1, InitIInv, NextIInv, PTL DEF Spec

\* Every variable has its type; a session that has started has written every register.
THEOREM TypeCorrect == Spec => []TypeOK
  <1>1. IInv => TypeOK
    BY OrderIsComplete DEF IInv, Shape, Progress, TypeOK, Values
  <1> QED
    BY <1>1, InitIInv, NextIInv, PTL DEF Spec
=============================================================================
