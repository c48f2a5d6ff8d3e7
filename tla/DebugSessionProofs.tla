------------------------- MODULE DebugSessionProofs -------------------------
(***************************************************************************)
(* Proofs about Breakpoints and DebugSession.                              *)
(*                                                                         *)
(* The table: for any cores, sizes, texts and requests that keep clear of  *)
(* each other, memory is the client's text with the set breakpoints in it. *)
(*                                                                         *)
(* The session: for any program, breakpoints, cores and requests, and      *)
(* however often the server dies, a client that loads its program after a  *)
(* restart finds it in memory at every prompt, harts execute it and        *)
(* nothing else, and a continue is answered when its harts stand on        *)
(* breakpoints.                                                            *)
(***************************************************************************)
EXTENDS DebugSession, TLAPS

USE CoreAssumption, WordAssumption, SizeAssumption, BpAssumption, WriteAssumption

-----------------------------------------------------------------------------
(* The table                                                               *)

Original(b) == IF b.ctm THEN <<text[CTM][b.off]>>
               ELSE <<text[rfpc][b.off], text[rfpc][b.off + 1]>>

\* While no two requests touch a common word, what is cached of a breakpoint is
\* the client's text at the place it was set at: that is what makes clearing it
\* right, and it is what overlapping requests or a change of core destroy.
CachedText == \A b \in Bp : IsSet(b) => home[b] = Reached(b) /\ breakpoints[b] = Original(b)

TableInv == /\ TypeOK
            /\ Separate /\ ~strayed => CachedText /\ BreakpointsArmed /\ TextKept

LEMMA ReachedMem ==
  ASSUME TypeOK, NEW b \in Bp PROVE Reached(b) \in Mem
  BY DEF TypeOK, Reached, Mem

LEMMA InitTableInv == Init => TableInv
<1> SUFFICES ASSUME Init PROVE TableInv
  OBVIOUS
<1>1. \A b \in Bp : ~IsSet(b)
  BY DEF Init, IsSet
<1>2. TypeOK
  <2>1. breakpoints \in [Bp -> {<<>>} \union {<<x>> : x \in Word} \union (Word \X Word)]
    <3>1. \A b \in Bp : breakpoints[b] \in {<<>>}
      BY DEF Init
    <3> QED
      BY <3>1 DEF Init
  <2>2. text \in [Mem -> [Off -> Text]] /\ mem = text /\ Text \subseteq Word
    BY DEF Init, Word
  <2>3. mem \in [Mem -> [Off -> Word]]
    BY <2>2
  <2>4. rfpc \in Core /\ home \in [Bp -> Mem] /\ strayed \in BOOLEAN
    BY DEF Init, Mem
  <2> QED
    BY <2>1, <2>2, <2>3, <2>4 DEF TypeOK
<1>3. TextKept /\ CachedText /\ BreakpointsArmed
  BY <1>1 DEF Init, TextKept, CachedText, BreakpointsArmed
<1> QED
  BY <1>2, <1>3 DEF TableInv

LEMMA TypeStep == TypeOK /\ [Next]_vars => TypeOK'
<1> SUFFICES ASSUME TypeOK, [Next]_vars PROVE TypeOK'
  OBVIOUS
<1> USE DEF TypeOK
<1>1. \A a : Reached(a) \in Mem
  BY DEF Reached, Mem
<1>2. ASSUME NEW b \in Bp, set_breakpoint(b) PROVE TypeOK'
  <2> DEFINE m == Reached(b)
             old == IF b.ctm THEN <<mem[m][b.off]>> ELSE <<mem[m][b.off], mem[m][b.off + 1]>>
             new == IF b.ctm THEN <<Ebreak>> ELSE <<Ebreak, old[2]>>
  <2>1. b.ctm \in BOOLEAN /\ b.off \in Off /\ (~b.ctm => b.off + 1 \in Off)
    BY DEF Address, Off
  <2>2. old \in {<<x>> : x \in Word} \union (Word \X Word)
    BY <1>1, <2>1
  <2>3. \A i \in 1 .. Len(new) : new[i] \in Word
    BY <1>1, <2>1 DEF Word
  <2>4. mem' \in [Mem -> [Off -> Word]]
    <3>1. mem' = Put(m, b.off, new)
      BY <1>2 DEF set_breakpoint
    <3>2. \A i \in Off : i \in b.off .. b.off + Len(new) - 1 => i - b.off + 1 \in 1 .. Len(new)
      BY <2>1 DEF Off
    <3> HIDE DEF new
    <3> QED
      BY <1>1, <2>3, <3>1, <3>2 DEF Put
  <2>5. breakpoints' \in [Bp -> {<<>>} \union {<<x>> : x \in Word} \union (Word \X Word)]
    <3>1. breakpoints' = [breakpoints EXCEPT ![b] = old]
      BY <1>2 DEF set_breakpoint
    <3> HIDE DEF old
    <3> QED
      BY <2>2, <3>1
  <2>6. /\ home' \in [Bp -> Mem] /\ rfpc' \in Core /\ text' \in [Mem -> [Off -> Text]]
        /\ strayed' \in BOOLEAN
    BY <1>1, <1>2 DEF set_breakpoint
  <2> QED
    BY <2>4, <2>5, <2>6
<1>3. ASSUME NEW b \in Bp, clear_breakpoint(b) PROVE TypeOK'
  <2> DEFINE old == breakpoints[b]
  <2>1. b.off \in Off
    BY DEF Address
  <2>2. \A i \in 1 .. Len(old) : old[i] \in Word
    <3>1. breakpoints[b] \in {<<x>> : x \in Word} \union (Word \X Word)
      BY <1>3 DEF clear_breakpoint, IsSet
    <3>2. CASE breakpoints[b] \in {<<x>> : x \in Word}
      <4>1. PICK x \in Word : breakpoints[b] = <<x>>
        BY <3>2
      <4> QED
        BY <4>1
    <3>3. CASE breakpoints[b] \in Word \X Word
      <4>1. PICK x \in Word, y \in Word : breakpoints[b] = <<x, y>>
        BY <3>3
      <4> QED
        BY <4>1
    <3> QED
      BY <3>1, <3>2, <3>3
  <2>3. Len(old) \in Nat
    BY <1>3 DEF clear_breakpoint, IsSet
  <2>4. \A i \in Off : i \in b.off .. b.off + Len(old) - 1 => i - b.off + 1 \in 1 .. Len(old)
    BY <2>1, <2>3 DEF Off
  <2>5. mem' \in [Mem -> [Off -> Word]]
    <3>1. mem' = Put(Reached(b), b.off, old)
      BY <1>3 DEF clear_breakpoint
    <3> HIDE DEF old
    <3> QED
      BY <1>1, <2>2, <2>4, <3>1 DEF Put
  <2> QED
    BY <1>3, <2>5 DEF clear_breakpoint
<1>4. ASSUME NEW c \in Core, multicore_actions(c) PROVE TypeOK'
  BY <1>4 DEF multicore_actions
<1>5. ASSUME NEW w \in Write, NEW v \in Text, memory_write(w, v) PROVE TypeOK'
  <2> DEFINE s == Padded(w, v)
  <2>1. w.off \in Off /\ Len(s) = 2 /\ s[1] \in Word /\ s[2] \in Word
    BY DEF Padded, Word
  <2>2. \A i \in Off : i \in w.off .. w.off + Len(s) - 1 => i - w.off + 1 \in {1, 2}
    BY <2>1 DEF Off
  <2>3. mem' = Put(Reached(w), w.off, s)
    BY <1>5 DEF memory_write
  <2>4. mem' \in [Mem -> [Off -> Word]]
    <3> HIDE DEF s
    <3> QED
      BY <1>1, <2>1, <2>2, <2>3 DEF Put
  <2> QED
    BY <1>1, <1>5, <2>4 DEF memory_write
<1>6. CASE UNCHANGED vars
  BY <1>6 DEF vars
<1> QED
  BY <1>2, <1>3, <1>4, <1>5, <1>6 DEF Next

-----------------------------------------------------------------------------
(* The steps, for requests that keep clear of each other.                  *)

Inner == CachedText /\ BreakpointsArmed /\ TextKept

\* Two breakpoints in one memory have no word in common.
LEMMA Apart ==
  ASSUME TypeOK, Separate, NEW b \in Bp, NEW c \in Bp, b # c, Reached(b) = Reached(c)
  PROVE  b.ctm = c.ctm /\ Words(b) \cap Words(c) = {}
  BY DEF Separate, Address, Reached, TypeOK

LEMMA SetInner ==
  ASSUME TypeOK, Separate, Inner, NEW b \in Bp, set_breakpoint(b) PROVE Inner'
<1> DEFINE m == Reached(b)
<1>0. m \in Mem /\ Reached(b) = m /\ b.off \in Off /\ (~b.ctm => b.off + 1 \in Off) /\ ~IsSet(b)
  BY ReachedMem DEF set_breakpoint, Address, Off
<1>1. \A i \in Words(b), c \in Bp : IsSet(c) => ~(home[c] = m /\ c.off = i)
  BY <1>0, Apart DEF Inner, CachedText, Words
<1>2. \A i \in Words(b) : i \in Off /\ mem[m][i] = text[m][i]
  BY <1>0, <1>1 DEF Inner, TextKept, Words
<1>3. breakpoints' = [breakpoints EXCEPT ![b] = Original(b)]
  BY <1>0, <1>2 DEF set_breakpoint, Original, Words, Reached
<1>4. \A n \in Mem, i \in Off :
        mem'[n][i] = IF n = m /\ i = b.off THEN Ebreak ELSE mem[n][i]
  <2>1. CASE b.ctm
    <3>1. mem' = Put(m, b.off, <<Ebreak>>)
      BY <1>0, <2>1 DEF set_breakpoint
    <3> SUFFICES ASSUME NEW n \in Mem, NEW i \in Off
                 PROVE  mem'[n][i] = IF n = m /\ i = b.off THEN Ebreak ELSE mem[n][i]
      OBVIOUS
    <3> HIDE DEF m
    <3>2. mem'[n][i] = IF n = m /\ i \in b.off .. b.off + Len(<<Ebreak>>) - 1
                       THEN <<Ebreak>>[i - b.off + 1] ELSE mem[n][i]
      BY <1>0, <3>1 DEF Put, TypeOK
    <3> QED
      BY <1>0, <3>2 DEF Off
  <2>2. CASE ~b.ctm
    <3> DEFINE s == <<Ebreak, mem[m][b.off + 1]>>
    <3>1. mem' = Put(m, b.off, s)
      BY <1>0, <2>2 DEF set_breakpoint
    <3> SUFFICES ASSUME NEW n \in Mem, NEW i \in Off
                 PROVE  mem'[n][i] = IF n = m /\ i = b.off THEN Ebreak ELSE mem[n][i]
      OBVIOUS
    <3>2. Len(s) = 2 /\ s[1] = Ebreak /\ s[2] = mem[m][b.off + 1]
      OBVIOUS
    <3> HIDE DEF m, s
    <3>3. mem'[n][i] = IF n = m /\ i \in b.off .. b.off + Len(s) - 1
                       THEN s[i - b.off + 1] ELSE mem[n][i]
      BY <1>0, <3>1 DEF Put, TypeOK
    <3> QED
      BY <1>0, <2>2, <3>2, <3>3 DEF Off
  <2> QED
    BY <2>1, <2>2
<1>5. home' = [home EXCEPT ![b] = m] /\ UNCHANGED <<rfpc, text>>
  BY <1>0 DEF set_breakpoint
<1>6. \A c \in Bp : IsSet(c)' <=> IsSet(c) \/ c = b
  BY <1>3 DEF IsSet, TypeOK, Original
<1>7. CachedText'
  BY <1>3, <1>5, <1>6 DEF Inner, CachedText, TypeOK, Original, IsSet, Reached
<1>8. BreakpointsArmed'
  <2> SUFFICES ASSUME NEW c \in Bp, IsSet(c)' PROVE mem'[home'[c]][c.off] = Ebreak
    BY DEF BreakpointsArmed
  <2>1. c.off \in Off /\ home[c] \in Mem
    BY DEF Address, TypeOK
  <2>2. CASE c = b
    BY <1>0, <1>4, <1>5, <2>2 DEF TypeOK
  <2>3. CASE c # b
    BY <1>4, <1>5, <1>6, <2>1, <2>3 DEF Inner, BreakpointsArmed, TypeOK
  <2> QED
    BY <2>2, <2>3
<1>9. TextKept'
  <2> SUFFICES ASSUME NEW n \in Mem, NEW i \in Off,
                      \A c \in Bp : IsSet(c)' => ~(home'[c] = n /\ c.off = i)
               PROVE  mem'[n][i] = text'[n][i]
    BY DEF TextKept
  <2>1. ~(n = m /\ i = b.off)
    BY <1>5, <1>6 DEF TypeOK
  <2>2. \A c \in Bp : IsSet(c) => ~(home[c] = n /\ c.off = i)
    BY <1>0, <1>5, <1>6 DEF TypeOK
  <2> QED
    BY <1>4, <1>5, <2>1, <2>2 DEF Inner, TextKept
<1> QED
  BY <1>7, <1>8, <1>9 DEF Inner

LEMMA ClearInner ==
  ASSUME TypeOK, Separate, Inner, NEW b \in Bp, clear_breakpoint(b) PROVE Inner'
<1> DEFINE m == Reached(b)
<1>0. /\ m \in Mem /\ Reached(b) = m /\ b.off \in Off /\ (~b.ctm => b.off + 1 \in Off)
      /\ IsSet(b) /\ home[b] = m /\ breakpoints[b] = Original(b)
  BY ReachedMem DEF clear_breakpoint, Address, Off, Inner, CachedText
<1>1. \A i \in Words(b), c \in Bp : IsSet(c) /\ c # b => ~(home[c] = m /\ c.off = i)
  BY <1>0, Apart DEF Inner, CachedText, Words
<1>2. \A n \in Mem, i \in Off :
        mem'[n][i] = IF n = m /\ i \in Words(b) THEN text[m][i] ELSE mem[n][i]
  <2> DEFINE s == Original(b)
  <2> SUFFICES ASSUME NEW n \in Mem, NEW i \in Off
               PROVE  mem'[n][i] = IF n = m /\ i \in Words(b) THEN text[m][i] ELSE mem[n][i]
    OBVIOUS
  <2>1. mem' = Put(m, b.off, s)
    BY <1>0 DEF clear_breakpoint
  <2>2. mem'[n][i] = IF n = m /\ i \in b.off .. b.off + Len(s) - 1
                     THEN s[i - b.off + 1] ELSE mem[n][i]
    <3> HIDE DEF m, s
    <3> QED
      BY <1>0, <2>1 DEF Put, TypeOK
  <2>3. CASE b.ctm
    <3>1. Len(s) = 1 /\ s[1] = text[m][b.off] /\ Words(b) = {b.off}
      BY <2>3 DEF Original, Words, Reached
    <3> HIDE DEF m, s
    <3> QED
      BY <1>0, <2>2, <3>1 DEF Off
  <2>4. CASE ~b.ctm
    <3>1. /\ Len(s) = 2 /\ s[1] = text[m][b.off] /\ s[2] = text[m][b.off + 1]
          /\ Words(b) = {b.off, b.off + 1}
      BY <2>4 DEF Original, Words, Reached
    <3> HIDE DEF m, s
    <3> QED
      BY <1>0, <2>2, <3>1 DEF Off
  <2> QED
    BY <2>3, <2>4
<1>3. breakpoints' = [breakpoints EXCEPT ![b] = <<>>] /\ UNCHANGED <<rfpc, text, home>>
  BY DEF clear_breakpoint
<1>4. \A c \in Bp : IsSet(c)' <=> IsSet(c) /\ c # b
  BY <1>3 DEF IsSet, TypeOK
<1>5. CachedText'
  BY <1>3, <1>4 DEF Inner, CachedText, TypeOK, Original, Reached
<1>6. BreakpointsArmed'
  <2> SUFFICES ASSUME NEW c \in Bp, IsSet(c), c # b PROVE mem'[home[c]][c.off] = Ebreak
    BY <1>3, <1>4 DEF BreakpointsArmed
  <2>1. c.off \in Off /\ home[c] \in Mem /\ ~(home[c] = m /\ c.off \in Words(b))
    BY <1>1 DEF Address, TypeOK
  <2> QED
    BY <1>2, <2>1 DEF Inner, BreakpointsArmed
<1>7. TextKept'
  <2> SUFFICES ASSUME NEW n \in Mem, NEW i \in Off,
                      \A c \in Bp : IsSet(c) /\ c # b => ~(home[c] = n /\ c.off = i)
               PROVE  mem'[n][i] = text[n][i]
    BY <1>3, <1>4 DEF TextKept
  <2>1. CASE n = m /\ i \in Words(b)
    BY <1>2, <2>1
  <2>2. CASE ~(n = m /\ i \in Words(b))
    <3>1. \A c \in Bp : IsSet(c) => ~(home[c] = n /\ c.off = i)
      BY <1>0, <2>2 DEF Words
    <3> QED
      BY <1>2, <2>2, <3>1 DEF Inner, TextKept
  <2> QED
    BY <2>1, <2>2
<1> QED
  BY <1>5, <1>6, <1>7 DEF Inner

LEMMA WriteInner ==
  ASSUME TypeOK, Separate, Inner, NEW w \in Write, NEW v \in Text, memory_write(w, v)
  PROVE  Inner'
<1> DEFINE m == Reached(w)
           ws == {w.off, w.off + 1}
<1>0. m \in Mem /\ w.off \in Off /\ w.off + 1 \in Off /\ w.len = 2 /\ w.ctm \in BOOLEAN
  BY DEF Reached, Mem, TypeOK, Separate, Off
<1>1. \A n \in Mem, i \in Off :
        /\ mem'[n][i] = IF n = m /\ i \in ws THEN v ELSE mem[n][i]
        /\ text'[n][i] = IF n = m /\ i \in ws THEN v ELSE text[n][i]
  <2> SUFFICES ASSUME NEW n \in Mem, NEW i \in Off
               PROVE  /\ mem'[n][i] = IF n = m /\ i \in ws THEN v ELSE mem[n][i]
                      /\ text'[n][i] = IF n = m /\ i \in ws THEN v ELSE text[n][i]
    OBVIOUS
  <2> DEFINE s == Padded(w, v)
  <2>1. mem' = Put(m, w.off, s)
    BY DEF memory_write
  <2>2. Len(s) = 2 /\ s[1] = v /\ s[2] = v
    BY <1>0 DEF Padded
  <2>3. text' = [text EXCEPT ![m] = [j \in Off |-> IF j \in w.off .. w.off + w.len - 1
                                                   THEN v ELSE text[m][j]]]
    BY DEF memory_write
  <2> HIDE DEF m, s
  <2>4. mem'[n][i] = IF n = m /\ i \in w.off .. w.off + Len(s) - 1
                     THEN s[i - w.off + 1] ELSE mem[n][i]
    BY <1>0, <2>1 DEF Put, TypeOK
  <2>5. text'[n][i] = IF n = m /\ i \in w.off .. w.off + w.len - 1 THEN v ELSE text[n][i]
    BY <1>0, <2>3 DEF TypeOK
  <2> QED
    BY <1>0, <2>2, <2>4, <2>5 DEF Off
<1>2. UNCHANGED <<rfpc, breakpoints, home>>
  BY DEF memory_write
<1>3. ASSUME NEW b \in Bp, IsSet(b), NEW i \in Words(b) PROVE ~(home[b] = m /\ i \in ws)
  <2>1. home[b] = m => b.ctm = w.ctm
    BY <1>0, <1>3 DEF Inner, CachedText, Reached, TypeOK, Address
  <2> QED
    BY <1>3, <2>1 DEF Separate
<1>4. CachedText'
  <2> SUFFICES ASSUME NEW b \in Bp, IsSet(b) PROVE breakpoints[b] = Original(b)'
    BY <1>2 DEF Inner, CachedText, IsSet, Reached
  <2>1. home[b] = Reached(b) /\ breakpoints[b] = Original(b) /\ home[b] \in Mem
    BY DEF Inner, CachedText, TypeOK
  <2>2. \A i \in Words(b) : i \in Off /\ text'[home[b]][i] = text[home[b]][i]
    BY <1>1, <1>3, <2>1 DEF Words, Address, Off
  <2> QED
    BY <1>2, <2>1, <2>2 DEF Original, Words, Reached
<1>5. BreakpointsArmed'
  <2> SUFFICES ASSUME NEW b \in Bp, IsSet(b) PROVE mem'[home[b]][b.off] = Ebreak
    BY <1>2 DEF BreakpointsArmed, IsSet
  <2>1. b.off \in Off /\ home[b] \in Mem /\ b.off \in Words(b)
    BY DEF Address, TypeOK, Words
  <2> QED
    BY <1>1, <1>3, <2>1 DEF Inner, BreakpointsArmed
<1>6. TextKept'
  BY <1>1, <1>2 DEF Inner, TextKept, IsSet
<1> QED
  BY <1>4, <1>5, <1>6 DEF Inner

LEMMA StepTableInv == TableInv /\ [Next]_vars => TableInv'
<1> SUFFICES ASSUME TableInv, [Next]_vars PROVE TableInv'
  OBVIOUS
<1>1. TypeOK /\ TypeOK'
  BY TypeStep DEF TableInv
<1>2. ASSUME Separate, ~strayed' PROVE Inner'
  <2>0. ~strayed
    BY <1>1, <1>2 DEF Next, vars, set_breakpoint, clear_breakpoint, multicore_actions, memory_write, TypeOK
  <2>1. Inner
    BY <1>2, <2>0 DEF TableInv, Inner
  <2>2. CASE UNCHANGED vars
    BY <2>1, <2>2 DEF vars, Inner, CachedText, BreakpointsArmed, TextKept, Original, IsSet, Reached
  <2>3. ASSUME NEW c \in Core, multicore_actions(c) PROVE Inner'
    <3>1. c = rfpc \/ \A b \in Bp : IsSet(b) => b.ctm
      BY <1>2, <2>3 DEF multicore_actions
    <3>2. UNCHANGED <<breakpoints, mem, text, home>> /\ rfpc' = c
      BY <2>3 DEF multicore_actions
    <3>3. CachedText'
      BY <2>1, <3>1, <3>2 DEF Inner, CachedText, IsSet, Reached, Original
    <3> QED
      BY <2>1, <3>2, <3>3 DEF Inner, BreakpointsArmed, TextKept, IsSet
  <2> QED
    BY <1>1, <1>2, <2>1, <2>2, <2>3, SetInner, ClearInner, WriteInner DEF Next
<1> QED
  BY <1>1, <1>2 DEF TableInv, Inner, Separate

\* Every variable keeps its type.
THEOREM TableTypeCorrect == Spec => []TypeOK
<1>1. TableInv => TypeOK
  BY DEF TableInv
<1> QED
  BY <1>1, InitTableInv, StepTableInv, PTL DEF Spec

\* While requests keep clear of each other every breakpoint that is set is armed
\* and everything else in memory is what the client put there, so that clearing
\* breakpoints in any order gives the program back.
THEOREM PatchesAreExact == Spec => []MemoryIsPatchedText
<1>1. TableInv => MemoryIsPatchedText
  BY DEF TableInv, MemoryIsPatchedText
<1> QED
  BY <1>1, InitTableInv, StepTableInv, PTL DEF Spec

-----------------------------------------------------------------------------
(* The memory of a session                                                 *)

USE CtmAssumption

NoneSet == \A b \in Bp : ~IsSet(b)

Patched ==
  /\ \A b \in Bp : IsSet(b) => breakpoints[b] = <<text[CTM][b.off]>>
  /\ \A i \in Off : mem[CTM][i] = IF \E b \in Bp : IsSet(b) /\ b.off = i THEN Ebreak
                                  ELSE text[CTM][i]

\* What is cached is the program's word as long as the server that cached it lives, and
\* nothing is set while the user may edit or a new server starts: an edit under a
\* breakpoint, or a second server with a table of its own, would break Patched.
IInv == /\ mem \in [Mem -> [Off -> Word]]
        /\ text \in [Mem -> [Off -> Text]]
        /\ DOMAIN breakpoints = Bp
        /\ ~alive \/ mode \in {"prompt", "over", "restarted"} => NoneSet
        /\ alive /\ mode # "restarted" => Patched

Memories == <<breakpoints, mem, text>>

LEMMA InitIInv == SessionInit => IInv
<1> SUFFICES ASSUME SessionInit PROVE IInv
  OBVIOUS
<1>1. NoneSet /\ DOMAIN breakpoints = Bp
  BY DEF SessionInit, Init, NoneSet, IsSet
<1>2. mem \in [Mem -> [Off -> Word]] /\ text \in [Mem -> [Off -> Text]] /\ mem = text
  BY DEF SessionInit, Init, Mem, Word
<1> QED
  BY <1>1, <1>2 DEF IInv, Patched, NoneSet

\* Steps that leave table, memory and text alone, and do not open a prompt.
LEMMA SameMemories ==
  ASSUME IInv, UNCHANGED Memories, alive' = alive,
         mode' = mode \/ (mode' = "over" /\ mode = "prompt")
           \/ (mode' \in {"insert", "wait", "remove"} /\ mode # "restarted")
           \/ (mode' = "prompt" /\ NoneSet /\ mode # "restarted")
  PROVE  IInv'
<1>1. NoneSet' <=> NoneSet
  BY DEF Memories, NoneSet, IsSet
<1>2. Patched' <=> Patched
  BY DEF Memories, Patched, IsSet
<1> QED
  BY <1>1, <1>2 DEF IInv, Memories

LEMMA DieStep == ASSUME IInv, Die PROVE IInv'
<1>1. NoneSet' /\ DOMAIN breakpoints' = Bp
  BY DEF Die, NoneSet, IsSet
<1> QED
  BY <1>1 DEF Die, IInv

LEMMA ServeStep == ASSUME IInv, Serve PROVE IInv'
<1>1. CASE cont
  BY <1>1, SameMemories DEF cont, multicore_actions, client, Memories
<1>2. CASE halted
  BY <1>2, SameMemories DEF halted, vars, client, Memories
<1>3. CASE single_step
  BY <1>3, SameMemories DEF single_step, multicore_actions, client, Memories
<1>4. CASE halt
  BY <1>4, SameMemories DEF halt, multicore_actions, client, Memories
<1>5. CASE timeout
  BY <1>5, DieStep DEF timeout
<1> QED
  BY <1>1, <1>2, <1>3, <1>4, <1>5 DEF Serve

\* What one word, and a pair of equal words, written to CTM leave there.
LEMMA PutOne ==
  ASSUME IInv, NEW o \in Off, NEW v \in Word, NEW i \in Off
  PROVE  /\ Put(CTM, o, <<v>>) \in [Mem -> [Off -> Word]]
         /\ Put(CTM, o, <<v>>)[CTM][i] = IF i = o THEN v ELSE mem[CTM][i]
<1>1. CTM \in Mem /\ o \in Nat /\ o .. o + Len(<<v>>) - 1 = {o}
  BY DEF Mem, Off
<1> QED
  BY <1>1 DEF Put, IInv

LEMMA PutTwo ==
  ASSUME IInv, NEW o \in Off, NEW v \in Word, NEW i \in Off
  PROVE  /\ Put(CTM, o, <<v, v>>) \in [Mem -> [Off -> Word]]
         /\ Put(CTM, o, <<v, v>>)[CTM][i] = IF i \in {o, o + 1} THEN v ELSE mem[CTM][i]
<1>1. CTM \in Mem /\ o \in Nat /\ o .. o + Len(<<v, v>>) - 1 = {o, o + 1}
  BY DEF Mem, Off
<1>2. o - o + 1 = 1 /\ o + 1 - o + 1 = 2
  BY <1>1
<1> QED
  BY <1>1, <1>2 DEF Put, IInv

LEMMA InsertStep == ASSUME IInv, NEW b \in Bp, Insert(b) PROVE IInv'
<1>1. b.ctm /\ b.off \in Off /\ ~IsSet(b) /\ alive /\ mode = "insert" /\ Patched
  BY DEF Insert, set_breakpoint, Ready, Address, IInv
<1>2. /\ breakpoints' = [breakpoints EXCEPT ![b] = <<mem[CTM][b.off]>>]
      /\ mem' = Put(CTM, b.off, <<Ebreak>>)
      /\ text' = text /\ alive' /\ mode' = "insert"
  BY <1>1 DEF Insert, set_breakpoint, Reached, server, client
<1>3. \A c \in Bp : IsSet(c)' <=> IsSet(c) \/ c = b
  BY <1>2 DEF IsSet, IInv
<1>4. mem[CTM][b.off] = text[CTM][b.off]
  BY <1>1 DEF Patched
<1>5. \A i \in Off : mem'[CTM][i] = IF i = b.off THEN Ebreak ELSE mem[CTM][i]
  BY <1>1, <1>2, PutOne DEF Word
<1>6. Patched'
  BY <1>1, <1>2, <1>3, <1>4, <1>5 DEF Patched, IInv
<1>7. mem' \in [Mem -> [Off -> Word]]
  BY <1>1, <1>2, PutOne DEF Word
<1> QED
  BY <1>2, <1>6, <1>7 DEF IInv

LEMMA RemoveStep == ASSUME IInv, NEW b \in Bp, Remove(b) PROVE IInv'
<1>1. b.ctm /\ b.off \in Off /\ IsSet(b) /\ alive /\ mode = "remove" /\ Patched
  BY DEF Remove, clear_breakpoint, Ready, Address, IInv
<1>2. /\ breakpoints' = [breakpoints EXCEPT ![b] = <<>>]
      /\ mem' = Put(CTM, b.off, <<text[CTM][b.off]>>)
      /\ text' = text /\ alive' /\ mode' = "remove"
  BY <1>1 DEF Remove, clear_breakpoint, Reached, server, client, Patched
<1>3. \A c \in Bp : IsSet(c)' <=> IsSet(c) /\ c # b
  BY <1>2 DEF IsSet, IInv
<1>4. text[CTM][b.off] \in Word
  BY <1>1 DEF IInv, Mem, Word
<1>5. \A i \in Off : mem'[CTM][i] = IF i = b.off THEN text[CTM][b.off] ELSE mem[CTM][i]
  BY <1>1, <1>2, <1>4, PutOne
<1>6. Patched'
  BY <1>1, <1>2, <1>3, <1>5 DEF Patched, IInv
<1>7. mem' \in [Mem -> [Off -> Word]]
  BY <1>1, <1>2, <1>4, PutOne
<1> QED
  BY <1>2, <1>6, <1>7 DEF IInv

LEMMA EditStep == ASSUME IInv, NEW w \in Write, NEW v \in Text, Edit(w, v) PROVE IInv'
<1>1. w.ctm /\ w.len = 2 /\ w.off \in Off /\ alive /\ mode = "prompt" /\ Patched /\ NoneSet
  BY DEF Edit, Ready, IInv
<1>2. /\ mem' = Put(CTM, w.off, <<v, v>>)
      /\ text' = [text EXCEPT ![CTM] = [i \in Off |-> IF i \in w.off .. w.off + w.len - 1
                                                      THEN v ELSE text[CTM][i]]]
      /\ breakpoints' = breakpoints /\ alive' /\ mode' = "prompt"
  BY <1>1 DEF Edit, memory_write, Padded, Reached, server, client
<1>3. NoneSet'
  BY <1>1, <1>2 DEF NoneSet, IsSet
<1>4. w.off \in Nat /\ w.off .. w.off + w.len - 1 = {w.off, w.off + 1}
  BY <1>1 DEF Off
<1>5. /\ text' \in [Mem -> [Off -> Text]]
      /\ \A i \in Off : text'[CTM][i] = IF i \in {w.off, w.off + 1} THEN v ELSE text[CTM][i]
  BY <1>2, <1>4 DEF IInv, Mem
<1>6. v \in Word
  BY DEF Word
<1>7. \A i \in Off : mem'[CTM][i] = IF i \in {w.off, w.off + 1} THEN v ELSE mem[CTM][i]
  BY <1>1, <1>2, <1>6, PutTwo
<1>8. Patched'
  BY <1>1, <1>3, <1>5, <1>7 DEF Patched, NoneSet
<1>9. mem' \in [Mem -> [Off -> Word]]
  BY <1>1, <1>2, <1>6, PutTwo
<1> QED
  BY <1>2, <1>3, <1>5, <1>8, <1>9 DEF IInv

LEMMA RestartStep == ASSUME IInv, Restart PROVE IInv'
<1>1. NoneSet' /\ mode' = "restarted"
  BY DEF Restart, To, IInv, NoneSet, IsSet
<1> QED
  BY <1>1 DEF Restart, IInv

LEMMA LoadStep == ASSUME Reloads, IInv, Load PROVE IInv'
<1>1. NoneSet' /\ mode' = "prompt"
  BY DEF Load, To, IInv, NoneSet, IsSet
<1>2. mem' = [mem EXCEPT ![CTM] = text[CTM]] /\ text' = text /\ breakpoints' = breakpoints
  BY DEF Load
<1>3. mem' \in [Mem -> [Off -> Word]] /\ mem'[CTM] = text[CTM]
  BY <1>2 DEF IInv, Mem, Word
<1> QED
  BY <1>1, <1>2, <1>3 DEF IInv, Patched, NoneSet

LEMMA ReactStep == ASSUME Reloads, IInv, React PROVE IInv'
<1>1. CASE SteppedOver
  BY <1>1, SameMemories DEF SteppedOver, To, vars, server, Memories, Ready, IInv
<1>2. CASE Go
  BY <1>2, SameMemories DEF Go, Send, To, vars, Memories
<1>3. CASE Answered
  BY <1>3, SameMemories DEF Answered, To, vars, server, Memories
<1>4. CASE Prompt
  BY <1>4, SameMemories DEF Prompt, To, vars, server, Memories, NoneSet
<1>5. CASE HaltAll
  BY <1>5, SameMemories DEF HaltAll, Send, To, vars, Memories
<1>6. ASSUME NEW k \in Core, StepOver(k) PROVE IInv'
  BY <1>6, SameMemories DEF StepOver, vars, Memories
<1> QED
  BY <1>1, <1>2, <1>3, <1>4, <1>5, <1>6, RestartStep, LoadStep, InsertStep, RemoveStep DEF React

LEMMA UserStep == ASSUME IInv, User PROVE IInv'
<1>1. CASE shutdown
  BY <1>1, DieStep DEF shutdown
<1>2. ASSUME NEW b \in Bp, Toggle(b) PROVE IInv'
  BY <1>2, SameMemories DEF Toggle, vars, server, Memories
<1>3. ASSUME NEW p \in Plan, Resume(p) PROVE IInv'
  BY <1>3, SameMemories DEF Resume, vars, server, Memories
<1> QED
  BY <1>1, <1>2, <1>3, EditStep DEF User

LEMMA NextIInv == ASSUME Reloads PROVE IInv /\ [SessionNext]_dsvars => IInv'
<1> SUFFICES ASSUME IInv, [SessionNext]_dsvars PROVE IInv'
  OBVIOUS
<1>1. ASSUME NEW k \in Core, Execute(k) \/ Break(k) PROVE IInv'
  BY <1>1, SameMemories DEF Execute, Break, vars, server, client, Memories
<1>2. CASE UNCHANGED dsvars
  BY <1>2, SameMemories DEF dsvars, vars, server, client, Memories
<1> QED
  BY <1>1, <1>2, ServeStep, ReactStep, UserStep DEF SessionNext

\* For every program, set of breakpoints, sequence of requests and death of a server:
\* while the client is served, memory is its program with the breakpoints of the
\* server's table in it, and at the prompt the program itself.
THEOREM PromptMemoryHolds == ASSUME Reloads PROVE SessionSpec => []PromptMemory
<1>1. IInv => PromptMemory
  BY DEF IInv, PromptMemory, Patched
<1> QED
  BY <1>1, InitIInv, NextIInv, PTL DEF SessionSpec

-----------------------------------------------------------------------------
(* What client and server are about                                        *)

HartType == [Core -> [pc : Off, running : BOOLEAN, trap : BOOLEAN]]

\* The packet the server handles fits what the client is about: in "wait" it is what is
\* left of the plan, and a continue is polled for only there.
Control ==
  /\ SessionTypeOK
  /\ plan \in Plan \union {<<>>}
  /\ todo # <<>> => alive /\ mode \in {"over", "wait", "restarted"}
  /\ polling => alive /\ mode = "wait" /\ todo # <<>> /\ todo[1].action = "c"
  /\ mode = "over" => \A j \in DOMAIN todo : todo[j].action = "s"
  /\ mode = "restarted" => \A j \in DOMAIN todo : todo[j].action = "t"
  /\ mode = "wait" => /\ Len(todo) <= Len(plan)
                      /\ \A j \in DOMAIN todo : todo[j] = plan[Len(plan) - Len(todo) + j]

LEMMA InitControl == SessionInit => Control
<1> SUFFICES ASSUME SessionInit PROVE Control
  OBVIOUS
<1>1. TypeOK
  BY InitTableInv DEF SessionInit, TableInv
<1>2. hart \in HartType
  BY DEF SessionInit, Off, HartType
<1> QED
  <2>1. plan = <<>> /\ todo = <<>> /\ <<>> \in Seq(Action)
    BY DEF SessionInit
  <2>2. SessionTypeOK
    BY <1>1, <1>2, <2>1 DEF SessionInit, SessionTypeOK, HartType
  <2> QED
    BY <2>1, <2>2 DEF SessionInit, Control

LEMMA HartIsTyped ==
  ASSUME Control PROVE hart \in HartType
  BY DEF Control, SessionTypeOK, HartType

LEMMA PlanActions ==
  ASSUME Control, NEW i \in DOMAIN plan
  PROVE  plan[i] \in Action /\ plan[i].action \in {"c", "s"} /\ plan[i].core \in Core
<1>1. plan \in Plan /\ plan \in Seq(Action)
  BY DEF Control, SessionTypeOK
<1>2. plan[i] \in Action /\ plan[i].action # "t"
  BY <1>1, PlanAssumption
<1> QED
  BY <1>2 DEF Action

LEMMA DieControl == ASSUME Control, Die PROVE Control'
<1>1. TypeOK'
  BY DEF Die, Control, SessionTypeOK, TypeOK
<1>2. todo' = <<>> /\ todo' \in Seq(Action) /\ DOMAIN todo' = {} /\ Len(todo') = 0
  BY DEF Die
<1>3. plan' = plan /\ Len(plan) \in Nat
  BY DEF Die, client, Control, SessionTypeOK
<1>4. SessionTypeOK'
  BY <1>1, <1>2 DEF Die, Control, SessionTypeOK, client
<1> QED
  BY <1>2, <1>3, <1>4 DEF Die, Control, client

\* The server carries out the first action of its packet.
LEMMA Proceeds ==
  ASSUME Control, TypeOK', alive, todo # <<>>, todo' = Tail(todo), ~polling', polling' \in BOOLEAN,
         UNCHANGED <<alive, client>>,
         hart' \in HartType
  PROVE  Control'
<1>1. /\ todo' \in Seq(Action) /\ Len(todo) \in Nat /\ Len(todo') = Len(todo) - 1
      /\ Len(todo) >= 1 /\ DOMAIN todo = 1 .. Len(todo) /\ DOMAIN todo' = 1 .. Len(todo')
      /\ \A j \in 1 .. Len(todo') : todo'[j] = todo[j + 1]
  BY DEF Control, SessionTypeOK, HartType
<1>2. plan \in Seq(Action) /\ Len(plan) \in Nat
  BY DEF Control, SessionTypeOK, HartType
<1>3. \A j \in DOMAIN todo' : j + 1 \in DOMAIN todo
  BY <1>1
<1>4. mode = "wait" => \A j \in DOMAIN todo' : todo'[j] = plan[Len(plan) - Len(todo') + j]
  <2> SUFFICES ASSUME mode = "wait", NEW j \in DOMAIN todo'
               PROVE  todo'[j] = plan[Len(plan) - Len(todo') + j]
    OBVIOUS
  <2>1. todo'[j] = plan[Len(plan) - Len(todo) + (j + 1)]
    BY <1>1, <1>3 DEF Control
  <2>2. Len(plan) - Len(todo) + (j + 1) = Len(plan) - Len(todo') + j
    BY <1>1, <1>2
  <2> QED
    BY <2>1, <2>2
<1>5. mode = "wait" => Len(todo') <= Len(plan)
  BY <1>1, <1>2 DEF Control
<1>6. /\ mode = "over" => \A j \in DOMAIN todo' : todo'[j].action = "s"
      /\ mode = "restarted" => \A j \in DOMAIN todo' : todo'[j].action = "t"
  BY <1>1, <1>3 DEF Control
<1>7. mode' = mode /\ plan' = plan /\ over' = over /\ wanted' = wanted /\ alive' = alive
  BY DEF client
<1>8. SessionTypeOK'
  BY <1>1, <1>7 DEF Control, SessionTypeOK, HartType
<1>9. todo' # <<>> => alive' /\ mode' \in {"over", "wait", "restarted"}
  BY <1>7 DEF Control
<1> QED
  BY <1>4, <1>5, <1>6, <1>7, <1>8, <1>9 DEF Control

LEMMA CurrentIsCore ==
  ASSUME Control, todo # <<>>
  PROVE  Current = todo[1].core /\ Current \in Core /\ 1 \in DOMAIN todo
<1>1. todo \in Seq(Action)
  BY DEF Control, SessionTypeOK
<1>2. Head(todo) = todo[1] /\ todo[1] \in Action /\ 1 \in DOMAIN todo
  BY <1>1
<1> QED
  BY <1>2 DEF Current, Action

LEMMA FollowsInOff ==
  ASSUME Control, NEW k \in Core PROVE Follows(k) \in Off
  BY DEF Control, SessionTypeOK, Follows, Off

LEMMA ServeControl == ASSUME Control, Serve PROVE Control'
<1> USE CurrentIsCore
<1>1. CASE cont
  <2>1. TypeOK' /\ mode = "wait" /\ todo[1].action = "c"
    <3>1. Current \in Core /\ multicore_actions(Current) /\ TypeOK /\ todo[1].action = "c"
      BY <1>1 DEF cont, Handles, Control, SessionTypeOK, HartType
    <3>2. mode = "wait"
      BY <1>1, <3>1 DEF cont, Handles, Control
    <3> QED
      BY <3>1, <3>2, TypeStep DEF Next
  <2>2. hart' \in HartType
    BY <1>1, HartIsTyped DEF cont, HartType
  <2> QED
    BY <1>1, <2>1, <2>2 DEF cont, Handles, Control, SessionTypeOK, client
<1>2. CASE halted
  <2>1. TypeOK' /\ todo # <<>>
    BY <1>2 DEF halted, vars, Control, SessionTypeOK, TypeOK
  <2>2. hart' \in HartType
    BY <1>2, HartIsTyped DEF halted, HartType
  <2> QED
    BY <1>2, <2>1, <2>2, Proceeds DEF halted
<1>3. CASE single_step
  <2>1. TypeOK'
    <3>1. Current \in Core /\ multicore_actions(Current) /\ TypeOK
      BY <1>3 DEF single_step, Handles, Control, SessionTypeOK, HartType
    <3> QED
      BY <3>1, TypeStep DEF Next
  <2>2. Current \in Core /\ Follows(Current) \in Off /\ hart \in HartType
    BY <1>3, FollowsInOff, HartIsTyped DEF single_step, Handles
  <2>3. hart' = [hart EXCEPT ![Current].pc = Follows(Current)]
    BY <1>3 DEF single_step
  <2>4. hart' \in HartType
    BY <2>2, <2>3 DEF HartType
  <2> QED
    BY <1>3, <2>1, <2>4, Proceeds DEF single_step, Handles, Control, SessionTypeOK
<1>4. CASE halt
  <2>1. TypeOK'
    <3>1. Current \in Core /\ multicore_actions(Current) /\ TypeOK
      BY <1>4 DEF halt, Handles, Control, SessionTypeOK, HartType
    <3> QED
      BY <3>1, TypeStep DEF Next
  <2>2. hart' \in HartType
    BY <1>4, HartIsTyped DEF halt, HartType
  <2> QED
    BY <1>4, <2>1, <2>2, Proceeds DEF halt, Handles, Control, SessionTypeOK
<1>5. CASE timeout
  BY <1>5, DieControl DEF timeout
<1> QED
  BY <1>1, <1>2, <1>3, <1>4, <1>5 DEF Serve

LEMMA ReactControl == ASSUME Control, React PROVE Control'
<1>0. UNCHANGED vars => TypeOK'
  BY DEF Control, SessionTypeOK, TypeOK, vars
<1>1. CASE SteppedOver
  BY <1>0, <1>1 DEF SteppedOver, To, Ready, server, Control, SessionTypeOK, HartType
<1>2. CASE Go
  <2>1. todo' = plan /\ plan' = plan /\ plan \in Seq(Action) /\ Len(plan) \in Nat
    BY <1>2 DEF Go, Send, To, Control, SessionTypeOK, HartType
  <2>2. \A j \in DOMAIN plan : Len(plan) - Len(plan) + j = j
    BY <2>1
  <2> QED
    BY <1>0, <1>2, <2>1, <2>2 DEF Go, Send, To, Ready, Control, SessionTypeOK, HartType
<1>3. CASE Answered
  BY <1>0, <1>3 DEF Answered, To, Ready, server, Control, SessionTypeOK, HartType
<1>4. CASE Prompt
  BY <1>0, <1>4 DEF Prompt, To, Ready, server, Control, SessionTypeOK, HartType
<1>5. CASE Restart
  <2>1. TypeOK'
    BY <1>5 DEF Restart, Control, SessionTypeOK, TypeOK
  <2> QED
    BY <1>5, <2>1 DEF Restart, To, Control, SessionTypeOK, HartType
<1>6. CASE HaltAll
  <2>1. PICK k \in Core : Send(<<[action |-> "t", core |-> k]>>, "restarted")
    BY <1>6 DEF HaltAll
  <2>2. [action |-> "t", core |-> k] \in Action
    BY DEF Action
  <2>3. todo' \in Seq(Action) /\ DOMAIN todo' = {1} /\ todo'[1].action = "t"
    BY <2>1, <2>2 DEF Send
  <2> QED
    BY <1>0, <1>6, <2>1, <2>3 DEF HaltAll, Send, To, Ready, Control, SessionTypeOK, HartType
<1>7. CASE Load
  <2>1. TypeOK'
    BY <1>7 DEF Load, Control, SessionTypeOK, TypeOK, Mem, Word
  <2>2. hart' \in HartType
    BY <1>7, HartIsTyped DEF Load, HartType, Off
  <2> QED
    BY <1>7, <2>1, <2>2 DEF Load, To, Ready, server, Control, SessionTypeOK, HartType
<1>8. ASSUME NEW k \in Core, StepOver(k) PROVE Control'
  <2>1. /\ todo' = <<[action |-> "s", core |-> k]>> /\ [action |-> "s", core |-> k] \in Action
        /\ over' \subseteq Core
    BY <1>8 DEF StepOver, Action, Control, SessionTypeOK, HartType
  <2>2. todo' \in Seq(Action) /\ DOMAIN todo' = {1} /\ todo'[1].action = "s"
    BY <2>1
  <2> QED
    BY <1>0, <1>8, <2>1, <2>2 DEF StepOver, Ready, Control, SessionTypeOK, HartType
<1>9. ASSUME NEW b \in Bp, Insert(b) \/ Remove(b) PROVE Control'
  <2>1. TypeOK'
    BY <1>9, TypeStep DEF Insert, Remove, Next, Control, SessionTypeOK, HartType
  <2> QED
    BY <1>9, <2>1 DEF Insert, Remove, server, client, Control, SessionTypeOK, HartType
<1> QED
  BY <1>1, <1>2, <1>3, <1>4, <1>5, <1>6, <1>7, <1>8, <1>9 DEF React

LEMMA UserControl == ASSUME Control, User PROVE Control'
<1>0. UNCHANGED vars => TypeOK'
  BY DEF Control, SessionTypeOK, TypeOK, vars
<1>1. CASE shutdown
  BY <1>1, DieControl DEF shutdown
<1>2. ASSUME NEW b \in Bp, Toggle(b) PROVE Control'
  BY <1>0, <1>2 DEF Toggle, server, Control, SessionTypeOK, HartType
<1>3. ASSUME NEW w \in Write, NEW v \in Text, Edit(w, v) PROVE Control'
  <2>1. TypeOK'
    BY <1>3, TypeStep DEF Edit, Next, Control, SessionTypeOK, HartType
  <2> QED
    BY <1>3, <2>1 DEF Edit, server, client, Control, SessionTypeOK, HartType
<1>4. ASSUME NEW p \in Plan, Resume(p) PROVE Control'
  <2>1. plan' \in {p, <<>>} /\ p \in Seq(Action) /\ <<>> \in Seq(Action)
    BY <1>4, PlanAssumption DEF Resume
  <2>2. over' \subseteq Core
    <3>1. \A i \in DOMAIN p : p[i] \in Action
      BY <2>1
    <3>2. \A i \in DOMAIN p : p[i].core \in Core
      BY <3>1 DEF Action
    <3> QED
      BY <1>4, <3>2 DEF Resume
  <2> QED
    BY <1>0, <1>4, <2>1, <2>2 DEF Resume, Ready, server, Control, SessionTypeOK, HartType
<1> QED
  BY <1>1, <1>2, <1>3, <1>4 DEF User

LEMMA NextControl == Control /\ [SessionNext]_dsvars => Control'
<1> SUFFICES ASSUME Control, [SessionNext]_dsvars PROVE Control'
  OBVIOUS
<1>0. UNCHANGED vars => TypeOK'
  BY DEF Control, SessionTypeOK, TypeOK, vars
<1>1. ASSUME NEW k \in Core, Execute(k) PROVE Control'
  <2>1. hart' \in HartType
    BY <1>1, FollowsInOff, HartIsTyped DEF Execute, HartType
  <2> QED
    BY <1>0, <1>1, <2>1 DEF Execute, server, client, Control, SessionTypeOK, HartType
<1>2. ASSUME NEW k \in Core, Break(k) PROVE Control'
  <2>1. hart' \in HartType
    BY <1>2, HartIsTyped DEF Break, HartType
  <2> QED
    BY <1>0, <1>2, <2>1 DEF Break, server, client, Control, SessionTypeOK, HartType
<1>3. CASE UNCHANGED dsvars
  BY <1>0, <1>3 DEF dsvars, server, client, Control, SessionTypeOK, HartType
<1> QED
  BY <1>1, <1>2, <1>3, ServeControl, ReactControl, UserControl DEF SessionNext

-----------------------------------------------------------------------------
(* Where the harts stand                                                   *)

Done(i) == i <= Len(plan) - Len(todo)

\* Only the hart that is polled for runs, and ebreak halts it; a hart is stepped only
\* where no breakpoint is, and the continues that are done have ended on one.
Stands ==
  /\ alive /\ mode # "restarted" =>
       /\ \A b \in Bp : IsSet(b) => b \in wanted
       /\ \A k \in Core : hart[k].running => polling /\ k = todo[1].core /\ hart[k].trap
  /\ alive /\ mode \in {"over", "insert"} =>
       \A i \in DOMAIN plan : plan[i].action = "s" => ~OnBreakpoint(plan[i].core)
  /\ alive /\ mode = "over" =>
       \A i \in DOMAIN plan : plan[i].action = "s" =>
         /\ plan[i].core \notin over
         /\ \A j \in DOMAIN todo : todo[j].core # plan[i].core
  /\ alive /\ mode = "wait" =>
       /\ \A i \in DOMAIN plan : /\ Done(i) /\ plan[i].action = "c" => OnBreakpoint(plan[i].core)
                                 /\ ~Done(i) /\ plan[i].action = "s" => ~OnBreakpoint(plan[i].core)
       /\ polling /\ ~hart[todo[1].core].running => OnBreakpoint(todo[1].core)
  /\ mode = "remove" =>
       /\ \A k \in Core : ~hart[k].running
       /\ \A i \in DOMAIN plan : plan[i].action = "c" => OnBreakpoint(plan[i].core)

LEMMA InitStands == SessionInit => Stands
  BY DEF SessionInit, Init, IsSet, Stands

\* The action of the plan that the server is at, and no other, is about the current core.
LEMMA Place ==
  ASSUME Control, mode = "wait", todo # <<>>
  PROVE  \E n \in DOMAIN plan :
           /\ n = Len(plan) - Len(todo) + 1 /\ plan[n] = todo[1]
           /\ \A i \in DOMAIN plan : plan[i].core = todo[1].core => i = n
           /\ \A i \in DOMAIN plan : Done(i) <=> i < n
<1>1. /\ todo \in Seq(Action) /\ plan \in Seq(Action) /\ Len(todo) <= Len(plan)
      /\ \A j \in DOMAIN todo : todo[j] = plan[Len(plan) - Len(todo) + j]
  BY DEF Control, SessionTypeOK
<1>2. /\ Len(todo) \in Nat /\ Len(plan) \in Nat /\ Len(todo) >= 1
      /\ DOMAIN todo = 1 .. Len(todo) /\ DOMAIN plan = 1 .. Len(plan)
  BY <1>1
<1> DEFINE n == Len(plan) - Len(todo) + 1
<1>3. n \in DOMAIN plan /\ 1 \in DOMAIN todo
  BY <1>1, <1>2
<1>4. plan[n] = todo[1]
  BY <1>1, <1>3
<1>5. plan \in Plan
  BY <1>3 DEF Control
<1>6. \A i \in DOMAIN plan : plan[i].core = todo[1].core => i = n
  BY <1>3, <1>4, <1>5, PlanAssumption
<1>7. \A i \in DOMAIN plan : Done(i) <=> i < n
  BY <1>1, <1>2 DEF Done
<1> QED
  BY <1>3, <1>4, <1>6, <1>7

\* What a hart fetches from patched memory.
LEMMA FetchedWord ==
  ASSUME Control, IInv, alive, mode # "restarted", NEW k \in Core
  PROVE  /\ Fetched(k) = Ebreak <=> \E b \in Bp : IsSet(b) /\ b.off = hart[k].pc
         /\ Fetched(k) # Ebreak => Fetched(k) = text[CTM][hart[k].pc]
<1>1. hart[k].pc \in Off
  BY HartIsTyped DEF HartType
<1>2. text[CTM][hart[k].pc] # Ebreak
  BY <1>1 DEF IInv, Mem
<1> QED
  BY <1>1, <1>2 DEF IInv, Patched, Fetched

LEMMA SameBreakpoint ==
  ASSUME NEW k, hart'[k].pc = hart[k].pc, wanted' = wanted
  PROVE  OnBreakpoint(k)' <=> OnBreakpoint(k)
  BY DEF OnBreakpoint

LEMMA ExecuteStands ==
  ASSUME Control, IInv, Stands, NEW k \in Core, Execute(k) PROVE Stands'
<1>1. /\ UNCHANGED <<breakpoints, alive, todo, polling, mode, wanted, over, plan>>
      /\ hart[k].running /\ (Fetched(k) = Ebreak => ~hart[k].trap)
      /\ hart' = [hart EXCEPT ![k].pc = Follows(k)]
  BY DEF Execute, vars, server, client
<1>2. /\ \A j \in Core : hart'[j].running = hart[j].running /\ hart'[j].trap = hart[j].trap
      /\ \A j \in Core : j # k => hart'[j].pc = hart[j].pc
  BY <1>1, HartIsTyped DEF HartType
<1>3. \A j \in Core : j # k => (OnBreakpoint(j)' <=> OnBreakpoint(j))
  BY <1>1, <1>2, SameBreakpoint
<1>4. CASE alive /\ mode # "restarted"
  <2>1. polling /\ k = todo[1].core /\ mode = "wait" /\ todo # <<>> /\ todo[1].action = "c"
    BY <1>1, <1>4 DEF Stands, Control
  <2>2. PICK n \in DOMAIN plan :
           /\ plan[n] = todo[1]
           /\ \A i \in DOMAIN plan : plan[i].core = todo[1].core => i = n
           /\ \A i \in DOMAIN plan : Done(i) <=> i < n
    BY <2>1, Place
  <2>3. \A i \in DOMAIN plan :
          /\ Done(i) /\ plan[i].action = "c" => plan[i].core # k
          /\ plan[i].action = "s" => plan[i].core # k
    <3>1. n \in Nat
      BY DEF Control, SessionTypeOK
    <3> QED
      BY <2>1, <2>2, <3>1
  <2>4. \A i \in DOMAIN plan : plan[i].core \in Core
    BY PlanActions
  <2>5. \A i : Done(i)' <=> Done(i)
    BY <1>1 DEF Done
  <2> QED
    BY <1>1, <1>2, <1>3, <1>4, <2>1, <2>3, <2>4, <2>5 DEF Stands, IsSet
<1>5. CASE ~(alive /\ mode # "restarted")
  BY <1>1, <1>5 DEF Stands
<1> QED
  BY <1>4, <1>5

LEMMA BreakStands ==
  ASSUME Control, IInv, Stands, NEW k \in Core, Break(k) PROVE Stands'
<1>1. /\ UNCHANGED <<breakpoints, alive, todo, polling, mode, wanted, over, plan>>
      /\ hart[k].running /\ Fetched(k) = Ebreak
      /\ hart' = [hart EXCEPT ![k].running = FALSE]
  BY DEF Break, vars, server, client
<1>2. /\ \A j \in Core : hart'[j].pc = hart[j].pc /\ hart'[j].trap = hart[j].trap
      /\ \A j \in Core : hart'[j].running => hart[j].running
      /\ \A j \in Core : j # k => hart'[j].running = hart[j].running
  BY <1>1, HartIsTyped DEF HartType
<1>3. \A j \in Core : OnBreakpoint(j)' <=> OnBreakpoint(j)
  BY <1>1, <1>2, SameBreakpoint
<1>4. \A i \in DOMAIN plan : plan[i].core \in Core
  BY PlanActions
<1>5. \A i : Done(i)' <=> Done(i)
  BY <1>1 DEF Done
<1>6. alive /\ mode # "restarted" => OnBreakpoint(k) /\ k = todo[1].core
  BY <1>1, FetchedWord DEF Stands, OnBreakpoint
<1> QED
  BY <1>1, <1>2, <1>3, <1>4, <1>5, <1>6 DEF Stands, IsSet

LEMMA DieStands == ASSUME Control, Stands, Die PROVE Stands'
<1>1. UNCHANGED <<hart, mode, wanted, over, plan>> /\ ~alive'
  BY DEF Die, client
<1>2. \A k : OnBreakpoint(k)' <=> OnBreakpoint(k)
  BY <1>1 DEF OnBreakpoint
<1> QED
  BY <1>1, <1>2 DEF Stands

\* The server goes on to the next action of its packet.
LEMMA Advances ==
  ASSUME Control, Control', mode = "wait", mode' = mode, plan' = plan, todo # <<>>,
         todo' = Tail(todo), NEW n \in DOMAIN plan, n = Len(plan) - Len(todo) + 1,
         NEW i \in DOMAIN plan
  PROVE  Done(i)' <=> Done(i) \/ i = n
<1>1. todo \in Seq(Action) /\ plan \in Seq(Action)
  BY DEF Control, SessionTypeOK
<1>2. Len(todo') = Len(todo) - 1 /\ Len(todo) \in Nat /\ Len(plan) \in Nat /\ DOMAIN plan = 1 .. Len(plan)
  BY <1>1
<1>3. Done(i)' <=> i <= Len(plan) - (Len(todo) - 1)
  BY <1>2 DEF Done
<1>4. i \in Nat /\ n \in Nat
  BY <1>2
<1> QED
  BY <1>2, <1>3, <1>4 DEF Done

LEMMA ContStands == ASSUME Control, Stands, cont PROVE Stands'
<1> DEFINE c == todo[1].core
<1>1. Current = c /\ c \in Core /\ todo # <<>> /\ todo[1].action = "c" /\ ~polling /\ alive
  BY CurrentIsCore DEF cont, Handles, Control, SessionTypeOK, Current
<1>2. mode = "wait"
  BY <1>1, CurrentIsCore DEF Control
<1>3. /\ UNCHANGED <<breakpoints, alive, todo, mode, wanted, over, plan>> /\ polling'
      /\ hart' = [hart EXCEPT ![c].running = TRUE, ![c].trap = TRUE]
  BY <1>1 DEF cont, multicore_actions, client
<1>4. /\ \A j \in Core : hart'[j].pc = hart[j].pc
      /\ \A j \in Core : hart'[j].running => hart[j].running \/ j = c
      /\ hart'[c].running /\ hart'[c].trap
  <2> HIDE DEF c
  <2> QED
    BY <1>1, <1>3, HartIsTyped DEF HartType
<1>5. \A j \in Core : OnBreakpoint(j)' <=> OnBreakpoint(j)
  BY <1>3, <1>4, SameBreakpoint
<1>6. \A i \in DOMAIN plan : plan[i].core \in Core
  BY PlanActions
<1>7. \A i : Done(i)' <=> Done(i)
  BY <1>3 DEF Done
<1> QED
  BY <1>1, <1>2, <1>3, <1>4, <1>5, <1>6, <1>7 DEF Stands, IsSet

LEMMA HaltedStands == ASSUME Control, Control', Stands, halted PROVE Stands'
<1> DEFINE c == todo[1].core
<1>1. /\ mode = "wait" /\ todo # <<>> /\ todo[1].action = "c" /\ polling /\ alive
      /\ Current = c /\ c \in Core
  BY CurrentIsCore DEF halted, Control
<1>2. /\ UNCHANGED <<breakpoints, alive, mode, wanted, over, plan>> /\ ~polling'
      /\ todo' = Tail(todo) /\ ~hart[c].running
      /\ hart' = [hart EXCEPT ![c].trap = FALSE]
  BY <1>1 DEF halted, vars, client
<1>3. \A j \in Core : hart'[j].pc = hart[j].pc /\ hart'[j].running = hart[j].running
  <2> HIDE DEF c
  <2> QED
    BY <1>2, HartIsTyped DEF HartType
<1>4. \A j \in Core : OnBreakpoint(j)' <=> OnBreakpoint(j)
  BY <1>2, <1>3, SameBreakpoint
<1>5. \A i \in DOMAIN plan : plan[i].core \in Core
  BY PlanActions
<1>6. PICK n \in DOMAIN plan : n = Len(plan) - Len(todo) + 1 /\ plan[n] = todo[1]
  BY <1>1, Place
<1>7. \A i \in DOMAIN plan : Done(i)' <=> Done(i) \/ i = n
  BY <1>1, <1>2, <1>6, Advances
<1>8. OnBreakpoint(c) /\ \A k \in Core : ~hart[k].running
  BY <1>1, <1>2 DEF Stands
<1> QED
  BY <1>1, <1>2, <1>3, <1>4, <1>5, <1>6, <1>7, <1>8 DEF Stands, IsSet

LEMMA SingleStepStands == ASSUME Control, Control', Stands, single_step PROVE Stands'
<1> DEFINE c == todo[1].core
<1>1. /\ Current = c /\ c \in Core /\ todo # <<>> /\ todo[1].action = "s" /\ ~polling /\ alive
      /\ 1 \in DOMAIN todo
  BY CurrentIsCore DEF single_step, Handles, Control, SessionTypeOK, Current
<1>2. mode \in {"over", "wait"}
  BY <1>1 DEF Control
<1>3. /\ UNCHANGED <<breakpoints, alive, polling, mode, wanted, over, plan>> /\ todo' = Tail(todo)
      /\ hart' = [hart EXCEPT ![c].pc = Follows(c)]
  BY <1>1 DEF single_step, multicore_actions, client
<1>4. /\ \A j \in Core : hart'[j].running = hart[j].running
      /\ \A j \in Core : j # c => hart'[j].pc = hart[j].pc
  <2> HIDE DEF c
  <2> QED
    BY <1>1, <1>3, HartIsTyped DEF HartType
<1>5. \A j \in Core : j # c => (OnBreakpoint(j)' <=> OnBreakpoint(j))
  BY <1>3, <1>4, SameBreakpoint
<1>6. \A i \in DOMAIN plan : plan[i].core \in Core
  BY PlanActions
<1>7. \A k \in Core : ~hart[k].running
  BY <1>1, <1>2 DEF Stands
<1>8. CASE mode = "over"
  <2>1. \A j \in DOMAIN todo' : todo'[j] = todo[j + 1] /\ j + 1 \in DOMAIN todo
    BY <1>1, <1>3 DEF Control, SessionTypeOK
  <2> QED
    BY <1>1, <1>3, <1>4, <1>5, <1>6, <1>7, <1>8, <2>1 DEF Stands, IsSet
<1>9. CASE mode = "wait"
  <2>1. PICK n \in DOMAIN plan :
          /\ n = Len(plan) - Len(todo) + 1 /\ plan[n] = todo[1]
          /\ \A i \in DOMAIN plan : plan[i].core = todo[1].core => i = n
    BY <1>1, <1>9, Place
  <2>2. \A i \in DOMAIN plan : Done(i)' <=> Done(i) \/ i = n
    BY <1>1, <1>3, <1>9, <2>1, Advances
  <2>3. \A i \in DOMAIN plan : i # n => (OnBreakpoint(plan[i].core)' <=> OnBreakpoint(plan[i].core))
    BY <1>3, <1>5, <1>6, <2>1
  <2> QED
    BY <1>1, <1>3, <1>4, <1>7, <1>9, <2>1, <2>2, <2>3 DEF Stands, IsSet
<1> QED
  BY <1>2, <1>8, <1>9

LEMMA ServeStands == ASSUME Control, Control', Stands, Serve PROVE Stands'
<1>1. CASE halt
  <2>1. todo[1].action = "t" /\ 1 \in DOMAIN todo /\ todo # <<>>
    BY <1>1, CurrentIsCore DEF halt, Handles, Control, SessionTypeOK
  <2>2. mode # "wait"
    <3> SUFFICES ASSUME mode = "wait" PROVE FALSE
      OBVIOUS
    <3>1. PICK n \in DOMAIN plan : plan[n] = todo[1]
      BY <2>1, Place
    <3> QED
      BY <2>1, <3>1, PlanActions
  <2>3. mode = "restarted" /\ mode' = mode
    BY <1>1, <2>1, <2>2 DEF Control, halt, client
  <2> QED
    BY <2>3 DEF Stands
<1> QED
  BY <1>1, ContStands, HaltedStands, SingleStepStands, DieStands DEF Serve, timeout

\* Steps that leave the harts and what the user has asked for alone.
LEMMA SameStands ==
  ASSUME UNCHANGED <<hart, wanted>>
  PROVE  \A k : OnBreakpoint(k)' <=> OnBreakpoint(k)
  BY DEF OnBreakpoint

LEMMA ReactStands == ASSUME Control, IInv, Stands, React PROVE Stands'
<1>1. CASE SteppedOver
  <2>1. /\ UNCHANGED <<breakpoints, hart, alive, todo, polling, wanted, over, plan>>
        /\ mode = "over" /\ mode' \in {"prompt", "insert"}
    BY <1>1 DEF SteppedOver, To, vars, server
  <2> QED
    BY <2>1, SameStands DEF Stands, IsSet
<1>2. CASE Go
  <2>1. /\ UNCHANGED <<breakpoints, hart, alive, polling, wanted, over, plan>>
        /\ mode = "insert" /\ mode' = "wait" /\ todo' = plan /\ alive /\ todo = <<>>
    BY <1>2 DEF Go, Send, To, vars, Ready
  <2>2. ~polling
    BY <2>1 DEF Control
  <2>3. \A i \in DOMAIN plan : ~Done(i)'
    <3>1. plan \in Seq(Action)
      BY DEF Control, SessionTypeOK
    <3>2. Len(plan') - Len(todo') = 0 /\ DOMAIN plan = 1 .. Len(plan)
      BY <2>1, <3>1
    <3> QED
      BY <3>2 DEF Done
  <2> QED
    BY <2>1, <2>2, <2>3, SameStands DEF Stands, IsSet
<1>3. CASE Answered
  <2>1. /\ UNCHANGED <<breakpoints, hart, alive, todo, polling, wanted, over, plan>>
        /\ mode = "wait" /\ mode' = "remove" /\ alive /\ todo = <<>>
    BY <1>3 DEF Answered, To, Ready, vars, server
  <2>2. \A k \in Core : ~hart[k].running
    BY <2>1 DEF Stands, Control
  <2>3. \A i \in DOMAIN plan : Done(i)
    <3>1. plan \in Seq(Action) /\ Len(todo) = 0
      BY <2>1 DEF Control, SessionTypeOK
    <3>2. DOMAIN plan = 1 .. Len(plan) /\ Len(plan) \in Nat
      BY <3>1
    <3> QED
      BY <3>1, <3>2 DEF Done
  <2> QED
    BY <2>1, <2>2, <2>3, SameStands DEF Stands, IsSet
<1>4. CASE Prompt
  <2>1. /\ UNCHANGED <<breakpoints, hart, alive, todo, polling, wanted, over, plan>>
        /\ mode = "remove" /\ mode' = "prompt"
    BY <1>4 DEF Prompt, To, vars, server
  <2> QED
    BY <2>1, SameStands DEF Stands, IsSet
<1>5. CASE Restart
  BY <1>5 DEF Restart, To, Stands
<1>6. CASE HaltAll
  BY <1>6 DEF HaltAll, Send, To, Stands
<1>7. CASE Load
  <2>1. mode' = "prompt" /\ NoneSet' /\ \A k \in Core : ~hart[k].running
    BY <1>7 DEF Load, To, IInv, NoneSet, IsSet
  <2>2. \A k \in Core : ~hart'[k].running
    BY <1>7, <2>1, HartIsTyped DEF Load, HartType
  <2> QED
    BY <2>1, <2>2 DEF Stands, NoneSet
<1>8. ASSUME NEW k \in Core, StepOver(k) PROVE Stands'
  <2>1. /\ UNCHANGED <<breakpoints, hart, alive, polling, mode, wanted, plan>>
        /\ mode = "over" /\ k \in over /\ over' = over \ {k} /\ alive
        /\ todo' = <<[action |-> "s", core |-> k]>> /\ ~polling
    BY <1>8 DEF StepOver, vars, Ready, Control
  <2>2. \A j \in DOMAIN todo' : todo'[j].core = k
    BY <2>1
  <2> QED
    BY <2>1, <2>2, SameStands DEF Stands, IsSet
<1>9. ASSUME NEW b \in Bp, Insert(b) PROVE Stands'
  <2>1. /\ UNCHANGED <<hart, alive, todo, polling, mode, wanted, over, plan>>
        /\ b \in wanted /\ mode = "insert"
        /\ breakpoints' = [breakpoints EXCEPT ![b] = breakpoints'[b]]
    BY <1>9 DEF Insert, set_breakpoint, server, client, IInv
  <2>2. \A c \in Bp : IsSet(c)' => IsSet(c) \/ c = b
    BY <2>1 DEF IsSet, IInv
  <2> QED
    BY <2>1, <2>2, SameStands DEF Stands
<1>10. ASSUME NEW b \in Bp, Remove(b) PROVE Stands'
  <2>1. /\ UNCHANGED <<hart, alive, todo, polling, mode, wanted, over, plan>>
        /\ mode = "remove" /\ breakpoints' = [breakpoints EXCEPT ![b] = <<>>]
    BY <1>10 DEF Remove, clear_breakpoint, server, client
  <2>2. \A c \in Bp : IsSet(c)' => IsSet(c)
    BY <2>1 DEF IsSet, IInv
  <2> QED
    BY <2>1, <2>2, SameStands DEF Stands
<1> QED
  BY <1>1, <1>2, <1>3, <1>4, <1>5, <1>6, <1>7, <1>8, <1>9, <1>10 DEF React

LEMMA UserStands == ASSUME Control, IInv, Stands, User PROVE Stands'
<1>1. CASE shutdown
  BY <1>1, DieStands DEF shutdown
<1>2. ASSUME NEW b \in Bp, Toggle(b) PROVE Stands'
  <2>1. /\ UNCHANGED <<breakpoints, hart, alive, todo, polling, mode, over, plan>>
        /\ mode = "prompt" /\ NoneSet
    BY <1>2 DEF Toggle, vars, server, IInv
  <2> QED
    BY <2>1 DEF Stands, NoneSet, IsSet
<1>3. ASSUME NEW w \in Write, NEW v \in Text, Edit(w, v) PROVE Stands'
  <2>1. UNCHANGED <<breakpoints, hart, alive, todo, polling, mode, wanted, over, plan>> /\ mode = "prompt"
    BY <1>3 DEF Edit, memory_write, server, client
  <2> QED
    BY <2>1 DEF Stands, IsSet
<1>4. ASSUME NEW p \in Plan, Resume(p) PROVE Stands'
  <2>1. /\ UNCHANGED <<breakpoints, hart, alive, todo, polling, wanted>>
        /\ mode = "prompt" /\ mode' = "over" /\ alive /\ todo = <<>>
    BY <1>4 DEF Resume, vars, server, Ready
  <2>2. \A i \in DOMAIN plan' : plan'[i].action = "s" =>
          plan'[i].core \notin over' /\ ~OnBreakpoint(plan'[i].core)
    <3>1. over' = {p[i].core : i \in {j \in DOMAIN p : OnBreakpoint(p[j].core)}}
      BY <1>4 DEF Resume
    <3>2. \A i \in DOMAIN p : OnBreakpoint(p[i].core) => p[i].core \in over'
      BY <3>1
    <3>3. CASE \E i \in DOMAIN p : p[i].action = "s" /\ p[i].core \in over'
      BY <1>4, <3>3 DEF Resume
    <3>4. CASE ~\E i \in DOMAIN p : p[i].action = "s" /\ p[i].core \in over'
      BY <1>4, <3>2, <3>4 DEF Resume
    <3> QED
      BY <3>3, <3>4
  <2> QED
    BY <2>1, <2>2, SameStands DEF Stands, IsSet, Control
<1> QED
  BY <1>1, <1>2, <1>3, <1>4 DEF User

SessionInv == Control /\ IInv /\ Stands

LEMMA InitSession == SessionInit => SessionInv
  BY InitControl, InitIInv, InitStands DEF SessionInv

LEMMA NextSession == ASSUME Reloads PROVE SessionInv /\ [SessionNext]_dsvars => SessionInv'
<1> SUFFICES ASSUME SessionInv, [SessionNext]_dsvars PROVE Stands'
  BY NextControl, NextIInv DEF SessionInv
<1>1. Control /\ IInv /\ Stands /\ Control'
  BY NextControl DEF SessionInv
<1>2. CASE UNCHANGED dsvars
  BY <1>1, <1>2, SameStands DEF dsvars, vars, server, client, Stands, IsSet, Done
<1> QED
  BY <1>1, <1>2, ExecuteStands, BreakStands, ServeStands, ReactStands, UserStands DEF SessionNext

\* A continue of any number of harts, one after the other, is answered when each of them
\* stands on a breakpoint, though the others are resumed and stepped meanwhile.
THEOREM StopsWhereAsked == ASSUME Reloads PROVE SessionSpec => []StopsAsAsked
<1>1. SessionInv => StopsAsAsked
  BY DEF SessionInv, Stands, StopsAsAsked
<1> QED
  BY <1>1, InitSession, NextSession, PTL DEF SessionSpec

\* Harts execute the client's program and nothing else, whatever breakpoints come and go
\* and whenever servers die.
THEOREM TextIsExecuted == ASSUME Reloads PROVE SessionSpec => ExecutesText
<1> DEFINE A == \A k \in Core : Moves(k) /\ alive => Fetched(k) = text[CTM][hart[k].pc]
<1>1. SessionInv /\ [SessionNext]_dsvars => [A]_dsvars
  <2> SUFFICES ASSUME SessionInv, SessionNext, NEW k \in Core, Moves(k), alive
               PROVE  Fetched(k) = text[CTM][hart[k].pc]
    OBVIOUS
  <2>1. Control /\ IInv /\ Stands /\ mode # "restarted" /\ hart'[k].pc # hart[k].pc
    BY DEF SessionInv, Moves
  <2>2. /\ Fetched(k) = Ebreak <=> \E b \in Bp : IsSet(b) /\ b.off = hart[k].pc
        /\ Fetched(k) # Ebreak => Fetched(k) = text[CTM][hart[k].pc]
    BY <2>1, FetchedWord
  <2>3. ASSUME NEW j \in Core, Execute(j) PROVE Fetched(k) # Ebreak
    <3>1. j = k
      BY <2>1, <2>3, HartIsTyped DEF Execute, HartType
    <3> QED
      BY <2>1, <2>3, <3>1 DEF Execute, Stands
  <2>4. CASE single_step
    <3>1. /\ Current = todo[1].core /\ todo # <<>> /\ todo[1].action = "s" /\ ~polling
          /\ 1 \in DOMAIN todo
      BY <2>4, CurrentIsCore, <2>1 DEF single_step, Handles, Control, SessionTypeOK, Current
    <3>2. k = Current
      BY <2>1, <2>4, HartIsTyped DEF single_step, HartType
    <3>3. CASE mode = "over"
      BY <2>1, <2>2, <3>3 DEF IInv, NoneSet
    <3>4. CASE mode = "wait"
      <4>1. PICK n \in DOMAIN plan :
              /\ plan[n] = todo[1] /\ \A i \in DOMAIN plan : Done(i) <=> i < n
        BY <2>1, <3>1, <3>4, Place
      <4>2. ~Done(n)
        BY <2>1, <4>1 DEF Control, SessionTypeOK
      <4>3. ~OnBreakpoint(k)
        BY <2>1, <3>1, <3>2, <3>4, <4>1, <4>2 DEF Stands
      <4> QED
        BY <2>1, <2>2, <4>3 DEF Stands, OnBreakpoint
    <3> QED
      BY <2>1, <3>1, <3>3, <3>4 DEF Control
  <2>5. ~(cont \/ halted \/ halt)
    <3> DEFINE c == Current
    <3>1. hart \in HartType
      BY <2>1, HartIsTyped
    <3>2. /\ cont => hart' = [hart EXCEPT ![c].running = TRUE, ![c].trap = TRUE]
          /\ halted => hart' = [hart EXCEPT ![c].trap = FALSE]
          /\ halt => hart' = [hart EXCEPT ![c].running = FALSE]
      BY DEF cont, halted, halt
    <3> HIDE DEF c
    <3>3. ~halted /\ ~halt
      BY <2>1, <3>1, <3>2 DEF HartType
    <3>4. ~cont
      BY <2>1, <3>1, <3>2 DEF HartType
    <3> QED
      BY <3>3, <3>4
  <2>6. ~(timeout \/ User)
    BY <2>1 DEF timeout, Die, User, shutdown, Toggle, Edit, Resume
  <2>7. ~React
    BY <2>1 DEF React, SteppedOver, Go, Send, Answered, Prompt, Restart, HaltAll, Load,
                StepOver, Insert, Remove
  <2>8. ASSUME NEW j \in Core, Break(j) PROVE FALSE
    BY <2>1, <2>8, HartIsTyped DEF Break, HartType
  <2> QED
    BY <2>2, <2>3, <2>4, <2>5, <2>6, <2>7, <2>8 DEF SessionNext, Serve
<1> QED
  BY <1>1, InitSession, NextSession, PTL DEF SessionSpec, ExecutesText

\* Every variable of the session has its type.
THEOREM SessionTypeCorrect == SessionSpec => []SessionTypeOK
<1>1. Control => SessionTypeOK
  BY DEF Control
<1> QED
  BY <1>1, InitControl, NextControl, PTL DEF SessionSpec
=============================================================================
