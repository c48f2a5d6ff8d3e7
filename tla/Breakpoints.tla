---------------------------- MODULE Breakpoints ----------------------------
(***************************************************************************)
(* The breakpoint table of the RSP server and the memory it patches        *)
(* (set_breakpoint, clear_breakpoint, memory_write and the core selection  *)
(* of multicore_actions in libs/rsp_server_stub.rs), for a client that     *)
(* sets each breakpoint once and clears only breakpoints it has set.       *)
(*                                                                         *)
(* Memory is an array of 32-bit instruction words.  CTM is shared by the   *)
(* cores and accessed word by word over the CPP bus; local memory (LMEM)   *)
(* belongs to a core and is accessed by that core in doublewords, here the *)
(* words off and off + 1.  The server is one thread and the harts it works *)
(* on are halted, so each request is one step.  Definitions with a suffix, *)
(* as Put_Replaces, are slips the code might have had.                     *)
(***************************************************************************)
EXTENDS Naturals, Sequences

CONSTANTS
  Core,      \* the cores in thread_map, one of them selected at a time
  First,     \* the core given on the command line
  LastWord,  \* memories have the words 0 .. LastWord
  Text,      \* the instruction words of programs
  Ebreak,    \* 0x00100073
  ZeroWord,  \* the padding memory_write appends
  CTM,       \* the name of the CTM among the memories
  Bp,        \* the addresses the client sets breakpoints at
  Write      \* the writes the client makes: [ctm, off, len], len in words

Word == Text \union {Ebreak, ZeroWord}
Mem == Core \union {CTM}
Off == 0 .. LastWord

\* hi stands for the address bits 63:32 that the server masks away, bit 48
\* excepted, which says whether the address is in CTM.
Address == [ctm : BOOLEAN, hi : Nat, off : Off]

ASSUME CoreAssumption == First \in Core /\ CTM \notin Core
ASSUME WordAssumption == Ebreak \notin Text /\ ZeroWord \notin Text /\ Ebreak # ZeroWord
ASSUME SizeAssumption == LastWord \in Nat
ASSUME BpAssumption ==
  Bp \subseteq Address /\ \A b \in Bp : ~b.ctm => b.off < LastWord
ASSUME WriteAssumption ==
  \A w \in Write : /\ w.ctm \in BOOLEAN /\ w.off \in Off /\ w.len \in {1, 2}
                   /\ w.off < LastWord

VARIABLES
  rfpc,         \* the selected core
  breakpoints,  \* the cached words of each breakpoint set; absent: <<>>
  mem,          \* mem[m][i]: the memories
  text,         \* text[m][i]: what the client has put there
  home,         \* home[b]: the memory breakpoint b was set in
  strayed       \* a core was deselected while a breakpoint in its memory was set

vars == <<rfpc, breakpoints, mem, text, home, strayed>>

IsSet(b) == breakpoints[b] # <<>>

Init == /\ rfpc = First
        /\ breakpoints = [b \in Bp |-> <<>>]
        /\ text \in [Mem -> [Off -> Text]]
        /\ mem = text
        /\ home = [b \in Bp |-> CTM]
        /\ strayed = FALSE

\* The memory a request at an address reaches: the CTM of CppIsland::Rfpc0, or
\* the local memory of the core selected now.
Reached(a) == IF a.ctm THEN CTM ELSE rfpc

Put_Replaces(m, off, s) ==
  [mem EXCEPT ![m] = [i \in off .. off + Len(s) - 1 |-> s[i - off + 1]]]

\* Words off, off + 1, ... of memory m overwritten with those of s.
Put(m, off, s) ==
  [mem EXCEPT ![m] = [i \in Off |-> IF i \in off .. off + Len(s) - 1
                                    THEN s[i - off + 1] ELSE mem[m][i]]]

set_breakpoint_Swapped(b) ==
  LET m == Reached(b)
      old == IF b.ctm THEN <<mem[m][b.off]>> ELSE <<mem[m][b.off + 1], mem[m][b.off]>>
  IN /\ ~IsSet(b)
     /\ breakpoints' = [breakpoints EXCEPT ![b] = old]
     /\ mem' = Put(m, b.off, IF b.ctm THEN <<Ebreak>> ELSE <<Ebreak, old[1]>>)
     /\ home' = [home EXCEPT ![b] = m]
     /\ UNCHANGED <<rfpc, text, strayed>>

\* Z0: the word, or in LMEM the doubleword, is cached and its first word patched.
set_breakpoint(b) ==
  LET m == Reached(b)
      old == IF b.ctm THEN <<mem[m][b.off]>> ELSE <<mem[m][b.off], mem[m][b.off + 1]>>
  IN /\ ~IsSet(b)
     /\ breakpoints' = [breakpoints EXCEPT ![b] = old]
     /\ mem' = Put(m, b.off, IF b.ctm THEN <<Ebreak>> ELSE <<Ebreak, old[2]>>)
     /\ home' = [home EXCEPT ![b] = m]
     /\ UNCHANGED <<rfpc, text, strayed>>

clear_breakpoint_LeftPatched(b) ==
  /\ IsSet(b)
  /\ breakpoints' = [breakpoints EXCEPT ![b] = <<>>]
  /\ UNCHANGED <<rfpc, mem, text, home, strayed>>

\* z0: all cached words are written back.
clear_breakpoint(b) ==
  /\ IsSet(b)
  /\ breakpoints' = [breakpoints EXCEPT ![b] = <<>>]
  /\ mem' = Put(Reached(b), b.off, breakpoints[b])
  /\ UNCHANGED <<rfpc, text, home, strayed>>

\* vCont selects the core of each action it carries out, and leaves it selected.
multicore_actions(c) == /\ rfpc' = c
                        /\ strayed' = (strayed \/ (c # rfpc /\ \E b \in Bp : IsSet(b) /\ ~b.ctm))
                        /\ UNCHANGED <<breakpoints, mem, text, home>>

\* X: zero bytes fill the data up to a multiple of eight.
Padded(w, v) == IF w.len = 1 THEN <<v, ZeroWord>> ELSE <<v, v>>
memory_write(w, v) ==
  LET m == Reached(w)
  IN /\ mem' = Put(m, w.off, Padded(w, v))
     /\ text' = [text EXCEPT ![m] = [i \in Off |-> IF i \in w.off .. w.off + w.len - 1
                                                  THEN v ELSE text[m][i]]]
     /\ UNCHANGED <<rfpc, breakpoints, home, strayed>>

Next == \/ \E b \in Bp : set_breakpoint(b) \/ clear_breakpoint(b)
        \/ \E c \in Core : multicore_actions(c)
        \/ \E w \in Write, v \in Text : memory_write(w, v)

Spec == Init /\ [][Next]_vars

-----------------------------------------------------------------------------
(* Properties                                                              *)

\* Every variable has its type: a cached entry is a CTM word or an LMEM doubleword.
TypeOK == /\ rfpc \in Core
          /\ breakpoints \in [Bp -> {<<>>} \union {<<x>> : x \in Word} \union (Word \X Word)]
          /\ mem \in [Mem -> [Off -> Word]]
          /\ text \in [Mem -> [Off -> Text]]
          /\ home \in [Bp -> Mem] /\ strayed \in BOOLEAN

\* Every breakpoint that is set is in memory, so that the core halts at it.
BreakpointsArmed == \A b \in Bp : IsSet(b) => mem[home[b]][b.off] = Ebreak

\* Everywhere else the memory holds what the client has put there: nothing is
\* left of breakpoints that were cleared, and no write reaches further than its
\* length.
TextKept == \A m \in Mem, i \in Off :
              (\A b \in Bp : IsSet(b) => ~(home[b] = m /\ b.off = i)) => mem[m][i] = text[m][i]

\* The requests that do not get into each other's way: no two breakpoints, and
\* no breakpoint and write, touch a common word, and writes fill whole doublewords.
Words(b) == IF b.ctm THEN {b.off} ELSE {b.off, b.off + 1}
Separate ==
  /\ \A b, c \in Bp : b # c /\ b.ctm = c.ctm => Words(b) \cap Words(c) = {}
  /\ \A b \in Bp, w \in Write : b.ctm = w.ctm => Words(b) \cap {w.off, w.off + 1} = {}
  /\ \A w \in Write : w.len = 2

\* For such requests memory is the client's text with the set breakpoints in it,
\* as long as the client clears what it set in a core's local memory before it
\* selects another core.
MemoryIsPatchedText == Separate /\ ~strayed => BreakpointsArmed /\ TextKept
=============================================================================
