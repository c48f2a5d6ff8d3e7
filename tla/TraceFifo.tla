----------------------------- MODULE TraceFifo ------------------------------
(***************************************************************************)
(* Reading an RFPC trace from the FIFO of the Performance Analyzer:        *)
(* read_trace (libs/rfpc_trace.rs), and trigger_idle, trigger_start,       *)
(* trigger_halt and read_fifo (libs/performance_analyzer.rs), while the    *)
(* analyzer keeps capturing.                                               *)
(*                                                                         *)
(* The analyzer is outside the repository and modelled from its register   *)
(* map and from how read_fifo describes it: a FIFO of Depth words with     *)
(* free-running pointers of PtrMod values, that drops words when full or,  *)
(* journalling, overwrites the oldest; reading an empty FIFO gives the     *)
(* last word again.  Word i is the i-th word put into the FIFO.            *)
(* Definitions with a suffix, as EntriesSeen_OneMore, are slips the code   *)
(* might have had.                                                         *)
(***************************************************************************)
EXTENDS Integers, Sequences

CONSTANTS
  Depth,       \* the words in the FIFO, 4096 in the code
  PtrMod,      \* the values of a pointer, 2^15 in its registers
  NumWords,    \* the values of num_words read_trace is called with
  MaxWords,    \* bound: the words the analyzer ever captures
  DebugBuild   \* built by plain `cargo build': integer overflow panics

ASSUME SizeAssumption == Depth \in Nat \ {0} /\ PtrMod \in Nat /\ Depth < PtrMod /\ MaxWords \in Nat
ASSUME FlagAssumption == DebugBuild \in BOOLEAN
ASSUME NumAssumption == NumWords \subseteq Nat

VARIABLES
  pc,        \* where the reader is
  num_words, \* the words asked for
  samples,   \* fifo_samples
  to_read,   \* words_to_read that are left
  journalling, \* the bit of PAConfig, set by start_pa before the trace
  trigger,   \* the trigger of the analyzer
  written, taken, \* the words put into the FIFO and those gone from it
  overflow,  \* a word was dropped since the FIFO became full
  last       \* the last word read

reader == <<pc, num_words, samples, to_read>>
fifo == <<journalling, written, taken, overflow, last>>
vars == <<pc, num_words, samples, to_read, journalling, trigger, written, taken, overflow, last>>

\* The FIFO may hold the words of an earlier trace.
Init == /\ pc = "idle" /\ num_words = 0 /\ samples = <<>> /\ to_read = 0
        /\ trigger = "halted" /\ journalling \in BOOLEAN
        /\ written \in 0 .. Depth /\ taken = 0
        /\ overflow = FALSE /\ last = 0

Level == written - taken

-----------------------------------------------------------------------------
(* The reader                                                              *)

read_trace == /\ pc \in {"idle", "done"}
              /\ pc' = "to_idle" /\ num_words' \in NumWords /\ samples' = <<>>
              /\ UNCHANGED <<to_read, trigger, fifo>>

Trigger(from, state, to) == /\ pc = from /\ pc' = to
                            /\ trigger' = state
                            /\ UNCHANGED <<num_words, samples, to_read, fifo>>
trigger_idle == Trigger("to_idle", "idle", "to_start")
trigger_start == Trigger("to_start", "running", "loop")
trigger_halt == Trigger("to_halt", "halted", "done")

\* while fifo_samples.len() < num_words; the surplus would be truncated.
Remaining == num_words - Len(samples)
Loop == /\ pc = "loop"
        /\ pc' = IF Remaining > 0 THEN "control" ELSE "to_halt"
        /\ UNCHANGED <<num_words, samples, to_read, trigger, fifo>>

\* What read_fifo makes of PAFifoControl: a u32 difference of the pointers.  The 2^32
\* of u32 is 2^20 here, since TLC's integers end at 2^31: both are above any num_words.
EntryMod == 1024 * 1024
Pointer(count) == count % PtrMod
Underflows == Pointer(written) < Pointer(taken) /\ (overflow => journalling)
EntriesSeen_OneMore == (IF (overflow /\ ~journalling) THEN Depth
                        ELSE (Pointer(written) - Pointer(taken)) % EntryMod) + 1
EntriesSeen == IF (overflow /\ ~journalling) THEN Depth
               ELSE (Pointer(written) - Pointer(taken)) % EntryMod
WordsToRead_All(entries) == Remaining
WordsToRead_Unbounded(entries) == entries
WordsToRead(entries) == IF Remaining < entries THEN Remaining ELSE entries

\* "The maximum size of the FIFO is 4096 32-bit words."
TooMany == /\ pc = "control" /\ Remaining > Depth
           /\ pc' = "too_many"
           /\ UNCHANGED <<num_words, samples, to_read, trigger, fifo>>

ReadControl == /\ pc = "control" /\ Remaining <= Depth
               /\ Level > 0 /\ ~(Underflows /\ DebugBuild)
               /\ pc' = "words" /\ to_read' = WordsToRead(EntriesSeen)
               /\ UNCHANGED <<num_words, samples, trigger, fifo>>

ReadControlPanics_Retries == /\ pc = "control" /\ Remaining <= Depth
                             /\ (Level = 0 \/ (Underflows /\ DebugBuild))
                             /\ pc' = IF Level = 0 THEN "loop" ELSE "underflow"
                             /\ UNCHANGED <<num_words, samples, to_read, trigger, fifo>>
\* panic!("FIFO buffer is empty"), or the underflow in a debug build.
ReadControlPanics == /\ pc = "control" /\ Remaining <= Depth
                     /\ (Level = 0 \/ (Underflows /\ DebugBuild))
                     /\ pc' = IF Level = 0 THEN "empty" ELSE "underflow"
                     /\ UNCHANGED <<num_words, samples, to_read, trigger, fifo>>

\* One read of FifoData.
ReadWord == LET word == IF Level > 0 THEN taken + 1 ELSE last IN
            /\ pc = "words" /\ to_read > 0
            /\ samples' = Append(samples, word)
            /\ last' = word
            /\ taken' = IF Level > 0 THEN taken + 1 ELSE taken
            /\ overflow' = (overflow /\ Level = 0)
            /\ to_read' = to_read - 1
            /\ UNCHANGED <<pc, num_words, journalling, trigger, written>>

WordsRead == /\ pc = "words" /\ to_read = 0
             /\ pc' = "loop"
             /\ UNCHANGED <<num_words, samples, to_read, trigger, fifo>>

Reader == \/ read_trace \/ trigger_idle \/ trigger_start \/ trigger_halt \/ Loop
          \/ TooMany \/ ReadControl \/ ReadControlPanics \/ ReadWord \/ WordsRead

\* Another session sets the analyzer up with pa_trigger_on_uncomp_trace: the one before
\* has come to its end, has panicked, or was killed wherever it was.  The trigger stays
\* as it is and nothing flushes the FIFO.
NewSession == /\ pc' = "idle" /\ num_words' = 0 /\ samples' = <<>> /\ to_read' = 0
              /\ journalling' \in BOOLEAN
              /\ UNCHANGED <<trigger, written, taken, overflow, last>>

-----------------------------------------------------------------------------
(* The analyzer (external)                                                 *)

Capture == /\ trigger = "running" /\ written < MaxWords
           /\ written' = IF Level < Depth \/ journalling THEN written + 1 ELSE written
           /\ taken' = IF Level = Depth /\ journalling THEN taken + 1 ELSE taken
           /\ overflow' = (overflow \/ Level = Depth)
           /\ UNCHANGED <<reader, journalling, trigger, last>>

Next == Reader \/ NewSession \/ Capture

Spec == Init /\ [][Next]_vars

\* The reader is a running thread; the analyzer need not capture anything.  A user
\* may stop asking for traces.
FairSpec == Spec /\ WF_vars(Reader /\ pc \notin {"idle", "done"})

-----------------------------------------------------------------------------
(* Properties                                                              *)

\* Every variable has its type; no more words are kept than were asked for.
TypeOK == /\ pc \in {"idle", "to_idle", "to_start", "loop", "control", "words", "to_halt",
                     "done", "too_many", "empty", "underflow"}
          /\ num_words \in NumWords \union {0} /\ Len(samples) <= num_words
          /\ to_read \in 0 .. EntryMod
          /\ trigger \in {"idle", "running", "halted"}
          /\ 0 <= taken /\ taken <= written /\ Level <= Depth /\ last <= taken
          /\ overflow \in BOOLEAN /\ journalling \in BOOLEAN

\* The samples of a trace follow each other as they were captured, although the
\* analyzer writes between the read of the pointers and the reads of the words: no
\* word twice, and none left out except those that journalling overwrites.
SamplesInOrder ==
  \A i \in 1 .. Len(samples) - 1 :
    IF journalling THEN samples[i] < samples[i + 1] ELSE samples[i + 1] = samples[i] + 1

\* A word is never read from an empty FIFO.
NoReadBeyond == pc = "words" /\ to_read > 0 => Level > 0

\* read_trace returns or panics, unless its session is cut off: every turn of its loop
\* gets a word.
TraceEnds == pc = "loop" ~> pc \in {"done", "too_many", "empty", "underflow", "idle"}

\* read_trace waits for samples until it has those it was asked for.
WaitsForSamples == pc # "empty"
=============================================================================
