----------------------------- MODULE TraceTable ------------------------------
(***************************************************************************)
(* From the FIFO to the printed table: TraceFifo, with what the analyzer   *)
(* captures as pa_trigger_on_uncomp_trace sets it up and the rows and the  *)
(* header that format_uncomp_trace (libs/rfpc_trace.rs) makes of a trace.  *)
(*                                                                         *)
(* A column is the number of a word of the performance bus, or the         *)
(* timestamp.  That a sample is a row of columns, and which, is external:  *)
(* the comments of CaptureMethod and CaptureStart say it.                  *)
(* header_line_TimestampLast is a slip the code might have had.            *)
(***************************************************************************)
EXTENDS TraceFifo

CONSTANTS
  Setups,    \* the arguments of pa_trigger_on_uncomp_trace and format_uncomp_trace
  Timestamp, \* the column of timestamps
  Foreign    \* what a word of another capture holds

ASSUME SetupAssumption ==
  Setups \subseteq [bus_words : Nat, word_index : 0 .. 2, timestamp : BOOLEAN, words_per_sample : Nat \ {0}]

VARIABLES
  setup, \* the arguments of this session, which the analyzer is set up with
  since, \* history: the words put into the FIFO before they were these
  clean  \* history: whole samples were read and none was dropped or overwritten
         \* since the analyzer was set up so with nothing in the FIFO

history == <<since, clean>>
tableVars == <<vars, setup, history>>

-----------------------------------------------------------------------------
(* What is captured                                                        *)

capture_method == CASE setup.bus_words = 1 /\ setup.timestamp -> "PerfBus32andTs"
                    [] setup.bus_words = 1 /\ ~setup.timestamp -> "PerfBus32orTs"
                    [] setup.bus_words = 2 -> "PerfBus64"
                    [] OTHER -> "PerfBus96andTs"

\* The i-th word of the bus from where capture_start tells the analyzer to begin.
BusWord(i) == (setup.word_index + i) % 3
Sample == CASE capture_method = "PerfBus32andTs" -> <<Timestamp, BusWord(0)>>
            [] capture_method = "PerfBus32orTs" -> <<BusWord(0)>>
            [] capture_method = "PerfBus64" -> <<BusWord(0), BusWord(1)>>
            [] capture_method = "PerfBus96andTs" -> <<Timestamp, BusWord(0), BusWord(1), BusWord(2)>>

At(columns, word) == columns[1 + ((word - 1) % Len(columns))]
Column(word) == IF word > since THEN At(Sample, word - since) ELSE Foreign

-----------------------------------------------------------------------------
(* The table                                                               *)

modulus == setup.bus_words + (IF setup.timestamp THEN 2 ELSE 1)
adjusted_modulus == IF setup.word_index = modulus THEN modulus + 1 ELSE modulus
header_word(i) == IF setup.bus_words # 3 THEN (setup.word_index + i) % adjusted_modulus ELSE i
Words == [i \in 1 .. setup.bus_words |-> header_word(i - 1)]
header_line_TimestampLast == IF setup.timestamp THEN Append(Words, Timestamp) ELSE Words
header_line == IF setup.timestamp THEN <<Timestamp>> \o Words ELSE Words

\* The column of a row in which sample number i is printed: a timestamp that is taken
\* out of its chunk is put back at the same place.
Cell(i) == 1 + ((i - 1) % setup.words_per_sample)

-----------------------------------------------------------------------------
Whole(words) == words % Len(Sample) = 0

\* Words of the earlier capture in the FIFO are like those to come.
Continues(s) == s = setup /\ Whole(written - since)

TableInit == /\ Init /\ setup \in Setups
             /\ since = written /\ clean = (Level = 0)

SetUp(s) == /\ NewSession /\ setup' = s
            /\ since' = IF Continues(s) THEN since ELSE written
            /\ clean' = (Level = 0 \/ (clean /\ Continues(s) /\ Whole(Len(samples))))

Read == /\ Reader /\ UNCHANGED <<setup, since>>
        /\ clean' = (clean /\ (pc' = "to_idle" => Whole(Len(samples))))

Fill == /\ Capture /\ UNCHANGED <<setup, since>>
        /\ clean' = (clean /\ Level < Depth)

TableNext == Read \/ Fill \/ \E s \in Setups : SetUp(s)

TableSpec == TableInit /\ [][TableNext]_tableVars

TableFairSpec == TableSpec /\ WF_tableVars(Read /\ pc \notin {"idle", "done"})

-----------------------------------------------------------------------------
(* Properties                                                              *)

\* In the table of a trace every number stands under the name of what it is: the
\* header, the chunks and the position of the first word read agree with the capture,
\* over any number of traces and of sessions with other arguments, ended or killed.
\* Three cases are excepted, since nothing flushes the FIFO: the analyzer was set up
\* with other arguments while it held words, a trace ended or was killed within a
\* sample, or a full FIFO dropped words or had them overwritten; and each of them only
\* until the analyzer is set up while the FIFO is empty.
CellsUnderTheirHeaders ==
  pc = "done" /\ clean =>
    \A i \in DOMAIN samples :
      Cell(i) \in DOMAIN header_line /\ header_line[Cell(i)] = Column(samples[i])

\* The same without the exceptions.
EveryTableRight ==
  pc = "done" =>
    \A i \in DOMAIN samples :
      Cell(i) \in DOMAIN header_line /\ header_line[Cell(i)] = Column(samples[i])
=============================================================================
