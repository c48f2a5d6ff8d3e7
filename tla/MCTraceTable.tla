---------------------------- MODULE MCTraceTable ----------------------------
(* Small instances of TraceTable.                                          *)
EXTENDS TraceTable

Setup(words, index, ts, size) ==
  [bus_words |-> words, word_index |-> index, timestamp |-> ts, words_per_sample |-> size]

\* What is captured is what the table is asked to show.
Matching == {Setup(1, i, TRUE, 2) : i \in 0 .. 2} \union {Setup(2, i, FALSE, 2) : i \in 0 .. 2}
            \union {Setup(3, 0, TRUE, 4)}

\* Three words, the middle one first; and the example in the comment of
\* format_uncomp_trace, four words a sample in rows of three.
Others == {Setup(3, 1, TRUE, 4), Setup(3, 0, TRUE, 3)}
=============================================================================
