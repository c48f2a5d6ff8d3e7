-------------------------- MODULE TraceTableProofs ---------------------------
(***************************************************************************)
(* Proofs about TraceFifo and TraceTable for FIFOs and traces of any       *)
(* length.  As long as the pointers do not wrap, no empty FIFO is read and *)
(* samples are in order, whatever is captured between two reads; and a     *)
(* table has every number under its header.                                *)
(***************************************************************************)
EXTENDS TraceTable, TLAPS

\* Fewer words are captured than a pointer counts; the FIFO has 4096 words in the code.
NoWrap == MaxWords < PtrMod /\ Depth < EntryMod

Latest == samples[Len(samples)]

\* The types that the steps rely on.
Shape == /\ num_words \in Nat /\ samples \in Seq(Nat) /\ to_read \in Nat
         /\ written \in Nat /\ taken \in Nat /\ last \in Nat
         /\ overflow \in BOOLEAN /\ journalling \in BOOLEAN
         /\ pc \in {"idle", "to_idle", "to_start", "loop", "control", "words", "to_halt",
                     "done", "too_many", "empty", "underflow"}
         /\ trigger \in {"idle", "running", "halted"}
         /\ num_words \in NumWords \union {0}

\* The FIFO: its pointers have not wrapped, and when words were dropped or overwritten
\* since it was last read it is full.
FifoInv == /\ taken <= written /\ written < PtrMod /\ Level <= Depth /\ last <= taken
           /\ overflow => Level = Depth

\* The reader: the words it still is to read are in the FIFO and asked for, and the
\* last it has read is the last that was taken, unless journalling took more.
ReaderInv == /\ Len(samples) <= num_words
             /\ to_read <= Depth
             /\ pc = "words" => to_read <= Level /\ to_read <= Remaining
             /\ Len(samples) > 0 => IF journalling THEN Latest <= taken ELSE Latest = taken

IInv == Shape /\ FifoInv /\ ReaderInv /\ SamplesInOrder

-----------------------------------------------------------------------------
LEMMA EntryModPositive == EntryMod \in Nat \ {0}
  BY SMT DEF EntryMod

\* Pointers that have not wrapped tell how many words are in the FIFO.
LEMMA EntriesAreLevel ==
  ASSUME NoWrap, Shape, FifoInv
  PROVE  ~Underflows /\ EntriesSeen = Level
  <1>1. ASSUME NEW n \in Nat, n < PtrMod PROVE Pointer(n) = n
    BY SizeAssumption, NumAssumption, <1>1 DEF Pointer
  <1>2. Pointer(written) = written /\ Pointer(taken) = taken
    BY SizeAssumption, NumAssumption, <1>1 DEF Shape, FifoInv
  <1>3. ASSUME NEW n \in Nat, n < EntryMod PROVE n % EntryMod = n
    BY <1>3, EntryModPositive
  <1>4. Level \in Nat /\ Level < EntryMod
    BY SizeAssumption, NumAssumption, EntryModPositive DEF Level, Shape, FifoInv, NoWrap
  <1>5. Level % EntryMod = Level
    BY <1>3, <1>4
  <1>6. ~Underflows
    BY <1>2 DEF Underflows, Shape, FifoInv
  <1>7. EntriesSeen = Level
    BY <1>2, <1>5 DEF EntriesSeen, Shape, FifoInv, Level
  <1> QED
    BY <1>6, <1>7

\* A word that is read follows the samples before it.
LEMMA AppendInOrder ==
  ASSUME IInv, NEW word \in Nat, samples' = Append(samples, word), journalling' = journalling,
         Len(samples) > 0 => IF journalling THEN Latest < word ELSE word = Latest + 1
  PROVE  SamplesInOrder'
  <1>1. Len(samples') = Len(samples) + 1 /\ Len(samples) \in Nat
    BY DEF IInv, Shape
  <1>2. \A i \in 1 .. Len(samples) : samples'[i] = samples[i]
    BY DEF IInv, Shape
  <1>3. samples'[Len(samples) + 1] = word
    BY DEF IInv, Shape
  <1>4. ASSUME NEW i \in 1 .. Len(samples') - 1
        PROVE  IF journalling THEN samples'[i] < samples'[i + 1]
               ELSE samples'[i + 1] = samples'[i] + 1
    <2>1. CASE i < Len(samples)
      BY <2>1, <1>1, <1>2 DEF IInv, SamplesInOrder
    <2>2. CASE i = Len(samples)
      BY <2>2, <1>1, <1>2, <1>3 DEF Latest
    <2> QED
      BY <2>1, <2>2, <1>1
  <1> QED
    BY <1>4 DEF SamplesInOrder

LEMMA InitIInv == ASSUME NoWrap, Init PROVE IInv
  <1>1. Len(samples) = 0 /\ samples \in Seq(Nat)
    BY DEF Init
  <1>2. Shape
    <2>1. written \in Nat /\ taken \in Nat /\ last \in Nat
      BY DEF Init
    <2> QED
      BY <1>1, <2>1 DEF Init, Shape
  <1>3. SamplesInOrder
    BY <1>1 DEF SamplesInOrder
  <1>4. FifoInv
    BY SizeAssumption, NumAssumption DEF NoWrap, Init, FifoInv, Level
  <1>5. ReaderInv
    BY SizeAssumption, NumAssumption, <1>1 DEF Init, ReaderInv
  <1> QED
    BY <1>2, <1>4, <1>5, <1>3 DEF IInv

\* A step of the reader that reads no register of the analyzer.
LEMMA QuietStep ==
  ASSUME IInv, UNCHANGED <<num_words, samples, to_read, fifo>>, trigger' = trigger \/ trigger' \in {"idle", "running", "halted"},
         pc' \in {"to_start", "loop", "control", "to_halt", "done", "too_many", "empty", "underflow"}
  PROVE  IInv'
  <1> USE DEF IInv, Shape, FifoInv, ReaderInv, fifo
  <1>1. Shape'
    OBVIOUS
  <1>2. FifoInv' /\ SamplesInOrder'
    BY DEF Level, SamplesInOrder
  <1>3. ReaderInv'
    BY DEF Latest
  <1> QED
    BY <1>1, <1>2, <1>3

LEMMA ReaderStep ==
  ASSUME NoWrap, IInv, Reader PROVE IInv'
  <1>1. CASE trigger_idle \/ trigger_start \/ trigger_halt
    BY <1>1, QuietStep DEF trigger_idle, trigger_start, trigger_halt, Trigger
  <1>2. CASE Loop
    BY <1>2, QuietStep DEF Loop
  <1>3. CASE TooMany \/ ReadControlPanics
    BY <1>3, QuietStep DEF TooMany, ReadControlPanics
  <1>4. CASE WordsRead
    BY <1>4, QuietStep DEF WordsRead
  <1> USE DEF IInv, Shape, FifoInv, ReaderInv, SamplesInOrder, reader, fifo
  <1>5. CASE read_trace
    BY SizeAssumption, NumAssumption, <1>5 DEF read_trace, Level, Latest
  <1>6. CASE ReadControl
    <2>1. to_read' = IF Remaining < Level THEN Remaining ELSE Level
      BY <1>6, EntriesAreLevel DEF ReadControl, WordsToRead
    <2>2. Remaining \in Nat /\ Level \in Nat /\ Remaining' = Remaining /\ Level' = Level
      BY <1>6 DEF ReadControl, Remaining, Level
    <2> QED
      BY <1>6, <2>1, <2>2 DEF ReadControl, Latest
  <1>7. CASE ReadWord
    <2>1. Level > 0 /\ Level \in Nat
      BY <1>7 DEF ReadWord, Level
    <2>2. /\ samples' = Append(samples, taken + 1) /\ last' = taken + 1 /\ taken' = taken + 1
          /\ overflow' = FALSE /\ to_read' = to_read - 1
          /\ UNCHANGED <<pc, num_words, journalling, trigger, written>>
      BY SizeAssumption, NumAssumption, <1>7, <2>1 DEF ReadWord
    <2>3. Len(samples) > 0 => IF journalling THEN Latest < taken + 1 ELSE taken + 1 = Latest + 1
      BY DEF Latest
    <2>4. SamplesInOrder'
      <3>1. taken + 1 \in Nat
        OBVIOUS
      <3> HIDE DEF IInv, Shape, SamplesInOrder, FifoInv, ReaderInv
      <3> QED
        BY <2>2, <2>3, <3>1, AppendInOrder
    <2>5. FifoInv'
      BY SizeAssumption, NumAssumption, <2>1, <2>2 DEF Level
    <2>6. Shape'
      BY <1>7, <2>1, <2>2 DEF ReadWord
    <2>7. Len(samples') = Len(samples) + 1 /\ Latest' = taken'
      BY <2>2 DEF Latest
    <2>8. ReaderInv'
      BY SizeAssumption, NumAssumption, <1>7, <2>1, <2>2, <2>7 DEF ReadWord, Level, Remaining
    <2> QED
      BY <2>4, <2>8, <2>5, <2>6
  <1> QED
    BY <1>5, <1>1, <1>2, <1>3, <1>6, <1>7, <1>4 DEF Reader

\* A new session leaves the FIFO as it is and has no samples yet.
LEMMA SessionStep ==
  ASSUME IInv, NewSession PROVE IInv'
  <1> USE DEF IInv, Shape, FifoInv, ReaderInv, NewSession
  <1>1. Len(samples') = 0 /\ samples' \in Seq(Nat)
    OBVIOUS
  <1>2. Shape' /\ SamplesInOrder'
    BY <1>1 DEF SamplesInOrder
  <1>3. FifoInv'
    BY DEF Level
  <1>4. ReaderInv'
    BY SizeAssumption, <1>1
  <1> QED
    BY <1>2, <1>3, <1>4

\* The analyzer only adds words, or takes those that journalling overwrites.
LEMMA CaptureStep ==
  ASSUME NoWrap, IInv, Capture PROVE IInv'
  <1> USE DEF IInv, Shape, FifoInv, ReaderInv, Capture, reader, NoWrap
  <1>1. Shape' /\ SamplesInOrder'
    BY DEF SamplesInOrder
  <1>2. FifoInv'
    BY SizeAssumption, NumAssumption DEF Level
  <1>3. ReaderInv'
    BY DEF Level, Remaining, Latest
  <1> QED
    BY <1>1, <1>2, <1>3

LEMMA NextIInv ==
  ASSUME NoWrap, IInv, [Next]_vars PROVE IInv'
  <1>1. CASE UNCHANGED vars
    BY <1>1 DEF vars, IInv, Shape, FifoInv, ReaderInv, SamplesInOrder, Level, Remaining, Latest
  <1> QED
    BY <1>1, ReaderStep, SessionStep, CaptureStep DEF Next

\* The samples of a trace follow each other as they were captured, in FIFOs and traces
\* of any length.
THEOREM TracesAreInOrder == ASSUME NoWrap PROVE Spec => []SamplesInOrder
  <1>1. IInv => SamplesInOrder
    BY DEF IInv
  <1> QED
    BY <1>1, InitIInv, NextIInv, PTL DEF Spec

\* A word is never read from an empty FIFO.
THEOREM NeverReadsBeyond == ASSUME NoWrap PROVE Spec => []NoReadBeyond
  <1>1. IInv => NoReadBeyond
    BY DEF IInv, Shape, FifoInv, ReaderInv, NoReadBeyond, Level
  <1> QED
    BY <1>1, InitIInv, NextIInv, PTL DEF Spec

\* Every variable has its type, and no more words are kept than were asked for.
THEOREM TypeCorrect == ASSUME NoWrap PROVE Spec => []TypeOK
  <1>1. IInv => TypeOK
    BY SizeAssumption, NumAssumption, EntryModPositive DEF NoWrap, IInv, Shape, FifoInv, ReaderInv, TypeOK, Level
  <1> QED
    BY <1>1, InitIInv, NextIInv, PTL DEF Spec

-----------------------------------------------------------------------------
(* The table that is printed. *)

\* The sessions whose table shows what is captured: a word with timestamps, two words,
\* or all three, from the lowest, with timestamps; in rows of one sample.
Matches(s) == /\ \/ s.bus_words = 1 /\ s.timestamp /\ s.words_per_sample = 2
                 \/ s.bus_words = 2 /\ ~s.timestamp /\ s.words_per_sample = 2
                 \/ s.bus_words = 3 /\ s.timestamp /\ s.words_per_sample = 4 /\ s.word_index = 0
              /\ s.word_index \in 0 .. 2 /\ s.timestamp \in BOOLEAN
SetupsMatch == \A s \in Setups : Matches(s)

\* The samples of a trace are the words that were taken last, the first of them the
\* first of a sample and put in since the analyzer was set up so.
Aligned == clean => LET first == taken - Len(samples) IN
                    /\ \A i \in 1 .. Len(samples) : samples[i] = first + i
                    /\ first - since \in Nat /\ Whole(first - since)

TInv == /\ IInv /\ setup \in Setups /\ clean \in BOOLEAN
        /\ since \in Nat /\ since <= written /\ Aligned

-----------------------------------------------------------------------------
LEMMA SampleSize ==
  ASSUME Matches(setup) PROVE Len(Sample) \in {2, 4} /\ Len(Sample) = setup.words_per_sample
  BY DEF Matches, Sample, capture_method

LEMMA TimestampFirst ==
  ASSUME NEW S, NEW t \in S, NEW s \in Seq(S)
  PROVE  /\ DOMAIN (<<t>> \o s) = 1 .. Len(s) + 1
         /\ (<<t>> \o s)[1] = t
         /\ \A i \in 1 .. Len(s) : (<<t>> \o s)[i + 1] = s[i]
  <1>1. <<t>> \in Seq(S) /\ Len(<<t>>) = 1 /\ <<t>>[1] = t
    OBVIOUS
  <1> DEFINE u == <<t>>
  <1> HIDE DEF u
  <1>2. /\ u \o s \in Seq(S) /\ Len(u \o s) = Len(s) + 1 /\ (u \o s)[1] = u[1]
        /\ \A i \in 1 .. Len(s) : (u \o s)[i + 1] = s[i]
    BY <1>1 DEF u
  <1> QED
    BY <1>1, <1>2 DEF u

\* The header names the columns of a sample.
LEMMA HeaderIsSample ==
  ASSUME Matches(setup)
  PROVE  /\ DOMAIN header_line = 1 .. Len(Sample)
         /\ \A j \in 1 .. Len(Sample) : header_line[j] = Sample[j]
  <1> DEFINE k == setup.word_index
  <1>1. k \in {0, 1, 2}
    BY DEF Matches
  <1>2. CASE setup.bus_words = 1
    <2>1. Words = <<k % 3>>
      BY <1>1, <1>2 DEF Matches, Words, header_word, adjusted_modulus, modulus
    <2>2. /\ DOMAIN header_line = 1 .. 2
          /\ header_line[1] = Timestamp /\ header_line[2] = k % 3
      <3> DEFINE S == {Timestamp, k % 3}
      <3>1. Words \in Seq(S) /\ Len(Words) = 1 /\ Words[1] = k % 3 /\ Timestamp \in S
        BY <2>1
      <3>2. header_line = <<Timestamp>> \o Words
        BY <1>2 DEF Matches, header_line
      <3> HIDE DEF S
      <3> QED
        BY <3>1, <3>2, TimestampFirst
    <2>3. Sample = <<Timestamp, k % 3>>
      BY <1>1, <1>2 DEF Matches, Sample, capture_method, BusWord
    <2> QED
      BY <2>2, <2>3
  <1>3. CASE setup.bus_words = 2
    <2>1. Words = <<k % 3, (k + 1) % 3>>
      BY <1>1, <1>3 DEF Matches, Words, header_word, adjusted_modulus, modulus
    <2> QED
      BY <1>1, <1>3, <2>1 DEF Matches, header_line, Sample, capture_method, BusWord
  <1>4. CASE setup.bus_words = 3
    <2>1. Words = <<0, 1, 2>>
      BY <1>4 DEF Matches, Words, header_word
    <2>2. Sample = <<Timestamp, 0, 1, 2>>
      <3>1. capture_method = "PerfBus96andTs" /\ k = 0
        BY <1>4 DEF Matches, capture_method
      <3>2. BusWord(0) = 0 /\ BusWord(1) = 1 /\ BusWord(2) = 2
        BY <3>1 DEF BusWord
      <3> QED
        BY <3>1, <3>2 DEF Sample
    <2>3. /\ DOMAIN header_line = 1 .. 4
          /\ header_line[1] = Timestamp /\ header_line[2] = 0
          /\ header_line[3] = 1 /\ header_line[4] = 2
      <3> DEFINE S == {Timestamp, 0, 1, 2}
      <3>1. /\ Words \in Seq(S) /\ Len(Words) = 3 /\ Timestamp \in S
            /\ Words[1] = 0 /\ Words[2] = 1 /\ Words[3] = 2
        BY <2>1
      <3>2. header_line = <<Timestamp>> \o Words
        BY <1>4 DEF Matches, header_line
      <3> HIDE DEF S, k
      <3>3. /\ DOMAIN header_line = 1 .. Len(Words) + 1 /\ header_line[1] = Timestamp
            /\ \A i \in 1 .. Len(Words) : header_line[i + 1] = Words[i]
        <4>1. ASSUME NEW s \in Seq(S)
              PROVE  /\ DOMAIN (<<Timestamp>> \o s) = 1 .. Len(s) + 1
                     /\ (<<Timestamp>> \o s)[1] = Timestamp
                     /\ \A i \in 1 .. Len(s) : (<<Timestamp>> \o s)[i + 1] = s[i]
          BY <3>1, <4>1, TimestampFirst
        <4> QED
          BY <3>1, <3>2, <4>1, Zenon
      <3>4. header_line[1 + 1] = 0 /\ header_line[2 + 1] = 1 /\ header_line[3 + 1] = 2
        BY <3>1, <3>3
      <3> QED
        BY <3>1, <3>3, <3>4
    <2> QED
      BY <2>2, <2>3
  <1> QED
    BY <1>2, <1>3, <1>4 DEF Matches

LEMMA WholeSum ==
  ASSUME NEW n \in {2, 4}, NEW a \in Nat, NEW b \in Nat, a % n = 0
  PROVE  (a + b) % n = b % n
  <1>1. CASE n = 2
    BY <1>1
  <1>2. CASE n = 4
    BY <1>2
  <1> QED
    BY <1>1, <1>2

LEMMA WholeZero == ASSUME Matches(setup) PROVE Whole(0)
  <1>1. \A n \in {2, 4} : 0 % n = 0
    OBVIOUS
  <1> QED
    BY <1>1, SampleSize, Zenon DEF Whole

\* The arguments give the samples their shape.
LEMMA SampleFrame == ASSUME setup' = setup PROVE Sample' = Sample
  BY DEF Sample, capture_method, BusWord

\* When whole samples were read, the word to come is the first of one.
LEMMA NextIsFirst ==
  ASSUME TInv, SetupsMatch, clean, Whole(Len(samples))
  PROVE  taken - since \in Nat /\ Whole(taken - since)
  <1> DEFINE n == Len(Sample)
             a == taken - Len(samples) - since
  <1>1. n \in {2, 4} /\ Len(samples) \in Nat /\ taken \in Nat /\ since \in Nat
    BY SampleSize DEF TInv, SetupsMatch, IInv, Shape
  <1>2. a \in Nat /\ a % n = 0 /\ Len(samples) % n = 0
    BY DEF TInv, Aligned, Whole
  <1>3. taken - since = a + Len(samples)
    BY <1>1
  <1> HIDE DEF a, n
  <1>4. (a + Len(samples)) % n = Len(samples) % n
    BY <1>1, <1>2, WholeSum
  <1>5. (taken - since) % n = 0 /\ taken - since \in Nat
    BY <1>1, <1>2, <1>3, <1>4
  <1> QED
    BY <1>5 DEF Whole, n

-----------------------------------------------------------------------------
LEMMA InitTInv == ASSUME NoWrap, SetupsMatch, TableInit PROVE TInv
  <1>1. IInv
    BY InitIInv DEF TableInit
  <1>2. Len(samples) = 0 /\ taken = 0 /\ since = written /\ written \in Nat
    BY SizeAssumption DEF TableInit, Init, Level
  <1>3. Whole(0)
    BY WholeZero DEF TableInit, SetupsMatch
  <1>4. clean => Level = 0
    BY Zenon DEF TableInit
  <1>5. ASSUME clean PROVE taken - Len(samples) - since = 0
    <2>1. written - taken = 0
      BY <1>4, <1>5, Zenon DEF Level
    <2>2. written = 0 /\ since = 0
      BY <1>2, <2>1
    <2> QED
      BY <1>2, <2>2
  <1>6. Aligned
    BY <1>2, <1>3, <1>5 DEF Aligned
  <1> QED
    BY <1>1, <1>2, <1>6 DEF TInv, TableInit

\* The analyzer set up for a session: with the same arguments the words in the FIFO go
\* on as those to come, and an empty FIFO has none.
LEMMA SetUpTInv ==
  ASSUME NoWrap, SetupsMatch, TInv, NEW s \in Setups, SetUp(s)
  PROVE  TInv'
  <1>1. IInv' /\ setup' = s /\ setup' \in Setups /\ clean' \in BOOLEAN
    BY SessionStep DEF SetUp, TInv
  <1>2. /\ written \in Nat /\ taken \in Nat /\ since \in Nat /\ since <= written
        /\ UNCHANGED <<taken, written>> /\ Len(samples') = 0
    BY DEF SetUp, NewSession, TInv, IInv, Shape
  <1>3. CASE Continues(s)
    <2>1. since' = since /\ Sample' = Sample
      BY <1>1, <1>3, SampleFrame DEF SetUp, Continues
    <2>2. ASSUME clean' PROVE taken - since \in Nat /\ Whole(taken - since)
      <3>1. CASE Level = 0
        <4>1. written = taken
          BY <3>1, <1>2 DEF Level
        <4>2. Whole(written - since)
          BY <1>3 DEF Continues
        <4> QED
          BY <4>1, <4>2, <1>2
      <3>2. CASE clean /\ Whole(Len(samples))
        BY <3>2, NextIsFirst
      <3> QED
        BY <2>2, <3>1, <3>2, Zenon DEF SetUp
    <2>3. taken - 0 - since = taken - since
      BY <1>2
    <2>4. Aligned'
      BY <2>1, <2>2, <2>3, <1>2 DEF Aligned, Whole
    <2> QED
      BY <1>1, <1>2, <2>1, <2>4 DEF TInv
  <1>4. CASE ~Continues(s)
    <2>1. since' = written /\ (clean' => Level = 0)
      BY <1>4, Zenon DEF SetUp
    <2>2. Whole(0)'
      <3>1. \A n \in {2, 4} : 0 % n = 0
        OBVIOUS
      <3>2. Len(Sample)' \in {2, 4}
        <4>1. Matches(setup)' => Len(Sample)' \in {2, 4}
          BY DEF Matches, Sample, capture_method
        <4> QED
          BY <1>1, <4>1 DEF SetupsMatch, Matches
      <3> QED
        BY <3>1, <3>2, Zenon DEF Whole
    <2>3. clean' => taken - 0 - written = 0
      BY <2>1, <1>2 DEF Level
    <2>4. Aligned'
      BY <2>1, <2>2, <2>3, <1>2 DEF Aligned, Whole
    <2> QED
      BY <1>1, <1>2, <2>1, <2>4 DEF TInv
  <1> QED
    BY <1>3, <1>4

\* A step in which no word is read starts a new trace, or leaves the samples alone.
LEMMA ReadTInv ==
  ASSUME NoWrap, SetupsMatch, TInv, Read
  PROVE  TInv'
  <1> DEFINE first == taken - Len(samples)
  <1>1. /\ IInv' /\ setup' \in Setups /\ clean' \in BOOLEAN
        /\ since' = since /\ Sample' = Sample
    BY ReaderStep, SampleFrame DEF TInv, Read
  <1>2. /\ taken \in Nat /\ written \in Nat /\ Len(samples) \in Nat /\ samples \in Seq(Nat)
        /\ since \in Nat /\ since <= written
    BY DEF TInv, IInv, Shape
  <1>3. clean' => clean
    BY Zenon DEF Read
  <1>4. CASE read_trace
    <2>1. /\ pc' = "to_idle" /\ samples' = <<>> /\ taken' = taken /\ written' = written
      BY <1>4 DEF read_trace, fifo
    <2>2. ASSUME clean' PROVE taken - since \in Nat /\ Whole(taken - since)
      <3>1. clean /\ Whole(Len(samples))
        BY <2>1, <2>2, Zenon DEF Read
      <3> QED
        BY <3>1, NextIsFirst
    <2>3. Len(samples') = 0 /\ taken - 0 - since = taken - since
      BY <2>1, <1>2
    <2>4. Aligned'
      BY <1>1, <2>1, <2>2, <2>3, <1>2 DEF Aligned, Whole
    <2> QED
      BY <1>1, <1>2, <2>1, <2>4 DEF TInv
  <1>5. CASE ReadWord
    <2>1. pc = "words" /\ to_read > 0 /\ Level > 0
      BY <1>5 DEF ReadWord, TInv, IInv, ReaderInv, Shape, Level
    <2>2. /\ samples' = Append(samples, taken + 1) /\ taken' = taken + 1 /\ written' = written
      BY <1>5, <2>1 DEF ReadWord
    <2>3. /\ Len(samples') = Len(samples) + 1
          /\ samples'[Len(samples) + 1] = taken + 1
          /\ \A i \in 1 .. Len(samples) : samples'[i] = samples[i]
      BY <1>2, <2>2
    <2>4. taken' - Len(samples') = first
      BY <1>2, <2>2, <2>3
    <2>5. ASSUME clean, NEW i \in 1 .. Len(samples') PROVE samples'[i] = first + i
      <3>1. CASE i \in 1 .. Len(samples)
        BY <3>1, <2>5, <2>3 DEF TInv, Aligned
      <3>2. CASE i = Len(samples) + 1
        BY <3>2, <2>3, <1>2
      <3> QED
        BY <3>1, <3>2, <2>3, <1>2
    <2>6. Aligned'
      <3>1. clean => first - since \in Nat /\ Whole(first - since)
        BY DEF TInv, Aligned
      <3>2. Whole(first - since)' = Whole((taken - Len(samples)) - since)
        BY <1>1, <2>4 DEF Whole
      <3> HIDE DEF first
      <3> QED
        BY <1>1, <1>3, <2>4, <2>5, <3>1 DEF Aligned, Whole
    <2> QED
      BY <1>1, <1>2, <2>2, <2>6 DEF TInv
  <1>6. ASSUME UNCHANGED <<samples, taken, written>> PROVE TInv'
    BY <1>6, <1>1, <1>2, <1>3 DEF TInv, Aligned, Whole
  <1>7. CASE trigger_idle \/ trigger_start \/ trigger_halt
    BY <1>6, <1>7 DEF trigger_idle, trigger_start, trigger_halt, Trigger, fifo
  <1>8. CASE Loop \/ TooMany \/ ReadControl \/ ReadControlPanics \/ WordsRead
    BY <1>6, <1>8 DEF Loop, TooMany, ReadControl, ReadControlPanics, WordsRead, fifo
  <1> QED
    BY <1>4, <1>5, <1>7, <1>8 DEF Read, Reader

\* A word that finds room leaves those that were taken alone.
LEMMA FillTInv ==
  ASSUME NoWrap, SetupsMatch, TInv, Fill
  PROVE  TInv'
  <1>1. IInv' /\ setup' \in Setups /\ clean' \in BOOLEAN /\ since' = since /\ Sample' = Sample
    BY CaptureStep, SampleFrame DEF TInv, Fill
  <1>2. samples' = samples /\ since <= written' /\ since \in Nat
    BY DEF Fill, Capture, reader, TInv, IInv, Shape
  <1>3. Level # Depth \/ ~ clean'
    <2>1. Level = Depth => ~(Level < Depth)
      BY SizeAssumption DEF TInv, IInv, Shape, Level
    <2> QED
      BY <2>1, Zenon DEF Fill
  <1>4. clean' => clean
    BY Zenon DEF Fill
  <1>5. taken' = taken \/ ~ clean'
    BY <1>3 DEF Fill, Capture
  <1> QED
    BY <1>1, <1>2, <1>4, <1>5 DEF TInv, Aligned, Whole

LEMMA NextTInv ==
  ASSUME NoWrap, SetupsMatch, TInv, [TableNext]_tableVars PROVE TInv'
  <1>1. CASE UNCHANGED tableVars
    <2>1. UNCHANGED vars /\ setup' = setup /\ clean' = clean /\ since' = since
      BY <1>1 DEF tableVars, history
    <2>2. IInv'
      BY <2>1, NextIInv DEF TInv
    <2> QED
      BY <2>1, <2>2, SampleFrame DEF vars, TInv, Aligned, Whole
  <1> QED
    BY <1>1, ReadTInv, FillTInv, SetUpTInv DEF TableNext

\* In the table of a trace every number stands under its header, whatever the sizes of
\* the FIFO and of the trace, and whatever sessions came before, with the exceptions of
\* CellsUnderTheirHeaders.
THEOREM TablesAreRight ==
  ASSUME NoWrap, SetupsMatch PROVE TableSpec => []CellsUnderTheirHeaders
  <1>1. ASSUME TInv PROVE CellsUnderTheirHeaders
    <2> DEFINE n == Len(Sample)
               first == taken - Len(samples)
               before == first - since
    <2>1. /\ n \in {2, 4} /\ n = setup.words_per_sample
          /\ DOMAIN header_line = 1 .. n
          /\ \A j \in 1 .. n : header_line[j] = Sample[j]
      BY <1>1, SampleSize, HeaderIsSample DEF TInv, SetupsMatch
    <2>2. ASSUME clean, NEW i \in DOMAIN samples
          PROVE  Cell(i) \in DOMAIN header_line /\ header_line[Cell(i)] = Column(samples[i])
      <3>1. /\ i \in 1 .. Len(samples) /\ before \in Nat /\ before % n = 0
            /\ samples[i] = first + i /\ first \in Int /\ since \in Nat
        BY <1>1, <2>2 DEF TInv, IInv, Shape, Aligned, Whole
      <3>2. samples[i] > since /\ samples[i] - since - 1 = before + (i - 1) /\ i - 1 \in Nat
        BY <3>1
      <3>3. (samples[i] - since - 1) % n = (i - 1) % n
        <4> HIDE DEF n, before
        <4>1. (before + (i - 1)) % n = (i - 1) % n
          BY <3>1, <3>2, <2>1, WholeSum
        <4> QED
          BY <3>2, <4>1
      <3>4. (i - 1) % n \in 0 .. n - 1
        BY <3>1, <2>1
      <3>5. Cell(i) = 1 + ((i - 1) % n) /\ Cell(i) \in 1 .. n
        <4> HIDE DEF n
        <4> QED
          BY <3>4, <2>1 DEF Cell
      <3>6. Column(samples[i]) = At(Sample, samples[i] - since)
        BY <3>2 DEF Column
      <3> QED
        BY <2>1, <3>3, <3>5, <3>6 DEF At
    <2> QED
      BY <2>2 DEF CellsUnderTheirHeaders
  <1> QED
    BY <1>1, InitTInv, NextTInv, PTL DEF TableSpec
=============================================================================
