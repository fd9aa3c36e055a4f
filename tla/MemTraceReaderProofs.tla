------------------------- MODULE MemTraceReaderProofs -------------------------
(***************************************************************************)
(* Proofs about MemTraceReader, for every length of the trace and of the   *)
(* buffer.                                                                 *)
(*                                                                         *)
(* The two regimes of the reader keep different invariants.  A trace that  *)
(* fits is loaded once and stays at the front of the buffer; a longer one  *)
(* is streamed, the entries of the buffer following each other cyclically  *)
(* and the file offset following the last of them.  That the stream never  *)
(* fails while the buffer is at most twice the trace is what keeps memory  *)
(* that was never read from being handed out.                              *)
(***************************************************************************)
EXTENDS MemTraceReader, TLAPS

USE LengthsAssumption

-----------------------------------------------------------------------------
(* The inductive invariant.                                                *)

\* The entry k places before entry i of the cycle.
Before(i, k) == IF k <= i THEN i - k ELSE i - k + n_unique_entries

\* A trace that fits lies at the front of the buffer, and the first pass
\* reads it from there.
FittingInv ==
    n_unique_entries <= buffer_size_entries =>
        /\ \A i \in Entries : stream.buf[i] = i
        /\ served <= n_unique_entries => buffer_curr_entry = served

\* A longer trace is in the buffer as a stretch of the cycle, which the file
\* offset continues.
StreamingInv ==
    buffer_size_entries < n_unique_entries =>
        /\ ~stream.failed
        /\ \A i \in Slots :
            i + 1 \in Slots => stream.buf[i + 1] = Successor(stream.buf[i])
        /\ Successor(stream.buf[buffer_size_entries - 1])
                = IF stream.offset = n_unique_entries THEN 0 ELSE stream.offset
        /\ served = 0 => stream.buf[0] = 0

\* The last entry handed out is the one before the cursor.
CursorInv ==
    /\ served = 0 => buffer_curr_entry = 0 /\ full_trace_entry_ctr = 0
    /\ served > 0 => /\ buffer_curr_entry > 0
                     /\ entry = stream.buf[buffer_curr_entry - 1]

\* A buffer of at most two traces is filled, and its stream does not fail.
FilledInv ==
    buffer_size_entries <= 2 * n_unique_entries =>
        /\ ~stream.failed
        /\ \A i \in Slots : stream.buf[i] \in Entries
        /\ served > 0 => entry \in Entries
        /\ handed \subseteq Entries

\* The pass has handed out the entries counted, the last ones of the cycle.
HandedInv ==
    buffer_size_entries <= n_unique_entries =>
        \A k \in 0..full_trace_entry_ctr - 1 : Before(entry, k) \in handed

Inv ==
    /\ TypeOK
    /\ FittingInv
    /\ StreamingInv
    /\ CursorInv
    /\ FilledInv
    /\ HandedInv
    /\ FirstPassExact

-----------------------------------------------------------------------------
(* What the operations of the stream do.                                   *)

StreamType == [buf : [Slots -> Entries \union {Garbage}],
               offset : 0..n_unique_entries,
               failed : BOOLEAN]

Lengths ==
    /\ n_unique_entries \in Nat \ {0}
    /\ buffer_size_entries \in Nat \ {0}

\* Reading from a stream that has not failed, part by part.
LEMMA ReadFacts ==
    ASSUME Lengths, NEW s \in StreamType, ~s.failed,
           NEW first \in Nat, NEW count \in Nat
    PROVE  LET t == Read(s, first, count)
               left == n_unique_entries - s.offset
               got == IF count <= left THEN count ELSE left
           IN /\ t \in StreamType
              /\ t.offset = s.offset + got
              /\ t.failed <=> left < count
              /\ \A i \in Slots :
                    t.buf[i] = IF i \in first..first + got - 1
                               THEN s.offset + i - first ELSE s.buf[i]
  <1> DEFINE left == n_unique_entries - s.offset
             got == IF count <= left THEN count ELSE left
             bf == [i \in Slots |-> IF i \in first..first + got - 1
                                    THEN s.offset + i - first ELSE s.buf[i]]
             t == Read(s, first, count)
  <1>1. /\ s.offset \in 0..n_unique_entries
        /\ s.buf \in [Slots -> Entries \union {Garbage}]
    BY DEF StreamType
  <1>2. left \in Nat /\ got \in Nat /\ got <= left /\ (got < count <=> left < count)
    BY <1>1 DEF Lengths
  <1>3. t = [buf |-> bf, offset |-> s.offset + got, failed |-> got < count]
    BY DEF Read
  <1>4. bf \in [Slots -> Entries \union {Garbage}]
    <2>1. ASSUME NEW i \in Slots, i \in first..first + got - 1
          PROVE  s.offset + i - first \in Entries
      BY <1>1, <1>2, <2>1 DEF Entries, Slots, Lengths
    <2>2. QED BY <1>1, <2>1
  <1>5. s.offset + got \in 0..n_unique_entries
    BY <1>1, <1>2 DEF Lengths
  <1>6. (got < count) \in BOOLEAN
    OBVIOUS
  <1> HIDE DEF got, bf
  <1>7. t \in StreamType
    BY <1>3, <1>4, <1>5, <1>6 DEF StreamType
  <1>8. t.buf = bf /\ t.offset = s.offset + got /\ (t.failed <=> got < count)
    <2> HIDE DEF t
    <2>1. t.buf = bf /\ t.offset = s.offset + got
      BY <1>3
    <2>2. t.failed = (got < count)
      BY <1>3, Zenon
    <2>3. QED BY <2>1, <2>2
  <1>9. QED BY <1>2, <1>7, <1>8 DEF bf, got

\* A buffer of at most the trace is filled with a stretch of the cycle.
LEMMA StreamedBuffer ==
    ASSUME Lengths, NEW s \in StreamType, ~s.failed,
           buffer_size_entries <= n_unique_entries
    PROVE  LET t == ReadBuffer(s)
               end == s.offset + buffer_size_entries
           IN /\ t \in StreamType
              /\ ~t.failed
              /\ t.offset = IF end <= n_unique_entries
                            THEN end ELSE end - n_unique_entries
              /\ \A i \in Slots :
                    t.buf[i] = IF s.offset + i < n_unique_entries
                               THEN s.offset + i
                               ELSE s.offset + i - n_unique_entries
  <1> DEFINE n == n_unique_entries
             b == buffer_size_entries
             left == n - s.offset
  <1>1. s.offset \in 0..n /\ left \in Nat /\ n \in Nat \ {0} /\ b \in Nat \ {0}
    BY DEF StreamType, Lengths
  <1>2. EntriesTillEndOfFile(s) = left
    BY DEF EntriesTillEndOfFile
  <1>3. CASE left >= b
    <2>1. ReadBuffer(s) = Read(s, 0, b)
      BY <1>2, <1>3 DEF ReadBuffer
    <2> DEFINE t == Read(s, 0, b)
    <2>2. /\ t \in StreamType /\ ~t.failed /\ t.offset = s.offset + b
          /\ \A i \in Slots : t.buf[i] = IF i \in 0..b - 1
                                         THEN s.offset + i ELSE s.buf[i]
      <3>1. 0 \in Nat /\ b \in Nat
        BY <1>1
      <3>2. QED BY <1>1, <1>3, <3>1, ReadFacts
    <2> HIDE DEF t
    <2>3. \A i \in Slots : i \in 0..b - 1 /\ s.offset + i < n
      BY <1>1, <1>3 DEF Slots
    <2>4. QED BY <1>1, <1>3, <2>1, <2>2, <2>3 DEF t
  <1>4. CASE left < b
    <2> DEFINE r == Read(s, 0, left)
               u == Seek(r, 0)
               c == b - left
               t == Read(u, left, c)
    <2>1. ReadBuffer(s) = t
      BY <1>1, <1>2, <1>4 DEF ReadBuffer
    <2>2. /\ r \in StreamType /\ ~r.failed
          /\ \A i \in Slots : i < left => r.buf[i] = s.offset + i
      BY <1>1, ReadFacts DEF Slots
    <2>3. u \in StreamType /\ ~u.failed /\ u.offset = 0 /\ u.buf = r.buf
      <3> HIDE DEF r
      <3>1. u = [r EXCEPT !.offset = 0]
        BY <2>2 DEF Seek
      <3>2. QED BY <1>1, <2>2, <3>1 DEF StreamType
    <2>4. b - left \in Nat /\ b - left <= n
      BY <1>1, <1>4
    <2> HIDE DEF u, r
    <2>5. /\ t \in StreamType /\ ~t.failed /\ t.offset = b - left
          /\ \A i \in Slots : t.buf[i] = IF i \in left..b - 1
                                         THEN i - left ELSE u.buf[i]
      <3> DEFINE avail == n - u.offset
                 got == IF c <= avail THEN c ELSE avail
      <3>1. got = c /\ ~(avail < c) /\ left + got - 1 = b - 1
        BY <1>1, <2>3, <2>4
      <3>2. /\ t \in StreamType /\ t.offset = u.offset + got
            /\ (t.failed <=> avail < c)
            /\ \A i \in Slots : t.buf[i] =
                    IF i \in left..left + got - 1
                    THEN u.offset + i - left ELSE u.buf[i]
        <4>1. c \in Nat /\ left \in Nat
          BY <1>1, <2>4
        <4> HIDE DEF c, left
        <4>2. QED BY <2>3, <4>1, ReadFacts DEF left
      <3> HIDE DEF t, c, got, avail
      <3>3. t \in StreamType /\ ~t.failed /\ t.offset = b - left
        BY <1>1, <2>3, <2>4, <3>1, <3>2 DEF c
      <3>4. \A i \in left..b - 1 : u.offset + i - left = i - left
        BY <1>1, <2>3
      <3>5. QED BY <3>1, <3>2, <3>3, <3>4
    <2>6. \A i \in Slots : t.buf[i] = IF s.offset + i < n
                                      THEN s.offset + i ELSE s.offset + i - n
      BY <1>1, <2>2, <2>3, <2>5 DEF Slots
    <2>7. QED BY <1>1, <1>4, <2>1, <2>5, <2>6
  <1>5. QED BY <1>1, <1>3, <1>4

\* Reading from the beginning puts the trace, or what of it there is room for,
\* at the front of the buffer; a second copy fills the rest if it can.
LEMMA AlignedBuffer ==
    ASSUME Lengths, NEW s \in StreamType, ~s.failed, s.offset = 0
    PROVE  LET t == ReadBuffer(s)
           IN /\ t \in StreamType
              /\ \A i \in Slots : i \in Entries => t.buf[i] = i
              /\ buffer_size_entries < n_unique_entries =>
                    ~t.failed /\ t.offset = buffer_size_entries
              /\ buffer_size_entries <= 2 * n_unique_entries =>
                    ~t.failed /\ \A i \in Slots : t.buf[i] \in Entries
  <1> DEFINE n == n_unique_entries
             b == buffer_size_entries
  <1>1. n \in Nat \ {0} /\ b \in Nat \ {0}
    BY DEF Lengths
  <1>2. CASE b <= n
    BY <1>1, <1>2, StreamedBuffer DEF Slots, Entries
  <1>3. CASE n < b
    <2> DEFINE r == Read(s, 0, n)
               u == Seek(r, 0)
               t == Read(u, n, b - n)
    <2>1. ReadBuffer(s) = t
      BY <1>1, <1>3 DEF ReadBuffer, EntriesTillEndOfFile
    <2>2. /\ r \in StreamType /\ ~r.failed
          /\ \A i \in Slots : i < n => r.buf[i] = i
      BY <1>1, ReadFacts DEF Slots
    <2>3. u \in StreamType /\ ~u.failed /\ u.offset = 0 /\ u.buf = r.buf
      <3> HIDE DEF r
      <3>1. u = [r EXCEPT !.offset = 0]
        BY <2>2 DEF Seek
      <3>2. QED BY <1>1, <2>2, <3>1 DEF StreamType
    <2>4. b - n \in Nat
      BY <1>1, <1>3
    <2> HIDE DEF u, r
    <2>5. /\ t \in StreamType /\ (t.failed <=> n < b - n)
          /\ \A i \in Slots : t.buf[i] =
                IF i \in n..n + (IF b - n <= n THEN b - n ELSE n) - 1
                THEN i - n ELSE u.buf[i]
      BY <1>1, <2>3, <2>4, ReadFacts
    <2>6. \A i \in Slots : i \in Entries => t.buf[i] = i
      BY <1>1, <2>2, <2>3, <2>5 DEF Slots, Entries
    <2>7. ASSUME b <= 2 * n, NEW i \in Slots PROVE t.buf[i] \in Entries
      <3>1. CASE i < n
        BY <1>1, <2>6, <3>1 DEF Slots, Entries
      <3>2. CASE i >= n
        <4>1. t.buf[i] = i - n
          BY <1>1, <2>5, <2>7, <3>2 DEF Slots
        <4>2. QED BY <1>1, <2>7, <3>2, <4>1 DEF Slots, Entries
      <3>3. QED BY <1>1, <3>1, <3>2 DEF Slots
    <2>8. b <= 2 * n => ~t.failed
      BY <1>1, <2>5
    <2> HIDE DEF t
    <2>9. QED BY <1>1, <1>3, <2>1, <2>5, <2>6, <2>7, <2>8
  <1>4. QED BY <1>1, <1>2, <1>3

\* A failed stream reads nothing.
LEMMA FailedBuffer ==
    ASSUME NEW s \in StreamType, s.failed
    PROVE  ReadBuffer(s) = s
  BY DEF ReadBuffer, Read, Seek

-----------------------------------------------------------------------------
(* The steps.                                                              *)

\* What the type invariant says of the reader.
LEMMA ReaderTypes ==
    ASSUME TypeOK
    PROVE  /\ Lengths
           /\ stream \in StreamType
           /\ buffer_curr_entry \in 0..buffer_size_entries
           /\ full_trace_entry_ctr \in 0..n_unique_entries
           /\ served \in Nat
           /\ entry \in Entries \union {Garbage}
           /\ handed \in SUBSET (Entries \union {Garbage})
  BY DEF TypeOK, Lengths, StreamType

\* load() establishes the invariant.
LEMMA InitInv ==
    ASSUME Init
    PROVE  Inv
  <1> DEFINE s == [buf |-> [i \in Slots |-> Garbage], offset |-> 0, failed |-> FALSE]
             n == n_unique_entries
             b == buffer_size_entries
  <1>1. Lengths /\ n \in Nat \ {0} /\ b \in Nat \ {0}
    BY DEF Init, Lengths
  <1>2. s \in StreamType /\ ~s.failed /\ s.offset = 0
    BY <1>1 DEF StreamType
  <1>3. stream = ReadBuffer(s)
    BY DEF Init, Refill
  <1> HIDE DEF s
  <1>4. /\ stream \in StreamType
        /\ \A i \in Slots : i \in Entries => stream.buf[i] = i
        /\ b < n => ~stream.failed /\ stream.offset = b
        /\ b <= 2 * n => ~stream.failed /\ \A i \in Slots : stream.buf[i] \in Entries
    BY <1>1, <1>2, <1>3, AlignedBuffer
  <1>5. /\ buffer_curr_entry = 0 /\ full_trace_entry_ctr = 0 /\ served = 0
        /\ n_full_passes = 0 /\ n_requests = 0
        /\ entry = Garbage /\ queried = Garbage /\ handed = {}
        /\ n \in TraceLengths /\ b \in BufferLengths
    BY DEF Init
  <1>6. TypeOK
    BY <1>1, <1>4, <1>5 DEF TypeOK, StreamType
  <1>7. FittingInv
    BY <1>1, <1>4, <1>5 DEF FittingInv, Entries, Slots
  <1>8. StreamingInv
    BY <1>1, <1>4, <1>5 DEF StreamingInv, Entries, Slots, Successor
  <1>9. CursorInv /\ FilledInv /\ HandedInv /\ FirstPassExact
    BY <1>1, <1>4, <1>5 DEF CursorInv, FilledInv, HandedInv, FirstPassExact
  <1>10. QED BY <1>6, <1>7, <1>8, <1>9 DEF Inv

\* reset() establishes it again, wherever the reader stood.
LEMMA ResetInv ==
    ASSUME Inv, Reset
    PROVE  Inv'
  <1> DEFINE s == Seek(stream, 0)
             n == n_unique_entries
             b == buffer_size_entries
  <1>1. /\ Lengths /\ n \in Nat \ {0} /\ b \in Nat \ {0} /\ stream \in StreamType
    BY ReaderTypes DEF Inv, Lengths
  <1>2. /\ stream' = ReadBuffer(s)
        /\ buffer_curr_entry' = 0 /\ full_trace_entry_ctr' = 0
        /\ served' = 0 /\ handed' = {}
        /\ UNCHANGED <<n_unique_entries, buffer_size_entries, n_full_passes,
                       n_requests, entry, queried>>
    BY DEF Reset, ResetStream, Refill, counters
  <1>3. /\ stream' \in StreamType
        /\ n <= b => \A i \in Entries : stream'.buf[i] = i
        /\ b < n => /\ ~stream'.failed /\ stream'.offset = b
                    /\ \A i \in Slots : stream'.buf[i] = i
        /\ b <= 2 * n => /\ ~stream'.failed
                         /\ \A i \in Slots : stream'.buf[i] \in Entries
    <2>1. CASE stream.failed
      <3>1. stream' = stream
        BY <1>1, <1>2, <2>1, FailedBuffer DEF Seek
      <3>2. QED BY <1>1, <2>1, <3>1 DEF Inv, FittingInv, StreamingInv, FilledInv
    <2>2. CASE ~stream.failed
      <3>1. s = [stream EXCEPT !.offset = 0]
        BY <2>2 DEF Seek
      <3>2. s \in StreamType /\ ~s.failed /\ s.offset = 0
        BY <1>1, <2>2, <3>1 DEF StreamType
      <3> HIDE DEF s
      <3>3. /\ stream' \in StreamType
            /\ \A i \in Slots : i \in Entries => stream'.buf[i] = i
            /\ b < n => ~stream'.failed /\ stream'.offset = b
            /\ b <= 2 * n => /\ ~stream'.failed
                             /\ \A i \in Slots : stream'.buf[i] \in Entries
        BY <1>1, <1>2, <3>2, AlignedBuffer
      <3>4. /\ n <= b => Entries \subseteq Slots
            /\ b < n => Slots \subseteq Entries
        BY <1>1 DEF Entries, Slots
      <3>5. QED BY <3>3, <3>4
    <2>3. QED BY <2>1, <2>2
  <1>4. Entries' = Entries /\ Slots' = Slots
    BY <1>2 DEF Entries, Slots
  <1>5. TypeOK'
    BY <1>1, <1>2, <1>3, <1>4 DEF Inv, TypeOK, StreamType
  <1>6. FittingInv'
    BY <1>1, <1>2, <1>3, <1>4 DEF FittingInv
  <1>7. StreamingInv'
    <2>1. ASSUME b < n
          PROVE  /\ \A i \in Slots : i + 1 \in Slots =>
                        stream'.buf[i + 1] = Successor(stream'.buf[i])
                 /\ Successor(stream'.buf[b - 1]) = b
                 /\ stream'.buf[0] = 0
      BY <1>1, <1>3, <2>1 DEF Slots, Successor
    <2>2. QED BY <1>1, <1>2, <1>3, <1>4, <2>1 DEF StreamingInv, Successor
  <1>8. CursorInv' /\ FilledInv' /\ HandedInv' /\ FirstPassExact'
    BY <1>1, <1>2, <1>3, <1>4 DEF CursorInv, FilledInv, HandedInv, FirstPassExact, Inv
  <1>9. QED BY <1>5, <1>6, <1>7, <1>8 DEF Inv

\* get_first_entry() and get_last_entry() do not disturb the reader.
LEMMA GetEntryInv ==
    ASSUME Inv, NEW i \in Entries, GetEntry(i)
    PROVE  Inv'
  <1>1. /\ queried' \in Entries \union {Garbage}
        /\ UNCHANGED <<n_unique_entries, buffer_size_entries, stream,
                       buffer_curr_entry, full_trace_entry_ctr, n_full_passes,
                       n_requests, entry, served, handed>>
    BY DEF GetEntry, counters
  <1>2. TypeOK'
    BY <1>1 DEF Inv, TypeOK, Entries, Slots
  <1>3. FittingInv' /\ CursorInv' /\ FilledInv' /\ FirstPassExact'
    BY <1>1 DEF Inv, FittingInv, CursorInv, FilledInv, FirstPassExact, Entries, Slots
  <1>4. StreamingInv' /\ HandedInv'
    BY <1>1 DEF Inv, StreamingInv, HandedInv, Successor, Before, Slots
  <1>5. QED BY <1>2, <1>3, <1>4 DEF Inv

\* A stuttering step changes nothing.
LEMMA StutterInv ==
    ASSUME Inv, UNCHANGED vars
    PROVE  Inv'
  <1>1. UNCHANGED <<n_unique_entries, buffer_size_entries, stream,
                    buffer_curr_entry, full_trace_entry_ctr, n_full_passes,
                    n_requests, entry, queried, served, handed>>
    BY DEF vars, counters
  <1>2. TypeOK'
    BY <1>1 DEF Inv, TypeOK, Entries, Slots
  <1>3. FittingInv' /\ CursorInv' /\ FilledInv' /\ FirstPassExact'
    BY <1>1 DEF Inv, FittingInv, CursorInv, FilledInv, FirstPassExact, Entries, Slots
  <1>4. StreamingInv' /\ HandedInv'
    BY <1>1 DEF Inv, StreamingInv, HandedInv, Successor, Before, Slots
  <1>5. QED BY <1>2, <1>3, <1>4 DEF Inv

\* The buffer next() takes its entry from: the old one, or the next stretch
\* of the cycle.
LEMMA NextBuffer ==
    ASSUME Inv, NextEntry
    PROVE  /\ stream' \in StreamType
           /\ n_unique_entries <= buffer_size_entries => stream' = stream
           /\ ~is_end_of_buffer => stream' = stream
           /\ buffer_size_entries < n_unique_entries =>
                /\ ~stream'.failed
                /\ \A i \in Slots : stream'.buf[i] \in Entries
                /\ \A i \in Slots : i + 1 \in Slots =>
                        stream'.buf[i + 1] = Successor(stream'.buf[i])
                /\ Successor(stream'.buf[buffer_size_entries - 1]) =
                        IF stream'.offset = n_unique_entries THEN 0 ELSE stream'.offset
                /\ is_end_of_buffer => stream'.buf[0] =
                        Successor(stream.buf[buffer_size_entries - 1])
  <1> DEFINE n == n_unique_entries
             b == buffer_size_entries
             o == stream.offset
  <1>1. /\ Lengths /\ n \in Nat \ {0} /\ b \in Nat \ {0} /\ stream \in StreamType
    BY ReaderTypes DEF Inv, Lengths
  <1>2. o \in 0..n
    BY <1>1 DEF StreamType
  <1>3. CASE ~is_end_of_buffer \/ n <= b
    <2>1. stream' = stream
      BY <1>1, <1>3 DEF NextEntry, Refill
    <2>2. is_end_of_buffer => n <= b
      BY <1>3
    <2>3. QED BY <1>1, <2>1, <2>2 DEF Inv, StreamingInv, FilledInv
  <1>4. CASE is_end_of_buffer /\ b < n
    <2>1. stream' = ReadBuffer(stream)
      BY <1>1, <1>4 DEF NextEntry, Refill
    <2>2. /\ ~stream.failed
          /\ Successor(stream.buf[b - 1]) = IF o = n THEN 0 ELSE o
      BY <1>4 DEF Inv, StreamingInv
    <2>3. /\ stream' \in StreamType /\ ~stream'.failed
          /\ stream'.offset = IF o + b <= n THEN o + b ELSE o + b - n
          /\ \A i \in Slots : stream'.buf[i] = IF o + i < n THEN o + i ELSE o + i - n
      <3> DEFINE t == ReadBuffer(stream)
      <3>1. /\ t \in StreamType /\ ~t.failed
            /\ t.offset = IF o + b <= n THEN o + b ELSE o + b - n
            /\ \A i \in Slots : t.buf[i] = IF o + i < n THEN o + i ELSE o + i - n
        <4>1. b <= n
          BY <1>1, <1>4
        <4>2. QED BY <1>1, <1>2, <2>2, <4>1, StreamedBuffer
      <3> HIDE DEF t
      <3>2. stream' = t
        BY <2>1 DEF t
      <3>3. QED BY <3>1, <3>2
    <2>4. \A i \in Slots : stream'.buf[i] \in Entries
      BY <1>1, <1>2, <1>4, <2>3 DEF Slots, Entries
    <2>5. ASSUME NEW i \in Slots, i + 1 \in Slots
          PROVE  stream'.buf[i + 1] = Successor(stream'.buf[i])
      <3>1. i \in 0..b - 2
        BY <1>1, <2>5 DEF Slots
      <3>2. /\ stream'.buf[i] = IF o + i < n THEN o + i ELSE o + i - n
            /\ stream'.buf[i + 1] = IF o + (i + 1) < n THEN o + (i + 1)
                                    ELSE o + (i + 1) - n
        BY <2>3, <2>5
      <3>3. QED BY <1>1, <1>2, <1>4, <3>1, <3>2 DEF Successor
    <2>6. b - 1 \in Slots /\ 0 \in Slots
      BY <1>1 DEF Slots
    <2>7. Successor(stream'.buf[b - 1]) =
                IF stream'.offset = n THEN 0 ELSE stream'.offset
      BY <1>1, <1>2, <1>4, <2>3, <2>6 DEF Successor
    <2>8. stream'.buf[0] = Successor(stream.buf[b - 1])
      BY <1>1, <1>2, <2>2, <2>3, <2>6
    <2>9. QED BY <1>1, <1>4, <2>3, <2>4, <2>5, <2>7, <2>8
  <1>5. QED BY <1>1, <1>3, <1>4

\* The entry next() hands out follows the last one, cyclically, unless the
\* buffer is longer than the trace.
LEMMA NextFollows ==
    ASSUME Inv, NextEntry
    PROVE  /\ entry' = stream'.buf[buffer_curr_entry' - 1]
           /\ buffer_curr_entry' \in 1..buffer_size_entries
           /\ served' = served + 1
           /\ (buffer_size_entries <= n_unique_entries /\ served > 0)
                => entry' = Successor(entry) /\ entry \in Entries
           /\ served = 0 => entry' = 0
  <1> DEFINE n == n_unique_entries
             b == buffer_size_entries
             cur == buffer_curr_entry
             slot == IF is_end_of_buffer THEN 0 ELSE cur
  <1>1. /\ Lengths /\ n \in Nat \ {0} /\ b \in Nat \ {0}
        /\ cur \in 0..b /\ served \in Nat
    BY ReaderTypes DEF Inv, Lengths
  <1>2. /\ entry' = stream'.buf[slot] /\ buffer_curr_entry' = slot + 1
        /\ served' = served + 1
    BY DEF NextEntry
  <1>3. slot \in Slots
    BY <1>1 DEF Slots, is_end_of_buffer
  <1>4. entry' = stream'.buf[buffer_curr_entry' - 1] /\ buffer_curr_entry' \in 1..b
    BY <1>1, <1>2, <1>3 DEF Slots
  <1>5. ASSUME served = 0 PROVE entry' = 0
    <2>1. cur = 0 /\ ~is_end_of_buffer
      BY <1>1, <1>5 DEF Inv, CursorInv, is_end_of_buffer
    <2>2. stream' = stream /\ slot = 0
      BY <2>1, NextBuffer
    <2>3. stream.buf[0] = 0
      BY <1>1, <1>5 DEF Inv, StreamingInv, FittingInv, Entries
    <2>4. QED BY <1>2, <2>2, <2>3
  <1>6. ASSUME b <= n, served > 0
        PROVE  entry' = Successor(entry) /\ entry \in Entries
    <2>1. cur > 0 /\ entry = stream.buf[cur - 1] /\ entry \in Entries
      BY <1>1, <1>6 DEF Inv, CursorInv, FilledInv
    <2>2. CASE is_end_of_buffer
      <3>1. slot = 0 /\ cur = b
        BY <2>2 DEF is_end_of_buffer
      <3>2. CASE b < n
        <4>1. stream'.buf[0] = Successor(stream.buf[b - 1])
          BY <2>2, <3>2, NextBuffer
        <4>2. QED BY <1>2, <2>1, <3>1, <4>1
      <3>3. CASE b = n
        <4>1. stream' = stream
          BY <1>1, <3>3, NextBuffer
        <4>2. /\ b - 1 \in Entries /\ 0 \in Entries
              /\ \A i \in Entries : stream.buf[i] = i
          BY <1>1, <3>3 DEF Inv, FittingInv, Entries
        <4>3. QED BY <1>2, <2>1, <3>1, <3>3, <4>1, <4>2 DEF Successor
      <3>4. QED BY <1>1, <1>6, <3>2, <3>3
    <2>3. CASE ~is_end_of_buffer
      <3>1. stream' = stream /\ slot = cur
        BY <2>3, NextBuffer
      <3>2. cur - 1 \in Slots /\ cur \in Slots
        BY <1>1, <1>3, <2>1, <3>1 DEF Slots
      <3>3. stream.buf[cur] = Successor(stream.buf[cur - 1])
        <4>1. CASE b < n
          <5>1. (cur - 1) + 1 = cur
            BY <1>1
          <5>2. QED BY <3>2, <4>1, <5>1 DEF Inv, StreamingInv
        <4>2. CASE b = n
          <5>1. cur - 1 \in Entries /\ cur \in Entries
            BY <1>1, <3>2, <4>2 DEF Entries, Slots
          <5>2. stream.buf[cur] = cur /\ stream.buf[cur - 1] = cur - 1
            BY <1>1, <4>2, <5>1 DEF Inv, FittingInv
          <5>3. QED BY <1>1, <5>1, <5>2 DEF Successor, Entries
        <4>3. QED BY <1>1, <1>6, <4>1, <4>2
      <3>4. QED BY <1>2, <2>1, <3>1, <3>3
    <2>4. QED BY <2>1, <2>2, <2>3
  <1>7. QED BY <1>2, <1>4, <1>5, <1>6

\* next() keeps the invariant.
LEMMA NextEntryInv ==
    ASSUME Inv, NextEntry
    PROVE  Inv'
  <1> DEFINE n == n_unique_entries
             b == buffer_size_entries
             cur == buffer_curr_entry
             ctr == full_trace_entry_ctr
  <1>1. /\ Lengths /\ n \in Nat \ {0} /\ b \in Nat \ {0} /\ stream \in StreamType
        /\ cur \in 0..b /\ ctr \in 0..n /\ served \in Nat
        /\ handed \in SUBSET (Entries \union {Garbage})
    BY ReaderTypes DEF Inv, Lengths
  <1>2. /\ UNCHANGED <<n_unique_entries, buffer_size_entries, queried>>
        /\ n_requests' = n_requests + 1
        /\ cur' = (IF is_end_of_buffer THEN 0 ELSE cur) + 1
        /\ \/ /\ ctr = n /\ n_full_passes' = n_full_passes + 1
              /\ ctr' = 0 /\ handed' = {entry'}
           \/ /\ ctr # n /\ ctr' = ctr + 1 /\ handed' = handed \union {entry'}
              /\ n_full_passes' = n_full_passes
    BY DEF NextEntry, is_end_of_pass
  <1>3. Entries' = Entries /\ Slots' = Slots
    BY <1>2 DEF Entries, Slots
  <1>4. /\ entry' = stream'.buf[cur' - 1]
        /\ cur' \in 1..b
        /\ served' = served + 1
        /\ (b <= n /\ served > 0) => entry' = Successor(entry) /\ entry \in Entries
        /\ served = 0 => entry' = 0
    BY NextFollows
  <1>5. /\ stream' \in StreamType
        /\ n <= b => stream' = stream
        /\ b < n => /\ ~stream'.failed
                    /\ \A i \in Slots : stream'.buf[i] \in Entries
                    /\ \A i \in Slots : i + 1 \in Slots =>
                            stream'.buf[i + 1] = Successor(stream'.buf[i])
                    /\ Successor(stream'.buf[b - 1]) =
                            IF stream'.offset = n THEN 0 ELSE stream'.offset
    BY NextBuffer
  <1>6. cur' - 1 \in Slots
    <2>1. PICK c : c = cur'
      OBVIOUS
    <2>2. c \in 1..b
      BY <1>4, <2>1
    <2>3. c - 1 \in Slots
      BY <1>1, <2>2 DEF Slots
    <2>4. QED BY <2>1, <2>3
  <1>7. entry' \in Entries \union {Garbage}
    BY <1>4, <1>5, <1>6 DEF StreamType
  <1>8. TypeOK'
    <2>1. stream' \in [buf : [Slots' -> Entries' \union {Garbage}],
                       offset : 0..n_unique_entries', failed : BOOLEAN]
      BY <1>2, <1>3, <1>5 DEF StreamType
    <2>2. cur' \in 0..b /\ ctr' \in 0..n
      BY <1>1, <1>2, <1>4
    <2>3. n_full_passes' \in Nat /\ n_requests' \in Nat /\ served' \in Nat
      BY <1>2, <1>4 DEF Inv, TypeOK
    <2>4. handed' \in SUBSET (Entries \union {Garbage})
      BY <1>1, <1>2, <1>7
    <2>5. QED BY <1>2, <1>3, <1>7, <2>1, <2>2, <2>3, <2>4 DEF Inv, TypeOK
  <1>9. FittingInv'
    <2>1. ASSUME n <= b
          PROVE  /\ \A i \in Entries : stream'.buf[i] = i
                 /\ served + 1 <= n => cur' = served + 1
      <3>1. \A i \in Entries : stream'.buf[i] = i
        BY <2>1, <1>5 DEF Inv, FittingInv
      <3>2. ASSUME served + 1 <= n PROVE cur' = served + 1
        <4>1. cur = served /\ ~is_end_of_buffer
          BY <1>1, <2>1, <3>2 DEF Inv, FittingInv, is_end_of_buffer
        <4>2. QED BY <1>2, <4>1
      <3>3. QED BY <3>1, <3>2
    <2>2. QED BY <1>2, <1>3, <1>4, <2>1 DEF FittingInv
  <1>10. StreamingInv'
    <2>1. served' # 0
      BY <1>1, <1>4
    <2>2. QED BY <1>2, <1>3, <1>5, <2>1 DEF StreamingInv, Successor
  <1>11. CursorInv'
    BY <1>1, <1>4 DEF CursorInv
  <1>12. FilledInv'
    <2>1. ASSUME b <= 2 * n
          PROVE  /\ ~stream'.failed
                 /\ \A i \in Slots : stream'.buf[i] \in Entries
      <3>1. CASE b < n
        BY <3>1, <1>5
      <3>2. CASE n <= b
        BY <2>1, <3>2, <1>5 DEF Inv, FilledInv
      <3>3. QED BY <1>1, <3>1, <3>2
    <2>2. b <= 2 * n => entry' \in Entries
      BY <2>1, <1>4, <1>6
    <2>3. b <= 2 * n => handed' \subseteq Entries
      BY <2>2, <1>2 DEF Inv, FilledInv
    <2>4. QED BY <1>2, <1>3, <2>1, <2>2, <2>3 DEF FilledInv
  <1>13. HandedInv'
    <2>1. SUFFICES ASSUME b <= n, NEW k \in 0..ctr' - 1
                   PROVE  Before(entry, k)' \in handed'
      BY <1>2 DEF HandedInv, Before
    <2>2. ctr # n /\ ctr' = ctr + 1 /\ handed' = handed \union {entry'}
      BY <1>1, <1>2, <2>1
    <2>3. b <= 2 * n
      BY <1>1, <2>1
    <2>4. entry' \in Entries
      BY <1>1, <1>4, <2>1 DEF Successor, Entries
    <2>5. Before(entry, k)' = IF k <= entry' THEN entry' - k ELSE entry' - k + n
      BY <1>2 DEF Before
    <2>6. CASE k = 0
      <3>1. Before(entry, k)' = entry'
        <4>1. PICK e : e = entry'
          OBVIOUS
        <4>2. e \in 0..n - 1 /\ n \in Nat
          BY <1>1, <2>4, <4>1 DEF Entries
        <4>3. 0 <= e /\ e - 0 = e
          BY <4>2
        <4>4. QED BY <2>5, <2>6, <4>1, <4>3
      <3>2. QED BY <2>2, <3>1
    <2>7. CASE k # 0
      <3>1. k - 1 \in 0..ctr - 1 /\ k \in 1..n - 1
        BY <1>1, <2>2, <2>7
      <3>2. served > 0
        BY <1>1, <3>1 DEF Inv, CursorInv
      <3>3. entry' = Successor(entry) /\ entry \in Entries
        BY <1>4, <2>1, <3>2
      <3>4. Before(entry, k - 1) \in handed
        BY <2>1, <3>1 DEF Inv, HandedInv
      <3>5. Before(entry, k)' = Before(entry, k - 1)
        BY <1>1, <2>5, <3>1, <3>3 DEF Before, Successor, Entries
      <3>6. QED BY <2>2, <3>4, <3>5
    <2>8. QED BY <2>6, <2>7
  <1>14. FirstPassExact'
    <2>1. SUFFICES ASSUME served + 1 <= n
                   PROVE  entry' = served
      BY <1>1, <1>2, <1>4 DEF FirstPassExact
    <2>2. CASE served = 0
      BY <1>4, <2>2
    <2>3. CASE served > 0 /\ b <= n
      <3>1. entry = served - 1
        BY <1>1, <2>1, <2>3 DEF Inv, FirstPassExact
      <3>2. QED BY <1>1, <1>4, <2>1, <2>3, <3>1 DEF Successor
    <2>4. CASE n < b
      <3>1. n <= b
        BY <1>1, <2>4
      <3>2. stream' = stream /\ cur = served /\ ~is_end_of_buffer
        BY <1>1, <1>5, <2>1, <2>4, <3>1 DEF Inv, FittingInv, is_end_of_buffer
      <3>3. cur' - 1 = served /\ served \in Entries
        BY <1>1, <1>2, <2>1, <3>2 DEF Entries
      <3>4. stream.buf[served] = served
        BY <3>1, <3>3 DEF Inv, FittingInv
      <3>5. QED BY <1>4, <3>2, <3>3, <3>4
    <2>5. QED BY <1>1, <2>2, <2>3, <2>4
  <1>15. QED BY <1>8, <1>9, <1>10, <1>11, <1>12, <1>13, <1>14 DEF Inv

-----------------------------------------------------------------------------
(* The theorems.                                                           *)

\* Every call keeps the invariant.
LEMMA NextInv ==
    ASSUME Inv, [Next]_vars
    PROVE  Inv'
  <1>1. 0 \in Entries /\ n_unique_entries - 1 \in Entries
    BY ReaderTypes DEF Inv, Lengths, Entries
  <1>2. CASE NextEntry
    BY <1>2, NextEntryInv
  <1>3. CASE Reset
    BY <1>3, ResetInv
  <1>4. CASE GetFirstEntry
    BY <1>1, <1>4, GetEntryInv DEF GetFirstEntry
  <1>5. CASE GetLastEntry
    BY <1>1, <1>5, GetEntryInv DEF GetLastEntry
  <1>6. CASE UNCHANGED vars
    BY <1>6, StutterInv
  <1>7. QED BY <1>2, <1>3, <1>4, <1>5, <1>6 DEF Next

\* The strengthened invariant holds in every state the reader reaches.
THEOREM InvariantHolds == Spec => []Inv
  <1>1. Init => Inv
    BY InitInv
  <1>2. Inv /\ [Next]_vars => Inv'
    BY NextInv
  <1>3. QED BY <1>1, <1>2, PTL DEF Spec

\* Offsets, cursors and counters stay in their ranges.
THEOREM TypeCorrect == Spec => []TypeOK
  <1>1. Inv => TypeOK
    BY DEF Inv
  <1>2. QED BY <1>1, InvariantHolds, PTL

\* The first pass after a load or a reset is the trace, for every length of
\* the trace and of the buffer, failed streams included.
THEOREM FirstPass == Spec => []FirstPassExact
  <1>1. Inv => FirstPassExact
    BY DEF Inv
  <1>2. QED BY <1>1, InvariantHolds, PTL

\* A buffer of at most twice the trace never hands out what was not read.
THEOREM NoGarbage == Spec => []NothingUninitialised
  <1>1. Inv => NothingUninitialised
    <2>1. SUFFICES ASSUME Inv, buffer_size_entries <= 2 * n_unique_entries
                   PROVE  /\ served > 0 => entry # Garbage
                          /\ Garbage \notin handed
      BY DEF NothingUninitialised
    <2>2. Garbage \notin Entries
      BY DEF Garbage, Entries
    <2>3. QED BY <2>1, <2>2 DEF Inv, FilledInv
  <1>2. QED BY <1>1, InvariantHolds, PTL

\* A pass over a trace at least as long as the buffer has handed out all of it.
THEOREM PassComplete == Spec => []PassCoversTrace
  <1>1. Inv => PassCoversTrace
    <2>1. SUFFICES ASSUME Inv, buffer_size_entries <= n_unique_entries,
                          full_trace_entry_ctr = n_unique_entries, NEW i \in Entries
                   PROVE  i \in handed
      BY DEF PassCoversTrace, is_end_of_pass
    <2> DEFINE n == n_unique_entries
               k == IF i <= entry THEN entry - i ELSE entry - i + n
    <2>2. n \in Nat \ {0} /\ buffer_size_entries \in Nat /\ served \in Nat
      BY <2>1, ReaderTypes DEF Inv, Lengths
    <2>3. entry \in Entries
      BY <2>1, <2>2 DEF Inv, CursorInv, FilledInv
    <2>4. k \in 0..n - 1
      BY <2>2, <2>3 DEF Entries
    <2>5. Before(entry, k) \in handed
      BY <2>1, <2>4 DEF Inv, HandedInv
    <2>6. Before(entry, k) = i
      BY <2>2, <2>3 DEF Before, Entries
    <2>7. QED BY <2>5, <2>6
  <1>2. QED BY <1>1, InvariantHolds, PTL

\* Streaming goes on where the last refill stopped, for every length.
THEOREM Streaming == Spec => StreamingIsCyclic
  <1>1. Inv /\ [Next]_vars =>
            [(/\ buffer_size_entries <= n_unique_entries
              /\ served' = served + 1
              /\ served > 0)
                => entry' = Successor(entry)]_vars
    <2>1. SUFFICES ASSUME Inv, Next, buffer_size_entries <= n_unique_entries,
                          served' = served + 1, served > 0
                   PROVE  entry' = Successor(entry)
      OBVIOUS
    <2>2. served \in Nat
      BY <2>1, ReaderTypes DEF Inv
    <2>3. NextEntry
      BY <2>1, <2>2 DEF Next, Reset, GetFirstEntry, GetLastEntry, GetEntry
    <2>4. QED BY <2>1, <2>3, NextFollows
  <1>2. QED BY <1>1, InvariantHolds, PTL DEF Spec, StreamingIsCyclic
=============================================================================
