----------------------------- MODULE ShmBroadcastProofs -----------------------------
(***************************************************************************)
(* Proofs about ShmBroadcast, for any readers, any number of chunks and    *)
(* any choice of oversized messages.                                       *)
(***************************************************************************)
EXTENDS ShmBroadcast, TLAPS

\* How many chunks ago the writer was at chunk k.
Age(k) == IF k < w_idx THEN w_idx - k ELSE w_idx - k + MaxChunks

\* The last message marked as written in chunk k; below 1 if there is none.
LastIn(k) == sent - Age(k) + 1

\* How far the writer is ahead of a reader.
Lag(r) == sent - taken[r]

Holds(k, m) ==
    /\ k \in overflow <=> m \in Oversized
    /\ m \notin Oversized => data[k] = m

\* The flags of a written chunk say who has read the last message in it, and
\* the chunk holds that message; a chunk that is not written is one the writer
\* is in, or has not reached.
ChunkInv ==
    /\ \A k \in written :
          /\ LastIn(k) >= 1
          /\ Holds(k, LastIn(k))
          /\ read_by[k] = {r \in Readers : taken[r] >= LastIn(k)}
    /\ \A k \in Chunks \ {w_idx} : LastIn(k) >= 1 => k \in written

\* The indices are as far apart as the counters, and a chunk is only rewritten
\* once every reader is past it.
IndexInv ==
    \A r \in Readers :
        /\ Lag(r) \in 0 .. MaxChunks
        /\ w_idx - r_idx[r] \in {Lag(r), Lag(r) - MaxChunks}
        /\ w_idx \notin written => Lag(r) < MaxChunks

WriterInv ==
    /\ w_pc \in {"begin", "fill", "reset"} => w_idx \notin written
    /\ w_pc \in {"fill", "reset"} => (w_idx \in overflow <=> sent + 1 \in Oversized)
    /\ w_pc = "reset" /\ sent + 1 \notin Oversized => data[w_idx] = sent + 1
    /\ w_pc = "reset" => read_by[w_idx] \subseteq unreset
    /\ w_pc = "send" => sent \in Oversized

ReaderInv ==
    \A r \in Readers :
        /\ r_pc[r] = "check_written" => r \notin read_by[r_idx[r]]
        /\ r_pc[r] \in {"copy", "mark", "mark_overflow"} => Lag(r) >= 1
        /\ r_pc[r] = "mark" => taken[r] + 1 \notin Oversized /\ r_buf[r] = taken[r] + 1
        /\ r_pc[r] = "mark_overflow" => taken[r] + 1 \in Oversized
        /\ r_pc[r] = "recv" => taken[r] \in Oversized

\* The socket of a reader holds the oversized messages it has not got, in order
\* and without a gap, up to the last one sent.
SocketInv ==
    \A r \in Readers :
        /\ \A m \in socket[r] :
              /\ m \in Oversized
              /\ got[r] < m /\ m <= sent
              /\ w_pc = "send" => m < sent
        /\ \A m \in socket[r], x \in Oversized : got[r] < x /\ x <= m => x \in socket[r]
        /\ \A x \in Oversized :
              /\ got[r] < x /\ x <= sent
              /\ w_pc # "crashed"
              /\ w_pc = "send" => x < sent
              => x \in socket[r]
        /\ w_pc = "send" => got[r] < sent

IInv ==
    /\ TypeOK
    /\ ChunkInv
    /\ IndexInv
    /\ WriterInv
    /\ ReaderInv
    /\ SocketInv
    /\ DequeuesInOrder

-----------------------------------------------------------------------------
\* The index wraps after the last chunk (current_idx in acquire_write and
\* acquire_read).
LEMMA NextIdxWraps ==
    ASSUME NEW i \in Chunks
    PROVE  NextIdx(i) = IF i = MaxChunks - 1 THEN 0 ELSE i + 1
  <1>1. MaxChunks \in Nat /\ MaxChunks > 0 /\ i \in Int /\ 0 <= i /\ i + 1 <= MaxChunks
    BY ShmBroadcastAssumption DEF Chunks
  <1>2. CASE i = MaxChunks - 1
    BY <1>1, <1>2 DEF NextIdx
  <1>3. CASE i # MaxChunks - 1
    BY <1>1, <1>3 DEF NextIdx
  <1> QED
    BY <1>2, <1>3

\* Age depends on the writer's index only, and lies within the ring.
LEMMA AgeInRing ==
    ASSUME TypeOK, NEW k \in Chunks
    PROVE  Age(k) \in 1 .. MaxChunks
  BY ShmBroadcastAssumption DEF TypeOK, Chunks, Age

\* A reader behind the writer is at the chunk of its next message; one that has
\* caught up is at the writer's chunk.
LEMMA ReaderAtNext ==
    ASSUME TypeOK, IndexInv, NEW r \in Readers
    PROVE  /\ Lag(r) >= 1 => LastIn(r_idx[r]) = taken[r] + 1
           /\ Lag(r) = 0 => r_idx[r] = w_idx /\ LastIn(r_idx[r]) = sent - MaxChunks + 1
  <1>1. /\ MaxChunks \in Nat /\ MaxChunks > 0
        /\ w_idx \in 0 .. MaxChunks - 1 /\ r_idx[r] \in 0 .. MaxChunks - 1
        /\ sent \in Nat /\ taken[r] \in Nat
    BY ShmBroadcastAssumption DEF TypeOK, Chunks
  <1>2. /\ sent - taken[r] \in 0 .. MaxChunks
        /\ \/ w_idx - r_idx[r] = sent - taken[r]
           \/ w_idx - r_idx[r] = sent - taken[r] - MaxChunks
    BY DEF IndexInv, Lag
  <1> QED
    BY <1>1, <1>2 DEF LastIn, Age, Lag

\* The chunk of a reader behind the writer is written, holds its next message,
\* and is the writer's chunk only when the ring is full.
LEMMA ReadableChunk ==
    ASSUME IInv, NEW r \in Readers, Lag(r) >= 1
    PROVE  /\ r_idx[r] \in written
           /\ LastIn(r_idx[r]) = taken[r] + 1
           /\ Holds(r_idx[r], taken[r] + 1)
           /\ r_idx[r] = w_idx => w_idx \in written
  <1>1. LastIn(r_idx[r]) = taken[r] + 1
    BY ReaderAtNext DEF IInv
  <1>2. MaxChunks \in Nat /\ taken[r] \in Nat /\ sent \in Nat /\ r_idx[r] \in Chunks
    BY ShmBroadcastAssumption DEF IInv, TypeOK
  <1>3. r_idx[r] = w_idx => w_idx \in written
    <2>1. w_idx \in Int /\ r_idx[r] \in Int /\ Lag(r) \in Int
      BY <1>2 DEF IInv, TypeOK, Chunks, Lag
    <2>2. /\ w_idx - r_idx[r] = Lag(r) \/ w_idx - r_idx[r] = Lag(r) - MaxChunks
          /\ w_idx \notin written => Lag(r) < MaxChunks
      BY DEF IInv, IndexInv
    <2> QED
      BY <1>2, <2>1, <2>2
  <1>4. r_idx[r] \in written
    BY <1>1, <1>2, <1>3 DEF IInv, ChunkInv
  <1> QED
    BY <1>1, <1>3, <1>4 DEF IInv, ChunkInv

\* Initially nothing is written and nothing is read.
LEMMA InitIInv == Init => IInv
  <1> SUFFICES ASSUME Init PROVE IInv
    OBVIOUS
  <1>0. MaxChunks \in Nat /\ MaxChunks > 0 /\ Oversized \subseteq Nat \ {0}
    BY ShmBroadcastAssumption DEF Messages
  <1>1. TypeOK
    <2>1. w_idx \in Chunks /\ r_idx \in [Readers -> Chunks]
      BY <1>0 DEF Init, Chunks
    <2> QED
      BY <2>1 DEF Init, TypeOK, WriterPCs, ReaderPCs
  <1>2. ChunkInv
    BY <1>0 DEF Init, ChunkInv, LastIn, Age, Chunks
  <1>3. IndexInv
    <2> SUFFICES ASSUME NEW r \in Readers
                 PROVE  /\ Lag(r) \in 0 .. MaxChunks
                        /\ w_idx - r_idx[r] \in {Lag(r), Lag(r) - MaxChunks}
                        /\ w_idx \notin written => Lag(r) < MaxChunks
      BY DEF IndexInv
    <2>1. sent = 0 /\ taken[r] = 0 /\ w_idx = 0 /\ r_idx[r] = 0
      BY DEF Init
    <2> QED
      BY <1>0, <2>1 DEF Lag
  <1>4. WriterInv /\ ReaderInv /\ DequeuesInOrder
    BY <1>0 DEF Init, WriterInv, ReaderInv, DequeuesInOrder
  <1>5. SocketInv
    <2>1. sent = 0 /\ w_pc = "ready" /\ \A r \in Readers : socket[r] = {} /\ got[r] = 0
      BY DEF Init
    <2>2. \A x \in Oversized : x \in Nat /\ ~(0 < x /\ x <= 0)
      BY <1>0
    <2> QED
      BY <2>1, <2>2 DEF SocketInv
  <1> QED
    BY <1>1, <1>2, <1>3, <1>4, <1>5 DEF IInv

\* A writer outside of acquire_write disturbs nothing: Enqueue, Notify, Crash.
LEMMA WriterMoves ==
    ASSUME IInv,
           UNCHANGED <<memory, socket, shutting_down, w_idx, unreset, sent, readers>>,
           notified' \subseteq Readers,
           w_pc' \in {"ready", "check", "crashed"},
           w_pc' = "crashed" \/ w_pc \in {"ready", "notify"}
    PROVE  IInv'
  <1>1. TypeOK'
    BY DEF IInv, TypeOK, WriterPCs, memory, readers
  <1>2. ChunkInv' /\ IndexInv' /\ ReaderInv' /\ DequeuesInOrder'
    BY DEF IInv, ChunkInv, LastIn, Age, Holds, IndexInv, ReaderInv, Lag, DequeuesInOrder,
           memory, readers
  <1>3. WriterInv'
    BY DEF WriterInv
  <1>4. SocketInv'
    BY DEF IInv, SocketInv, readers
  <1> QED
    BY <1>1, <1>2, <1>3, <1>4 DEF IInv

\* A reader that waits or tests disturbs nothing but its own place:
\* CheckReadFlag, Spin, GoIdle, Wake, ReadTimeout.
LEMMA ReaderMoves ==
    ASSUME IInv, NEW r \in Readers, NEW pc \in {"check", "check_written", "wait", "idle", "cancelled"},
           Goto(r, pc), r_pc[r] # "recv",
           pc = "check_written" => r \notin read_by[r_idx[r]],
           notified' \subseteq Readers,
           UNCHANGED <<memory, socket, shutting_down, writer, r_idx, r_buf, taken, got>>
    PROVE  IInv'
  <1>1. TypeOK'
    BY DEF IInv, TypeOK, ReaderPCs, Goto, memory, writer
  <1>2. ChunkInv' /\ IndexInv' /\ WriterInv' /\ SocketInv'
    BY DEF IInv, ChunkInv, LastIn, Age, Holds, IndexInv, Lag, WriterInv, SocketInv, memory, writer
  <1>3. ReaderInv'
    BY DEF IInv, TypeOK, ReaderInv, Lag, Goto, memory, writer
  <1>4. DequeuesInOrder'
    BY DEF IInv, TypeOK, DequeuesInOrder, Goto
  <1> QED
    BY <1>1, <1>2, <1>3, <1>4 DEF IInv

\* The waiting steps of dequeue are such moves.
LEMMA WaitSteps ==
    ASSUME IInv, NEW r \in Readers,
           CheckReadFlag(r) \/ Spin(r) \/ GoIdle(r) \/ Wake(r) \/ ReadTimeout(r)
    PROVE  IInv'
  <1>0. notified \subseteq Readers
    BY DEF IInv, TypeOK
  <1>1. CASE CheckReadFlag(r)
    BY <1>0, <1>1, ReaderMoves DEF CheckReadFlag
  <1>2. CASE Spin(r)
    BY <1>0, <1>2, ReaderMoves DEF Spin, AfterWait
  <1>3. CASE GoIdle(r)
    BY <1>0, <1>3, ReaderMoves DEF GoIdle
  <1>4. CASE Wake(r)
    BY <1>0, <1>4, ReaderMoves DEF Wake, AfterWait
  <1>5. CASE ReadTimeout(r)
    BY <1>0, <1>5, ReaderMoves DEF ReadTimeout
  <1> QED
    BY <1>1, <1>2, <1>3, <1>4, <1>5

\* A chunk is cleared only after every reader is past it (acquire_write).
LEMMA ClearWrittenStep ==
    ASSUME IInv, ClearWritten
    PROVE  IInv'
  <1>1. TypeOK'
    BY DEF IInv, ClearWritten, memory, readers, TypeOK, WriterPCs, ReaderPCs
  <1>2. ChunkInv'
    BY DEF IInv, ClearWritten, memory, readers, ChunkInv, LastIn, Age, Holds
  <1>3. IndexInv'
    <2> SUFFICES ASSUME NEW r \in Readers
                 PROVE  /\ Lag(r)' \in 0 .. MaxChunks
                        /\ w_idx' - r_idx'[r] \in {Lag(r)', Lag(r)' - MaxChunks}
                        /\ Lag(r)' < MaxChunks
      BY DEF IndexInv
    <2>1. MaxChunks \in Nat /\ taken[r] \in Nat /\ sent \in Nat /\ w_idx \in Int
      BY ShmBroadcastAssumption DEF IInv, TypeOK, Chunks
    <2>2. w_idx' = w_idx /\ r_idx' = r_idx /\ sent' = sent /\ taken' = taken
      BY DEF ClearWritten, readers
    <2>3. CASE w_idx \in written
      <3>1. taken[r] >= LastIn(w_idx)
        BY <2>3 DEF IInv, ChunkInv, ClearWritten, CanWrite
      <3> QED
        BY <2>1, <2>2, <3>1 DEF IInv, IndexInv, Lag, LastIn, Age
    <2>4. CASE w_idx \notin written
      BY <2>1, <2>2, <2>4 DEF IInv, IndexInv, Lag
    <2> QED
      BY <2>3, <2>4
  <1>4. WriterInv'
    BY DEF IInv, ClearWritten, memory, readers, WriterInv
  <1>5. ReaderInv'
    BY DEF IInv, ClearWritten, memory, readers, ReaderInv, Lag
  <1>6. SocketInv'
    BY DEF IInv, ClearWritten, memory, readers, SocketInv
  <1>7. DequeuesInOrder'
    BY DEF IInv, ClearWritten, memory, readers, DequeuesInOrder
  <1> QED
    BY <1>1, <1>2, <1>3, <1>4, <1>5, <1>6, <1>7 DEF IInv

\* The writer overwrites a chunk that nobody may read.
LEMMA BeginFillStep ==
    ASSUME IInv, BeginFill
    PROVE  IInv'
  <1>1. TypeOK'
    BY DEF IInv, BeginFill, memory, readers, TypeOK, WriterPCs, ReaderPCs
  <1>2. ChunkInv'
    <2>1. w_idx \notin written
      BY DEF IInv, WriterInv, BeginFill
    <2>2. \A k \in written : data'[k] = data[k] /\ (k \in overflow' <=> k \in overflow)
      BY <2>1 DEF IInv, TypeOK, BeginFill
    <2>3. /\ written' = written /\ read_by' = read_by /\ w_idx' = w_idx
          /\ sent' = sent /\ taken' = taken
      BY DEF BeginFill, readers
    <2> QED
      BY <2>2, <2>3 DEF IInv, ChunkInv, LastIn, Age, Holds
  <1>3. IndexInv'
    BY DEF IInv, BeginFill, memory, readers, IndexInv, Lag
  <1>4. WriterInv'
    BY DEF IInv, BeginFill, memory, readers, WriterInv
  <1>5. ReaderInv'
    BY DEF IInv, BeginFill, memory, readers, ReaderInv, Lag
  <1>6. SocketInv'
    BY DEF IInv, BeginFill, memory, readers, SocketInv
  <1>7. DequeuesInOrder'
    BY DEF IInv, BeginFill, memory, readers, DequeuesInOrder
  <1> QED
    BY <1>1, <1>2, <1>3, <1>4, <1>5, <1>6, <1>7 DEF IInv

\* The chunk is complete before any flag changes.
LEMMA EndFillStep ==
    ASSUME IInv, EndFill
    PROVE  IInv'
  <1>1. TypeOK'
    BY DEF IInv, EndFill, memory, readers, TypeOK, WriterPCs, ReaderPCs
  <1>2. ChunkInv'
    <2>1. w_idx \notin written
      BY DEF IInv, WriterInv, EndFill
    <2>2. \A k \in written : data'[k] = data[k] /\ (k \in overflow' <=> k \in overflow)
      BY <2>1 DEF IInv, TypeOK, EndFill
    <2>3. /\ written' = written /\ read_by' = read_by /\ w_idx' = w_idx
          /\ sent' = sent /\ taken' = taken
      BY DEF EndFill, readers
    <2> QED
      BY <2>2, <2>3 DEF IInv, ChunkInv, LastIn, Age, Holds
  <1>3. IndexInv'
    BY DEF IInv, EndFill, memory, readers, IndexInv, Lag
  <1>4. WriterInv'
    <2>1. /\ w_idx \notin written /\ w_pc' = "reset" /\ unreset' = Readers
          /\ w_idx \in overflow <=> sent + 1 \in Oversized
          /\ w_idx' = w_idx /\ sent' = sent /\ overflow' = overflow /\ written' = written
          /\ read_by' = read_by
      BY DEF IInv, WriterInv, EndFill
    <2>2. w_idx \notin overflow => data'[w_idx] = sent + 1
      BY DEF IInv, TypeOK, EndFill
    <2>3. read_by[w_idx] \subseteq Readers
      BY DEF IInv, TypeOK
    <2> QED
      BY <2>1, <2>2, <2>3 DEF WriterInv
  <1>5. ReaderInv'
    BY DEF IInv, EndFill, memory, readers, ReaderInv, Lag
  <1>6. SocketInv'
    BY DEF IInv, EndFill, memory, readers, SocketInv
  <1>7. DequeuesInOrder'
    BY DEF IInv, EndFill, memory, readers, DequeuesInOrder
  <1> QED
    BY <1>1, <1>2, <1>3, <1>4, <1>5, <1>6, <1>7 DEF IInv

\* Resetting the flag of a reader does not make the chunk readable.
LEMMA ResetReadFlagStep ==
    ASSUME IInv, NEW r \in Readers, ResetReadFlag(r)
    PROVE  IInv'
  <1>1. TypeOK'
    BY DEF IInv, ResetReadFlag, memory, readers, TypeOK, WriterPCs, ReaderPCs
  <1>2. ChunkInv'
    <2>1. w_idx \notin written
      BY DEF IInv, WriterInv, ResetReadFlag
    <2>2. \A k \in written : read_by'[k] = read_by[k]
      BY <2>1 DEF IInv, TypeOK, ResetReadFlag
    <2>3. /\ written' = written /\ data' = data /\ overflow' = overflow /\ w_idx' = w_idx
          /\ sent' = sent /\ taken' = taken
      BY DEF ResetReadFlag, readers
    <2> QED
      BY <2>2, <2>3 DEF IInv, ChunkInv, LastIn, Age, Holds
  <1>3. IndexInv'
    BY DEF IInv, ResetReadFlag, memory, readers, IndexInv, Lag
  <1>4. WriterInv'
    <2>1. /\ w_pc = "reset" /\ w_pc' = w_pc /\ written' = written /\ data' = data
          /\ overflow' = overflow /\ w_idx' = w_idx /\ sent' = sent
          /\ unreset' = unreset \ {r}
      BY DEF ResetReadFlag
    <2>2. read_by'[w_idx] = read_by[w_idx] \ {r}
      BY DEF IInv, TypeOK, ResetReadFlag
    <2> QED
      BY <2>1, <2>2 DEF IInv, WriterInv
  <1>5. ReaderInv'
    BY DEF IInv, ResetReadFlag, memory, readers, ReaderInv, Lag
  <1>6. SocketInv'
    BY DEF IInv, ResetReadFlag, memory, readers, SocketInv
  <1>7. DequeuesInOrder'
    BY DEF IInv, ResetReadFlag, memory, readers, DequeuesInOrder
  <1> QED
    BY <1>1, <1>2, <1>3, <1>4, <1>5, <1>6, <1>7 DEF IInv

\* Marking the chunk hands the next message to every reader.
LEMMA MarkWrittenStep ==
    ASSUME IInv, MarkWritten
    PROVE  IInv'
  <1>a. /\ MaxChunks \in Nat /\ MaxChunks > 0
        /\ sent \in Nat /\ w_idx \in 0 .. MaxChunks - 1 /\ w_idx \in Chunks
        /\ Oversized \subseteq Nat
    BY ShmBroadcastAssumption DEF IInv, TypeOK, Chunks, Messages
  <1>b. w_idx' = IF w_idx = MaxChunks - 1 THEN 0 ELSE w_idx + 1
    BY <1>a, NextIdxWraps DEF MarkWritten
  <1>c. /\ w_idx \notin written
        /\ read_by[w_idx] = {}
        /\ w_idx \in overflow <=> sent + 1 \in Oversized
        /\ sent + 1 \notin Oversized => data[w_idx] = sent + 1
    BY DEF IInv, WriterInv, MarkWritten
  <1>d. /\ sent' = sent + 1
        /\ written' = written \cup {w_idx}
        /\ w_pc = "reset"
        /\ w_pc' = IF w_idx \in overflow THEN "send" ELSE "notify"
        /\ data' = data /\ overflow' = overflow /\ read_by' = read_by /\ socket' = socket
        /\ unreset' = unreset
        /\ r_pc' = r_pc /\ r_idx' = r_idx /\ r_buf' = r_buf /\ taken' = taken /\ got' = got
    BY DEF MarkWritten, readers
  <1>e. ASSUME NEW k \in Chunks
        PROVE  LastIn(k)' = IF k = w_idx THEN sent + 1 ELSE LastIn(k)
    BY <1>a, <1>b, <1>d DEF LastIn, Age, Chunks
  <1>f. ASSUME NEW r \in Readers
        PROVE  taken[r] \in Nat /\ taken[r] <= sent /\ got[r] <= taken[r] /\ got[r] \in Nat
    <2>1. taken[r] \in Nat /\ got[r] \in Nat
      BY DEF IInv, TypeOK
    <2>2. sent - taken[r] >= 0
      BY DEF IInv, IndexInv, Lag
    <2>3. got[r] = taken[r] \/ got[r] = taken[r] - 1
      BY DEF IInv, DequeuesInOrder
    <2> QED
      BY <1>a, <2>1, <2>2, <2>3
  <1>1. TypeOK'
    <2>1. w_idx' \in Chunks
      BY <1>a, <1>b DEF Chunks
    <2> QED
      BY <1>a, <1>c, <1>d, <2>1 DEF IInv, TypeOK, WriterPCs, ReaderPCs, MarkWritten
  <1>2. ChunkInv'
    <2>1. ASSUME NEW k \in written'
          PROVE  /\ LastIn(k)' >= 1
                 /\ Holds(k, LastIn(k))'
                 /\ read_by'[k] = {r \in Readers : taken'[r] >= LastIn(k)'}
      <3>1. CASE k = w_idx
        <4>1. LastIn(k)' = sent + 1
          BY <1>a, <1>e, <3>1
        <4>2. {r \in Readers : taken[r] >= sent + 1} = {}
          BY <1>a, <1>f
        <4> QED
          BY <1>a, <1>c, <1>d, <3>1, <4>1, <4>2 DEF Holds
      <3>2. CASE k # w_idx
        <4>1. k \in written /\ k \in Chunks
          BY <1>d, <3>2 DEF IInv, TypeOK
        <4>2. LastIn(k)' = LastIn(k)
          BY <1>e, <3>2, <4>1
        <4> QED
          BY <1>d, <4>1, <4>2 DEF IInv, ChunkInv, Holds
      <3> QED
        BY <3>1, <3>2
    <2>2. ASSUME NEW k \in Chunks, k # w_idx', LastIn(k)' >= 1
          PROVE  k \in written'
      BY <1>d, <1>e, <2>2 DEF IInv, ChunkInv
    <2> QED
      BY <2>1, <2>2 DEF ChunkInv
  <1>3. IndexInv'
    <2> SUFFICES ASSUME NEW r \in Readers
                 PROVE  /\ Lag(r)' \in 0 .. MaxChunks
                        /\ w_idx' - r_idx'[r] \in {Lag(r)', Lag(r)' - MaxChunks}
                        /\ w_idx' \notin written' => Lag(r)' < MaxChunks
      BY DEF IndexInv
    <2>1. r_idx[r] \in 0 .. MaxChunks - 1
      BY DEF IInv, TypeOK, Chunks
    <2>2. /\ Lag(r) = sent - taken[r] /\ Lag(r) >= 0 /\ Lag(r) < MaxChunks
          /\ w_idx - r_idx[r] = Lag(r) \/ w_idx - r_idx[r] = Lag(r) - MaxChunks
      BY <1>a, <1>c, <1>f DEF IInv, IndexInv, Lag
    <2>3. Lag(r)' = Lag(r) + 1
      BY <1>a, <1>d, <1>f DEF Lag
    <2>4. w_idx' - r_idx'[r] = Lag(r)' \/ w_idx' - r_idx'[r] = Lag(r)' - MaxChunks
      BY <1>a, <1>b, <1>d, <1>f, <2>1, <2>2, <2>3
    <2>5. ASSUME w_idx' \notin written', Lag(r)' = MaxChunks
          PROVE  FALSE
      <3>1. w_idx' # w_idx /\ w_idx' \in Chunks
        BY <1>a, <1>b, <1>d, <2>5 DEF Chunks
      <3>2. LastIn(w_idx') = taken[r] + 1
        BY <1>a, <1>b, <1>f, <2>2, <2>3, <2>5, <3>1 DEF LastIn, Age
      <3> QED
        BY <1>d, <1>f, <2>5, <3>1, <3>2 DEF IInv, ChunkInv
    <2> QED
      BY <1>a, <1>f, <2>2, <2>3, <2>4, <2>5
  <1>4. WriterInv'
    BY <1>c, <1>d DEF WriterInv
  <1>5. ReaderInv'
    <2>1. \A r \in Readers : Lag(r)' = Lag(r) + 1 /\ Lag(r) \in Int
      BY <1>a, <1>d, <1>f DEF Lag
    <2> QED
      BY <1>d, <2>1 DEF IInv, ReaderInv
  <1>6. SocketInv'
    <2>1. \A r \in Readers : socket[r] \subseteq Nat
      BY DEF IInv, TypeOK
    <2> QED
      BY <1>a, <1>c, <1>d, <1>f, <2>1 DEF IInv, SocketInv
  <1>7. DequeuesInOrder'
    BY <1>d DEF IInv, DequeuesInOrder
  <1> QED
    BY <1>1, <1>2, <1>3, <1>4, <1>5, <1>6, <1>7 DEF IInv

\* The oversized message joins the socket of every reader.
LEMMA SendOversizedStep ==
    ASSUME IInv, SendOversized
    PROVE  IInv'
  <1>1. TypeOK'
    BY DEF IInv, SendOversized, memory, readers, TypeOK, WriterPCs, ReaderPCs
  <1>2. ChunkInv'
    BY DEF IInv, SendOversized, memory, readers, ChunkInv, LastIn, Age, Holds
  <1>3. IndexInv'
    BY DEF IInv, SendOversized, memory, readers, IndexInv, Lag
  <1>4. WriterInv'
    BY DEF IInv, SendOversized, memory, readers, WriterInv
  <1>5. ReaderInv'
    BY DEF IInv, SendOversized, memory, readers, ReaderInv, Lag
  <1>6. SocketInv'
    <2> SUFFICES ASSUME NEW r \in Readers
                 PROVE  /\ \A m \in socket'[r] : m \in Oversized /\ got[r] < m /\ m <= sent
                        /\ \A m \in socket'[r], x \in Oversized :
                              got[r] < x /\ x <= m => x \in socket'[r]
                        /\ \A x \in Oversized : got[r] < x /\ x <= sent => x \in socket'[r]
      BY DEF SocketInv, SendOversized, readers
    <2>1. /\ socket'[r] = socket[r] \cup {sent} /\ w_pc = "send" /\ sent \in Oversized
          /\ sent \in Nat /\ got[r] \in Nat /\ socket[r] \subseteq Nat /\ Oversized \subseteq Nat
          /\ got[r] < sent
      BY ShmBroadcastAssumption DEF IInv, TypeOK, WriterInv, SocketInv, SendOversized, Messages
    <2>a. \A m \in socket[r] : m \in Oversized /\ got[r] < m /\ m < sent
      BY <2>1 DEF IInv, SocketInv
    <2>b. \A x \in Oversized : got[r] < x /\ x <= sent /\ x < sent => x \in socket[r]
      BY <2>1 DEF IInv, SocketInv
    <2>2. /\ \A m \in socket[r] : m \in Oversized /\ got[r] < m /\ m < sent
          /\ \A x \in Oversized : got[r] < x /\ x < sent => x \in socket[r]
      BY <2>1, <2>a, <2>b
    <2>3. \A m \in socket'[r] : m \in Oversized /\ got[r] < m /\ m <= sent
      BY <2>1, <2>2
    <2>4. \A x \in Oversized : got[r] < x /\ x <= sent => x \in socket'[r]
      BY <2>1, <2>2
    <2>5. \A m \in socket'[r], x \in Oversized : got[r] < x /\ x <= m => x \in socket'[r]
      BY <2>1, <2>3, <2>4
    <2> QED
      BY <2>3, <2>4, <2>5
  <1>7. DequeuesInOrder'
    BY DEF IInv, SendOversized, memory, readers, DequeuesInOrder
  <1> QED
    BY <1>1, <1>2, <1>3, <1>4, <1>5, <1>6, <1>7 DEF IInv

\* A written chunk whose flag is clear holds the next message of the reader.
LEMMA CheckWrittenFlagStep ==
    ASSUME IInv, NEW r \in Readers, CheckWrittenFlag(r)
    PROVE  IInv'
  <1>1. TypeOK'
    BY DEF IInv, CheckWrittenFlag, memory, writer, Goto, TypeOK, WriterPCs, ReaderPCs
  <1>2. ChunkInv'
    BY DEF IInv, CheckWrittenFlag, memory, writer, Goto, ChunkInv, LastIn, Age, Holds
  <1>3. IndexInv'
    BY DEF IInv, CheckWrittenFlag, memory, writer, Goto, IndexInv, Lag
  <1>4. WriterInv'
    BY DEF IInv, CheckWrittenFlag, memory, writer, Goto, WriterInv
  <1>5. ReaderInv'
    <2>1. /\ r_pc[r] = "check_written"
          /\ r_pc' = [r_pc EXCEPT ![r] = IF r_idx[r] \in written THEN "copy" ELSE "wait"]
          /\ read_by' = read_by /\ r_idx' = r_idx /\ taken' = taken /\ r_buf' = r_buf /\ sent' = sent
      BY DEF CheckWrittenFlag, Goto, memory, writer
    <2>2. /\ sent \in Nat /\ taken[r] \in Nat /\ MaxChunks \in Nat \ {0} /\ r_idx[r] \in Chunks
          /\ Lag(r) \in Int /\ Lag(r) >= 0 /\ Lag(r) = sent - taken[r]
      BY ShmBroadcastAssumption DEF IInv, TypeOK, IndexInv, Lag
    <2>3. r \notin read_by[r_idx[r]]
      BY <2>1 DEF IInv, ReaderInv
    <2>4. ASSUME r_idx[r] \in written
          PROVE  Lag(r) >= 1
      <3>1. ~(taken[r] >= LastIn(r_idx[r]))
        BY <2>3, <2>4 DEF IInv, ChunkInv
      <3>2. Lag(r) = 0 => LastIn(r_idx[r]) = sent - MaxChunks + 1
        BY ReaderAtNext DEF IInv
      <3> QED
        BY <2>2, <3>1, <3>2
    <2>5. \A q \in Readers : Lag(q)' = Lag(q)
      BY <2>1 DEF Lag
    <2>6. r_pc \in [Readers -> ReaderPCs]
      BY DEF IInv, TypeOK
    <2> QED
      BY <2>1, <2>4, <2>5, <2>6 DEF IInv, ReaderInv
  <1>6. SocketInv'
    BY DEF IInv, CheckWrittenFlag, memory, writer, Goto, SocketInv
  <1>7. DequeuesInOrder'
    BY DEF IInv, CheckWrittenFlag, memory, writer, Goto, DequeuesInOrder
  <1> QED
    BY <1>1, <1>2, <1>3, <1>4, <1>5, <1>6, <1>7 DEF IInv

\* What is copied is the next message of the reader.
LEMMA CopyStep ==
    ASSUME IInv, NEW r \in Readers, Copy(r)
    PROVE  IInv'
  <1>1. TypeOK'
    BY DEF IInv, Copy, memory, writer, Goto, TypeOK, WriterPCs, ReaderPCs
  <1>2. ChunkInv'
    BY DEF IInv, Copy, memory, writer, Goto, ChunkInv, LastIn, Age, Holds
  <1>3. IndexInv'
    BY DEF IInv, Copy, memory, writer, Goto, IndexInv, Lag
  <1>4. WriterInv'
    BY DEF IInv, Copy, memory, writer, Goto, WriterInv
  <1>5. ReaderInv'
    <2>1. /\ r_pc[r] = "copy"
          /\ r_pc' = [r_pc EXCEPT ![r] = IF r_idx[r] \in overflow THEN "mark_overflow" ELSE "mark"]
          /\ r_buf' = [r_buf EXCEPT ![r] = data[r_idx[r]]]
          /\ read_by' = read_by /\ r_idx' = r_idx /\ taken' = taken /\ sent' = sent
      BY DEF Copy, Goto, memory, writer
    <2>2. Lag(r) >= 1
      BY <2>1 DEF IInv, ReaderInv
    <2>3. Holds(r_idx[r], taken[r] + 1)
      BY <2>2, ReadableChunk
    <2>4. \A q \in Readers : Lag(q)' = Lag(q)
      BY <2>1 DEF Lag
    <2>5. r_pc \in [Readers -> ReaderPCs] /\ r_buf \in [Readers -> Nat]
      BY DEF IInv, TypeOK
    <2> QED
      BY <2>1, <2>2, <2>3, <2>4, <2>5 DEF IInv, ReaderInv, Holds
  <1>6. SocketInv'
    BY DEF IInv, Copy, memory, writer, Goto, SocketInv
  <1>7. DequeuesInOrder'
    BY DEF IInv, Copy, memory, writer, Goto, DequeuesInOrder
  <1> QED
    BY <1>1, <1>2, <1>3, <1>4, <1>5, <1>6, <1>7 DEF IInv

\* The reader moves on to the next chunk (acquire_read).
LEMMA MarkReadStep ==
    ASSUME IInv, NEW r \in Readers, MarkRead(r)
    PROVE  IInv'
  <1>a. /\ MaxChunks \in Nat /\ MaxChunks > 0 /\ Oversized \subseteq Nat
        /\ sent \in Nat /\ w_idx \in 0 .. MaxChunks - 1
        /\ r_idx[r] \in 0 .. MaxChunks - 1 /\ r_idx[r] \in Chunks
    BY ShmBroadcastAssumption DEF IInv, TypeOK, Chunks, Messages
  <1>b. /\ r_pc \in [Readers -> ReaderPCs] /\ taken \in [Readers -> Nat] /\ got \in [Readers -> Nat]
        /\ r_buf \in [Readers -> Nat]
        /\ r_idx \in [Readers -> Chunks] /\ read_by \in [Chunks -> SUBSET Readers]
    BY DEF IInv, TypeOK
  <1>c. /\ r_pc[r] \in {"mark", "mark_overflow"}
        /\ read_by' = [read_by EXCEPT ![r_idx[r]] = @ \cup {r}]
        /\ r_idx' = [r_idx EXCEPT ![r] = NextIdx(@)]
        /\ taken' = [taken EXCEPT ![r] = @ + 1]
        /\ got' = IF r_pc[r] = "mark" THEN [got EXCEPT ![r] = r_buf[r]] ELSE got
        /\ r_pc' = [r_pc EXCEPT ![r] = IF r_pc[r] = "mark" THEN "check" ELSE "recv"]
        /\ data' = data /\ overflow' = overflow /\ written' = written /\ socket' = socket
        /\ notified' = notified /\ shutting_down' = shutting_down
        /\ w_pc' = w_pc /\ w_idx' = w_idx /\ unreset' = unreset /\ sent' = sent
        /\ r_buf' = r_buf
    BY DEF MarkRead, Goto, writer
  <1>d. NextIdx(r_idx[r]) = IF r_idx[r] = MaxChunks - 1 THEN 0 ELSE r_idx[r] + 1
    BY <1>a, NextIdxWraps
  <1>e. /\ Lag(r) >= 1
        /\ r_pc[r] = "mark" => taken[r] + 1 \notin Oversized /\ r_buf[r] = taken[r] + 1
        /\ r_pc[r] = "mark_overflow" => taken[r] + 1 \in Oversized
        /\ got[r] = taken[r]
    BY <1>c DEF IInv, ReaderInv, DequeuesInOrder
  <1>f. /\ r_idx[r] \in written
        /\ LastIn(r_idx[r]) = taken[r] + 1
        /\ r_idx[r] = w_idx => w_idx \in written
    BY <1>e, ReadableChunk
  <1>g. \A k : LastIn(k)' = LastIn(k)
    BY <1>c DEF LastIn, Age
  <1>h. /\ taken'[r] = taken[r] + 1
        /\ \A q \in Readers : q # r => taken'[q] = taken[q] /\ r_idx'[q] = r_idx[q]
                                       /\ got'[q] = got[q] /\ r_pc'[q] = r_pc[q]
        /\ got'[r] = IF r_pc[r] = "mark" THEN taken[r] + 1 ELSE taken[r]
        /\ r_pc'[r] = IF r_pc[r] = "mark" THEN "check" ELSE "recv"
        /\ r_idx'[r] = NextIdx(r_idx[r])
    BY <1>b, <1>c, <1>e
  <1>i. /\ read_by'[r_idx[r]] = read_by[r_idx[r]] \cup {r}
        /\ \A k \in Chunks : k # r_idx[r] => read_by'[k] = read_by[k]
    BY <1>b, <1>c
  <1>1. TypeOK'
    <2>1. NextIdx(r_idx[r]) \in Chunks
      BY <1>a, <1>d DEF Chunks
    <2>2. r_idx' \in [Readers -> Chunks] /\ read_by' \in [Chunks -> SUBSET Readers]
      BY <1>b, <1>c, <2>1
    <2>3. taken' \in [Readers -> Nat] /\ got' \in [Readers -> Nat]
      BY <1>b, <1>c
    <2>4. r_pc' \in [Readers -> ReaderPCs]
      BY <1>b, <1>c DEF ReaderPCs
    <2> QED
      BY <1>c, <2>2, <2>3, <2>4 DEF IInv, TypeOK
  <1>2. ChunkInv'
    <2>1. ASSUME NEW k \in written
          PROVE  read_by'[k] = {q \in Readers : taken'[q] >= LastIn(k)}
      <3>1. k \in Chunks /\ k \in 0 .. MaxChunks - 1
        BY DEF IInv, TypeOK, Chunks
      <3>2. read_by[k] = {q \in Readers : taken[q] >= LastIn(k)}
        BY DEF IInv, ChunkInv
      <3>3. LastIn(k) \in Int
        BY <1>a, <3>1 DEF LastIn, Age
      <3>4. k # r_idx[r] => LastIn(k) # LastIn(r_idx[r])
        BY <1>a, <3>1 DEF LastIn, Age
      <3>5. taken[r] \in Nat
        BY <1>b
      <3>6. r \in read_by'[k] <=> taken'[r] >= LastIn(k)
        <4>1. CASE k = r_idx[r]
          <5>1. r \in read_by'[k]
            BY <1>i, <4>1
          <5>2. taken'[r] = LastIn(k)
            BY <1>f, <1>h, <4>1
          <5> QED
            BY <3>3, <5>1, <5>2
        <4>2. CASE k # r_idx[r]
          <5>1. r \in read_by[k] <=> taken[r] >= LastIn(k)
            BY <3>2
          <5>2. LastIn(k) # taken[r] + 1
            BY <1>f, <3>4, <4>2
          <5>3. taken[r] >= LastIn(k) <=> taken[r] + 1 >= LastIn(k)
            BY <3>3, <3>5, <5>2
          <5>4. read_by'[k] = read_by[k]
            BY <1>i, <3>1, <4>2
          <5> QED
            BY <1>h, <5>1, <5>3, <5>4
        <4> QED
          BY <4>1, <4>2
      <3>7. ASSUME NEW q \in Readers, q # r
            PROVE  q \in read_by'[k] <=> taken'[q] >= LastIn(k)
        <4>1. q \in read_by'[k] <=> q \in read_by[k]
          BY <1>i, <3>1, <3>7
        <4> QED
          BY <1>h, <3>2, <3>7, <4>1
      <3>8. read_by'[k] \subseteq Readers
        BY <1>b, <1>i, <3>1
      <3> QED
        BY <3>6, <3>7, <3>8
    <2> QED
      BY <1>c, <1>g, <2>1 DEF IInv, ChunkInv, Holds
  <1>3. IndexInv'
    <2> SUFFICES ASSUME NEW q \in Readers
                 PROVE  /\ Lag(q)' \in 0 .. MaxChunks
                        /\ w_idx' - r_idx'[q] \in {Lag(q)', Lag(q)' - MaxChunks}
                        /\ w_idx' \notin written' => Lag(q)' < MaxChunks
      BY DEF IndexInv
    <2>1. CASE q = r
      <3>1. /\ taken[r] \in Nat
            /\ Lag(r) = sent - taken[r] /\ Lag(r) <= MaxChunks
            /\ w_idx - r_idx[r] = Lag(r) \/ w_idx - r_idx[r] = Lag(r) - MaxChunks
        BY <1>a, <1>b DEF IInv, IndexInv, Lag
      <3>c. w_idx' = w_idx /\ sent' = sent
        BY <1>c
      <3>d. taken'[r] = taken[r] + 1
        BY <1>h
      <3>a. w_idx' = w_idx /\ sent \in Nat /\ Lag(r) \in Int /\ Lag(r) >= 1
        BY <1>a, <1>e, <3>1, <3>c
      <3>2. Lag(r)' = Lag(r) - 1
        BY <1>a, <3>1, <3>c, <3>d DEF Lag
      <3>b. \/ r_idx'[r] = 0 /\ r_idx[r] = MaxChunks - 1
            \/ r_idx'[r] = r_idx[r] + 1
        BY <1>d, <1>h
      <3>3. w_idx' - r_idx'[r] = Lag(r)' \/ w_idx' - r_idx'[r] = Lag(r)' - MaxChunks
        <4>1. CASE r_idx'[r] = r_idx[r] + 1
          BY <1>a, <3>1, <3>2, <3>a, <4>1
        <4>2. CASE r_idx'[r] = 0 /\ r_idx[r] = MaxChunks - 1
          BY <1>a, <3>1, <3>2, <3>a, <4>2
        <4> QED
          BY <3>b, <4>1, <4>2
      <3>4. Lag(r)' \in 0 .. MaxChunks /\ Lag(r)' < MaxChunks
        BY <1>a, <3>1, <3>2, <3>a
      <3> QED
        BY <2>1, <3>3, <3>4
    <2>2. CASE q # r
      BY <1>c, <1>h, <2>2 DEF IInv, IndexInv, Lag
    <2> QED
      BY <2>1, <2>2
  <1>4. WriterInv'
    <2>1. w_idx \in Chunks
      BY DEF IInv, TypeOK
    <2>2. w_pc = "reset" => read_by'[w_idx] = read_by[w_idx]
      BY <1>f, <1>i, <2>1 DEF IInv, WriterInv
    <2> QED
      BY <1>c, <2>2 DEF IInv, WriterInv
  <1>5. ReaderInv'
    <2> SUFFICES ASSUME NEW q \in Readers
                 PROVE  /\ r_pc'[q] = "check_written" => q \notin read_by'[r_idx'[q]]
                        /\ r_pc'[q] \in {"copy", "mark", "mark_overflow"} => Lag(q)' >= 1
                        /\ r_pc'[q] = "mark" => taken'[q] + 1 \notin Oversized /\ r_buf'[q] = taken'[q] + 1
                        /\ r_pc'[q] = "mark_overflow" => taken'[q] + 1 \in Oversized
                        /\ r_pc'[q] = "recv" => taken'[q] \in Oversized
      BY DEF ReaderInv
    <2>1. CASE q = r
      BY <1>c, <1>e, <1>h, <2>1
    <2>2. CASE q # r
      <3>1. q \notin read_by[r_idx[q]] => q \notin read_by'[r_idx[q]]
        BY <1>b, <1>i, <2>2
      <3>2. Lag(q)' = Lag(q)
        BY <1>c, <1>h, <2>2 DEF Lag
      <3> QED
        BY <1>c, <1>h, <2>2, <3>1, <3>2 DEF IInv, ReaderInv
    <2> QED
      BY <2>1, <2>2
  <1>6. SocketInv'
    <2> SUFFICES ASSUME NEW q \in Readers
                 PROVE  /\ \A m \in socket[q] :
                              m \in Oversized /\ got'[q] < m /\ m <= sent /\ (w_pc = "send" => m < sent)
                        /\ \A m \in socket[q], x \in Oversized :
                              got'[q] < x /\ x <= m => x \in socket[q]
                        /\ \A x \in Oversized :
                              /\ got'[q] < x /\ x <= sent
                              /\ w_pc # "crashed"
                              /\ w_pc = "send" => x < sent
                              => x \in socket[q]
                        /\ w_pc = "send" => got'[q] < sent
      BY <1>c DEF SocketInv
    <2>1. CASE q # r
      BY <1>h, <2>1 DEF IInv, SocketInv
    <2>2. CASE q = r
      <3>1. /\ socket[r] \subseteq Nat /\ got[r] \in Nat
            /\ got'[r] = got[r] \/ (got'[r] = got[r] + 1 /\ got[r] + 1 \notin Oversized)
        BY <1>b, <1>e, <1>h DEF IInv, TypeOK
      <3>2. w_pc = "send" => sent \in Oversized
        BY DEF IInv, WriterInv
      <3>3. /\ \A m \in socket[r] :
                  m \in Oversized /\ got[r] < m /\ m <= sent /\ (w_pc = "send" => m < sent)
            /\ \A m \in socket[r], x \in Oversized : got[r] < x /\ x <= m => x \in socket[r]
            /\ \A x \in Oversized :
                  /\ got[r] < x /\ x <= sent
                  /\ w_pc # "crashed"
                  /\ w_pc = "send" => x < sent
                  => x \in socket[r]
            /\ w_pc = "send" => got[r] < sent
        BY DEF IInv, SocketInv
      <3>4. \A x \in Oversized : got'[r] < x <=> got[r] < x
        BY <1>a, <3>1
      <3>5. w_pc = "send" => got'[r] < sent
        BY <1>a, <3>1, <3>2, <3>3
      <3> QED
        BY <2>2, <3>3, <3>4, <3>5
    <2> QED
      BY <2>1, <2>2
  <1>7. DequeuesInOrder'
    <2>1. taken[r] \in Nat
      BY <1>b
    <2>2. got'[r] = IF r_pc'[r] = "recv" THEN taken'[r] - 1 ELSE taken'[r]
      BY <1>c, <1>h, <2>1
    <2> QED
      BY <1>h, <2>2 DEF IInv, DequeuesInOrder
  <1> QED
    BY <1>1, <1>2, <1>3, <1>4, <1>5, <1>6, <1>7 DEF IInv

\* The head of the socket is the message the chunk stood for (recv).
LEMMA RecvStep ==
    ASSUME IInv, NEW r \in Readers, Recv(r)
    PROVE  IInv' /\ got' = [got EXCEPT ![r] = @ + 1] /\ got[r] < sent
  <1>a. PICK m \in socket[r] :
              /\ \A other \in socket[r] : m <= other
              /\ got' = [got EXCEPT ![r] = m]
              /\ socket' = [socket EXCEPT ![r] = @ \ {m}]
    BY DEF Recv
  <1>b. /\ r_pc[r] = "recv" /\ r_pc' = [r_pc EXCEPT ![r] = "check"]
        /\ memory' = memory /\ writer' = writer
        /\ notified' = notified /\ shutting_down' = shutting_down
        /\ r_idx' = r_idx /\ r_buf' = r_buf /\ taken' = taken
    BY DEF Recv, Goto
  <1>c. /\ socket \in [Readers -> SUBSET Nat] /\ got \in [Readers -> Nat] /\ taken \in [Readers -> Nat]
        /\ r_pc \in [Readers -> ReaderPCs] /\ sent \in Nat /\ Oversized \subseteq Nat
    BY ShmBroadcastAssumption DEF IInv, TypeOK, Messages
  <1>d. /\ got[r] = taken[r] - 1 /\ taken[r] \in Oversized
        /\ got[r] < m /\ m <= sent /\ m \in Nat /\ taken[r] \in Nat
    BY <1>b, <1>c DEF IInv, DequeuesInOrder, ReaderInv, SocketInv
  <1>e. m = taken[r]
    <2>1. taken[r] \in socket[r]
      BY <1>d DEF IInv, SocketInv
    <2> QED
      BY <1>a, <1>d, <2>1
  <1>f. /\ got'[r] = m /\ socket'[r] = socket[r] \ {m} /\ r_pc'[r] = "check"
        /\ \A q \in Readers : q # r => got'[q] = got[q] /\ socket'[q] = socket[q] /\ r_pc'[q] = r_pc[q]
    BY <1>a, <1>b, <1>c
  <1>1. TypeOK'
    <2>1. got' \in [Readers -> Nat] /\ socket' \in [Readers -> SUBSET Nat]
      BY <1>a, <1>c, <1>d
    <2>2. r_pc' \in [Readers -> ReaderPCs]
      BY <1>b, <1>c DEF ReaderPCs
    <2> QED
      BY <1>b, <2>1, <2>2 DEF IInv, TypeOK, memory, writer
  <1>2. ChunkInv'
    BY <1>b DEF IInv, memory, writer, ChunkInv, LastIn, Age, Holds
  <1>3. IndexInv'
    BY <1>b DEF IInv, memory, writer, IndexInv, Lag
  <1>4. WriterInv'
    BY <1>b DEF IInv, memory, writer, WriterInv
  <1>5. ReaderInv'
    BY <1>b, <1>f DEF IInv, memory, writer, ReaderInv, Lag
  <1>6. SocketInv'
    <2> SUFFICES ASSUME NEW q \in Readers
                 PROVE  /\ \A n \in socket'[q] :
                              n \in Oversized /\ got'[q] < n /\ n <= sent /\ (w_pc = "send" => n < sent)
                        /\ \A n \in socket'[q], x \in Oversized :
                              got'[q] < x /\ x <= n => x \in socket'[q]
                        /\ \A x \in Oversized :
                              /\ got'[q] < x /\ x <= sent
                              /\ w_pc # "crashed"
                              /\ w_pc = "send" => x < sent
                              => x \in socket'[q]
                        /\ w_pc = "send" => got'[q] < sent
      BY <1>b DEF SocketInv, writer
    <2>1. CASE q # r
      BY <1>f, <2>1 DEF IInv, SocketInv
    <2>2. CASE q = r
      <3>1. got'[q] = m /\ got[r] < m /\ socket'[q] = socket[r] \ {m}
        BY <1>d, <1>f, <2>2
      <3>2. \A n \in socket'[q] : n \in socket[r] /\ n \in Nat /\ m < n
        BY <1>a, <1>c, <1>d, <3>1
      <3>3. \A x \in Oversized : got'[q] < x => x # m /\ got[r] < x
        BY <1>c, <1>d, <3>1
      <3>4. \A n \in socket'[q] :
               n \in Oversized /\ got'[q] < n /\ n <= sent /\ (w_pc = "send" => n < sent)
        BY <3>1, <3>2 DEF IInv, SocketInv
      <3>5. \A n \in socket'[q], x \in Oversized :
               got'[q] < x /\ x <= n => x \in socket'[q]
        BY <3>1, <3>2, <3>3 DEF IInv, SocketInv
      <3>6. \A x \in Oversized :
               /\ got'[q] < x /\ x <= sent
               /\ w_pc # "crashed"
               /\ w_pc = "send" => x < sent
               => x \in socket'[q]
        BY <3>1, <3>3 DEF IInv, SocketInv
      <3>7. w_pc = "send" => got'[q] < sent
        BY <3>1 DEF IInv, SocketInv
      <3> QED
        BY <3>4, <3>5, <3>6, <3>7
    <2> QED
      BY <2>1, <2>2
  <1>7. DequeuesInOrder'
    BY <1>b, <1>d, <1>e, <1>f DEF IInv, DequeuesInOrder
  <1>8. got' = [got EXCEPT ![r] = @ + 1] /\ got[r] < sent
    <2>1. m = got[r] + 1 /\ got[r] < sent
      BY <1>c, <1>d, <1>e
    <2> QED
      BY <1>a, <1>c, <2>1
  <1> QED
    BY <1>1, <1>2, <1>3, <1>4, <1>5, <1>6, <1>7, <1>8 DEF IInv

\* Every step of the processes keeps the invariant.
LEMMA NextIInv == IInv /\ [Next]_vars => IInv'
  <1> SUFFICES ASSUME IInv, [Next]_vars PROVE IInv'
    OBVIOUS
  <1>0. notified \subseteq Readers /\ Impatient \subseteq Readers
    BY ShmBroadcastAssumption DEF IInv, TypeOK
  <1>1. CASE Enqueue \/ Notify \/ Crash
    BY <1>0, <1>1, WriterMoves DEF Enqueue, Notify, Crash
  <1>2. CASE WriterStep
    BY <1>1, <1>2, ClearWrittenStep, BeginFillStep, EndFillStep, ResetReadFlagStep,
       MarkWrittenStep, SendOversizedStep DEF WriterStep
  <1>3. ASSUME NEW r \in Readers, ReaderStep(r) PROVE IInv'
    BY <1>3, WaitSteps, CheckWrittenFlagStep, CopyStep, MarkReadStep, RecvStep DEF ReaderStep
  <1>4. ASSUME NEW r \in Impatient, ReadTimeout(r) PROVE IInv'
    BY <1>0, <1>4, WaitSteps
  <1>5. CASE UNCHANGED <<memory, socket, notified, writer, readers>> /\ shutting_down' \subseteq Readers
    <2> USE <1>5 DEF IInv, memory, writer, readers
    <2>1. TypeOK'
      BY DEF TypeOK
    <2>2. ChunkInv'
      BY DEF ChunkInv, LastIn, Age, Holds
    <2>3. IndexInv'
      BY DEF IndexInv, Lag
    <2>4. WriterInv'
      BY DEF WriterInv
    <2>5. ReaderInv'
      BY DEF ReaderInv, Lag
    <2>6. SocketInv'
      BY DEF SocketInv
    <2>7. DequeuesInOrder'
      BY DEF DequeuesInOrder
    <2> QED
      BY <2>1, <2>2, <2>3, <2>4, <2>5, <2>6, <2>7
  <1>6. ASSUME NEW r \in Readers, Shutdown(r) PROVE IInv'
    <2>1. shutting_down' \subseteq Readers
      BY <1>6 DEF Shutdown, IInv, TypeOK
    <2> QED
      BY <1>5, <1>6, <2>1 DEF Shutdown
  <1>7. CASE UNCHANGED vars
    BY <1>5, <1>7 DEF vars, IInv, TypeOK
  <1> QED
    BY <1>1, <1>2, <1>3, <1>4, <1>6, <1>7 DEF Next

\* The invariant holds in every state of the processes.
THEOREM InductiveInvariant == Spec => []IInv
  BY InitIInv, NextIInv, PTL DEF Spec

\* The ring, the sockets and the local variables keep their types; the indices
\* stay within the ring.
THEOREM TypeCorrect == Spec => []TypeOK
  <1>1. IInv => TypeOK
    BY DEF IInv
  <1> QED
    BY <1>1, InductiveInvariant, PTL

\* The writer is never in a chunk (acquire_write) while a reader is between the
\* test of its flags and marking it as read (acquire_read).
THEOREM WriterKeepsOut == Spec => []NoWriteUnderReader
  <1>1. IInv => NoWriteUnderReader
    <2> SUFFICES ASSUME IInv, NEW r \in Readers,
                        r_pc[r] \in {"copy", "mark", "mark_overflow"}, r_idx[r] = w_idx
                 PROVE  w_pc \notin {"begin", "fill", "reset"}
      BY DEF NoWriteUnderReader
    <2>1. Lag(r) >= 1
      BY DEF IInv, ReaderInv
    <2>2. w_idx \in written
      BY <2>1, ReadableChunk
    <2> QED
      BY <2>2 DEF IInv, WriterInv
  <1> QED
    BY <1>1, InductiveInvariant, PTL

\* The n-th dequeue of a reader returns the n-th message that was enqueued.
THEOREM ReadersInOrder == Spec => []DequeuesInOrder
  <1>1. IInv => DequeuesInOrder
    BY DEF IInv
  <1> QED
    BY <1>1, InductiveInvariant, PTL

\* Marking a chunk as written is the step in which the abstract queue sends.
LEMMA MarkWrittenSends ==
    ASSUME IInv, MarkWritten
    PROVE  Queue!Send
  <1>1. /\ sent' = sent + 1 /\ got' = got /\ w_idx \notin written
    BY DEF IInv, WriterInv, MarkWritten, readers
  <1>2. ASSUME NEW r \in Readers
        PROVE  sent < got[r] + (MaxChunks + 1)
    <2>1. MaxChunks \in Nat /\ sent \in Nat /\ taken[r] \in Nat /\ got[r] \in Nat
      BY ShmBroadcastAssumption DEF IInv, TypeOK
    <2>2. sent - taken[r] < MaxChunks
      BY <1>1 DEF IInv, IndexInv, Lag
    <2>3. got[r] = taken[r] \/ got[r] = taken[r] - 1
      BY DEF IInv, DequeuesInOrder
    <2> QED
      BY <2>1, <2>2, <2>3
  <1> QED
    BY <1>1, <1>2 DEF Queue!Send

\* Marking a chunk as read is a receipt, or nothing when the message is still
\* to come through the socket.
LEMMA MarkReadReceives ==
    ASSUME IInv, NEW r \in Readers, MarkRead(r)
    PROVE  Queue!Receive(r) \/ UNCHANGED <<sent, got>>
  <1>1. CASE r_pc[r] = "mark_overflow"
    BY <1>1 DEF MarkRead, writer
  <1>2. CASE r_pc[r] = "mark"
    <2>1. /\ got' = [got EXCEPT ![r] = r_buf[r]] /\ sent' = sent
      BY <1>2 DEF MarkRead, writer
    <2>2. /\ r_buf[r] = taken[r] + 1 /\ got[r] = taken[r] /\ sent - taken[r] >= 1
      BY <1>2 DEF IInv, ReaderInv, DequeuesInOrder, Lag
    <2>3. sent \in Nat /\ taken[r] \in Nat
      BY DEF IInv, TypeOK
    <2>4. got[r] < sent /\ r_buf[r] = got[r] + 1
      BY <2>2, <2>3
    <2> QED
      BY <2>1, <2>4 DEF Queue!Receive
  <1> QED
    BY <1>1, <1>2 DEF MarkRead

\* The lock-free ring with its sockets implements the broadcast queue its users
\* rely on: every reader gets every message once and in order, and enqueue
\* holds the writer back when a reader is a ring behind.
THEOREM RefinesBroadcastQueue == Spec => ImplementsBroadcastQueue
  <1>1. Init => Queue!Init
    BY DEF Init, Queue!Init
  <1>2. IInv /\ [Next]_vars => [Queue!Next]_(Queue!vars)
    <2> SUFFICES ASSUME IInv, [Next]_vars
                 PROVE  Queue!Next \/ UNCHANGED <<sent, got>>
      BY DEF Queue!vars
    <2>1. CASE Enqueue \/ Crash
      BY <2>1 DEF Enqueue, Crash, readers
    <2>2. CASE WriterStep
      <3>1. CASE MarkWritten
        BY <3>1, MarkWrittenSends DEF Queue!Next
      <3>2. CASE ~MarkWritten
        BY <2>2, <3>2 DEF WriterStep, ClearWritten, BeginFill, EndFill, ResetReadFlag,
                          SendOversized, Notify, readers
      <3> QED
        BY <3>1, <3>2
    <2>3. ASSUME NEW r \in Readers, ReaderStep(r)
          PROVE  Queue!Next \/ UNCHANGED <<sent, got>>
      <3>1. CASE MarkRead(r)
        BY <3>1, MarkReadReceives DEF Queue!Next
      <3>2. CASE Recv(r)
        <4>1. sent' = sent
          BY <3>2 DEF Recv, writer
        <4> QED
          BY <3>2, <4>1, RecvStep DEF Queue!Next, Queue!Receive
      <3>3. CASE ~MarkRead(r) /\ ~Recv(r)
        BY <2>3, <3>3 DEF ReaderStep, CheckReadFlag, CheckWrittenFlag, Spin, GoIdle, Wake, Copy,
                          writer
      <3> QED
        BY <3>1, <3>2, <3>3
    <2>4. ASSUME NEW r \in Impatient, ReadTimeout(r)
          PROVE  UNCHANGED <<sent, got>>
      BY <2>4 DEF ReadTimeout, writer
    <2>5. ASSUME NEW r \in Readers, Shutdown(r)
          PROVE  UNCHANGED <<sent, got>>
      BY <2>5 DEF Shutdown, writer, readers
    <2>6. CASE UNCHANGED vars
      BY <2>6 DEF vars, writer, readers
    <2> QED
      BY <2>1, <2>2, <2>3, <2>4, <2>5, <2>6 DEF Next
  <1> QED
    BY <1>1, <1>2, InductiveInvariant, PTL DEF Spec, ImplementsBroadcastQueue, Queue!Spec
=============================================================================
