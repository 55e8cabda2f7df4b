-------------------------------- MODULE ShmBroadcast --------------------------------
(***************************************************************************)
(* MessageQueue over ShmRingBuffer and SpinCondition                       *)
(* (vllm/distributed/device_communicators/shm_broadcast.py): one writer    *)
(* process and the local reader processes share a ring of chunks without   *)
(* locks.  A step is one access to shared memory, so the processes         *)
(* interleave between any two of them.  The fences of the code order these *)
(* accesses; memory is taken to be sequentially consistent.                *)
(*   data, overflow  the chunks: the message in the chunk (0 while it is   *)
(*              being written), and whether byte 0 says that the message   *)
(*              is too large and comes through the socket instead;         *)
(*   written, read_by  the metadata: the chunks whose written flag is set, *)
(*              and for each chunk the readers whose flag is set;          *)
(*   socket     local_socket: the messages on their way to each reader.    *)
(*              They are numbered as they are sent, so a FIFO of them is a *)
(*              set whose head is the least;                               *)
(*   notified   readers with a notification in local_notify_socket: it     *)
(*              holds one at most, CONFLATE and SNDHWM drop the others;    *)
(*   shutting_down  readers whose shutdown() was called;                   *)
(*   w_pc, w_idx, unreset, sent  the writer: where it is in enqueue, its   *)
(*              current_idx, the reader flags left to reset, and how many  *)
(*              chunks it has marked as written;                           *)
(*   r_pc, r_idx, r_buf, taken, got  each reader: where it is in dequeue,  *)
(*              its current_idx, what it copied from the chunk, how many   *)
(*              chunks it has marked as read, and the message the last     *)
(*              dequeue returned.                                          *)
(* Messages are 1, 2, ... in the order of the calls of enqueue.            *)
(*                                                                         *)
(* Left out: remote readers, which get everything through a socket; an     *)
(* enqueue that times out, which has changed nothing; and a dequeue that   *)
(* times out in MessageQueue.recv.                                         *)
(***************************************************************************)
EXTENDS Integers

CONSTANTS Readers,       \* local readers
          MaxChunks,     \* max_chunks
          MaxMessages,   \* bound: calls of enqueue
          Oversized,     \* messages that do not fit in a chunk
          Impatient      \* readers that dequeue with a timeout

Chunks == 0 .. MaxChunks - 1

Messages == 1 .. MaxMessages

ASSUME ShmBroadcastAssumption ==
    /\ MaxChunks \in Nat \ {0}
    /\ MaxMessages \in Nat
    /\ Oversized \subseteq Messages
    /\ Impatient \subseteq Readers

VARIABLES data, overflow, written, read_by, socket, notified, shutting_down,
          w_pc, w_idx, unreset, sent, r_pc, r_idx, r_buf, taken, got

memory  == <<data, overflow, written, read_by>>
writer  == <<w_pc, w_idx, unreset, sent>>
readers == <<r_pc, r_idx, r_buf, taken, got>>
vars    == <<memory, socket, notified, shutting_down, writer, readers>>

Init ==
    /\ data = [k \in Chunks |-> 0]
    /\ overflow = {}
    /\ written = {}
    /\ read_by = [k \in Chunks |-> {}]
    /\ socket = [r \in Readers |-> {}]
    /\ notified = {}
    /\ shutting_down = {}
    /\ w_pc = "ready"
    /\ w_idx = 0
    /\ unreset = {}
    /\ sent = 0
    /\ r_pc = [r \in Readers |-> "check"]
    /\ r_idx = [r \in Readers |-> 0]
    /\ r_buf = [r \in Readers |-> 0]
    /\ taken = [r \in Readers |-> 0]
    /\ got = [r \in Readers |-> 0]

-----------------------------------------------------------------------------
(* The writer: enqueue and acquire_write.                                   *)

Enqueue ==
    /\ w_pc = "ready"
    /\ sent < MaxMessages
    /\ w_pc' = "check"
    /\ UNCHANGED <<memory, socket, notified, shutting_down, w_idx, unreset, sent, readers>>

\* Mutant: one reader is enough.
MutCanWrite == w_idx \in written => read_by[w_idx] # {}

\* The chunk was never written or is read by all.  The flags are read one at a
\* time, but readers only set them, so a test that succeeds is true at its end.
CanWrite == w_idx \in written => read_by[w_idx] = Readers

ClearWritten ==
    /\ w_pc = "check"
    /\ CanWrite
    /\ written' = written \ {w_idx}
    /\ w_pc' = "begin"
    /\ UNCHANGED <<data, overflow, read_by, socket, notified, shutting_down,
                   w_idx, unreset, sent, readers>>

BeginFill ==
    /\ w_pc = "begin"
    /\ data' = [data EXCEPT ![w_idx] = 0]
    /\ overflow' = IF sent + 1 \in Oversized THEN overflow \cup {w_idx} ELSE overflow \ {w_idx}
    /\ w_pc' = "fill"
    /\ UNCHANGED <<written, read_by, socket, notified, shutting_down,
                   w_idx, unreset, sent, readers>>

\* Mutant: the chunk is marked as written before the reader flags are reset.
MutEndFill ==
    /\ w_pc = "fill"
    /\ data' = IF w_idx \in overflow THEN data ELSE [data EXCEPT ![w_idx] = sent + 1]
    /\ written' = written \cup {w_idx}
    /\ unreset' = Readers
    /\ w_pc' = "reset"
    /\ UNCHANGED <<overflow, read_by, socket, notified, shutting_down, w_idx, sent, readers>>

EndFill ==
    /\ w_pc = "fill"
    /\ data' = IF w_idx \in overflow THEN data ELSE [data EXCEPT ![w_idx] = sent + 1]
    /\ unreset' = Readers
    /\ w_pc' = "reset"
    /\ UNCHANGED <<overflow, written, read_by, socket, notified, shutting_down,
                   w_idx, sent, readers>>

ResetReadFlag(r) ==
    /\ w_pc = "reset"
    /\ r \in unreset
    /\ read_by' = [read_by EXCEPT ![w_idx] = @ \ {r}]
    /\ unreset' = unreset \ {r}
    /\ UNCHANGED <<data, overflow, written, socket, notified, shutting_down,
                   w_pc, w_idx, sent, readers>>

\* Mutant: the index does not wrap.
MutNextIdx(i) == i + 1

\* (current_idx + 1) % max_chunks
NextIdx(i) == (i + 1) % MaxChunks

MarkWritten ==
    /\ w_pc = "reset"
    /\ unreset = {}
    /\ written' = written \cup {w_idx}
    /\ w_idx' = NextIdx(w_idx)
    /\ sent' = sent + 1
    /\ w_pc' = IF w_idx \in overflow THEN "send" ELSE "notify"
    /\ UNCHANGED <<data, overflow, read_by, socket, notified, shutting_down, unreset, readers>>

\* local_socket.send_multipart, after the chunk was released.
SendOversized ==
    /\ w_pc = "send"
    /\ socket' = [r \in Readers |-> socket[r] \cup {sent}]
    /\ w_pc' = "notify"
    /\ UNCHANGED <<memory, notified, shutting_down, w_idx, unreset, sent, readers>>

\* Mutant: only the readers that are idle already are notified.
MutNotify ==
    /\ w_pc = "notify"
    /\ notified' = notified \cup {r \in Readers : r_pc[r] = "idle"}
    /\ w_pc' = "ready"
    /\ UNCHANGED <<memory, socket, shutting_down, w_idx, unreset, sent, readers>>

Notify ==
    /\ w_pc = "notify"
    /\ notified' = Readers
    /\ w_pc' = "ready"
    /\ UNCHANGED <<memory, socket, shutting_down, w_idx, unreset, sent, readers>>

\* The writer's process dies.
Crash ==
    /\ w_pc # "crashed"
    /\ w_pc' = "crashed"
    /\ UNCHANGED <<memory, socket, notified, shutting_down, w_idx, unreset, sent, readers>>

-----------------------------------------------------------------------------
(* A reader: dequeue and acquire_read.                                      *)

Goto(r, pc) == r_pc' = [r_pc EXCEPT ![r] = pc]

\* check() reads the reader's own flag first ...
CheckReadFlag(r) ==
    /\ r_pc[r] = "check"
    /\ Goto(r, IF r \in read_by[r_idx[r]] THEN "wait" ELSE "check_written")
    /\ UNCHANGED <<memory, socket, notified, shutting_down, writer, r_idx, r_buf, taken, got>>

\* ... then the written flag.
CheckWrittenFlag(r) ==
    /\ r_pc[r] = "check_written"
    /\ Goto(r, IF r_idx[r] \in written THEN "copy" ELSE "wait")
    /\ UNCHANGED <<memory, socket, notified, shutting_down, writer, r_idx, r_buf, taken, got>>

\* Mutant: the flag is not tested after the poll.
MutAfterWait(r) == "check"

AfterWait(r) == IF r \in shutting_down THEN "cancelled" ELSE "check"

\* SpinCondition.wait within busy_loop_s of the last read.
Spin(r) ==
    /\ r_pc[r] = "wait"
    /\ Goto(r, AfterWait(r))
    /\ UNCHANGED <<memory, socket, notified, shutting_down, writer, r_idx, r_buf, taken, got>>

\* After that it polls its sockets, ...
GoIdle(r) ==
    /\ r_pc[r] = "wait"
    /\ Goto(r, "idle")
    /\ UNCHANGED <<memory, socket, notified, shutting_down, writer, r_idx, r_buf, taken, got>>

\* ... until a cancellation, which comes first, or a notification.
Wake(r) ==
    /\ r_pc[r] = "idle"
    /\ r \in notified \cup shutting_down
    /\ notified' = IF r \in shutting_down THEN notified ELSE notified \ {r}
    /\ Goto(r, AfterWait(r))
    /\ UNCHANGED <<memory, socket, shutting_down, writer, r_idx, r_buf, taken, got>>

\* The poll times out.  The flags are tested once more before dequeue raises
\* TimeoutError, and its caller comes back.
ReadTimeout(r) ==
    /\ r_pc[r] = "idle"
    /\ r \notin notified \cup shutting_down
    /\ Goto(r, "check")
    /\ UNCHANGED <<memory, socket, notified, shutting_down, writer, r_idx, r_buf, taken, got>>

Copy(r) ==
    /\ r_pc[r] = "copy"
    /\ r_buf' = [r_buf EXCEPT ![r] = data[r_idx[r]]]
    /\ Goto(r, IF r_idx[r] \in overflow THEN "mark_overflow" ELSE "mark")
    /\ UNCHANGED <<memory, socket, notified, shutting_down, writer, r_idx, taken, got>>

\* Mutant: a reader that has to fetch the message leaves the chunk unmarked.
MutMarkRead(r) ==
    /\ r_pc[r] \in {"mark", "mark_overflow"}
    /\ read_by' = IF r_pc[r] = "mark" THEN [read_by EXCEPT ![r_idx[r]] = @ \cup {r}] ELSE read_by
    /\ r_idx' = [r_idx EXCEPT ![r] = NextIdx(@)]
    /\ taken' = [taken EXCEPT ![r] = @ + 1]
    /\ got' = IF r_pc[r] = "mark" THEN [got EXCEPT ![r] = r_buf[r]] ELSE got
    /\ Goto(r, IF r_pc[r] = "mark" THEN "check" ELSE "recv")
    /\ UNCHANGED <<data, overflow, written, socket, notified, shutting_down, writer, r_buf>>

\* The chunk is released; a message that fits is returned.
MarkRead(r) ==
    /\ r_pc[r] \in {"mark", "mark_overflow"}
    /\ read_by' = [read_by EXCEPT ![r_idx[r]] = @ \cup {r}]
    /\ r_idx' = [r_idx EXCEPT ![r] = NextIdx(@)]
    /\ taken' = [taken EXCEPT ![r] = @ + 1]
    /\ got' = IF r_pc[r] = "mark" THEN [got EXCEPT ![r] = r_buf[r]] ELSE got
    /\ Goto(r, IF r_pc[r] = "mark" THEN "check" ELSE "recv")
    /\ UNCHANGED <<data, overflow, written, socket, notified, shutting_down, writer, r_buf>>

\* MessageQueue.recv waits for the socket, and for nothing else.
Recv(r) ==
    /\ r_pc[r] = "recv"
    /\ \E m \in socket[r] :
          /\ \A other \in socket[r] : m <= other
          /\ got' = [got EXCEPT ![r] = m]
          /\ socket' = [socket EXCEPT ![r] = @ \ {m}]
    /\ Goto(r, "check")
    /\ UNCHANGED <<memory, notified, shutting_down, writer, r_idx, r_buf, taken>>

\* shutdown(), from a thread of the reader's process.
Shutdown(r) ==
    /\ shutting_down' = shutting_down \cup {r}
    /\ UNCHANGED <<memory, socket, notified, writer, readers>>

-----------------------------------------------------------------------------
\* What the writer does once it is in enqueue.
WriterStep ==
    \/ ClearWritten
    \/ BeginFill
    \/ EndFill
    \/ \E r \in Readers : ResetReadFlag(r)
    \/ MarkWritten
    \/ SendOversized
    \/ Notify

\* What a reader does in dequeue.
ReaderStep(r) ==
    \/ CheckReadFlag(r)
    \/ CheckWrittenFlag(r)
    \/ Spin(r)
    \/ GoIdle(r)
    \/ Wake(r)
    \/ Copy(r)
    \/ MarkRead(r)
    \/ Recv(r)

Next ==
    \/ Enqueue
    \/ WriterStep
    \/ Crash
    \/ \E r \in Readers : ReaderStep(r)
    \/ \E r \in Impatient : ReadTimeout(r)
    \/ \E r \in Readers : Shutdown(r)

\* The processes are not stopped by the operating system; nobody has to call
\* enqueue, time out, crash or shut down.
Fairness ==
    /\ WF_vars(WriterStep)
    /\ \A r \in Readers : WF_vars(ReaderStep(r))

Spec == Init /\ [][Next]_vars /\ Fairness

-----------------------------------------------------------------------------
(* Properties.                                                              *)

WriterPCs == {"ready", "check", "begin", "fill", "reset", "send", "notify", "crashed"}

ReaderPCs == {"check", "check_written", "wait", "idle", "copy", "mark", "mark_overflow",
              "recv", "cancelled"}

\* Types of the ring, the sockets and the local variables.
TypeOK ==
    /\ data \in [Chunks -> Nat]
    /\ overflow \subseteq Chunks
    /\ written \subseteq Chunks
    /\ read_by \in [Chunks -> SUBSET Readers]
    /\ socket \in [Readers -> SUBSET Nat]
    /\ notified \subseteq Readers
    /\ shutting_down \subseteq Readers
    /\ w_pc \in WriterPCs
    /\ w_idx \in Chunks
    /\ unreset \subseteq Readers
    /\ sent \in Nat
    /\ r_pc \in [Readers -> ReaderPCs]
    /\ r_idx \in [Readers -> Chunks]
    /\ r_buf \in [Readers -> Nat]
    /\ taken \in [Readers -> Nat]
    /\ got \in [Readers -> Nat]

\* No chunk is written while a reader looks at it: between the test of its
\* flags and the moment it marks the chunk as read, the writer is elsewhere.
NoWriteUnderReader ==
    \A r \in Readers :
        r_pc[r] \in {"copy", "mark", "mark_overflow"} /\ r_idx[r] = w_idx
            => w_pc \notin {"begin", "fill", "reset"}

\* The n-th dequeue of a reader returns the n-th message, whether it comes
\* through the ring or the socket.
DequeuesInOrder ==
    \A r \in Readers :
        got[r] = IF r_pc[r] = "recv" THEN taken[r] - 1 ELSE taken[r]

\* The ring and the socket together are a BroadcastQueue.  A reader releases
\* the chunk of an oversized message before it has it, hence the one more.
Queue == INSTANCE BroadcastQueue WITH Capacity <- MaxChunks + 1

\* Every step of the processes is a step of that queue or none.
ImplementsBroadcastQueue == Queue!Spec

\* A message that was marked as written reaches every reader, spinning or idle,
\* unless that reader is shut down, or the writer dies before it is sent.
EveryMessageArrives ==
    \A r \in Readers, n \in Messages :
        sent >= n ~> got[r] >= n \/ r \in shutting_down \/ w_pc = "crashed"

\* A writer that waits for a chunk gets one, unless it dies or a reader it
\* waits for is gone.
EnqueueReturns ==
    w_pc = "check" ~> w_pc \in {"ready", "crashed"} \/ shutting_down # {}

\* shutdown() ends a reader that has read what there is, idle or not.  Only one
\* that waits in recv for a message the dead writer never sent stays.
ShutdownEndsReader ==
    \A r \in Readers :
        r \in shutting_down ~>
            r_pc[r] = "cancelled" \/ (w_pc = "crashed" /\ r_pc[r] = "recv")
=============================================================================
