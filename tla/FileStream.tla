----------------------------- MODULE FileStream -----------------------------
(***************************************************************************)
(* One extracted entry: a temp file that the extraction task writes while  *)
(* the client reads it, through ONE operating system handle and therefore  *)
(* one file pointer (CFileStream.cpp, CFile.cpp).  The reader and the      *)
(* writer keep logical positions; a dirty flag tells each that the other   *)
(* moved the pointer.  A binary semaphore brackets every call (Begin/End), *)
(* but only while IsConcurrent holds, and both Close and the end of the    *)
(* extraction switch IsConcurrent off while calls may be in flight.        *)
(*                                                                         *)
(* Every access to the shared state is a step of its own: the IsClosed     *)
(* test of Begin, the IsConcurrent test, the semaphore, the pointer        *)
(* repair, the transfer, the book-keeping, and End with its second look at *)
(* IsConcurrent.  Byte i of the entry is represented by the number i.      *)
(***************************************************************************)
EXTENDS Integers, Sequences

CONSTANTS
  Size,      \* length of the entry, CFileStream::Size
  MaxChunk   \* bound on the length of one read or write request

ASSUME SizeAssumption  == Size \in Nat \ {0}
ASSUME ChunkAssumption == MaxChunk \in Nat \ {0}

None   == -1
Client == "client"   \* the thread that calls the ArchiveEntry methods
Task   == "task"     \* the ExtractThread
Thread == {Client, Task}

VARIABLES
  file, fileLen,     \* contents and length of the temp file
  filePos,           \* file pointer of the shared handle
  readPos, writePos, \* Position of CFileStreamReader and CFileStreamWriter
  readDirty, writeDirty,
  readerClosed, writerClosed,  \* IsClosed of the two ends
  isConcurrent,
  semaphore,         \* tokens in the semaphore: 0 or 1
  pc, op,            \* per thread: where it is, in which operation
  count,             \* per thread: bytes asked for, then bytes transferred
  goal,              \* offset an ArchiveEntry::Seek is about to go to
  available,         \* last value GetAvailable returned to the client
  buffer,            \* bytes the last read delivered
  sent,              \* bytes of the entry the extractor has handed over
  failed,            \* a write was refused or came up short
  result, completed  \* Result and Completed of the ArchiveExtractTask

os      == <<file, fileLen, filePos>>
cursors == <<readPos, writePos, readDirty, writeDirty>>
sharing == <<readerClosed, writerClosed, isConcurrent>>
client  == <<goal, available, buffer>>
task    == <<sent, failed, result, completed>>
vars    == <<os, cursors, sharing, semaphore, pc, op, count, client, task>>

Least(a, b) == IF a <= b THEN a ELSE b

Init ==
  /\ file = [o \in 0..Size-1 |-> None]
  /\ fileLen = 0 /\ filePos = 0
  /\ readPos = 0 /\ writePos = 0
  /\ readDirty = FALSE /\ writeDirty = FALSE
  /\ readerClosed = FALSE /\ writerClosed = FALSE
  /\ isConcurrent = TRUE
  /\ semaphore = 1
  /\ pc = [p \in Thread |-> "idle"]
  /\ op = [p \in Thread |-> "none"]
  /\ count = [p \in Thread |-> 0]
  /\ goal = None /\ available = 0 /\ buffer = << >>
  /\ sent = 0 /\ failed = FALSE
  /\ result = "pending" /\ completed = FALSE

Goto(p, label) == pc' = [pc EXCEPT ![p] = label]

-----------------------------------------------------------------------------
(* Begin and End, the same for every operation.  The operators named       *)
(* Faulty... are seeded faults: no action uses them, they stand beside the *)
(* operator a plausible mistake would turn into them.                      *)

FaultyAfterBegin == "sync"                 \* never waits
FaultyAfterEnd   == "idle"                 \* never gives the token back

AfterBegin == IF isConcurrent THEN "wait" ELSE "sync"
AfterEnd   == IF isConcurrent THEN "release" ELSE "idle"

(* A call whose end is not closed proceeds to the IsConcurrent test. *)
Call(p, o, n) ==
  /\ op' = [op EXCEPT ![p] = o]
  /\ count' = [count EXCEPT ![p] = n]
  /\ Goto(p, "enter")

Enter(p) ==
  /\ pc[p] = "enter"
  /\ Goto(p, AfterBegin)
  /\ UNCHANGED <<os, cursors, sharing, semaphore, op, count, client, task>>

Acquire(p) ==
  /\ pc[p] = "wait"
  /\ semaphore = 1
  /\ semaphore' = 0
  /\ Goto(p, "sync")
  /\ UNCHANGED <<os, cursors, sharing, op, count, client, task>>

Leave(p) ==
  /\ pc[p] = "leave"
  /\ Goto(p, AfterEnd)
  /\ UNCHANGED <<os, cursors, sharing, semaphore, op, count, client, task>>

Release(p) ==
  /\ pc[p] = "release"
  /\ semaphore' = 1
  /\ Goto(p, "idle")
  /\ UNCHANGED <<os, cursors, sharing, op, count, client, task>>

-----------------------------------------------------------------------------
(* The reading end and the queries, called by the client. *)

StartRead ==
  /\ pc[Client] = "idle" /\ goal = None
  /\ ~readerClosed
  /\ \E n \in 1..MaxChunk : Call(Client, "read", n)
  /\ UNCHANGED <<os, cursors, sharing, semaphore, client, task>>

(* What GetAvailable answers once the task no longer runs. *)
Settled == IF result = "ok" THEN Size ELSE 0

(* GetAvailable: with the writing end closed (as it is once the task has   *)
(* completed) the answer comes from the result, otherwise from the writer's*)
(* position, which is behind the semaphore.  g # None: the query is the    *)
(* first half of ArchiveEntry::Seek(g).                                    *)
StartAvailable(g) ==
  /\ pc[Client] = "idle" /\ goal = None
  /\ goal' = g
  /\ \/ /\ completed \/ writerClosed
        /\ available' = Settled
        /\ UNCHANGED <<pc, op, count>>
     \/ /\ ~completed /\ ~writerClosed
        /\ Call(Client, "available", 0)
        /\ UNCHANGED available
  /\ UNCHANGED <<os, cursors, sharing, semaphore, buffer, task>>

SeekRefused ==
  /\ pc[Client] = "idle" /\ goal # None
  /\ goal > available
  /\ goal' = None
  /\ UNCHANGED <<os, cursors, sharing, semaphore, pc, op, count,
                 available, buffer, task>>

StartSeek ==
  /\ pc[Client] = "idle" /\ goal # None
  /\ goal <= available
  /\ ~readerClosed
  /\ Call(Client, "seek", goal)
  /\ goal' = None
  /\ UNCHANGED <<os, cursors, sharing, semaphore, available, buffer, task>>

WriterTell ==
  /\ pc[Client] = "sync" /\ op[Client] = "available"
  /\ available' = writePos
  /\ Goto(Client, "leave")
  /\ UNCHANGED <<os, cursors, sharing, semaphore, op, count, goal, buffer, task>>

FaultySeekDirties(p) == FALSE              \* moves without a dirty flag
SeekDirties(p) == readPos # p

ReaderSeek ==
  /\ pc[Client] = "sync" /\ op[Client] = "seek"
  /\ readPos' = count[Client]
  /\ readDirty' = (readDirty \/ SeekDirties(count[Client]))
  /\ Goto(Client, "leave")
  /\ UNCHANGED <<os, writePos, writeDirty, sharing, semaphore, op, count,
                 client, task>>

ReadSync ==
  /\ pc[Client] = "sync" /\ op[Client] = "read"
  /\ filePos' = IF readDirty THEN readPos ELSE filePos
  /\ readDirty' = FALSE
  /\ Goto(Client, "io")
  /\ UNCHANGED <<file, fileLen, readPos, writePos, writeDirty, sharing,
                 semaphore, op, count, client, task>>

FaultyReadable == fileLen - filePos        \* wraps beyond the end
(* ReadFile on a local file returns everything up to the end of the file. *)
Readable == IF filePos < fileLen THEN fileLen - filePos ELSE 0

ReadFile ==
  /\ pc[Client] = "io"
  /\ LET n == Least(count[Client], Readable)
     IN  /\ buffer' = [i \in 1..n |-> file[filePos + i - 1]]
         /\ filePos' = filePos + n
         /\ count' = [count EXCEPT ![Client] = n]
  /\ Goto(Client, "note")
  /\ UNCHANGED <<file, fileLen, cursors, sharing, semaphore, op,
                 goal, available, task>>

FaultyReadDirties(n) == FALSE              \* the writer is not told
ReadDirties(n) == n > 0

ReadNote ==
  /\ pc[Client] = "note"
  /\ readPos' = readPos + count[Client]
  /\ writeDirty' = (writeDirty \/ ReadDirties(count[Client]))
  /\ Goto(Client, "leave")
  /\ UNCHANGED <<os, writePos, readDirty, sharing, semaphore, op, count,
                 client, task>>

(* ArchiveEntry::Close -> ArchiveExtractCallback::Close: the client closes *)
(* the reading end, then the writing end under the running task.           *)
Cancel ==
  /\ pc[Client] = "idle" /\ goal = None
  /\ Goto(Client, "unshare")
  /\ UNCHANGED <<os, cursors, sharing, semaphore, op, count, client, task>>

-----------------------------------------------------------------------------
(* The writing end, called by the extractor on the task's thread. *)

StartWrite ==
  /\ pc[Task] = "idle" /\ result = "pending" /\ ~failed
  /\ sent < Size
  /\ ~writerClosed
  /\ \E n \in 1..Least(MaxChunk, Size - sent) : Call(Task, "write", n)
  /\ UNCHANGED <<os, cursors, sharing, semaphore, client, task>>

(* Begin answers ERROR_HANDLES_CLOSED and the extractor gives up. *)
WriteRefused ==
  /\ pc[Task] = "idle" /\ result = "pending" /\ ~failed
  /\ sent < Size
  /\ writerClosed
  /\ failed' = TRUE
  /\ UNCHANGED <<os, cursors, sharing, semaphore, pc, op, count, client,
                 sent, result, completed>>

WriteSync ==
  /\ pc[Task] = "sync"
  /\ filePos' = IF writeDirty THEN writePos ELSE filePos
  /\ writeDirty' = FALSE
  /\ Goto(Task, "io")
  /\ UNCHANGED <<file, fileLen, readPos, writePos, readDirty, sharing,
                 semaphore, op, count, client, task>>

(* WriteFile may fail having written only some or none of the bytes. *)
WriteFile ==
  /\ pc[Task] = "io"
  /\ \E n \in 0..count[Task] :
       /\ file' = [o \in DOMAIN file |->
                     IF o \in filePos..(filePos + n - 1)
                     THEN sent + (o - filePos) ELSE file[o]]
       /\ fileLen' = IF n > 0 /\ filePos + n > fileLen
                     THEN filePos + n ELSE fileLen
       /\ filePos' = filePos + n
       /\ sent' = sent + n
       /\ failed' = (n < count[Task])
       /\ count' = [count EXCEPT ![Task] = n]
  /\ Goto(Task, "note")
  /\ UNCHANGED <<cursors, sharing, semaphore, op, client, result, completed>>

FaultyWriteDirties(n) == FALSE             \* the reader is not told
WriteDirties(n) == n > 0

WriteNote ==
  /\ pc[Task] = "note"
  /\ writePos' = writePos + count[Task]
  /\ readDirty' = (readDirty \/ WriteDirties(count[Task]))
  /\ Goto(Task, "leave")
  /\ UNCHANGED <<os, readPos, writeDirty, sharing, semaphore, op, count,
                 client, task>>

(* IInArchive::Extract returns.  S_OK does not mean that every byte was    *)
(* written: SetOperationResult swallows data and checksum errors.          *)
Finish ==
  /\ pc[Task] = "idle" /\ result = "pending"
  /\ \E r \in {"ok", "failed"} :
       /\ r = "ok" => ~failed
       /\ result' = r
  /\ Goto(Task, "unshare")
  /\ UNCHANGED <<os, cursors, sharing, semaphore, op, count, client,
                 sent, failed, completed>>

-----------------------------------------------------------------------------
(* Closing an end: first IsConcurrent, then the end's own IsClosed. *)

Unshare(p) ==
  /\ pc[p] = "unshare"
  /\ isConcurrent' = FALSE
  /\ Goto(p, "shut")
  /\ UNCHANGED <<os, cursors, readerClosed, writerClosed, semaphore, op,
                 count, client, task>>

ShutReader ==
  /\ pc[Client] = "shut" /\ ~readerClosed
  /\ readerClosed' = TRUE
  /\ Goto(Client, "unshare")
  /\ UNCHANGED <<os, cursors, writerClosed, isConcurrent, semaphore, op,
                 count, client, task>>

ShutWriter(p) ==
  /\ pc[p] = "shut"
  /\ p = Client => readerClosed
  /\ writerClosed' = TRUE
  /\ Goto(p, IF p = Client THEN "closed" ELSE "complete")
  /\ UNCHANGED <<os, cursors, readerClosed, isConcurrent, semaphore, op,
                 count, client, task>>

Complete ==
  /\ pc[Task] = "complete"
  /\ completed' = TRUE
  /\ Goto(Task, "done")
  /\ UNCHANGED <<os, cursors, sharing, semaphore, op, count, client,
                 sent, failed, result>>

FaultyAfterFailure == "idle"               \* returns past the End
AfterFailure == "leave"

(* The operating system fails to move the file pointer: the call ends, the *)
(* dirty flag stays up, and a failed write ends the extraction.            *)
SyncFails(p) ==
  /\ pc[p] = "sync"
  /\ \/ p = Client /\ op[p] = "read" /\ readDirty /\ UNCHANGED failed
     \/ p = Task /\ writeDirty /\ failed' = TRUE
  /\ Goto(p, AfterFailure)
  /\ UNCHANGED <<os, cursors, sharing, semaphore, op, count, client,
                 sent, result, completed>>

-----------------------------------------------------------------------------
(* Steps inside a call, which the scheduler must run to their end. *)
ClientStep ==
  \/ Enter(Client) \/ Acquire(Client) \/ Leave(Client) \/ Release(Client)
  \/ SeekRefused \/ StartSeek \/ WriterTell \/ ReaderSeek
  \/ ReadSync \/ ReadFile \/ ReadNote \/ SyncFails(Client)
  \/ Unshare(Client) \/ ShutReader \/ ShutWriter(Client)

ClientCall ==
  \/ StartRead
  \/ \E g \in {None} \cup 0..Size : StartAvailable(g)
  \/ Cancel

TaskStep ==
  \/ Enter(Task) \/ Acquire(Task) \/ Leave(Task) \/ Release(Task)
  \/ StartWrite \/ WriteRefused \/ WriteSync \/ WriteFile \/ WriteNote
  \/ SyncFails(Task) \/ Finish
  \/ Unshare(Task) \/ ShutWriter(Task) \/ Complete

Next == ClientStep \/ ClientCall \/ TaskStep

Spec == Init /\ [][Next]_vars

(* ReadFile fails: it has transferred nothing and left the pointer alone,  *)
(* no position and no flag is touched, and the call ends.                  *)
ReadFails ==
  /\ pc[Client] = "io"
  /\ Goto(Client, AfterFailure)
  /\ UNCHANGED <<os, cursors, sharing, semaphore, op, count, client, task>>

(* The same on a device whose reads may fail. *)
DeviceSpec == Init /\ [][Next \/ ReadFails]_vars

(* Both threads run; a waiter on the semaphore is woken in arrival order,  *)
(* so a semaphore that becomes free again and again is finally obtained.   *)
(* Nothing obliges the client to make another call.                        *)
Fairness ==
  /\ WF_vars(ClientStep) /\ WF_vars(TaskStep)
  /\ \A p \in Thread : SF_vars(Acquire(p))

FairSpec == Spec /\ Fairness

-----------------------------------------------------------------------------
(* Between a Begin that succeeded and the matching End. *)
Holds(p) == pc[p] \in {"sync", "io", "note", "leave", "release"}

Other(p) == IF p = Client THEN Task ELSE Client

Labels == {"idle", "enter", "wait", "sync", "io", "note", "leave", "release",
           "unshare", "shut", "closed", "complete", "done"}

(* Every variable of the stream, of the threads and of the task has its    *)
(* type, whatever the two threads do.                                      *)
TypeOK ==
  /\ file \in [0..Size-1 -> Int]
  /\ fileLen \in Nat /\ filePos \in Nat
  /\ readPos \in Nat /\ writePos \in Nat
  /\ readDirty \in BOOLEAN /\ writeDirty \in BOOLEAN
  /\ readerClosed \in BOOLEAN /\ writerClosed \in BOOLEAN
  /\ isConcurrent \in BOOLEAN
  /\ semaphore \in {0, 1}
  /\ pc \in [Thread -> Labels]
  /\ op \in [Thread -> {"none", "read", "available", "seek", "write"}]
  /\ count \in [Thread -> Nat]
  /\ goal \in Nat \cup {None} /\ available \in Nat
  /\ sent \in Nat /\ failed \in BOOLEAN
  /\ result \in {"pending", "ok", "failed"} /\ completed \in BOOLEAN

(* The client and the task are never both between Begin and End, although  *)
(* IsConcurrent is switched off while calls are in flight and a call that  *)
(* finds it off takes no semaphore (CFileStream::Begin, End, Close).       *)
MutualExclusion == ~(Holds(Client) /\ Holds(Task))

(* Nobody waits for a token that no one will give back: End does not       *)
(* release once IsConcurrent is off, so a waiter that IsConcurrent was     *)
(* switched off under must find the token in place.                        *)
NoStrandedWaiter ==
  \A p \in Thread :
    pc[p] = "wait" =>
      \/ semaphore = 1
      \/ Holds(Other(p)) /\ (isConcurrent \/ pc[Other(p)] = "release")

(* The temp file is at every moment a prefix of the entry: reads move the  *)
(* shared pointer, yet no write lands anywhere but at the end of what was  *)
(* written before (CFileStreamWriter::Write and its WriteDirty flag).      *)
PrefixIntact ==
  /\ fileLen <= Size
  /\ \A o \in 0..Size-1 : o < fileLen => file[o] = o

(* Unless a write has failed, a read returns all that was asked for and is *)
(* in the file behind the READER's position: the pointer the writer left   *)
(* somewhere else never makes data that is there look missing.             *)
ReadComplete ==
  [][ (pc[Client] = "io" /\ pc'[Client] = "note" /\ ~failed) =>
        count'[Client] = Least(count[Client],
                               IF readPos < fileLen THEN fileLen - readPos ELSE 0)
    ]_vars

(* The client sees the abstract stream: it reads exactly the bytes behind  *)
(* its cursor and never more than the task has written.                    *)
Stream == INSTANCE EntryStream WITH
  written   <- fileLen,
  position  <- IF pc[Client] = "note" THEN readPos + count[Client] ELSE readPos,
  delivered <- buffer,
  finished  <- result # "pending"

ImplementsEntryStream == Stream!Spec

(* Every call of either thread comes back, Cancel included. *)
CallsReturn ==
  \A p \in Thread : pc[p] # "idle" ~> pc[p] \in {"idle", "closed", "done"}

(* The extraction ends and is marked completed, however often the client   *)
(* takes the semaphore in between.                                         *)
TaskCompletes == <>completed

-----------------------------------------------------------------------------
(* The inductive strengthening of the invariants above.                    *)

ClientClosing == readerClosed \/ pc[Client] \in {"shut", "closed"}
TaskClosing   == pc[Task] \in {"shut", "complete", "done"}

(* While streams are shared the semaphore tells exactly whether a thread   *)
(* is inside; once they are not, one of the threads makes no more calls.   *)
LockInv ==
  /\ ~isConcurrent => ClientClosing \/ TaskClosing
  /\ readerClosed => pc[Client] \in {"unshare", "shut", "closed"}
  /\ isConcurrent => (semaphore = 0 <=> Holds(Client) \/ Holds(Task))
  /\ MutualExclusion
  /\ NoStrandedWaiter

Writing == {"enter", "wait", "sync", "io", "note", "leave", "release"}

TaskInv ==
  /\ pc[Task] \in Writing => result = "pending"
  /\ pc[Task] \in {"enter", "wait", "sync", "io"} =>
       ~failed /\ count[Task] > 0 /\ sent + count[Task] <= Size
  /\ pc[Task] \in {"unshare", "shut", "complete", "done"} => result # "pending"
  /\ completed => pc[Task] = "done"
  /\ writerClosed => pc[Client] = "closed" \/ pc[Task] \in {"complete", "done"}

(* The writer's position and the end of the file are what was handed over. *)
FileInv ==
  /\ PrefixIntact
  /\ fileLen = sent
  /\ writePos = IF pc[Task] = "note" THEN sent - count[Task] ELSE sent
  /\ pc[Task] = "note" => count[Task] <= sent

(* How far the client may go. *)
Limit == IF result = "pending" THEN fileLen ELSE Size

ClientInv ==
  /\ buffer \in Seq(Int)
  /\ readPos <= Limit /\ available <= Limit
  /\ goal \in {None} \cup 0..Size
  /\ (pc[Client] \in {"enter", "wait", "sync"} /\ op[Client] = "seek")
       => count[Client] <= Limit
  /\ (pc[Client] \in {"enter", "wait", "sync"} /\ op[Client] = "read")
       => count[Client] > 0
  /\ pc[Client] = "io" => count[Client] > 0
  /\ pc[Client] = "note" => readPos + count[Client] <= Limit

(* The pointer is where the writer needs it, or the flag says it is not.   *)
WritePointerInv ==
  /\ pc[Task] = "io" => filePos = fileLen
  /\ result = "pending" =>
       \/ writeDirty
       \/ filePos = fileLen
       \/ pc[Client] = "io" /\ filePos < fileLen
       \/ pc[Client] = "note" /\ count[Client] > 0

(* The same for the reader; a write that transferred nothing moves the     *)
(* pointer to the end of the file and leaves the reader's flag down.       *)
ReadPointerInv ==
  /\ \/ readDirty
     \/ filePos = readPos
     \/ pc[Client] = "note"
     \/ /\ filePos >= fileLen
        /\ failed \/ pc[Task] = "io" \/ (pc[Task] = "note" /\ count[Task] > 0)
  /\ pc[Client] \in {"io", "note"} => ~readDirty
  /\ pc[Client] = "note" =>
       \/ filePos = readPos + count[Client]
       \/ failed /\ filePos >= fileLen /\ count[Client] = 0

IInv ==
  /\ TypeOK
  /\ LockInv
  /\ TaskInv
  /\ FileInv
  /\ ClientInv
  /\ WritePointerInv
  /\ ReadPointerInv
=============================================================================
