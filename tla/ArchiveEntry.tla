---------------------------- MODULE ArchiveEntry ----------------------------
(***************************************************************************)
(* One open entry seen through the exported ARCHIVE_...Entry functions     *)
(* (ArchiveEntryInterface.cpp, ArchiveEntry.cpp): the client's calls run   *)
(* against the extraction task of the entry (ArchiveExtractTask.cpp,       *)
(* ArchiveExtractCallback.cpp), which may stop to ask for a password, may  *)
(* fail, and is joined by CloseEntry.                                      *)
(*                                                                         *)
(* Reads, seeks and queries of the shared stream are single steps here:    *)
(* module FileStream shows that they behave so.  Everything the client     *)
(* reads outside the stream (Completed, Result, the prompt list) is read   *)
(* in a step of its own, in the order of the code.                         *)
(***************************************************************************)
EXTENDS Integers

CONSTANTS
  Size,       \* length of the entry
  MaxRead,    \* bound on the length of one ReadEntry
  Timeout,    \* turns of Buffer's wait loop, ZS_BUFFER_TIMEOUT
  MayDamage   \* TRUE: the archive may hold an entry whose data is damaged

ASSUME SizeAssumption    == Size \in Nat \ {0}
ASSUME ReadAssumption    == MaxRead \in Nat \ {0}
ASSUME TimeoutAssumption == Timeout \in Nat \ {0}
ASSUME DamageAssumption  == MayDamage \in BOOLEAN

VARIABLES
  cached,      \* the temp file was found complete: no writer
  encrypted,   \* the entry needs a password
  handler,     \* the application registered a password handler
  task,        \* where the extraction thread is
  password,    \* what the archive knows: "none", "right" or "wrong"
  written,     \* bytes extracted into the temp file
  writerClosed,
  result,      \* ArchiveExtractTask::Result
  completed,   \* ArchiveExtractTask::Completed
  pc,          \* where the client's thread is
  call, arg,   \* the exported function it is in, and its argument
  target,      \* position Buffer waits for
  polls,       \* turns of Buffer's loop
  prompted,    \* (history) a prompt was up at the last turn of the loop
  seen,        \* the Result BufferEntry has read
  position,    \* position of the reading end
  returned,    \* what the last function returned
  lastError,   \* LastError of ErrorInterface.cpp
  freed        \* the Archive object has been deleted

entry  == <<cached, encrypted, handler>>
thread == <<task, password, written, result, completed>>
client == <<pc, call, arg, target, polls, seen, position, returned, lastError, freed>>
vars   == <<entry, thread, writerClosed, prompted, client>>

Least(a, b) == IF a <= b THEN a ELSE b

Init ==
  /\ cached \in BOOLEAN /\ encrypted \in BOOLEAN /\ handler \in BOOLEAN
  /\ task = "started" /\ password = "none" /\ written = 0
  /\ writerClosed = FALSE
  /\ result = "pending" /\ completed = FALSE
  /\ pc = "idle" /\ call = "none" /\ arg = 0 /\ target = 0 /\ polls = 0
  /\ prompted = FALSE /\ seen = "pending"
  /\ position = 0
  /\ returned = [call |-> "none", arg |-> 0, ok |-> FALSE]
  /\ lastError = "ok"
  /\ freed = FALSE

-----------------------------------------------------------------------------
(* The extraction task. *)

Needs == encrypted /\ ~cached   \* a skipped entry is never decrypted

(* CryptoGetTextPassword puts a prompt up. *)
Ask ==
  /\ task = "started" /\ Needs /\ handler
  /\ task' = "asking"
  /\ UNCHANGED <<entry, password, written, result, completed, writerClosed,
                 prompted, client>>

(* The handler returns: a password, which the archive keeps, or a refusal. *)
Answer ==
  /\ task = "asking"
  /\ \/ password' \in {"right", "wrong"} /\ task' = "extracting" /\ UNCHANGED result
     \/ result' = "denied" /\ task' = "finished" /\ UNCHANGED password
  /\ UNCHANGED <<entry, written, completed, writerClosed, prompted, client>>

(* No password is needed, or nobody can be asked. *)
Begin ==
  /\ task = "started"
  /\ \/ ~Needs /\ task' = "extracting" /\ UNCHANGED result
     \/ Needs /\ ~handler /\ task' = "finished" /\ result' = "denied"
  /\ UNCHANGED <<entry, password, written, completed, writerClosed, prompted, client>>

(* The decoder writes; with a wrong password, what it makes of the data.   *)
Write ==
  /\ task = "extracting" /\ ~cached /\ ~writerClosed
  /\ \E n \in 1..(Size - written) : written' = written + n
  /\ UNCHANGED <<entry, task, password, result, completed, writerClosed,
                 prompted, client>>

(* SetOperationResult: a wrong password is an error if the format tests it *)
(* before it decodes (Zip, RAR 5).  A failed decoder or checksum is passed *)
(* on as success, and so is a wrong password that shows only in them: that *)
(* of a 7z or an older RAR archive, or one that passes the one byte or two *)
(* that Zip tests.                                                         *)
OperationResult ==
  {r \in {"denied", "ok"} :
     IF r = "denied" THEN password = "wrong" /\ written = 0
     ELSE cached \/ written = Size \/ MayDamage \/ password = "wrong"}

(* A refused or failed write ends Extract with an error.                   *)
WriteResult ==
  IF cached \/ written = Size THEN {}
  ELSE IF writerClosed THEN {"closed"} ELSE {"failed"}

(* Extract returns, and Result is set. *)
Finish ==
  /\ task = "extracting"
  /\ result' \in OperationResult \cup WriteResult
  /\ task' = "finished"
  /\ UNCHANGED <<entry, password, written, completed, writerClosed, prompted, client>>

CloseWriters ==
  /\ task = "finished"
  /\ task' = "completing"
  /\ writerClosed' = ~cached
  /\ UNCHANGED <<entry, password, written, result, completed, prompted, client>>

Complete ==
  /\ task = "completing"
  /\ completed' = TRUE
  /\ task' = "exited"
  /\ UNCHANGED <<entry, password, written, result, writerClosed, prompted, client>>

TaskStep == Ask \/ Begin \/ Write \/ Finish \/ CloseWriters \/ Complete

-----------------------------------------------------------------------------
(* What the client's functions see. *)

(* The operators named Faulty... are seeded faults: no action uses them,   *)
(* they stand beside the operator a plausible mistake would turn into them.*)
FaultyAvailableAnyResult == IF ~completed /\ ~writerClosed /\ ~cached THEN written ELSE Size
FaultyAvailableGap ==
  IF ~completed /\ ~writerClosed /\ ~cached THEN written
  ELSE IF completed /\ result = "ok" THEN Size ELSE 0

(* ArchiveEntry::GetAvailable.  A closed writer implies a Result that does *)
(* not change again, so the three reads of the code are one step.          *)
Available ==
  IF ~completed /\ ~writerClosed /\ ~cached THEN written
  ELSE IF result = "ok" THEN Size ELSE 0

OnDisk   == IF cached THEN Size ELSE written
Readable == IF position < OnDisk THEN OnDisk - position ELSE 0

Call(f, a, label) ==
  /\ pc = "idle" /\ ~freed
  /\ call' = f /\ arg' = a
  /\ pc' = label
  /\ UNCHANGED <<entry, thread, writerClosed, polls, prompted, seen,
                 position, returned, lastError, freed>>

Return(ok) ==
  /\ pc' = "idle"
  /\ returned' = [call |-> call, arg |-> arg, ok |-> ok]

BufferEntry(p) == Call("Buffer", p, "buffer") /\ target' = p
ReadEntry(n)   == Call("Read", n, "read") /\ UNCHANGED target
SeekEntry(o)   == Call("Seek", o, "seek") /\ UNCHANGED target
CloseEntry     == Call("Close", 0, "report") /\ UNCHANGED target

-----------------------------------------------------------------------------
(* ArchiveEntry::Buffer, and where its three callers go on. *)

Buffered(ok) ==
  \/ call = "Buffer" /\ ok /\ Return(TRUE)
  \/ call = "Buffer" /\ ~ok /\ pc' = "fail" /\ UNCHANGED returned
  \/ call = "Read" /\ pc' = "reread" /\ UNCHANGED returned
  \/ call = "Seek" /\ pc' = "reseek" /\ UNCHANGED returned

BufferCheck ==
  /\ pc = "buffer"
  /\ polls' = 0
  /\ prompted' = FALSE
  /\ \/ target > Size /\ Buffered(FALSE)
     \/ target <= Size /\ completed /\ Buffered(Available >= target)
     \/ target <= Size /\ ~completed /\ pc' = "poll" /\ UNCHANGED returned
  /\ UNCHANGED <<entry, thread, writerClosed, call, arg, target, seen,
                 position, lastError, freed>>

FaultyNextPoll(n) == n            \* never times out
NextPoll(n) == n + 1

BufferPoll ==
  /\ pc = "poll" /\ polls < Timeout
  /\ \/ Available >= target /\ Buffered(TRUE) /\ UNCHANGED polls
     \/ Available < target /\ polls' = NextPoll(polls) /\ UNCHANGED <<pc, returned>>
  /\ prompted' = (task = "asking")
  /\ UNCHANGED <<entry, thread, writerClosed, call, arg, target, seen,
                 position, lastError, freed>>

FaultyPrompting == FALSE         \* the search for a prompt finds none
Prompting == task = "asking"

(* ArchiveExtractPrompt::Wait finds no prompt up. *)
BufferTimeout ==
  /\ pc = "poll" /\ polls = Timeout
  /\ ~Prompting
  /\ Buffered(FALSE)
  /\ UNCHANGED <<entry, thread, writerClosed, prompted, call, arg, target, polls,
                 seen, position, lastError, freed>>

(* ... or finds one, and returns when it is gone. *)
BufferWait ==
  /\ \/ pc = "poll" /\ polls = Timeout /\ Prompting /\ pc' = "wait"
        /\ UNCHANGED <<polls, prompted>>
     \/ pc = "wait" /\ task # "asking" /\ pc' = "poll"
        /\ polls' = 0 /\ prompted' = FALSE
  /\ UNCHANGED <<entry, thread, writerClosed, call, arg, target, seen,
                 position, returned, lastError, freed>>

(* BufferEntry reads Result, then Completed. *)
FailReadResult ==
  /\ pc = "fail"
  /\ seen' = result
  /\ pc' = "report failure"
  /\ UNCHANGED <<entry, thread, writerClosed, prompted, call, arg, target, polls,
                 position, returned, lastError, freed>>

FailReport ==
  /\ pc = "report failure"
  /\ lastError' = IF completed /\ seen # "ok" THEN seen ELSE "timeout"
  /\ Return(FALSE)
  /\ UNCHANGED <<entry, thread, writerClosed, prompted, call, arg, target, polls,
                 seen, position, freed>>

-----------------------------------------------------------------------------
(* ARCHIVE_ReadEntry and ARCHIVE_SeekEntry. *)

FaultyReadTarget(n) == position + n      \* asks for more than there is
ReadTarget(n) == Least(position + n, Size)

ReadFirst ==
  /\ pc = "read"
  /\ position' = position + Least(arg, Readable)
  /\ \/ (Readable > 0 \/ position >= Size) /\ Return(Readable > 0) /\ UNCHANGED target
     \/ /\ Readable = 0 /\ position < Size
        /\ target' = ReadTarget(arg)
        /\ pc' = "buffer"
        /\ UNCHANGED returned
  /\ UNCHANGED <<entry, thread, writerClosed, prompted, call, arg, polls, seen,
                 lastError, freed>>

ReadAgain ==
  /\ pc = "reread"
  /\ position' = position + Least(arg, Readable)
  /\ Return(Readable > 0)
  /\ UNCHANGED <<entry, thread, writerClosed, prompted, call, arg, target, polls,
                 seen, lastError, freed>>

FaultyMaySeek(o) == o <= Size     \* does not wait for the data
MaySeek(o) == o <= Available

(* Beyond the end nothing moves, and the function returns TRUE. *)
SeekFirst ==
  /\ pc = "seek"
  /\ \/ MaySeek(arg) /\ position' = arg /\ Return(TRUE) /\ UNCHANGED target
     \/ /\ ~MaySeek(arg) /\ arg <= Size
        /\ target' = arg
        /\ pc' = "buffer"
        /\ UNCHANGED <<position, returned>>
     \/ ~MaySeek(arg) /\ arg > Size /\ Return(TRUE) /\ UNCHANGED <<position, target>>
  /\ UNCHANGED <<entry, thread, writerClosed, prompted, call, arg, polls, seen,
                 lastError, freed>>

SeekAgain ==
  /\ pc = "reseek"
  /\ position' = IF MaySeek(arg) THEN arg ELSE position
  /\ Return(MaySeek(arg))
  /\ UNCHANGED <<entry, thread, writerClosed, prompted, call, arg, target, polls,
                 seen, lastError, freed>>

-----------------------------------------------------------------------------
(* ARCHIVE_CloseEntry. *)

FaultyReported == IF completed THEN result ELSE lastError   \* forgets a timeout
Reported == IF completed /\ result # "ok" THEN result ELSE lastError

CloseReport ==
  /\ pc = "report"
  /\ lastError' = Reported
  /\ pc' = "cancel"
  /\ UNCHANGED <<entry, thread, writerClosed, prompted, call, arg, target, polls,
                 seen, position, returned, freed>>

(* Archive::CloseEntry: Cancel closes both ends. *)
CloseCancel ==
  /\ pc = "cancel"
  /\ writerClosed' = ~cached
  /\ pc' = "join"
  /\ UNCHANGED <<entry, thread, prompted, call, arg, target, polls, seen,
                 position, returned, lastError, freed>>

FaultyJoined == TRUE              \* deletes without waiting
Joined == task = "exited"

(* Archive::Close waits for the thread; then the archive is deleted. *)
CloseJoin ==
  /\ pc = "join"
  /\ Joined
  /\ freed' = TRUE
  /\ Return(TRUE)
  /\ UNCHANGED <<entry, thread, writerClosed, prompted, call, arg, target, polls,
                 seen, position, lastError>>

ClientStep ==
  \/ BufferCheck \/ BufferPoll \/ BufferTimeout \/ BufferWait
  \/ FailReadResult \/ FailReport
  \/ ReadFirst \/ ReadAgain \/ SeekFirst \/ SeekAgain
  \/ CloseReport \/ CloseCancel \/ CloseJoin

ClientCall ==
  \/ \E p \in 0..Size+1 : BufferEntry(p) \/ SeekEntry(p)
  \/ \E n \in 1..MaxRead : ReadEntry(n)
  \/ CloseEntry

Next == TaskStep \/ Answer \/ ClientStep \/ ClientCall

Spec == Init /\ [][Next]_vars

(* Both threads run and the user answers a prompt in the end; nothing      *)
(* obliges the client to call.                                             *)
FairSpec == Spec /\ WF_vars(TaskStep) /\ WF_vars(Answer) /\ WF_vars(ClientStep)

-----------------------------------------------------------------------------
Labels == {"idle", "buffer", "poll", "wait", "fail", "report failure", "read",
           "reread", "seek", "reseek", "report", "cancel", "join"}
Functions == {"none", "Buffer", "Read", "Seek", "Close"}
Results == {"pending", "ok", "denied", "failed", "closed"}

(* Each variable keeps its type; Buffer is only ever asked to wait for a   *)
(* position the client named, or one inside the entry.                     *)
TypeOK ==
  /\ cached \in BOOLEAN /\ encrypted \in BOOLEAN /\ handler \in BOOLEAN
  /\ task \in {"started", "asking", "extracting", "finished", "completing", "exited"}
  /\ password \in {"none", "right", "wrong"}
  /\ written \in 0..Size /\ writerClosed \in BOOLEAN
  /\ result \in Results /\ completed \in BOOLEAN
  /\ pc \in Labels /\ call \in Functions
  /\ arg \in Nat /\ target \in 0..Size+1 /\ polls \in 0..Timeout
  /\ prompted \in BOOLEAN /\ seen \in Results
  /\ position \in 0..Size
  /\ returned \in [call : Functions, arg : Nat, ok : BOOLEAN]
  /\ lastError \in Results \cup {"timeout"}
  /\ freed \in BOOLEAN

(* A wrong password that nobody has noticed: the extraction is said to     *)
(* have ended well, with however much came out of it.                      *)
Unnoticed == password = "wrong" /\ result = "ok"

(* The reader never stands beyond what has been extracted, although seeks  *)
(* are admitted by the writer's position while the task runs and by its    *)
(* result afterwards (ArchiveEntry::Seek, GetAvailable).                   *)
PositionBacked == Unnoticed \/ position <= OnDisk

(* BufferEntry answers TRUE only for data that can be read.                *)
BufferTrueMeansData ==
  (pc = "idle" /\ returned.call = "Buffer" /\ returned.ok) =>
     Unnoticed \/ returned.arg <= OnDisk

(* A SeekEntry inside the entry that answers TRUE has moved there, and the *)
(* data is there, whether or not it had to wait for the extraction.        *)
SeekLands ==
  (pc = "idle" /\ returned.call = "Seek" /\ returned.ok /\ returned.arg <= Size) =>
     position = returned.arg /\ (Unnoticed \/ returned.arg <= OnDisk)

(* ReadEntry returns nothing only at the end, or when extraction failed.   *)
ReadZeroMeansEnd ==
  (pc = "idle" /\ returned.call = "Read" /\ ~returned.ok) =>
     position >= Size \/ result \notin {"pending", "ok"}

(* What GetEntryAvailable told a client is not taken back, through the     *)
(* closing of the writer, the result and the completion, unless the        *)
(* extraction failed.                                                      *)
AvailableMonotone ==
  [][call # "Close" => Available' >= Available \/ result' \notin {"pending", "ok"}]_vars

(* The archive is deleted only after the last step of the task that uses   *)
(* it (its password, its name, its InArchive).                             *)
NoUseAfterFree == freed => task = "exited"

(* Buffer does not give up under a prompt: if one was up at the last turn  *)
(* of its loop and it gives up nevertheless, the prompt has been answered  *)
(* between that turn and the search for it.                                *)
PromptAwaited == (pc = "fail" /\ prompted) => task # "asking"

(* Every call returns, CloseEntry under a prompt or a write included.      *)
CallsReturn == pc # "idle" ~> pc = "idle"

-----------------------------------------------------------------------------
(* The inductive strengthening of the invariants above.                    *)

(* A task that has a result has nothing more to write, and only a client   *)
(* that is closing has closed the writer under a task without one.         *)
TaskInv ==
  /\ (result = "pending") <=> task \in {"started", "asking", "extracting"}
  /\ completed => task = "exited"
  /\ result = "ok" => cached \/ written = Size \/ MayDamage \/ password = "wrong"
  /\ writerClosed => result # "pending" \/ call = "Close"

(* The position Buffer waits for is the one its caller asked for.          *)
CallInv ==
  /\ pc \in {"buffer", "poll", "wait"} =>
       /\ call \in {"Buffer", "Read", "Seek"}
       /\ call = "Buffer" => target = arg
  /\ pc \in {"fail", "report failure"} => call = "Buffer"
  /\ pc \in {"read", "reread"} => call = "Read"
  /\ pc \in {"seek", "reseek"} => call = "Seek"
  /\ pc \in {"report", "cancel", "join"} => call = "Close"
  /\ call = "Close" => pc \in {"report", "cancel", "join"} \/ freed

IInv == TypeOK /\ TaskInv /\ CallInv /\ NoUseAfterFree

(* A task that was asking when Buffer looked cannot ask again.             *)
PromptInv == (prompted => task # "started") /\ PromptAwaited

(* For entries that are not damaged. *)
DataInv ==
  /\ PositionBacked
  /\ returned.call = "Buffer" /\ returned.ok => Unnoticed \/ returned.arg <= OnDisk
  /\ returned.call = "Seek" /\ returned.ok /\ returned.arg <= Size =>
       position = returned.arg /\ (Unnoticed \/ returned.arg <= OnDisk)
=============================================================================
