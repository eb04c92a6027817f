------------------------- MODULE ArchiveEntry_proof -------------------------
(***************************************************************************)
(* Proofs about ArchiveEntry for every entry length, read length and       *)
(* timeout.                                                                *)
(***************************************************************************)
EXTENDS ArchiveEntry, TLAPS

-----------------------------------------------------------------------------
(* The type invariant in parts, as the provers take Booleans and numbers   *)
(* separately.                                                             *)
FlagTypes ==
  /\ cached \in BOOLEAN /\ encrypted \in BOOLEAN /\ handler \in BOOLEAN
  /\ writerClosed \in BOOLEAN /\ completed \in BOOLEAN
  /\ prompted \in BOOLEAN /\ freed \in BOOLEAN

ReturnTypes == returned \in [call : Functions, arg : Nat, ok : BOOLEAN]

NameTypes ==
  /\ task \in {"started", "asking", "extracting", "finished", "completing", "exited"}
  /\ password \in {"none", "right", "wrong"}
  /\ result \in Results /\ seen \in Results /\ lastError \in Results \cup {"timeout"}
  /\ pc \in Labels /\ call \in Functions

NumberTypes ==
  /\ written \in 0..Size /\ position \in 0..Size /\ target \in 0..Size+1
  /\ arg \in Nat /\ polls \in 0..Timeout

(* The parts together are the type invariant.                              *)
LEMMA TypeParts == TypeOK <=> FlagTypes /\ ReturnTypes /\ NameTypes /\ NumberTypes
  BY DEF TypeOK, FlagTypes, ReturnTypes, NameTypes, NumberTypes

(* The inductive invariant holds when the entry has been opened.           *)
LEMMA IInit == Init => IInv
<1> SUFFICES ASSUME Init PROVE IInv
  OBVIOUS
<1>1. FlagTypes
  BY DEF Init, FlagTypes
<1>2. ReturnTypes
  BY DEF Init, ReturnTypes, Functions
<1>3. NameTypes
  BY DEF Init, NameTypes, Results, Labels, Functions
<1>4. NumberTypes
  BY SizeAssumption, TimeoutAssumption DEF Init, NumberTypes
<1>5. TaskInv /\ CallInv /\ NoUseAfterFree
  BY DEF Init, TaskInv, CallInv, NoUseAfterFree
<1> QED
  BY <1>1, <1>2, <1>3, <1>4, <1>5, TypeParts DEF IInv

(* What is reported or read never exceeds the entry.                       *)
LEMMA AvailableType == TypeOK => Available \in 0..Size
<1> SUFFICES ASSUME TypeOK PROVE Available \in 0..Size
  OBVIOUS
<1>1. written \in 0..Size /\ Size \in Nat
  BY SizeAssumption DEF TypeOK
<1>2. Available = written \/ Available = Size \/ Available = 0
  BY DEF Available
<1> QED
  BY <1>1, <1>2

(* A read never leads beyond the entry.                                    *)
LEMMA ReadableBound == TypeOK => Readable \in Nat /\ position + Readable <= Size
<1> SUFFICES ASSUME TypeOK PROVE Readable \in Nat /\ position + Readable <= Size
  OBVIOUS
<1>1. written \in 0..Size /\ position \in 0..Size /\ Size \in Nat
  BY SizeAssumption DEF TypeOK
<1>2. OnDisk = written \/ OnDisk = Size
  BY DEF OnDisk
<1> QED
  BY <1>1, <1>2 DEF Readable

(* Every step of the client and of the task keeps the types.               *)
LEMMA TypeNext == TypeOK /\ [Next]_vars => TypeOK'
<1> SUFFICES ASSUME TypeOK, [Next]_vars PROVE TypeOK'
  OBVIOUS
<1>0. FlagTypes /\ ReturnTypes /\ NameTypes /\ NumberTypes
  BY TypeParts
<1>a. call \in Functions /\ arg \in Nat
  BY <1>0 DEF NameTypes, NumberTypes
<1> USE SizeAssumption, ReadAssumption, TimeoutAssumption DEF vars, entry, thread, client
<1>1. CASE Ask
  <2>1. FlagTypes'
    BY <1>0, <1>1 DEF FlagTypes, Ask
  <2>2. ReturnTypes'
    BY <1>0, <1>1 DEF FlagTypes, NameTypes, NumberTypes, ReturnTypes, Ask
  <2>3. NameTypes'
    BY <1>0, <1>1 DEF NameTypes, Ask
  <2>4. NumberTypes'
    BY <1>0, <1>1 DEF NumberTypes, Ask
  <2> QED
    BY <2>1, <2>2, <2>3, <2>4 DEF TypeOK, FlagTypes, ReturnTypes, NameTypes, NumberTypes
<1>2. CASE Answer
  <2>1. FlagTypes'
    BY <1>0, <1>2 DEF FlagTypes, Answer
  <2>2. ReturnTypes'
    BY <1>0, <1>2 DEF FlagTypes, NameTypes, NumberTypes, ReturnTypes, Answer
  <2>3. NameTypes'
    BY <1>0, <1>2 DEF NameTypes, Results, Answer
  <2>4. NumberTypes'
    BY <1>0, <1>2 DEF NumberTypes, Answer
  <2> QED
    BY <2>1, <2>2, <2>3, <2>4 DEF TypeOK, FlagTypes, ReturnTypes, NameTypes, NumberTypes
<1>3. CASE Begin
  <2>1. FlagTypes'
    BY <1>0, <1>3 DEF FlagTypes, Begin
  <2>2. ReturnTypes'
    BY <1>0, <1>3 DEF FlagTypes, NameTypes, NumberTypes, ReturnTypes, Begin
  <2>3. NameTypes'
    BY <1>0, <1>3 DEF NameTypes, Begin, Results
  <2>4. NumberTypes'
    BY <1>0, <1>3 DEF NumberTypes, Begin
  <2> QED
    BY <2>1, <2>2, <2>3, <2>4 DEF TypeOK, FlagTypes, ReturnTypes, NameTypes, NumberTypes
<1>4. CASE Write
  <2>1. FlagTypes'
    BY <1>0, <1>4 DEF FlagTypes, Write
  <2>2. ReturnTypes'
    BY <1>0, <1>4 DEF FlagTypes, NameTypes, NumberTypes, ReturnTypes, Write
  <2>3. NameTypes'
    BY <1>0, <1>4 DEF NameTypes, Write
  <2>4. NumberTypes'
    BY <1>0, <1>4 DEF NumberTypes, Write
  <2> QED
    BY <2>1, <2>2, <2>3, <2>4 DEF TypeOK, FlagTypes, ReturnTypes, NameTypes, NumberTypes
<1>5. CASE Finish
  <2>1. FlagTypes'
    BY <1>0, <1>5 DEF FlagTypes, Finish, OperationResult, WriteResult
  <2>2. ReturnTypes'
    BY <1>0, <1>5 DEF FlagTypes, NameTypes, NumberTypes, ReturnTypes, Finish,
       OperationResult, WriteResult
  <2>3. NameTypes'
    BY <1>0, <1>5 DEF NameTypes, Results, Finish, OperationResult, WriteResult
  <2>4. NumberTypes'
    BY <1>0, <1>5 DEF NumberTypes, Finish, OperationResult, WriteResult
  <2> QED
    BY <2>1, <2>2, <2>3, <2>4 DEF TypeOK, FlagTypes, ReturnTypes, NameTypes, NumberTypes
<1>6. CASE CloseWriters
  <2>1. FlagTypes'
    BY <1>0, <1>6 DEF FlagTypes, CloseWriters
  <2>2. ReturnTypes'
    BY <1>0, <1>6 DEF FlagTypes, NameTypes, NumberTypes, ReturnTypes, CloseWriters
  <2>3. NameTypes'
    BY <1>0, <1>6 DEF NameTypes, CloseWriters
  <2>4. NumberTypes'
    BY <1>0, <1>6 DEF NumberTypes, CloseWriters
  <2> QED
    BY <2>1, <2>2, <2>3, <2>4 DEF TypeOK, FlagTypes, ReturnTypes, NameTypes, NumberTypes
<1>7. CASE Complete
  <2>1. FlagTypes'
    BY <1>0, <1>7 DEF FlagTypes, Complete
  <2>2. ReturnTypes'
    BY <1>0, <1>7 DEF FlagTypes, NameTypes, NumberTypes, ReturnTypes, Complete
  <2>3. NameTypes'
    BY <1>0, <1>7 DEF NameTypes, Complete
  <2>4. NumberTypes'
    BY <1>0, <1>7 DEF NumberTypes, Complete
  <2> QED
    BY <2>1, <2>2, <2>3, <2>4 DEF TypeOK, FlagTypes, ReturnTypes, NameTypes, NumberTypes
<1>8. CASE BufferCheck
  <2>1. FlagTypes'
    BY <1>0, <1>8 DEF FlagTypes, BufferCheck, Buffered, Return
  <2>2. ReturnTypes'
    <3>1. UNCHANGED returned \/ Return(TRUE)
      BY <1>8 DEF BufferCheck, Buffered
    <3>3. CASE UNCHANGED returned
      BY <1>0, <3>3 DEF ReturnTypes
    <3>4. CASE Return(TRUE)
      BY <1>a, <3>4 DEF ReturnTypes, Return
    <3> QED
      BY <3>1, <3>3, <3>4
  <2>3. NameTypes'
    <3>1. \/ UNCHANGED pc
          \/ pc' = "idle" \/ pc' = "fail" \/ pc' = "reread" \/ pc' = "reseek" \/ pc' = "poll"
      BY <1>8 DEF BufferCheck, Buffered, Return
    <3>2. pc' \in Labels
      BY <1>0, <3>1 DEF NameTypes, Labels
    <3> QED
      BY <1>0, <3>2, <1>8 DEF NameTypes, Functions, BufferCheck
  <2>4. NumberTypes'
    BY <1>0, <1>8 DEF NumberTypes, BufferCheck, Buffered, Return
  <2> QED
    BY <2>1, <2>2, <2>3, <2>4 DEF TypeOK, FlagTypes, ReturnTypes, NameTypes, NumberTypes
<1>9. CASE BufferPoll
  <2>1. FlagTypes'
    BY <1>0, <1>9 DEF FlagTypes, BufferPoll, Buffered, Return, NextPoll
  <2>2. ReturnTypes'
    <3>1. UNCHANGED returned \/ Return(TRUE)
      BY <1>9 DEF BufferPoll, Buffered
    <3>3. CASE UNCHANGED returned
      BY <1>0, <3>3 DEF ReturnTypes
    <3>4. CASE Return(TRUE)
      BY <1>a, <3>4 DEF ReturnTypes, Return
    <3> QED
      BY <3>1, <3>3, <3>4
  <2>3. NameTypes'
    <3>1. UNCHANGED pc \/ pc' = "idle" \/ pc' = "fail" \/ pc' = "reread" \/ pc' = "reseek"
      BY <1>9 DEF BufferPoll, Buffered, Return
    <3>2. pc' \in Labels
      BY <1>0, <3>1 DEF NameTypes, Labels
    <3> QED
      BY <1>0, <3>2, <1>9 DEF NameTypes, Functions, BufferPoll
  <2>4. NumberTypes'
    BY <1>0, <1>9 DEF NumberTypes, BufferPoll, Buffered, Return, NextPoll
  <2> QED
    BY <2>1, <2>2, <2>3, <2>4 DEF TypeOK, FlagTypes, ReturnTypes, NameTypes, NumberTypes
<1>10. CASE BufferTimeout
  <2>1. FlagTypes'
    BY <1>0, <1>10 DEF FlagTypes, BufferTimeout, Buffered, Return
  <2>2. ReturnTypes'
    BY <1>0, <1>10 DEF FlagTypes, NameTypes, NumberTypes, ReturnTypes, BufferTimeout,
       Buffered, Return
  <2>3. NameTypes'
    <3>1. UNCHANGED pc \/ pc' = "idle" \/ pc' = "fail" \/ pc' = "reread" \/ pc' = "reseek"
      BY <1>10 DEF BufferTimeout, Buffered, Return
    <3>2. pc' \in Labels
      BY <1>0, <3>1 DEF NameTypes, Labels
    <3> QED
      BY <1>0, <3>2, <1>10 DEF NameTypes, Functions, BufferTimeout
  <2>4. NumberTypes'
    BY <1>0, <1>10 DEF NumberTypes, BufferTimeout, Buffered, Return
  <2> QED
    BY <2>1, <2>2, <2>3, <2>4 DEF TypeOK, FlagTypes, ReturnTypes, NameTypes, NumberTypes
<1>11. CASE BufferWait
  <2>1. FlagTypes'
    BY <1>0, <1>11 DEF FlagTypes, BufferWait
  <2>2. ReturnTypes'
    BY <1>0, <1>11 DEF FlagTypes, NameTypes, NumberTypes, ReturnTypes, BufferWait
  <2>3. NameTypes'
    <3>1. UNCHANGED pc \/ pc' = "wait" \/ pc' = "poll"
      BY <1>11 DEF BufferWait
    <3>2. pc' \in Labels
      BY <1>0, <3>1 DEF NameTypes, Labels
    <3> QED
      BY <1>0, <3>2, <1>11 DEF NameTypes, Functions, BufferWait
  <2>4. NumberTypes'
    BY <1>0, <1>11 DEF NumberTypes, BufferWait
  <2> QED
    BY <2>1, <2>2, <2>3, <2>4 DEF TypeOK, FlagTypes, ReturnTypes, NameTypes, NumberTypes
<1>12. CASE FailReadResult
  <2>1. FlagTypes'
    BY <1>0, <1>12 DEF FlagTypes, FailReadResult
  <2>2. ReturnTypes'
    BY <1>0, <1>12 DEF FlagTypes, NameTypes, NumberTypes, ReturnTypes, FailReadResult
  <2>3. NameTypes'
    BY <1>0, <1>12 DEF NameTypes, Results, Labels, Functions, FailReadResult
  <2>4. NumberTypes'
    BY <1>0, <1>12 DEF NumberTypes, FailReadResult
  <2> QED
    BY <2>1, <2>2, <2>3, <2>4 DEF TypeOK, FlagTypes, ReturnTypes, NameTypes, NumberTypes
<1>13. CASE FailReport
  <2>1. FlagTypes'
    BY <1>0, <1>13 DEF FlagTypes, FailReport, Return
  <2>2. ReturnTypes'
    BY <1>0, <1>13 DEF FlagTypes, NameTypes, NumberTypes, ReturnTypes, FailReport, Return
  <2>3. NameTypes'
    BY <1>0, <1>13 DEF NameTypes, Results, Labels, Functions, FailReport, Return
  <2>4. NumberTypes'
    BY <1>0, <1>13 DEF NumberTypes, FailReport, Return
  <2> QED
    BY <2>1, <2>2, <2>3, <2>4 DEF TypeOK, FlagTypes, ReturnTypes, NameTypes, NumberTypes
<1>14. CASE ReadFirst
  <2>1. FlagTypes'
    BY <1>0, <1>14 DEF FlagTypes, ReadFirst, ReadTarget, Readable, Least, Return
  <2>2. ReturnTypes'
    <3>1. UNCHANGED returned \/ Return(Readable > 0)
      BY <1>14 DEF ReadFirst
    <3>2. (Readable > 0) \in BOOLEAN
      OBVIOUS
    <3>3. CASE UNCHANGED returned
      BY <1>0, <3>3 DEF ReturnTypes
    <3>4. CASE Return(Readable > 0)
      BY <1>a, <3>2, <3>4 DEF ReturnTypes, Return
    <3> QED
      BY <3>1, <3>3, <3>4
  <2>3. NameTypes'
    <3>1. UNCHANGED pc \/ pc' = "idle" \/ pc' = "buffer"
      BY <1>14 DEF ReadFirst, Return
    <3>2. pc' \in Labels
      BY <1>0, <3>1 DEF NameTypes, Labels
    <3> QED
      BY <1>0, <3>2, <1>14 DEF NameTypes, Functions, ReadFirst
  <2>4. NumberTypes'
    <3>1. position' \in 0..Size
      BY <1>0, <1>14, ReadableBound DEF NumberTypes, ReadFirst, Least
    <3>2. target' \in 0..Size+1
      BY <1>0, <1>14 DEF NumberTypes, ReadFirst, ReadTarget, Least
    <3> QED
      BY <1>0, <3>1, <3>2, <1>14 DEF NumberTypes, ReadFirst
  <2> QED
    BY <2>1, <2>2, <2>3, <2>4 DEF TypeOK, FlagTypes, ReturnTypes, NameTypes, NumberTypes
<1>15. CASE ReadAgain
  <2>1. FlagTypes'
    BY <1>0, <1>15 DEF FlagTypes, ReadAgain, Readable, Least, Return
  <2>2. ReturnTypes'
    BY <1>0, <1>15 DEF FlagTypes, NameTypes, NumberTypes, ReturnTypes, ReadAgain,
       Readable, Least, Return
  <2>3. NameTypes'
    BY <1>0, <1>15 DEF NameTypes, Results, Labels, Functions, ReadAgain, Readable,
       Least, Return
  <2>4. NumberTypes'
    <3>1. position' \in 0..Size
      BY <1>0, <1>15, ReadableBound DEF NumberTypes, ReadAgain, Least
    <3> QED
      BY <1>0, <3>1, <1>15 DEF NumberTypes, ReadAgain
  <2> QED
    BY <2>1, <2>2, <2>3, <2>4 DEF TypeOK, FlagTypes, ReturnTypes, NameTypes, NumberTypes
<1>16. CASE SeekFirst
  <2>1. FlagTypes'
    BY <1>0, <1>16 DEF FlagTypes, SeekFirst, MaySeek, Return
  <2>2. ReturnTypes'
    <3>1. UNCHANGED returned \/ Return(TRUE)
      BY <1>16 DEF SeekFirst
    <3>3. CASE UNCHANGED returned
      BY <1>0, <3>3 DEF ReturnTypes
    <3>4. CASE Return(TRUE)
      BY <1>a, <3>4 DEF ReturnTypes, Return
    <3> QED
      BY <3>1, <3>3, <3>4
  <2>3. NameTypes'
    <3>1. UNCHANGED pc \/ pc' = "idle" \/ pc' = "buffer"
      BY <1>16 DEF SeekFirst, Return
    <3>2. pc' \in Labels
      BY <1>0, <3>1 DEF NameTypes, Labels
    <3> QED
      BY <1>0, <3>2, <1>16 DEF NameTypes, Functions, SeekFirst
  <2>4. NumberTypes'
    <3>1. position' = position \/ (position' = arg /\ arg <= Available)
      BY <1>16 DEF SeekFirst, MaySeek
    <3>2. position' \in 0..Size
      BY <1>0, <3>1, AvailableType DEF NumberTypes
    <3>3. target' = target \/ (target' = arg /\ arg <= Size)
      BY <1>16 DEF SeekFirst
    <3>4. target' \in 0..Size+1
      BY <1>0, <3>3 DEF NumberTypes
    <3> QED
      BY <1>0, <3>2, <3>4, <1>16 DEF NumberTypes, SeekFirst
  <2> QED
    BY <2>1, <2>2, <2>3, <2>4 DEF TypeOK, FlagTypes, ReturnTypes, NameTypes, NumberTypes
<1>17. CASE SeekAgain
  <2>1. FlagTypes'
    BY <1>0, <1>17 DEF FlagTypes, SeekAgain, MaySeek, Return
  <2>2. ReturnTypes'
    BY <1>0, <1>17 DEF FlagTypes, NameTypes, NumberTypes, ReturnTypes, SeekAgain,
       MaySeek, Return
  <2>3. NameTypes'
    BY <1>0, <1>17 DEF NameTypes, Results, Labels, Functions, SeekAgain, MaySeek, Return
  <2>4. NumberTypes'
    <3>1. position' \in 0..Size
      BY <1>0, <1>17, AvailableType DEF NumberTypes, SeekAgain, MaySeek
    <3>2. target' \in 0..Size+1
      BY <1>0, <1>17 DEF NumberTypes, SeekAgain
    <3> QED
      BY <1>0, <3>1, <3>2, <1>17 DEF NumberTypes, SeekAgain
  <2> QED
    BY <2>1, <2>2, <2>3, <2>4 DEF TypeOK, FlagTypes, ReturnTypes, NameTypes, NumberTypes
<1>18. CASE CloseReport
  <2>1. FlagTypes'
    BY <1>0, <1>18 DEF FlagTypes, CloseReport
  <2>2. ReturnTypes'
    BY <1>0, <1>18 DEF FlagTypes, NameTypes, NumberTypes, ReturnTypes, CloseReport
  <2>3. NameTypes'
    BY <1>0, <1>18 DEF NameTypes, Results, Labels, Functions, CloseReport, Reported
  <2>4. NumberTypes'
    BY <1>0, <1>18 DEF NumberTypes, CloseReport
  <2> QED
    BY <2>1, <2>2, <2>3, <2>4 DEF TypeOK, FlagTypes, ReturnTypes, NameTypes, NumberTypes
<1>19. CASE CloseCancel
  <2>1. FlagTypes'
    BY <1>0, <1>19 DEF FlagTypes, CloseCancel
  <2>2. ReturnTypes'
    BY <1>0, <1>19 DEF FlagTypes, NameTypes, NumberTypes, ReturnTypes, CloseCancel
  <2>3. NameTypes'
    BY <1>0, <1>19 DEF NameTypes, Results, Labels, Functions, CloseCancel
  <2>4. NumberTypes'
    BY <1>0, <1>19 DEF NumberTypes, CloseCancel
  <2> QED
    BY <2>1, <2>2, <2>3, <2>4 DEF TypeOK, FlagTypes, ReturnTypes, NameTypes, NumberTypes
<1>20. CASE CloseJoin
  <2>1. FlagTypes'
    BY <1>0, <1>20 DEF FlagTypes, CloseJoin, Joined, Return
  <2>2. ReturnTypes'
    BY <1>0, <1>20 DEF FlagTypes, NameTypes, NumberTypes, ReturnTypes, CloseJoin,
       Joined, Return
  <2>3. NameTypes'
    BY <1>0, <1>20 DEF NameTypes, Results, Labels, Functions, CloseJoin, Joined, Return
  <2>4. NumberTypes'
    BY <1>0, <1>20 DEF NumberTypes, CloseJoin, Joined, Return
  <2> QED
    BY <2>1, <2>2, <2>3, <2>4 DEF TypeOK, FlagTypes, ReturnTypes, NameTypes, NumberTypes
<1>21. ASSUME NEW p \in 0..Size+1, BufferEntry(p) \/ SeekEntry(p) PROVE TypeOK'
  <2>1. FlagTypes'
    BY <1>0, <1>21 DEF FlagTypes, BufferEntry, SeekEntry, Call
  <2>2. ReturnTypes'
    BY <1>0, <1>21 DEF FlagTypes, NameTypes, NumberTypes, ReturnTypes, BufferEntry,
       SeekEntry, Call
  <2>3. NameTypes'
    <3>1. pc' = "buffer" \/ pc' = "seek"
      BY <1>21 DEF BufferEntry, SeekEntry, Call
    <3>2. call' = "Buffer" \/ call' = "Seek"
      BY <1>21 DEF BufferEntry, SeekEntry, Call
    <3>3. pc' \in Labels /\ call' \in Functions
      BY <3>1, <3>2 DEF Labels, Functions
    <3> QED
      BY <1>0, <3>3, <1>21 DEF NameTypes, BufferEntry, SeekEntry, Call
  <2>4. NumberTypes'
    BY <1>0, <1>21 DEF NumberTypes, BufferEntry, SeekEntry, Call
  <2> QED
    BY <2>1, <2>2, <2>3, <2>4 DEF TypeOK, FlagTypes, ReturnTypes, NameTypes, NumberTypes
<1>22. ASSUME NEW n \in 1..MaxRead, ReadEntry(n) PROVE TypeOK'
  <2>1. FlagTypes'
    BY <1>0, <1>22 DEF FlagTypes, ReadEntry, Call
  <2>2. ReturnTypes'
    BY <1>0, <1>22 DEF FlagTypes, NameTypes, NumberTypes, ReturnTypes, ReadEntry, Call
  <2>3. NameTypes'
    BY <1>0, <1>22 DEF NameTypes, Results, Labels, Functions, ReadEntry, Call
  <2>4. NumberTypes'
    BY <1>0, <1>22 DEF NumberTypes, ReadEntry, Call
  <2> QED
    BY <2>1, <2>2, <2>3, <2>4 DEF TypeOK, FlagTypes, ReturnTypes, NameTypes, NumberTypes
<1>23. CASE CloseEntry
  <2>1. FlagTypes'
    BY <1>0, <1>23 DEF FlagTypes, CloseEntry, Call
  <2>2. ReturnTypes'
    BY <1>0, <1>23 DEF FlagTypes, NameTypes, NumberTypes, ReturnTypes, CloseEntry, Call
  <2>3. NameTypes'
    BY <1>0, <1>23 DEF NameTypes, Results, Labels, Functions, CloseEntry, Call
  <2>4. NumberTypes'
    BY <1>0, <1>23 DEF NumberTypes, CloseEntry, Call
  <2> QED
    BY <2>1, <2>2, <2>3, <2>4 DEF TypeOK, FlagTypes, ReturnTypes, NameTypes, NumberTypes
<1>24. CASE UNCHANGED vars
  <2>1. FlagTypes'
    BY <1>0, <1>24 DEF FlagTypes
  <2>2. ReturnTypes'
    BY <1>0, <1>24 DEF FlagTypes, NameTypes, NumberTypes, ReturnTypes
  <2>3. NameTypes'
    BY <1>0, <1>24 DEF NameTypes
  <2>4. NumberTypes'
    BY <1>0, <1>24 DEF NumberTypes
  <2> QED
    BY <2>1, <2>2, <2>3, <2>4 DEF TypeOK, FlagTypes, ReturnTypes, NameTypes, NumberTypes
<1> QED
  BY <1>1, <1>2, <1>3, <1>4, <1>5, <1>6, <1>7, <1>8, <1>9, <1>10,
     <1>11, <1>12, <1>13, <1>14, <1>15, <1>16, <1>17, <1>18, <1>19, <1>20,
     <1>21, <1>22, <1>23, <1>24
     DEF Next, TaskStep, ClientStep, ClientCall

(* Every step keeps what the result says of the task (TaskInv), what a     *)
(* label says of the call (CallInv), and the archive alive under its task. *)
LEMMA INext ==
  TypeOK /\ TaskInv /\ CallInv /\ NoUseAfterFree /\ [Next]_vars =>
    (TaskInv /\ CallInv /\ NoUseAfterFree)'
<1> SUFFICES ASSUME TypeOK, TaskInv, CallInv, NoUseAfterFree, [Next]_vars
             PROVE  (TaskInv /\ CallInv /\ NoUseAfterFree)'
  OBVIOUS
<1> USE SizeAssumption, ReadAssumption, TimeoutAssumption, DamageAssumption
        DEF TypeOK, TaskInv, CallInv, NoUseAfterFree, Results,
            vars, entry, thread, client
<1>1. CASE Ask
  BY <1>1 DEF Ask
<1>2. CASE Answer
  BY <1>2 DEF Answer
<1>3. CASE Begin
  BY <1>3 DEF Begin
<1>4. CASE Write
  BY <1>4 DEF Write
<1>5. CASE Finish
  BY <1>5 DEF Finish, OperationResult, WriteResult
<1>6. CASE CloseWriters
  BY <1>6 DEF CloseWriters
<1>7. CASE Complete
  BY <1>7 DEF Complete
<1>8. CASE BufferCheck
  BY <1>8 DEF BufferCheck, Buffered, Return
<1>9. CASE BufferPoll
  BY <1>9 DEF BufferPoll, Buffered, Return, NextPoll
<1>10. CASE BufferTimeout
  BY <1>10 DEF BufferTimeout, Buffered, Return
<1>11. CASE BufferWait
  BY <1>11 DEF BufferWait
<1>12. CASE FailReadResult
  BY <1>12 DEF FailReadResult
<1>13. CASE FailReport
  BY <1>13 DEF FailReport, Return
<1>14. CASE ReadFirst
  BY <1>14 DEF ReadFirst, ReadTarget, Readable, Least, Return
<1>15. CASE ReadAgain
  BY <1>15 DEF ReadAgain, Readable, Least, Return
<1>16. CASE SeekFirst
  BY <1>16 DEF SeekFirst, MaySeek, Return
<1>17. CASE SeekAgain
  BY <1>17 DEF SeekAgain, MaySeek, Return
<1>18. CASE CloseReport
  BY <1>18 DEF CloseReport
<1>19. CASE CloseCancel
  BY <1>19 DEF CloseCancel
<1>20. CASE CloseJoin
  BY <1>20 DEF CloseJoin, Joined, Return
<1>21. ASSUME NEW p \in 0..Size+1, BufferEntry(p) \/ SeekEntry(p)
      PROVE (TaskInv /\ CallInv /\ NoUseAfterFree)'
  <2>1. CASE BufferEntry(p)
    BY <2>1 DEF BufferEntry, Call
  <2>2. CASE SeekEntry(p)
    BY <2>2 DEF SeekEntry, Call
  <2> QED
    BY <1>21, <2>1, <2>2
<1>22. ASSUME NEW n \in 1..MaxRead, ReadEntry(n)
      PROVE (TaskInv /\ CallInv /\ NoUseAfterFree)'
  BY <1>22 DEF ReadEntry, Call
<1>23. CASE CloseEntry
  BY <1>23 DEF CloseEntry, Call
<1>24. CASE UNCHANGED vars
  BY <1>24
<1> QED
  BY <1>1, <1>2, <1>3, <1>4, <1>5, <1>6, <1>7, <1>8, <1>9, <1>10,
     <1>11, <1>12, <1>13, <1>14, <1>15, <1>16, <1>17, <1>18, <1>19, <1>20,
     <1>21, <1>22, <1>23, <1>24
     DEF Next, TaskStep, ClientStep, ClientCall

(* The inductive invariant holds in every reachable state.                 *)
THEOREM Invariance == Spec => []IInv
<1>1. IInv /\ [Next]_vars => IInv'
  BY TypeNext, INext DEF IInv
<1> QED
  BY IInit, <1>1, PTL DEF Spec

(* Type correctness, the first part of the inductive invariant.            *)
THEOREM Typing == Spec => []TypeOK
<1>1. IInv => TypeOK
  BY DEF IInv
<1> QED
  BY <1>1, Invariance, PTL

(* The archive is deleted only after the thread that uses it has ended.    *)
THEOREM JoinedBeforeFree == Spec => []NoUseAfterFree
<1>1. IInv => NoUseAfterFree
  BY DEF IInv
<1> QED
  BY <1>1, Invariance, PTL

-----------------------------------------------------------------------------
(* Entries without damage. *)

(* Without damaged entries GetAvailable never names bytes that are not in  *)
(* the temp file, unless a wrong password went unnoticed.                  *)
LEMMA AvailableOnDisk ==
  ASSUME MayDamage = FALSE
  PROVE  IInv => Unnoticed \/ Available <= OnDisk
  BY MayDamage = FALSE, SizeAssumption
     DEF IInv, TypeOK, TaskInv, Available, OnDisk, Unnoticed

(* What has not been noticed when Extract returns is not noticed later.    *)
LEMMA UnnoticedStays == IInv /\ [Next]_vars => (Unnoticed => Unnoticed')
<1> SUFFICES ASSUME IInv, [Next]_vars, Unnoticed PROVE UNCHANGED <<password, result>>
  BY DEF Unnoticed
<1>1. task \notin {"started", "asking", "extracting"}
  BY DEF IInv, TaskInv, Unnoticed
<1>2. CASE TaskStep \/ Answer
  BY <1>1, <1>2 DEF TaskStep, Ask, Begin, Write, Finish, CloseWriters, Complete, Answer
<1>3. CASE ClientStep \/ ClientCall \/ UNCHANGED vars
  BY <1>3 DEF ClientStep, ClientCall, vars, thread, BufferCheck, BufferPoll, BufferTimeout,
     BufferWait, FailReadResult, FailReport, ReadFirst, ReadAgain, SeekFirst, SeekAgain,
     CloseReport, CloseCancel, CloseJoin, BufferEntry, SeekEntry, ReadEntry, CloseEntry, Call
<1> QED
  BY <1>2, <1>3 DEF Next

(* A new entry has promised nothing.                                       *)
LEMMA DataInit == Init => DataInv
  BY SizeAssumption DEF Init, DataInv, PositionBacked, OnDisk

(* Extracted bytes stay.                                                   *)
LEMMA WrittenGrows == IInv /\ [Next]_vars => written <= written'
<1> SUFFICES ASSUME IInv, [Next]_vars PROVE written <= written'
  OBVIOUS
<1>1. written \in 0..Size /\ Size \in Nat
  BY SizeAssumption DEF IInv, TypeOK
<1>2. written' = written \/ \E n \in 1..(Size - written) : written' = written + n
  BY DEF Next, vars, thread, TaskStep, ClientStep, ClientCall, Ask, Begin, Write, Finish,
         CloseWriters, Complete, Answer, BufferCheck, BufferPoll, BufferTimeout,
         BufferWait, FailReadResult, FailReport, ReadFirst, ReadAgain, SeekFirst,
         SeekAgain, CloseReport, CloseCancel, CloseJoin, BufferEntry, SeekEntry,
         ReadEntry, CloseEntry, Call
<1> QED
  BY <1>1, <1>2

(* Extracted data stays.                                                   *)
LEMMA OnDiskGrows ==
  IInv /\ [Next]_vars => /\ OnDisk \in 0..Size /\ OnDisk' \in 0..Size
                         /\ OnDisk <= OnDisk'
<1> SUFFICES ASSUME IInv, [Next]_vars
             PROVE  OnDisk \in 0..Size /\ OnDisk' \in 0..Size /\ OnDisk <= OnDisk'
  OBVIOUS
<1>1. written \in 0..Size /\ Size \in Nat
  BY SizeAssumption DEF IInv, TypeOK
<1>2. written' \in 0..Size
  BY TypeNext DEF IInv, TypeOK
<1>3. cached' = cached
  BY DEF Next, vars, entry, TaskStep, ClientStep, ClientCall, Ask, Begin, Write, Finish,
         CloseWriters, Complete, Answer, BufferCheck, BufferPoll, BufferTimeout,
         BufferWait, FailReadResult, FailReport, ReadFirst, ReadAgain, SeekFirst,
         SeekAgain, CloseReport, CloseCancel, CloseJoin, BufferEntry, SeekEntry,
         ReadEntry, CloseEntry, Call
<1>5. written <= written'
  BY WrittenGrows
<1> QED
  BY <1>1, <1>2, <1>3, <1>5 DEF OnDisk

(* What a function may do to the reader's position and to the answer the   *)
(* client holds, by the function that answers.                             *)
StepKinds ==
  \/ UNCHANGED <<position, returned>>
  \/ /\ UNCHANGED position
     /\ returned' = [call |-> "Buffer", arg |-> arg, ok |-> TRUE]
     /\ Unnoticed \/ arg <= OnDisk
  \/ /\ Unnoticed \/ position' <= OnDisk
     /\ \E ok \in BOOLEAN : returned' = [call |-> "Read", arg |-> arg, ok |-> ok]
  \/ /\ position' = arg /\ (Unnoticed \/ arg <= OnDisk)
     /\ returned' = [call |-> "Seek", arg |-> arg, ok |-> TRUE]
  \/ /\ UNCHANGED position /\ arg > Size
     /\ returned' = [call |-> "Seek", arg |-> arg, ok |-> TRUE]
  \/ /\ UNCHANGED position
     /\ \E f \in Functions : returned' = [call |-> f, arg |-> arg, ok |-> FALSE]
  \/ /\ UNCHANGED position
     /\ returned' = [call |-> "Close", arg |-> arg, ok |-> TRUE]

(* Every step of an undamaged entry is of one of these kinds.              *)
LEMMA Kinds ==
  ASSUME MayDamage = FALSE
  PROVE  IInv /\ PositionBacked /\ [Next]_vars => StepKinds
<1> SUFFICES ASSUME IInv, PositionBacked, [Next]_vars PROVE StepKinds
  OBVIOUS
<1>1. (Unnoticed \/ Available <= OnDisk) /\ Available \in 0..Size /\ OnDisk \in 0..Size
  BY MayDamage = FALSE, AvailableOnDisk, AvailableType, OnDiskGrows DEF IInv
<1>2. position \in 0..Size /\ target \in 0..Size+1 /\ arg \in Nat /\ Size \in Nat
  BY SizeAssumption DEF IInv, TypeOK
<1>3. call \in Functions
  BY DEF IInv, TypeOK
<1>4. CallInv
  BY DEF IInv
<1>5. Unnoticed \/ position <= OnDisk
  BY DEF PositionBacked
<1>6. Readable \in Nat /\ (Unnoticed \/ position + Readable <= OnDisk)
  BY <1>1, <1>2, <1>5 DEF Readable
<1>a. CASE \/ TaskStep \/ Answer \/ ClientCall \/ UNCHANGED vars
           \/ BufferTimeout \/ BufferWait \/ FailReadResult \/ CloseReport \/ CloseCancel
  <2>1. UNCHANGED <<position, returned>>
    BY <1>a DEF TaskStep, Ask, Begin, Write, Finish, CloseWriters, Complete, Answer,
       ClientCall, BufferEntry, SeekEntry, ReadEntry, CloseEntry, Call, BufferTimeout,
       Buffered, BufferWait, FailReadResult, CloseReport, CloseCancel, vars, client
  <2> QED
    BY <2>1 DEF StepKinds
<1>b. CASE BufferCheck \/ BufferPoll
  <2>1. UNCHANGED position
    BY <1>b DEF BufferCheck, BufferPoll
  <2>2. \/ UNCHANGED returned
        \/ call = "Buffer" /\ Available >= target /\ Return(TRUE)
    BY <1>b DEF BufferCheck, BufferPoll, Buffered
  <2>3. call = "Buffer" => target = arg
    BY <1>b, <1>4 DEF BufferCheck, BufferPoll, CallInv
  <2>4. CASE UNCHANGED returned
    BY <2>1, <2>4 DEF StepKinds
  <2>5. CASE call = "Buffer" /\ Available >= target /\ Return(TRUE)
    <3>1. Unnoticed \/ arg <= OnDisk
      BY <1>1, <1>2, <2>3, <2>5
    <3>2. returned' = [call |-> "Buffer", arg |-> arg, ok |-> TRUE]
      BY <2>5 DEF Return
    <3> QED
      BY <2>1, <3>1, <3>2 DEF StepKinds
  <2> QED
    BY <2>2, <2>4, <2>5
<1>c. CASE FailReport
  <2>1. UNCHANGED position /\ returned' = [call |-> call, arg |-> arg, ok |-> FALSE]
    BY <1>c DEF FailReport, Return
  <2> QED
    BY <2>1, <1>3 DEF StepKinds
<1>d. CASE ReadFirst \/ ReadAgain
  <2>1. position' = position + Least(arg, Readable) /\ call = "Read"
    BY <1>d, <1>4 DEF ReadFirst, ReadAgain, CallInv
  <2>2. (Unnoticed \/ position' <= OnDisk) /\ (Readable = 0 => position' = position)
    BY <1>1, <1>2, <1>6, <2>1 DEF Least
  <2>3. \/ Return(Readable > 0)
        \/ Readable = 0 /\ UNCHANGED returned
    BY <1>d DEF ReadFirst, ReadAgain
  <2>4. CASE Return(Readable > 0)
    <3>1. (Readable > 0) \in BOOLEAN
      OBVIOUS
    <3>2. \E ok \in BOOLEAN : returned' = [call |-> "Read", arg |-> arg, ok |-> ok]
      BY <2>1, <2>4, <3>1 DEF Return
    <3> QED
      BY <2>2, <3>2 DEF StepKinds
  <2>5. CASE Readable = 0 /\ UNCHANGED returned
    BY <2>2, <2>5 DEF StepKinds
  <2> QED
    BY <2>3, <2>4, <2>5
<1>e. CASE SeekFirst
  <2>1. call = "Seek"
    BY <1>e, <1>4 DEF SeekFirst, CallInv
  <2>2. \/ arg <= Available /\ position' = arg /\ Return(TRUE)
        \/ UNCHANGED <<position, returned>>
        \/ arg > Size /\ UNCHANGED position /\ Return(TRUE)
    BY <1>e DEF SeekFirst, MaySeek
  <2>3. CASE arg <= Available /\ position' = arg /\ Return(TRUE)
    <3>1. position' = arg /\ (Unnoticed \/ arg <= OnDisk)
      BY <1>1, <1>2, <2>3
    <3>2. returned' = [call |-> "Seek", arg |-> arg, ok |-> TRUE]
      BY <2>1, <2>3 DEF Return
    <3> QED
      BY <3>1, <3>2 DEF StepKinds
  <2>4. CASE UNCHANGED <<position, returned>>
    BY <2>4 DEF StepKinds
  <2>5. CASE arg > Size /\ UNCHANGED position /\ Return(TRUE)
    BY <2>1, <2>5 DEF StepKinds, Return
  <2> QED
    BY <2>2, <2>3, <2>4, <2>5
<1>f. CASE SeekAgain
  <2>1. call = "Seek"
    BY <1>f, <1>4 DEF SeekAgain, CallInv
  <2>2. returned' = [call |-> "Seek", arg |-> arg, ok |-> MaySeek(arg)]
    BY <1>f, <2>1 DEF SeekAgain, Return
  <2>3. position' = IF MaySeek(arg) THEN arg ELSE position
    BY <1>f DEF SeekAgain
  <2>4. CASE MaySeek(arg)
    <3>1. position' = arg /\ (Unnoticed \/ arg <= OnDisk)
      BY <1>1, <1>2, <2>3, <2>4 DEF MaySeek
    <3>2. MaySeek(arg) = TRUE
      BY <2>4 DEF MaySeek
    <3> QED
      BY <2>2, <3>1, <3>2 DEF StepKinds
  <2>5. CASE ~MaySeek(arg)
    <3>1. UNCHANGED position
      BY <2>3, <2>5
    <3>2. MaySeek(arg) = FALSE
      BY <2>5 DEF MaySeek
    <3>3. \E f \in Functions : returned' = [call |-> f, arg |-> arg, ok |-> FALSE]
      BY <2>2, <3>2 DEF Functions
    <3> QED
      BY <3>1, <3>3 DEF StepKinds
  <2> QED
    BY <2>4, <2>5
<1>g. CASE CloseJoin
  <2>1. call = "Close"
    BY <1>g, <1>4 DEF CloseJoin, CallInv
  <2> QED
    BY <1>g, <2>1 DEF CloseJoin, Return, StepKinds
<1> QED
  BY <1>a, <1>b, <1>c, <1>d, <1>e, <1>f, <1>g DEF Next, ClientStep

(* Every kind of step keeps the promises made to the client: the data      *)
(* behind them is on disk, and stays there.                                *)
LEMMA DataNext ==
  ASSUME MayDamage = FALSE
  PROVE  IInv /\ DataInv /\ [Next]_vars => DataInv'
<1> SUFFICES ASSUME IInv, DataInv, [Next]_vars PROVE DataInv'
  OBVIOUS
<1>1. StepKinds
  BY MayDamage = FALSE, Kinds DEF DataInv
<1>2. OnDisk \in 0..Size /\ OnDisk' \in 0..Size /\ OnDisk <= OnDisk'
  BY OnDiskGrows
<1>3. position \in 0..Size /\ position' \in 0..Size /\ arg \in Nat /\ Size \in Nat
  BY SizeAssumption, TypeNext DEF IInv, TypeOK
<1>4. returned.arg \in Nat
  BY DEF IInv, TypeOK
<1>5. Unnoticed => Unnoticed'
  BY UnnoticedStays
<1>6. Unnoticed \/ position' <= OnDisk'
  BY <1>1, <1>2, <1>3 DEF StepKinds, DataInv, PositionBacked
<1> QED
  BY <1>1, <1>2, <1>3, <1>4, <1>5, <1>6 DEF StepKinds, DataInv, PositionBacked

(* What GetEntryAvailable has told a client is taken back only by a failed *)
(* extraction or by the client's own CloseEntry.                           *)
THEOREM AvailableKept == Spec => AvailableMonotone
<1>1. IInv /\ [Next]_vars =>
        (call # "Close" => Available' >= Available \/ result' \notin {"pending", "ok"})
  <2> SUFFICES ASSUME IInv, [Next]_vars, call # "Close", result' \in {"pending", "ok"}
               PROVE  Available' >= Available
    OBVIOUS
  <2> DEFINE Acts == /\ cached' = cached
                     /\ completed => completed'
                     /\ writerClosed => writerClosed' \/ cached
                     /\ writerClosed' => writerClosed \/ task = "finished"
                     /\ completed' => completed \/ task = "completing"
                     /\ result' = result \/ task \in {"started", "asking", "extracting"}
  <2>1. /\ (result = "pending") <=> task \in {"started", "asking", "extracting"}
        /\ completed => task = "exited"
        /\ writerClosed => result # "pending"
    BY DEF IInv, TaskInv
  <2>2. Acts
    <3> USE DEF vars, entry, thread, client
    <3>0. cached \in BOOLEAN /\ writerClosed \in BOOLEAN /\ completed \in BOOLEAN
      BY DEF IInv, TypeOK
    <3>1. CASE TaskStep \/ Answer
      <4>1. CASE Ask \/ Answer \/ Begin \/ Finish
        BY <4>1, <2>1 DEF Ask, Answer, Begin, Finish
      <4>2. CASE Write
        BY <4>2 DEF Write
      <4>3. CASE CloseWriters
        BY <3>0, <4>3 DEF CloseWriters
      <4>4. CASE Complete
        BY <4>4 DEF Complete
      <4> QED
        BY <3>1, <4>1, <4>2, <4>3, <4>4 DEF TaskStep
    <3>2. CASE ClientStep \/ UNCHANGED vars
      <4>1. ~CloseCancel
        BY DEF CloseCancel, IInv, CallInv
      <4>2. UNCHANGED <<cached, completed, writerClosed, result>>
        BY <3>2, <4>1 DEF ClientStep, BufferCheck, BufferPoll, BufferTimeout, BufferWait,
           FailReadResult, FailReport, ReadFirst, ReadAgain, SeekFirst, SeekAgain,
           CloseReport, CloseJoin
      <4> QED
        BY <4>2
    <3>3. CASE ClientCall
      BY <3>3 DEF ClientCall, BufferEntry, SeekEntry, ReadEntry, CloseEntry, Call
    <3> QED
      BY <3>1, <3>2, <3>3 DEF Next
  <2>3. written \in 0..Size /\ written' \in 0..Size /\ Size \in Nat /\ written <= written'
    BY SizeAssumption, TypeNext, WrittenGrows DEF IInv, TypeOK
  <2>4. Available \in 0..Size
    BY AvailableType DEF IInv
  <2> HIDE DEF Acts
  <2>5. CASE ~completed' /\ ~writerClosed' /\ ~cached'
    <3>1. Available = written /\ Available' = written'
      BY <2>2, <2>5 DEF Acts, Available
    <3> QED
      BY <2>3, <3>1
  <2>6. CASE (completed' \/ writerClosed' \/ cached') /\ result' = "ok"
    <3>1. Available' = Size
      BY <2>6 DEF Available
    <3> QED
      BY <2>3, <2>4, <3>1
  <2>7. CASE (completed' \/ writerClosed' \/ cached') /\ result' # "ok"
    <3>1. result' = "pending" /\ result = "pending"
      BY <2>2, <2>1, <2>7 DEF Acts
    <3>2. cached' /\ cached
      BY <2>2, <2>1, <2>7, <3>1 DEF Acts
    <3>3. Available = 0 /\ Available' = 0
      BY <3>1, <3>2 DEF Available
    <3> QED
      BY <3>3
  <2> QED
    BY <2>5, <2>6, <2>7
<1> QED
  BY <1>1, Invariance, PTL DEF Spec, AvailableMonotone

(* If no entry is damaged the reader never stands beyond the extracted     *)
(* data, and what BufferEntry and SeekEntry promise is there to be read,   *)
(* unless the extraction has ended well with a wrong password.             *)
THEOREM DataPromises ==
  ASSUME MayDamage = FALSE
  PROVE  Spec => [](PositionBacked /\ BufferTrueMeansData /\ SeekLands)
<1>1. IInv /\ DataInv /\ [Next]_vars => DataInv'
  BY MayDamage = FALSE, DataNext
<1>2. DataInv => PositionBacked /\ BufferTrueMeansData /\ SeekLands
  BY DEF DataInv, BufferTrueMeansData, SeekLands
<1> QED
  BY <1>1, <1>2, DataInit, Invariance, PTL DEF Spec

(* The reader's position is a position of data in the temp file, unless a  *)
(* wrong password went unnoticed.                                          *)
THEOREM ReaderIsBacked ==
  ASSUME MayDamage = FALSE
  PROVE  Spec => []PositionBacked
BY MayDamage = FALSE, DataPromises, PTL

(* A SeekEntry that answers TRUE has moved to the position asked for, and  *)
(* to data in the temp file unless a wrong password went unnoticed.        *)
THEOREM SeeksLand ==
  ASSUME MayDamage = FALSE
  PROVE  Spec => []SeekLands
BY MayDamage = FALSE, DataPromises, PTL

-----------------------------------------------------------------------------
(* Buffer never gives up while the prompt is up that it saw before.        *)
THEOREM PromptIsAwaited == Spec => []PromptAwaited
<1>1. Init => PromptInv
  BY DEF Init, PromptInv, PromptAwaited
<1>2. TypeOK /\ CallInv /\ PromptInv /\ [Next]_vars => PromptInv'
  <2> SUFFICES ASSUME TypeOK, CallInv, PromptInv, [Next]_vars PROVE PromptInv'
    OBVIOUS
  <2>0. /\ prompted => task # "started"
        /\ pc = "fail" /\ prompted => task # "asking"
        /\ prompted \in BOOLEAN
    BY DEF PromptInv, PromptAwaited, TypeOK
  <2>1. CASE TaskStep \/ Answer
    BY <2>0, <2>1 DEF TaskStep, Answer, Ask, Begin, Write, Finish, CloseWriters, Complete,
       client, PromptInv, PromptAwaited
  <2>2. CASE BufferCheck
    BY <2>0, <2>2 DEF BufferCheck, Buffered, Return, PromptInv, PromptAwaited
  <2>3. CASE BufferPoll
    BY <2>0, <2>3 DEF BufferPoll, Buffered, Return, thread, PromptInv, PromptAwaited
  <2>4. CASE BufferTimeout
    BY <2>0, <2>4 DEF BufferTimeout, Prompting, Buffered, Return, thread, PromptInv,
       PromptAwaited
  <2>5. CASE BufferWait
    BY <2>0, <2>5 DEF BufferWait, thread, PromptInv, PromptAwaited
  <2>6. CASE FailReadResult
    BY <2>0, <2>6 DEF FailReadResult, thread, PromptInv, PromptAwaited
  <2>c. CASE FailReport
    <3>1. UNCHANGED <<task, prompted>> /\ pc' = "idle"
      BY <2>c DEF FailReport, Return, thread
    <3> QED
      BY <2>0, <3>1 DEF PromptInv, PromptAwaited
  <2>a. CASE ReadFirst
    BY <2>0, <2>a DEF ReadFirst, Return, thread, PromptInv, PromptAwaited
  <2>b. CASE ReadAgain
    BY <2>0, <2>b DEF ReadAgain, Return, thread, PromptInv, PromptAwaited
  <2>7. CASE SeekFirst \/ SeekAgain \/ CloseReport \/ CloseCancel \/ CloseJoin
    BY <2>0, <2>7 DEF SeekFirst, SeekAgain, CloseReport, CloseCancel, CloseJoin, Return,
       thread, PromptInv, PromptAwaited
  <2>8. CASE ClientCall
    BY <2>0, <2>8 DEF ClientCall, BufferEntry, SeekEntry, ReadEntry, CloseEntry, Call,
       thread, PromptInv, PromptAwaited
  <2>9. CASE UNCHANGED vars
    BY <2>0, <2>9 DEF vars, thread, client, PromptInv, PromptAwaited
  <2> QED
    BY <2>1, <2>2, <2>3, <2>4, <2>5, <2>6, <2>7, <2>8, <2>9, <2>a, <2>b, <2>c
       DEF Next, ClientStep
<1>3. IInv => TypeOK /\ CallInv
  BY DEF IInv
<1>4. PromptInv => PromptAwaited
  BY DEF PromptInv
<1> QED
  BY <1>1, <1>2, <1>3, <1>4, Invariance, PTL DEF Spec
=============================================================================
