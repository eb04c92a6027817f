-------------------------- MODULE FileStream_proof --------------------------
(***************************************************************************)
(* Proofs about FileStream for every entry length and every request bound. *)
(* The typing comes first; the lock invariant rests on it alone; the data  *)
(* invariants rest on the typing and on mutual exclusion.                  *)
(***************************************************************************)
EXTENDS FileStream, SequenceTheorems, TLAPS

-----------------------------------------------------------------------------
LEMMA TypeInit == Init => TypeOK
<1> SUFFICES ASSUME Init PROVE TypeOK
  OBVIOUS
<1>1. file \in [0..Size-1 -> Int]
  BY DEF Init, None
<1>2. pc \in [Thread -> Labels]
  BY DEF Init, Labels
<1>3. op \in [Thread -> {"none", "read", "available", "seek", "write"}]
  BY DEF Init
<1>4. count \in [Thread -> Nat]
  BY DEF Init
<1> QED
  BY <1>1, <1>2, <1>3, <1>4 DEF Init, TypeOK, None

LEMMA TypeNext == TypeOK /\ [Next]_vars => TypeOK'
<1> SUFFICES ASSUME TypeOK, [Next]_vars PROVE TypeOK'
  OBVIOUS
<1> USE SizeAssumption, ChunkAssumption
        DEF TypeOK, vars, os, cursors, sharing, client, task,
            Thread, Client, Task, None, Labels, Goto, Call
<1>1. ASSUME NEW p \in Thread, Enter(p) PROVE TypeOK'
  BY <1>1 DEF Enter, AfterBegin
<1>2. ASSUME NEW p \in Thread, Acquire(p) PROVE TypeOK'
  BY <1>2 DEF Acquire
<1>3. ASSUME NEW p \in Thread, Leave(p) PROVE TypeOK'
  BY <1>3 DEF Leave, AfterEnd
<1>4. ASSUME NEW p \in Thread, Release(p) PROVE TypeOK'
  BY <1>4 DEF Release
<1>5. CASE StartRead
  BY <1>5 DEF StartRead
<1>6. ASSUME NEW g \in {None} \cup 0..Size, StartAvailable(g) PROVE TypeOK'
  BY <1>6 DEF StartAvailable, Settled
<1>7. CASE SeekRefused
  BY <1>7 DEF SeekRefused
<1>8. CASE StartSeek
  BY <1>8 DEF StartSeek
<1>9. CASE WriterTell
  BY <1>9 DEF WriterTell
<1>10. CASE ReaderSeek
  BY <1>10 DEF ReaderSeek, SeekDirties
<1>11. CASE ReadSync
  BY <1>11 DEF ReadSync
<1>12. CASE ReadFile
  BY <1>12 DEF ReadFile, Least, Readable
<1>13. CASE ReadNote
  BY <1>13 DEF ReadNote, ReadDirties
<1>14. CASE Cancel
  BY <1>14 DEF Cancel
<1>15. CASE StartWrite
  BY <1>15 DEF StartWrite, Least
<1>16. CASE WriteRefused
  BY <1>16 DEF WriteRefused
<1>17. CASE WriteSync
  BY <1>17 DEF WriteSync
<1>18. CASE WriteFile
  BY <1>18 DEF WriteFile
<1>19. CASE WriteNote
  BY <1>19 DEF WriteNote, WriteDirties
<1>20. CASE Finish
  BY <1>20 DEF Finish
<1>21. ASSUME NEW p \in Thread, Unshare(p) PROVE TypeOK'
  BY <1>21 DEF Unshare
<1>22. CASE ShutReader
  BY <1>22 DEF ShutReader
<1>23. ASSUME NEW p \in Thread, ShutWriter(p) PROVE TypeOK'
  BY <1>23 DEF ShutWriter
<1>24. CASE Complete
  BY <1>24 DEF Complete
<1>25. ASSUME NEW p \in Thread, SyncFails(p) PROVE TypeOK'
  BY <1>25 DEF SyncFails, AfterFailure
<1>26. CASE UNCHANGED vars
  BY <1>26
<1> QED
  BY <1>1, <1>2, <1>3, <1>4, <1>5, <1>6, <1>7, <1>8, <1>9, <1>10, <1>11,
     <1>12, <1>13, <1>14, <1>15, <1>16, <1>17, <1>18, <1>19, <1>20, <1>21,
     <1>22, <1>23, <1>24, <1>25, <1>26
     DEF Next, ClientStep, ClientCall, TaskStep

-----------------------------------------------------------------------------
(* The lock: mutual exclusion and the fate of a waiter. *)

LEMMA LockInit == Init => LockInv
  BY DEF Init, LockInv, MutualExclusion, NoStrandedWaiter, Holds, Other,
         ClientClosing, TaskClosing, Thread, Client, Task

LEMMA LockNext == TypeOK /\ LockInv /\ [Next]_vars => LockInv'
<1> SUFFICES ASSUME TypeOK, LockInv, [Next]_vars PROVE LockInv'
  OBVIOUS
<1> USE DEF TypeOK, LockInv, MutualExclusion, NoStrandedWaiter, Holds, Other,
            ClientClosing, TaskClosing, vars, os, cursors, sharing, client, task,
            Thread, Client, Task, None, Labels, Goto, Call
<1>1. ASSUME NEW p \in Thread, Enter(p) PROVE LockInv'
  BY <1>1 DEF Enter, AfterBegin
<1>2. ASSUME NEW p \in Thread, Acquire(p) PROVE LockInv'
  BY <1>2 DEF Acquire
<1>3. ASSUME NEW p \in Thread, Leave(p) PROVE LockInv'
  BY <1>3 DEF Leave, AfterEnd
<1>4. ASSUME NEW p \in Thread, Release(p) PROVE LockInv'
  BY <1>4 DEF Release
<1>5. CASE StartRead
  BY <1>5 DEF StartRead
<1>6. ASSUME NEW g \in {None} \cup 0..Size, StartAvailable(g) PROVE LockInv'
  BY <1>6 DEF StartAvailable
<1>7. CASE SeekRefused
  BY <1>7 DEF SeekRefused
<1>8. CASE StartSeek
  BY <1>8 DEF StartSeek
<1>9. CASE WriterTell
  BY <1>9 DEF WriterTell
<1>10. CASE ReaderSeek
  BY <1>10 DEF ReaderSeek
<1>11. CASE ReadSync
  BY <1>11 DEF ReadSync
<1>12. CASE ReadFile
  BY <1>12 DEF ReadFile
<1>13. CASE ReadNote
  BY <1>13 DEF ReadNote
<1>14. CASE Cancel
  BY <1>14 DEF Cancel
<1>15. CASE StartWrite
  BY <1>15 DEF StartWrite
<1>16. CASE WriteRefused
  BY <1>16 DEF WriteRefused
<1>17. CASE WriteSync
  BY <1>17 DEF WriteSync
<1>18. CASE WriteFile
  BY <1>18 DEF WriteFile
<1>19. CASE WriteNote
  BY <1>19 DEF WriteNote
<1>20. CASE Finish
  BY <1>20 DEF Finish
<1>21. ASSUME NEW p \in Thread, Unshare(p) PROVE LockInv'
  BY <1>21 DEF Unshare
<1>22. CASE ShutReader
  BY <1>22 DEF ShutReader
<1>23. ASSUME NEW p \in Thread, ShutWriter(p) PROVE LockInv'
  BY <1>23 DEF ShutWriter
<1>24. CASE Complete
  BY <1>24 DEF Complete
<1>25. ASSUME NEW p \in Thread, SyncFails(p) PROVE LockInv'
  BY <1>25 DEF SyncFails, AfterFailure
<1>26. CASE UNCHANGED vars
  BY <1>26
<1> QED
  BY <1>1, <1>2, <1>3, <1>4, <1>5, <1>6, <1>7, <1>8, <1>9, <1>10, <1>11,
     <1>12, <1>13, <1>14, <1>15, <1>16, <1>17, <1>18, <1>19, <1>20, <1>21,
     <1>22, <1>23, <1>24, <1>25, <1>26
     DEF Next, ClientStep, ClientCall, TaskStep

-----------------------------------------------------------------------------
(* The data: what is in the file, and where its pointer is. *)

LEMMA DataInit == Init => TaskInv /\ FileInv /\ ClientInv /\ WritePointerInv /\ ReadPointerInv
<1> SUFFICES ASSUME Init
             PROVE TaskInv /\ FileInv /\ ClientInv /\ WritePointerInv /\ ReadPointerInv
  OBVIOUS
<1> USE SizeAssumption DEF Init, Thread, Client, Task, None
<1>1. TaskInv
  BY DEF TaskInv, Writing
<1>2. FileInv
  BY DEF FileInv, PrefixIntact
<1>3. buffer \in Seq(Int)
  OBVIOUS
<1>4. ClientInv
  BY <1>3 DEF ClientInv, Limit
<1>5. WritePointerInv /\ ReadPointerInv
  BY DEF WritePointerInv, ReadPointerInv
<1> QED
  BY <1>1, <1>2, <1>4, <1>5

LEMMA TaskNext == TypeOK /\ TaskInv /\ [Next]_vars => TaskInv'
<1> SUFFICES ASSUME TypeOK, TaskInv, [Next]_vars PROVE TaskInv'
  OBVIOUS
<1> USE SizeAssumption, ChunkAssumption
        DEF TypeOK, TaskInv, Writing,
            vars, os, cursors, sharing, client, task,
            Thread, Client, Task, None, Goto, Call
<1>1. ASSUME NEW p \in Thread, Enter(p) PROVE TaskInv'
  BY <1>1 DEF Enter, AfterBegin
<1>2. ASSUME NEW p \in Thread, Acquire(p) PROVE TaskInv'
  BY <1>2 DEF Acquire
<1>3. ASSUME NEW p \in Thread, Leave(p) PROVE TaskInv'
  BY <1>3 DEF Leave, AfterEnd
<1>4. ASSUME NEW p \in Thread, Release(p) PROVE TaskInv'
  BY <1>4 DEF Release
<1>5. CASE StartRead
  BY <1>5 DEF StartRead
<1>6. ASSUME NEW g \in {None} \cup 0..Size, StartAvailable(g) PROVE TaskInv'
  BY <1>6 DEF StartAvailable, Settled
<1>7. CASE SeekRefused
  BY <1>7 DEF SeekRefused
<1>8. CASE StartSeek
  BY <1>8 DEF StartSeek
<1>9. CASE WriterTell
  BY <1>9 DEF WriterTell
<1>10. CASE ReaderSeek
  BY <1>10 DEF ReaderSeek, SeekDirties
<1>11. CASE ReadSync
  BY <1>11 DEF ReadSync
<1>12. CASE ReadFile
  BY <1>12 DEF ReadFile, Least, Readable
<1>13. CASE ReadNote
  BY <1>13 DEF ReadNote, ReadDirties
<1>14. CASE Cancel
  BY <1>14 DEF Cancel
<1>15. CASE StartWrite
  BY <1>15 DEF StartWrite, Least
<1>16. CASE WriteRefused
  BY <1>16 DEF WriteRefused
<1>17. CASE WriteSync
  BY <1>17 DEF WriteSync
<1>18. CASE WriteFile
  BY <1>18 DEF WriteFile
<1>19. CASE WriteNote
  BY <1>19 DEF WriteNote, WriteDirties
<1>20. CASE Finish
  BY <1>20 DEF Finish
<1>21. ASSUME NEW p \in Thread, Unshare(p) PROVE TaskInv'
  BY <1>21 DEF Unshare
<1>22. CASE ShutReader
  BY <1>22 DEF ShutReader
<1>23. ASSUME NEW p \in Thread, ShutWriter(p) PROVE TaskInv'
  BY <1>23 DEF ShutWriter
<1>24. CASE Complete
  BY <1>24 DEF Complete
<1>25. ASSUME NEW p \in Thread, SyncFails(p) PROVE TaskInv'
  BY <1>25 DEF SyncFails, AfterFailure
<1>26. CASE UNCHANGED vars
  BY <1>26
<1> QED
  BY <1>1, <1>2, <1>3, <1>4, <1>5, <1>6, <1>7, <1>8, <1>9, <1>10,
     <1>11, <1>12, <1>13, <1>14, <1>15, <1>16, <1>17, <1>18, <1>19, <1>20,
     <1>21, <1>22, <1>23, <1>24, <1>25, <1>26
     DEF Next, ClientStep, ClientCall, TaskStep

LEMMA FileNext == IInv /\ [Next]_vars => FileInv'
<1> SUFFICES ASSUME IInv, [Next]_vars PROVE FileInv'
  OBVIOUS
<1> USE SizeAssumption, ChunkAssumption
        DEF IInv, TypeOK, TaskInv, FileInv, PrefixIntact, WritePointerInv,
            vars, os, cursors, sharing, client, task,
            Thread, Client, Task, None, Goto, Call
<1>1. ASSUME NEW p \in Thread, Enter(p) PROVE FileInv'
  BY <1>1 DEF Enter, AfterBegin
<1>2. ASSUME NEW p \in Thread, Acquire(p) PROVE FileInv'
  BY <1>2 DEF Acquire
<1>3. ASSUME NEW p \in Thread, Leave(p) PROVE FileInv'
  BY <1>3 DEF Leave, AfterEnd
<1>4. ASSUME NEW p \in Thread, Release(p) PROVE FileInv'
  BY <1>4 DEF Release
<1>5. CASE StartRead
  BY <1>5 DEF StartRead
<1>6. ASSUME NEW g \in {None} \cup 0..Size, StartAvailable(g) PROVE FileInv'
  BY <1>6 DEF StartAvailable, Settled
<1>7. CASE SeekRefused
  BY <1>7 DEF SeekRefused
<1>8. CASE StartSeek
  BY <1>8 DEF StartSeek
<1>9. CASE WriterTell
  BY <1>9 DEF WriterTell
<1>10. CASE ReaderSeek
  BY <1>10 DEF ReaderSeek, SeekDirties
<1>11. CASE ReadSync
  BY <1>11 DEF ReadSync
<1>12. CASE ReadFile
  BY <1>12 DEF ReadFile, Least, Readable
<1>13. CASE ReadNote
  BY <1>13 DEF ReadNote, ReadDirties
<1>14. CASE Cancel
  BY <1>14 DEF Cancel
<1>15. CASE StartWrite
  BY <1>15 DEF StartWrite, Least
<1>16. CASE WriteRefused
  BY <1>16 DEF WriteRefused
<1>17. CASE WriteSync
  BY <1>17 DEF WriteSync
<1>18. CASE WriteFile
  BY <1>18 DEF WriteFile
<1>19. CASE WriteNote
  BY <1>19 DEF WriteNote, WriteDirties
<1>20. CASE Finish
  BY <1>20 DEF Finish
<1>21. ASSUME NEW p \in Thread, Unshare(p) PROVE FileInv'
  BY <1>21 DEF Unshare
<1>22. CASE ShutReader
  BY <1>22 DEF ShutReader
<1>23. ASSUME NEW p \in Thread, ShutWriter(p) PROVE FileInv'
  BY <1>23 DEF ShutWriter
<1>24. CASE Complete
  BY <1>24 DEF Complete
<1>25. ASSUME NEW p \in Thread, SyncFails(p) PROVE FileInv'
  BY <1>25 DEF SyncFails, AfterFailure
<1>26. CASE UNCHANGED vars
  BY <1>26
<1> QED
  BY <1>1, <1>2, <1>3, <1>4, <1>5, <1>6, <1>7, <1>8, <1>9, <1>10,
     <1>11, <1>12, <1>13, <1>14, <1>15, <1>16, <1>17, <1>18, <1>19, <1>20,
     <1>21, <1>22, <1>23, <1>24, <1>25, <1>26
     DEF Next, ClientStep, ClientCall, TaskStep

LEMMA ClientNext == IInv /\ [Next]_vars => ClientInv'
<1> SUFFICES ASSUME IInv, [Next]_vars PROVE ClientInv'
  OBVIOUS
<1> USE SizeAssumption, ChunkAssumption
        DEF IInv, TypeOK, LockInv, MutualExclusion, Holds, TaskInv, Writing, FileInv, ClientInv, Limit, ReadPointerInv,
            vars, os, cursors, sharing, client, task,
            Thread, Client, Task, None, Goto, Call
<1>1. ASSUME NEW p \in Thread, Enter(p) PROVE ClientInv'
  BY <1>1 DEF Enter, AfterBegin
<1>2. ASSUME NEW p \in Thread, Acquire(p) PROVE ClientInv'
  BY <1>2 DEF Acquire
<1>3. ASSUME NEW p \in Thread, Leave(p) PROVE ClientInv'
  BY <1>3 DEF Leave, AfterEnd
<1>4. ASSUME NEW p \in Thread, Release(p) PROVE ClientInv'
  BY <1>4 DEF Release
<1>5. CASE StartRead
  BY <1>5 DEF StartRead
<1>6. ASSUME NEW g \in {None} \cup 0..Size, StartAvailable(g) PROVE ClientInv'
  BY <1>6 DEF StartAvailable, Settled
<1>7. CASE SeekRefused
  BY <1>7 DEF SeekRefused
<1>8. CASE StartSeek
  BY <1>8 DEF StartSeek
<1>9. CASE WriterTell
  BY <1>9 DEF WriterTell, PrefixIntact
<1>10. CASE ReaderSeek
  BY <1>10 DEF ReaderSeek, SeekDirties
<1>11. CASE ReadSync
  BY <1>11 DEF ReadSync
<1>12. CASE ReadFile
  <2> DEFINE n == Least(count[Client], Readable)
  <2>1. n \in Nat /\ n <= count[Client]
    BY DEF Least, Readable
  <2>2. n > 0 => filePos + n <= fileLen
    BY <2>1 DEF Least, Readable
  <2>3. buffer' = [i \in 1..n |-> file[filePos + i - 1]]
    BY <1>12 DEF ReadFile
  <2>4. \A i \in 1..n : file[filePos + i - 1] \in Int
    BY <2>1, <2>2 DEF PrefixIntact
  <2>5. buffer' \in Seq(Int)
    <3> HIDE DEF n
    <3>1. buffer' \in [1..n -> Int]
      BY <2>3, <2>4
    <3> QED
      BY <2>1, <3>1, SeqDef
  <2>6. filePos = readPos \/ n = 0
    BY <1>12, <2>1 DEF ReadFile, Least, Readable
  <2>7. readPos + n <= Limit
    BY <2>1, <2>2, <2>6 DEF PrefixIntact
  <2> QED
    BY <1>12, <2>1, <2>5, <2>7 DEF ReadFile
<1>13. CASE ReadNote
  BY <1>13 DEF ReadNote, ReadDirties
<1>14. CASE Cancel
  BY <1>14 DEF Cancel
<1>15. CASE StartWrite
  BY <1>15 DEF StartWrite, Least
<1>16. CASE WriteRefused
  BY <1>16 DEF WriteRefused
<1>17. CASE WriteSync
  BY <1>17 DEF WriteSync
<1>18. CASE WriteFile
  BY <1>18 DEF WriteFile
<1>19. CASE WriteNote
  BY <1>19 DEF WriteNote, WriteDirties
<1>20. CASE Finish
  BY <1>20 DEF Finish, PrefixIntact
<1>21. ASSUME NEW p \in Thread, Unshare(p) PROVE ClientInv'
  BY <1>21 DEF Unshare
<1>22. CASE ShutReader
  BY <1>22 DEF ShutReader
<1>23. ASSUME NEW p \in Thread, ShutWriter(p) PROVE ClientInv'
  BY <1>23 DEF ShutWriter
<1>24. CASE Complete
  BY <1>24 DEF Complete
<1>25. ASSUME NEW p \in Thread, SyncFails(p) PROVE ClientInv'
  BY <1>25 DEF SyncFails, AfterFailure
<1>26. CASE UNCHANGED vars
  BY <1>26
<1> QED
  BY <1>1, <1>2, <1>3, <1>4, <1>5, <1>6, <1>7, <1>8, <1>9, <1>10,
     <1>11, <1>12, <1>13, <1>14, <1>15, <1>16, <1>17, <1>18, <1>19, <1>20,
     <1>21, <1>22, <1>23, <1>24, <1>25, <1>26
     DEF Next, ClientStep, ClientCall, TaskStep

LEMMA WritePointerNext == IInv /\ [Next]_vars => WritePointerInv'
<1> SUFFICES ASSUME IInv, [Next]_vars PROVE WritePointerInv'
  OBVIOUS
<1> USE SizeAssumption, ChunkAssumption
        DEF IInv, TypeOK, LockInv, MutualExclusion, Holds, TaskInv, Writing, FileInv, ClientInv, Limit, WritePointerInv,
            vars, os, cursors, sharing, client, task,
            Thread, Client, Task, None, Goto, Call
<1>1. ASSUME NEW p \in Thread, Enter(p) PROVE WritePointerInv'
  BY <1>1 DEF Enter, AfterBegin
<1>2. ASSUME NEW p \in Thread, Acquire(p) PROVE WritePointerInv'
  BY <1>2 DEF Acquire
<1>3. ASSUME NEW p \in Thread, Leave(p) PROVE WritePointerInv'
  BY <1>3 DEF Leave, AfterEnd
<1>4. ASSUME NEW p \in Thread, Release(p) PROVE WritePointerInv'
  BY <1>4 DEF Release
<1>5. CASE StartRead
  BY <1>5 DEF StartRead
<1>6. ASSUME NEW g \in {None} \cup 0..Size, StartAvailable(g) PROVE WritePointerInv'
  BY <1>6 DEF StartAvailable, Settled
<1>7. CASE SeekRefused
  BY <1>7 DEF SeekRefused
<1>8. CASE StartSeek
  BY <1>8 DEF StartSeek
<1>9. CASE WriterTell
  BY <1>9 DEF WriterTell
<1>10. CASE ReaderSeek
  BY <1>10 DEF ReaderSeek, SeekDirties
<1>11. CASE ReadSync
  BY <1>11 DEF ReadSync
<1>12. CASE ReadFile
  BY <1>12 DEF ReadFile, Least, Readable
<1>13. CASE ReadNote
  BY <1>13 DEF ReadNote, ReadDirties
<1>14. CASE Cancel
  BY <1>14 DEF Cancel
<1>15. CASE StartWrite
  BY <1>15 DEF StartWrite, Least
<1>16. CASE WriteRefused
  BY <1>16 DEF WriteRefused
<1>17. CASE WriteSync
  BY <1>17 DEF WriteSync
<1>18. CASE WriteFile
  BY <1>18 DEF WriteFile
<1>19. CASE WriteNote
  BY <1>19 DEF WriteNote, WriteDirties
<1>20. CASE Finish
  BY <1>20 DEF Finish
<1>21. ASSUME NEW p \in Thread, Unshare(p) PROVE WritePointerInv'
  BY <1>21 DEF Unshare
<1>22. CASE ShutReader
  BY <1>22 DEF ShutReader
<1>23. ASSUME NEW p \in Thread, ShutWriter(p) PROVE WritePointerInv'
  BY <1>23 DEF ShutWriter
<1>24. CASE Complete
  BY <1>24 DEF Complete
<1>25. ASSUME NEW p \in Thread, SyncFails(p) PROVE WritePointerInv'
  BY <1>25 DEF SyncFails, AfterFailure
<1>26. CASE UNCHANGED vars
  BY <1>26
<1> QED
  BY <1>1, <1>2, <1>3, <1>4, <1>5, <1>6, <1>7, <1>8, <1>9, <1>10,
     <1>11, <1>12, <1>13, <1>14, <1>15, <1>16, <1>17, <1>18, <1>19, <1>20,
     <1>21, <1>22, <1>23, <1>24, <1>25, <1>26
     DEF Next, ClientStep, ClientCall, TaskStep

LEMMA ReadPointerNext == IInv /\ [Next]_vars => ReadPointerInv'
<1> SUFFICES ASSUME IInv, [Next]_vars PROVE ReadPointerInv'
  OBVIOUS
<1> USE SizeAssumption, ChunkAssumption
        DEF IInv, TypeOK, LockInv, MutualExclusion, Holds, TaskInv, FileInv, WritePointerInv, ReadPointerInv,
            vars, os, cursors, sharing, client, task,
            Thread, Client, Task, None, Goto, Call
<1>1. ASSUME NEW p \in Thread, Enter(p) PROVE ReadPointerInv'
  BY <1>1 DEF Enter, AfterBegin
<1>2. ASSUME NEW p \in Thread, Acquire(p) PROVE ReadPointerInv'
  BY <1>2 DEF Acquire
<1>3. ASSUME NEW p \in Thread, Leave(p) PROVE ReadPointerInv'
  BY <1>3 DEF Leave, AfterEnd
<1>4. ASSUME NEW p \in Thread, Release(p) PROVE ReadPointerInv'
  BY <1>4 DEF Release
<1>5. CASE StartRead
  BY <1>5 DEF StartRead
<1>6. ASSUME NEW g \in {None} \cup 0..Size, StartAvailable(g) PROVE ReadPointerInv'
  BY <1>6 DEF StartAvailable, Settled
<1>7. CASE SeekRefused
  BY <1>7 DEF SeekRefused
<1>8. CASE StartSeek
  BY <1>8 DEF StartSeek
<1>9. CASE WriterTell
  BY <1>9 DEF WriterTell
<1>10. CASE ReaderSeek
  BY <1>10 DEF ReaderSeek, SeekDirties
<1>11. CASE ReadSync
  BY <1>11 DEF ReadSync
<1>12. CASE ReadFile
  <2> DEFINE n == Least(count[Client], Readable)
  <2>1. n \in Nat
    BY DEF Least, Readable
  <2>2. filePos >= fileLen => n = 0
    BY DEF Least, Readable
  <2>3. /\ filePos' = filePos + n /\ count'[Client] = n /\ pc'[Client] = "note"
        /\ UNCHANGED <<fileLen, readPos, readDirty, failed>>
    BY <1>12 DEF ReadFile
  <2>4. ~readDirty /\ (filePos = readPos \/ (filePos >= fileLen /\ failed))
    <3>1. pc[Client] = "io"
      BY <1>12 DEF ReadFile
    <3>2. pc[Task] \notin {"io", "note"}
      BY <3>1
    <3> QED
      BY <3>1, <3>2
  <2> QED
    BY <2>1, <2>2, <2>3, <2>4
<1>13. CASE ReadNote
  BY <1>13 DEF ReadNote, ReadDirties
<1>14. CASE Cancel
  BY <1>14 DEF Cancel
<1>15. CASE StartWrite
  BY <1>15 DEF StartWrite, Least
<1>16. CASE WriteRefused
  BY <1>16 DEF WriteRefused
<1>17. CASE WriteSync
  BY <1>17 DEF WriteSync
<1>18. CASE WriteFile
  <2>1. PICK n \in 0..count[Task] :
          /\ fileLen' = IF n > 0 /\ filePos + n > fileLen
                        THEN filePos + n ELSE fileLen
          /\ filePos' = filePos + n
          /\ failed' = (n < count[Task])
          /\ count' = [count EXCEPT ![Task] = n]
    BY <1>18 DEF WriteFile
  <2>2. pc[Client] \notin {"io", "note"} /\ pc'[Client] = pc[Client] /\ pc'[Task] = "note"
    BY <1>18 DEF WriteFile
  <2>3. filePos' >= fileLen'
    BY <1>18, <2>1 DEF WriteFile
  <2>4. (n > 0 /\ count'[Task] > 0) \/ failed'
    <3>1. count[Task] > 0
      BY <1>18 DEF WriteFile
    <3>2. CASE n < count[Task]
      BY <2>1, <3>2
    <3>3. CASE n = count[Task]
      BY <2>1, <3>1, <3>3
    <3> QED
      BY <3>2, <3>3
  <2> QED
    BY <2>2, <2>3, <2>4
<1>19. CASE WriteNote
  BY <1>19 DEF WriteNote, WriteDirties
<1>20. CASE Finish
  BY <1>20 DEF Finish
<1>21. ASSUME NEW p \in Thread, Unshare(p) PROVE ReadPointerInv'
  BY <1>21 DEF Unshare
<1>22. CASE ShutReader
  BY <1>22 DEF ShutReader
<1>23. ASSUME NEW p \in Thread, ShutWriter(p) PROVE ReadPointerInv'
  BY <1>23 DEF ShutWriter
<1>24. CASE Complete
  BY <1>24 DEF Complete
<1>25. ASSUME NEW p \in Thread, SyncFails(p) PROVE ReadPointerInv'
  BY <1>25 DEF SyncFails, AfterFailure
<1>26. CASE UNCHANGED vars
  BY <1>26
<1> QED
  BY <1>1, <1>2, <1>3, <1>4, <1>5, <1>6, <1>7, <1>8, <1>9, <1>10,
     <1>11, <1>12, <1>13, <1>14, <1>15, <1>16, <1>17, <1>18, <1>19, <1>20,
     <1>21, <1>22, <1>23, <1>24, <1>25, <1>26
     DEF Next, ClientStep, ClientCall, TaskStep

(* IInv is inductive and implies every invariant the runs check. *)
THEOREM Invariance == Spec => []IInv
<1>1. Init => IInv
  BY TypeInit, LockInit, DataInit DEF IInv
<1>2. IInv /\ [Next]_vars => IInv'
  <2> SUFFICES ASSUME IInv, [Next]_vars PROVE IInv'
    OBVIOUS
  <2>1. TypeOK'
    BY TypeNext DEF IInv
  <2>2. LockInv'
    BY LockNext DEF IInv
  <2>3. TaskInv'
    BY TaskNext DEF IInv
  <2>4. FileInv' /\ ClientInv' /\ WritePointerInv' /\ ReadPointerInv'
    BY FileNext, ClientNext, WritePointerNext, ReadPointerNext
  <2> QED
    BY <2>1, <2>2, <2>3, <2>4 DEF IInv
<1> QED
  BY <1>1, <1>2, PTL DEF Spec

(* The variables keep their types: CFileStream's positions and flags, the  *)
(* threads' places and the task's result.                                  *)
THEOREM Typing == Spec => []TypeOK
<1>1. IInv => TypeOK
  BY DEF IInv
<1> QED
  BY <1>1, Invariance, PTL

(* The client and the extraction task are never both between Begin and End *)
(* of the stream, even across the switching off of IsConcurrent.           *)
THEOREM Exclusion == Spec => []MutualExclusion
<1>1. IInv => MutualExclusion
  BY DEF IInv, LockInv
<1> QED
  BY <1>1, Invariance, PTL

(* A thread in Semaphore_Wait can be served: the token is there, or its    *)
(* holder's End will put it back.                                          *)
THEOREM WaitersServed == Spec => []NoStrandedWaiter
<1>1. IInv => NoStrandedWaiter
  BY DEF IInv, LockInv
<1> QED
  BY <1>1, Invariance, PTL

(* The temp file is always a prefix of the entry, although the reader      *)
(* moves the file pointer between the writes.                              *)
THEOREM FileIsPrefix == Spec => []PrefixIntact
<1>1. IInv => PrefixIntact
  BY DEF IInv, FileInv
<1> QED
  BY <1>1, Invariance, PTL

-----------------------------------------------------------------------------
(* What a read delivers. *)

ReadAction ==
  (pc[Client] = "io" /\ pc'[Client] = "note" /\ ~failed) =>
     count'[Client] = Least(count[Client],
                            IF readPos < fileLen THEN fileLen - readPos ELSE 0)

LEMMA ReadStep == IInv /\ [Next]_vars => ReadAction
<1> SUFFICES ASSUME IInv, [Next]_vars PROVE ReadAction
  OBVIOUS
<1> USE SizeAssumption, ChunkAssumption
        DEF IInv, TypeOK, ReadAction,
            vars, os, cursors, sharing, client, task,
            Thread, Client, Task, None, Goto, Call
<1>1. ASSUME NEW p \in Thread, Enter(p) PROVE ReadAction
  BY <1>1 DEF Enter, AfterBegin
<1>2. ASSUME NEW p \in Thread, Acquire(p) PROVE ReadAction
  BY <1>2 DEF Acquire
<1>3. ASSUME NEW p \in Thread, Leave(p) PROVE ReadAction
  BY <1>3 DEF Leave, AfterEnd
<1>4. ASSUME NEW p \in Thread, Release(p) PROVE ReadAction
  BY <1>4 DEF Release
<1>5. CASE StartRead
  BY <1>5 DEF StartRead
<1>6. ASSUME NEW g \in {None} \cup 0..Size, StartAvailable(g) PROVE ReadAction
  BY <1>6 DEF StartAvailable, Settled
<1>7. CASE SeekRefused
  BY <1>7 DEF SeekRefused
<1>8. CASE StartSeek
  BY <1>8 DEF StartSeek
<1>9. CASE WriterTell
  BY <1>9 DEF WriterTell
<1>10. CASE ReaderSeek
  BY <1>10 DEF ReaderSeek, SeekDirties
<1>11. CASE ReadSync
  BY <1>11 DEF ReadSync
<1>12. CASE ReadFile
  <2>1. ~failed => filePos = readPos
    BY <1>12 DEF ReadFile, LockInv, MutualExclusion, Holds, ReadPointerInv
  <2> QED
    BY <1>12, <2>1 DEF ReadFile, Readable
<1>13. CASE ReadNote
  BY <1>13 DEF ReadNote, ReadDirties
<1>14. CASE Cancel
  BY <1>14 DEF Cancel
<1>15. CASE StartWrite
  BY <1>15 DEF StartWrite, Least
<1>16. CASE WriteRefused
  BY <1>16 DEF WriteRefused
<1>17. CASE WriteSync
  BY <1>17 DEF WriteSync
<1>18. CASE WriteFile
  BY <1>18 DEF WriteFile
<1>19. CASE WriteNote
  BY <1>19 DEF WriteNote, WriteDirties
<1>20. CASE Finish
  BY <1>20 DEF Finish
<1>21. ASSUME NEW p \in Thread, Unshare(p) PROVE ReadAction
  BY <1>21 DEF Unshare
<1>22. CASE ShutReader
  BY <1>22 DEF ShutReader
<1>23. ASSUME NEW p \in Thread, ShutWriter(p) PROVE ReadAction
  BY <1>23 DEF ShutWriter
<1>24. CASE Complete
  BY <1>24 DEF Complete
<1>25. ASSUME NEW p \in Thread, SyncFails(p) PROVE ReadAction
  BY <1>25 DEF SyncFails, AfterFailure
<1>26. CASE UNCHANGED vars
  BY <1>26
<1> QED
  BY <1>1, <1>2, <1>3, <1>4, <1>5, <1>6, <1>7, <1>8, <1>9, <1>10,
     <1>11, <1>12, <1>13, <1>14, <1>15, <1>16, <1>17, <1>18, <1>19, <1>20,
     <1>21, <1>22, <1>23, <1>24, <1>25, <1>26
     DEF Next, ClientStep, ClientCall, TaskStep

(* Unless a write failed, a read returns everything the file holds behind  *)
(* the reader's position, up to the length asked for.                      *)
THEOREM ReadsAreComplete == Spec => ReadComplete
<1>1. IInv /\ [Next]_vars => [ReadAction]_vars
  BY ReadStep
<1> QED
  BY <1>1, Invariance, PTL DEF Spec, ReadComplete, ReadAction

-----------------------------------------------------------------------------
(* The stream implements EntryStream. *)

LEMMA StreamInit == Init => Stream!Init
  BY DEF Init, Stream!Init, Thread, Client, Task

LEMMA StreamStep == IInv /\ [Next]_vars => [Stream!Next]_(Stream!vars)
<1> SUFFICES ASSUME IInv, [Next]_vars PROVE [Stream!Next]_(Stream!vars)
  OBVIOUS
<1> USE SizeAssumption, ChunkAssumption
        DEF IInv, TypeOK, Stream!vars,
            vars, os, cursors, sharing, client, task,
            Thread, Client, Task, None, Goto, Call
<1>1. ASSUME NEW p \in Thread, Enter(p) PROVE [Stream!Next]_(Stream!vars)
  BY <1>1 DEF Enter, AfterBegin
<1>2. ASSUME NEW p \in Thread, Acquire(p) PROVE [Stream!Next]_(Stream!vars)
  BY <1>2 DEF Acquire
<1>3. ASSUME NEW p \in Thread, Leave(p) PROVE [Stream!Next]_(Stream!vars)
  BY <1>3 DEF Leave, AfterEnd
<1>4. ASSUME NEW p \in Thread, Release(p) PROVE [Stream!Next]_(Stream!vars)
  BY <1>4 DEF Release
<1>5. CASE StartRead
  BY <1>5 DEF StartRead
<1>6. ASSUME NEW g \in {None} \cup 0..Size, StartAvailable(g) PROVE [Stream!Next]_(Stream!vars)
  BY <1>6 DEF StartAvailable, Settled
<1>7. CASE SeekRefused
  BY <1>7 DEF SeekRefused
<1>8. CASE StartSeek
  BY <1>8 DEF StartSeek
<1>9. CASE WriterTell
  BY <1>9 DEF WriterTell
<1>10. CASE ReaderSeek
  <2>1. count[Client] \in 0..Size /\ (count[Client] <= fileLen \/ result # "pending")
    BY <1>10 DEF ReaderSeek, ClientInv, Limit, FileInv, PrefixIntact
  <2>2. Stream!MoveTo(count[Client])
    BY <1>10, <2>1 DEF ReaderSeek, Stream!MoveTo
  <2> QED
    BY <2>1, <2>2 DEF Stream!Next
<1>11. CASE ReadSync
  BY <1>11 DEF ReadSync
<1>12. CASE ReadFile
  <2> DEFINE n == Least(count[Client], Readable)
  <2>1. n \in 0..Size /\ (n = 0 \/ (filePos = readPos /\ filePos + n <= fileLen))
    <3>1. n \in Nat /\ (n > 0 => filePos + n <= fileLen)
      BY DEF Least, Readable
    <3>2. n > 0 => filePos = readPos
      BY <1>12 DEF ReadFile, LockInv, MutualExclusion, Holds, ReadPointerInv, Least, Readable
    <3> QED
      BY <3>1, <3>2 DEF FileInv, PrefixIntact
  <2>2. \A i \in 1..n : file[filePos + i - 1] = readPos + i - 1
    BY <2>1 DEF FileInv, PrefixIntact
  <2>3. buffer' = [i \in 1..n |-> readPos + i - 1]
    BY <1>12, <2>2 DEF ReadFile
  <2>4. Stream!Deliver(n)
    <3> HIDE DEF n
    <3>1. /\ pc[Client] = "io" /\ pc'[Client] = "note" /\ count'[Client] = n
          /\ UNCHANGED <<readPos, fileLen, result>>
      BY <1>12 DEF ReadFile, n
    <3> QED
      BY <2>1, <2>3, <3>1 DEF Stream!Deliver
  <2> QED
    BY <2>1, <2>4 DEF Stream!Next
<1>13. CASE ReadNote
  BY <1>13 DEF ReadNote, ReadDirties
<1>14. CASE Cancel
  BY <1>14 DEF Cancel
<1>15. CASE StartWrite
  BY <1>15 DEF StartWrite, Least
<1>16. CASE WriteRefused
  BY <1>16 DEF WriteRefused
<1>17. CASE WriteSync
  BY <1>17 DEF WriteSync
<1>18. CASE WriteFile
  <2>1. PICK n \in 0..count[Task] :
          /\ fileLen' = IF n > 0 /\ filePos + n > fileLen
                        THEN filePos + n ELSE fileLen
          /\ count' = [count EXCEPT ![Task] = n]
    BY <1>18 DEF WriteFile
  <2>2. filePos = fileLen /\ result = "pending" /\ fileLen + n <= Size
    BY <1>18, <2>1 DEF WriteFile, WritePointerInv, TaskInv, Writing, FileInv
  <2>3. UNCHANGED <<readPos, buffer, result>> /\ pc'[Client] = pc[Client]
        /\ count'[Client] = count[Client] /\ fileLen' = fileLen + n
    BY <1>18, <2>1, <2>2 DEF WriteFile
  <2>4. CASE n = 0
    BY <2>3, <2>4
  <2>5. CASE n > 0
    <3>1. Stream!Extract(n)
      BY <2>2, <2>3, <2>5 DEF Stream!Extract
    <3> QED
      BY <2>1, <2>2, <2>5, <3>1 DEF Stream!Next, FileInv
  <2> QED
    BY <2>1, <2>4, <2>5
<1>19. CASE WriteNote
  BY <1>19 DEF WriteNote, WriteDirties
<1>20. CASE Finish
  <2>1. Stream!Finish
    BY <1>20 DEF Finish, Stream!Finish
  <2> QED
    BY <2>1 DEF Stream!Next
<1>21. ASSUME NEW p \in Thread, Unshare(p) PROVE [Stream!Next]_(Stream!vars)
  BY <1>21 DEF Unshare
<1>22. CASE ShutReader
  BY <1>22 DEF ShutReader
<1>23. ASSUME NEW p \in Thread, ShutWriter(p) PROVE [Stream!Next]_(Stream!vars)
  BY <1>23 DEF ShutWriter
<1>24. CASE Complete
  BY <1>24 DEF Complete
<1>25. ASSUME NEW p \in Thread, SyncFails(p) PROVE [Stream!Next]_(Stream!vars)
  BY <1>25 DEF SyncFails, AfterFailure
<1>26. CASE UNCHANGED vars
  BY <1>26
<1> QED
  BY <1>1, <1>2, <1>3, <1>4, <1>5, <1>6, <1>7, <1>8, <1>9, <1>10,
     <1>11, <1>12, <1>13, <1>14, <1>15, <1>16, <1>17, <1>18, <1>19, <1>20,
     <1>21, <1>22, <1>23, <1>24, <1>25, <1>26
     DEF Next, ClientStep, ClientCall, TaskStep

(* One shared handle with two cursors behaves like a stream of its own for *)
(* the reader: the bytes behind the cursor, in order, none before it was   *)
(* extracted.                                                              *)
THEOREM Refinement == Spec => ImplementsEntryStream
<1>1. Init => Stream!Init
  BY StreamInit
<1>2. IInv /\ [Next]_vars => [Stream!Next]_(Stream!vars)
  BY StreamStep
<1> QED
  BY <1>1, <1>2, Invariance, PTL DEF Spec, ImplementsEntryStream, Stream!Spec

-----------------------------------------------------------------------------
(* A device whose reads may fail can corrupt the temp file, but not the    *)
(* lock: Begin and End look at nothing a failed ReadFile leaves behind.    *)
THEOREM DeviceExclusion == DeviceSpec => [](MutualExclusion /\ NoStrandedWaiter)
<1>1. Init => TypeOK /\ LockInv
  BY TypeInit, LockInit
<1>2. TypeOK /\ LockInv /\ [Next \/ ReadFails]_vars => TypeOK' /\ LockInv'
  <2> SUFFICES ASSUME TypeOK, LockInv, [Next \/ ReadFails]_vars
               PROVE  TypeOK' /\ LockInv'
    OBVIOUS
  <2>1. CASE [Next]_vars
    BY <2>1, TypeNext, LockNext
  <2>2. CASE ReadFails
    <3> USE <2>2 DEF ReadFails, AfterFailure, TypeOK, os, cursors, sharing,
                     client, task, Thread, Client, Task, Labels, Goto
    <3>1. TypeOK'
      OBVIOUS
    <3>2. LockInv'
      BY DEF LockInv, MutualExclusion, NoStrandedWaiter, Holds, Other,
             ClientClosing, TaskClosing
    <3> QED
      BY <3>1, <3>2
  <2> QED
    BY <2>1, <2>2
<1>3. LockInv => MutualExclusion /\ NoStrandedWaiter
  BY DEF LockInv
<1> QED
  BY <1>1, <1>2, <1>3, PTL DEF DeviceSpec
=============================================================================
