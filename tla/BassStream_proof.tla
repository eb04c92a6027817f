-------------------------- MODULE BassStream_proof --------------------------
(***************************************************************************)
(* Proofs about BassStream for every entry, every configuration and every  *)
(* precision of the arithmetic.  What depends on how exact the arithmetic  *)
(* is holds for entries whose length is a float; the rest for all.         *)
(***************************************************************************)
EXTENDS BassStream, ArchiveEntry_proof, NumberFacts

-----------------------------------------------------------------------------
(* The handle is closed once. *)

(* The task leaves the client alone.                                       *)
LEMMA TaskSteps ==
  ASSUME TaskStep \/ Answer
  PROVE  UNCHANGED <<pc, call, arg, target, polls, seen, position, returned, lastError, freed>>
BY DEF TaskStep, Ask, Begin, Write, Finish, CloseWriters, Complete, Answer, client

(* A step of the client's thread stays in its call; only a CloseEntry      *)
(* frees the archive, and it ends with that.                               *)
LEMMA ClientSteps ==
  ASSUME CallInv, ClientStep
  PROVE  /\ CallInv' /\ pc # "idle" /\ call' = call
         /\ freed' => freed \/ call = "Close"
<1> USE DEF CallInv, entry, thread, client
<1>1. CASE BufferCheck
  BY <1>1 DEF BufferCheck, Buffered, Return
<1>2. CASE BufferPoll
  BY <1>2 DEF BufferPoll, Buffered, Return
<1>3. CASE BufferTimeout
  BY <1>3 DEF BufferTimeout, Buffered, Return
<1>4. CASE BufferWait
  BY <1>4 DEF BufferWait
<1>5. CASE FailReadResult
  BY <1>5 DEF FailReadResult
<1>12. CASE FailReport
  BY <1>12 DEF FailReport, Return
<1>6. CASE ReadFirst
  BY <1>6 DEF ReadFirst, Return
<1>7. CASE ReadAgain
  BY <1>7 DEF ReadAgain, Return
<1>8. CASE SeekFirst
  BY <1>8 DEF SeekFirst, Return
<1>9. CASE SeekAgain
  BY <1>9 DEF SeekAgain, Return
<1>10. CASE CloseReport \/ CloseCancel
  BY <1>10 DEF CloseReport, CloseCancel
<1>11. CASE CloseJoin
  BY <1>11 DEF CloseJoin, Return
<1> QED
  BY <1>1, <1>2, <1>3, <1>4, <1>5, <1>6, <1>7, <1>8, <1>9, <1>10, <1>11,
     <1>12 DEF ClientStep

(* A handle that is not closed yet is closed by CloseEntry.                *)
LEMMA HandleCloses ==
  ASSUME ~freed, CloseHandle
  PROVE  /\ pc = "idle" /\ pc' = "report" /\ call' = "Close" /\ closes' = closes + 1
         /\ UNCHANGED <<task, result, completed, returned, lastError, freed, bufferMin, min>>
BY DEF CloseHandle, CloseEntry, Call, entry, thread

(* Every step of a stream keeps the call of the entry what it should be.   *)
LEMMA HandleNext ==
  ASSUME HandleInv, [StreamNext]_all
  PROVE  HandleInv'
<1>0. CallInv
  BY DEF HandleInv
<1> USE DEF Reading, Closing, Ended
<1>1. CASE SetConfig \/ UNCHANGED all
  <2>1. UNCHANGED <<pc, call, arg, target, freed, bass, closes>>
    BY <1>1 DEF SetConfig, all, vars, client, stream
  <2> QED
    BY <2>1 DEF HandleInv, CallInv
<1>2. CASE OpenEntry \/ MinimumBuffered \/ CreateSucceeds
  <2>1. UNCHANGED <<pc, call, arg, target, freed, closes>>
    BY <1>2 DEF OpenEntry, MinimumBuffered, CreateSucceeds, vars, client
  <2>2. \/ bass = "none" /\ bass' \in {"open", "not opened"}
        \/ bass = "buffering" /\ pc = "idle" /\ bass' \in {"creating", "refuse"}
        \/ bass = "creating" /\ bass' = "playing"
    BY <1>2 DEF OpenEntry, MinimumBuffered, CreateSucceeds
  <2> QED
    BY <2>1, <2>2 DEF HandleInv, CallInv
<1>3. CASE BufferMinimum
  <2>1. PICK p \in Positions(min') : BufferEntry(Least(p, Size + 1))
    BY <1>3 DEF BufferMinimum
  <2>2. /\ bass = "open" /\ bass' = "buffering" /\ closes' = closes /\ freed' = freed
        /\ pc' = "buffer" /\ call' = "Buffer" /\ arg' = target'
    BY <1>3, <2>1 DEF BufferMinimum, BufferEntry, Call
  <2> QED
    BY <2>2 DEF HandleInv, CallInv
<1>4. CASE Refuse \/ CreateFails \/ StreamFree
  <2>1. /\ CloseHandle
        /\ \/ bass = "refuse" /\ bass' = "refusing"
           \/ bass = "creating" /\ bass' = "failing"
           \/ bass = "playing" /\ bass' = "freeing"
    BY <1>4 DEF Refuse, CreateFails, StreamFree
  <2>2. ~freed /\ closes = 0
    BY <2>1 DEF HandleInv
  <2>3. pc' = "report" /\ call' = "Close" /\ closes' = 1 /\ freed' = freed
    BY <2>1, <2>2, HandleCloses
  <2> QED
    BY <2>1, <2>2, <2>3 DEF HandleInv, CallInv
<1>5. CASE UseEntry
  <2>1. /\ bass \in {"creating", "playing"} /\ bass' = bass /\ closes' = closes
        /\ freed' = freed
        /\ \/ pc' = "read" /\ call' = "Read"
           \/ pc' = "seek" /\ call' = "Seek"
    BY <1>5 DEF UseEntry, ReadEntry, SeekEntry, Call, stream
  <2> QED
    BY <2>1 DEF HandleInv, CallInv
<1>6. CASE Closed
  <2>1. /\ pc = "idle" /\ bass \in Closing /\ bass' \in Ended
        /\ UNCHANGED <<pc, call, arg, target, freed, closes>>
    BY <1>6 DEF Closed, AfterFailure, vars, client
  <2> QED
    BY <2>1 DEF HandleInv, CallInv
<1>7. CASE EntryTask \/ UserAnswers
  <2>1. UNCHANGED <<pc, call, arg, target, freed, bass, closes>>
    BY <1>7, TaskSteps DEF EntryTask, UserAnswers, stream
  <2> QED
    BY <2>1 DEF HandleInv, CallInv
<1>8. CASE EntryCall
  <2>1. /\ CallInv' /\ pc # "idle" /\ call' = call /\ bass' = bass /\ closes' = closes
        /\ freed' => freed \/ call = "Close"
    BY <1>0, <1>8, ClientSteps DEF EntryCall, stream
  <2> QED
    BY <2>1 DEF HandleInv
<1> QED
  BY <1>1, <1>2, <1>3, <1>4, <1>5, <1>6, <1>7, <1>8 DEF StreamNext, StreamStep, CreateEnds

(* Nothing has been opened when the program starts.                        *)
LEMMA HandleInit == StreamInit => HandleInv
BY DEF StreamInit, Init, HandleInv, CallInv, Reading, Closing, Ended

(* Whatever becomes of a stream, its handle is closed exactly once.        *)
THEOREM StreamClosesOnce == StreamSpec => []ClosedOnce
<1>1. HandleInv /\ [StreamNext]_all => HandleInv'
  BY HandleNext
<1>2. HandleInv => ClosedOnce
  <2>1. HandleInv => closes = 0 \/ closes = 1
    BY DEF HandleInv
  <2>2. HandleInv /\ bass \in Ended => closes = 1 /\ freed
    BY DEF HandleInv, Reading, Ended
  <2> QED
    BY <2>1, <2>2 DEF ClosedOnce
<1> QED
  BY HandleInit, <1>1, <1>2, PTL DEF StreamSpec

-----------------------------------------------------------------------------
(* A refused stream leaves an error. *)

(* What a step of the client's thread makes of the errors: BufferEntry     *)
(* never fails without one, and CloseEntry reports a failed extraction.    *)
LEMMA ClientReports ==
  ASSUME CallInv, ReportInv, ClientStep
  PROVE  /\ UNCHANGED <<task, result, completed>>
         /\ \/ UNCHANGED lastError /\ pc # "report" /\ (pc' = "idle" => returned'.ok)
            \/ UNCHANGED lastError /\ call \in {"Read", "Seek"}
            \/ /\ pc = "report failure" /\ lastError' # "ok"
               /\ lastError' = "pending" => completed
            \/ /\ pc = "report" /\ pc' = "cancel"
               /\ lastError # "ok" => lastError' # "ok"
               /\ lastError' = "pending" => lastError = "pending" /\ result = "ok"
<1> USE DEF CallInv, thread
<1>1. CASE BufferCheck
  <2>1. UNCHANGED lastError /\ pc # "report"
    BY <1>1 DEF BufferCheck
  <2>2. pc' = "idle" => returned'.ok
    BY <1>1 DEF BufferCheck, Buffered, Return
  <2> QED
    BY <1>1, <2>1, <2>2 DEF BufferCheck
<1>2. CASE BufferPoll
  <2>1. pc' = "idle" => returned'.ok
    BY <1>2 DEF BufferPoll, Buffered, Return
  <2> QED
    BY <1>2, <2>1 DEF BufferPoll
<1>3. CASE BufferTimeout
  <2>1. pc' = "idle" => returned'.ok
    BY <1>3 DEF BufferTimeout, Buffered, Return
  <2> QED
    BY <1>3, <2>1 DEF BufferTimeout
<1>4. CASE BufferWait
  BY <1>4 DEF BufferWait
<1>5. CASE FailReadResult
  BY <1>5 DEF FailReadResult
<1>6. CASE FailReport
  BY <1>6 DEF FailReport
<1>7. CASE ReadFirst \/ ReadAgain
  BY <1>7 DEF ReadFirst, ReadAgain
<1>8. CASE SeekFirst \/ SeekAgain
  BY <1>8 DEF SeekFirst, SeekAgain
<1>9. CASE CloseReport
  <2>1. completed => result # "pending"
    BY DEF ReportInv
  <2>2. lastError = "pending" => completed
    BY DEF ReportInv
  <2> QED
    BY <1>9, <2>1, <2>2 DEF CloseReport, Reported
<1>10. CASE CloseCancel
  BY <1>10 DEF CloseCancel
<1>11. CASE CloseJoin
  <2>1. pc' = "idle" => returned'.ok
    BY <1>11 DEF CloseJoin, Return
  <2> QED
    BY <1>11, <2>1 DEF CloseJoin
<1> QED
  BY <1>1, <1>2, <1>3, <1>4, <1>5, <1>6, <1>7, <1>8, <1>9, <1>10, <1>11 DEF ClientStep

(* A task that has completed takes no further step; until then its result  *)
(* is pending as long as it may change.                                    *)
LEMMA TaskResults ==
  ASSUME ReportInv, TaskStep \/ Answer
  PROVE  /\ ~completed
         /\ (result' = "pending") <=> task' \in {"started", "asking", "extracting"}
         /\ completed' \in BOOLEAN /\ (completed' => task' = "exited")
<1> USE DEF ReportInv
<1>1. CASE Ask
  BY <1>1 DEF Ask
<1>2. CASE Answer
  BY <1>2 DEF Answer
<1>3. CASE Begin
  BY <1>3 DEF Begin
<1>4. CASE Write
  BY <1>4 DEF Write
<1>5. CASE Finish
  BY <1>5 DEF Finish, OperationResult, WriteResult
<1>6. CASE CloseWriters
  BY <1>6 DEF CloseWriters
<1>7. CASE Complete
  BY <1>7 DEF Complete
<1> QED
  BY <1>1, <1>2, <1>3, <1>4, <1>5, <1>6, <1>7 DEF TaskStep

(* Every step of a stream keeps the reports what they should be.           *)
LEMMA ReportNext ==
  ASSUME HandleInv, ReportInv, [StreamNext]_all
  PROVE  ReportInv'
<1>0. CallInv
  BY DEF HandleInv
<1>1. CASE SetConfig \/ UNCHANGED all
  <2>1. UNCHANGED <<pc, task, result, completed, returned, lastError, bass>>
    BY <1>1 DEF SetConfig, all, vars, thread, client, stream
  <2> QED
    BY <2>1 DEF ReportInv
<1>2. CASE OpenEntry \/ MinimumBuffered \/ CreateSucceeds
  <2>1. UNCHANGED <<pc, task, result, completed, returned, lastError>>
    BY <1>2 DEF OpenEntry, MinimumBuffered, CreateSucceeds, vars, thread, client
  <2>2. \/ bass' \in {"open", "not opened", "creating", "playing"}
        \/ bass = "buffering" /\ pc = "idle" /\ bass' = "refuse" /\ ~returned.ok
    BY <1>2 DEF OpenEntry, MinimumBuffered, CreateSucceeds, Ensured
  <2> QED
    BY <2>1, <2>2 DEF ReportInv
<1>3. CASE BufferMinimum \/ UseEntry
  <2>1. /\ UNCHANGED <<task, result, completed, lastError>>
        /\ pc' # "idle" /\ bass' \in {"buffering", "creating", "playing"}
    BY <1>3 DEF BufferMinimum, UseEntry, BufferEntry, ReadEntry, SeekEntry, Call, thread, stream
  <2> QED
    BY <2>1 DEF ReportInv
<1>4. CASE Refuse \/ CreateFails \/ StreamFree
  <2>1. /\ CloseHandle
        /\ \/ bass = "refuse" /\ bass' = "refusing"
           \/ bass = "creating" /\ bass' = "failing"
           \/ bass = "playing" /\ bass' = "freeing"
    BY <1>4 DEF Refuse, CreateFails, StreamFree
  <2>2. ~freed
    BY <2>1 DEF HandleInv, Reading
  <2>3. pc' = "report" /\ UNCHANGED <<task, result, completed, lastError>>
    BY <2>1, <2>2, HandleCloses
  <2> QED
    BY <2>1, <2>3 DEF ReportInv
<1>5. CASE Closed
  <2>1. /\ pc = "idle" /\ UNCHANGED <<pc, task, result, completed, returned, lastError>>
        /\ \/ bass = "refusing" /\ bass' = "refused"
           \/ bass' \in {"failed", "freed"}
    BY <1>5 DEF Closed, AfterFailure, vars, thread, client
  <2> QED
    BY <2>1 DEF ReportInv
<1>6. CASE EntryTask \/ UserAnswers
  <2>1. UNCHANGED <<pc, returned, lastError, bass>>
    BY <1>6, TaskSteps DEF EntryTask, UserAnswers, stream
  <2>2. /\ ~completed
        /\ (result' = "pending") <=> task' \in {"started", "asking", "extracting"}
        /\ completed' \in BOOLEAN /\ (completed' => task' = "exited")
    BY <1>6, TaskResults DEF EntryTask, UserAnswers
  <2> QED
    BY <2>1, <2>2 DEF ReportInv
<1>7. CASE EntryCall
  <2>1. bass' = bass /\ CallInv' /\ pc # "idle"
    BY <1>0, <1>7, ClientSteps DEF EntryCall, stream
  <2>2. UNCHANGED <<task, result, completed>>
    BY <1>0, <1>7, ClientReports DEF EntryCall
  <2>3. CASE UNCHANGED lastError /\ pc # "report" /\ (pc' = "idle" => returned'.ok)
    BY <2>1, <2>2, <2>3 DEF ReportInv, HandleInv, Ended
  <2>4. CASE UNCHANGED lastError /\ call \in {"Read", "Seek"}
    BY <2>1, <2>2, <2>4 DEF ReportInv, HandleInv, Ended, Closing
  <2>5. CASE /\ pc = "report failure" /\ lastError' # "ok"
             /\ lastError' = "pending" => completed
    BY <1>0, <2>1, <2>2, <2>5 DEF ReportInv, HandleInv, CallInv, Ended, Closing
  <2>6. CASE /\ pc = "report" /\ pc' = "cancel"
             /\ lastError # "ok" => lastError' # "ok"
             /\ lastError' = "pending" => lastError = "pending" /\ result = "ok"
    BY <2>1, <2>2, <2>6 DEF ReportInv
  <2> QED
    BY <1>0, <1>7, ClientReports, <2>3, <2>4, <2>5, <2>6 DEF EntryCall
<1> QED
  BY <1>1, <1>2, <1>3, <1>4, <1>5, <1>6, <1>7 DEF StreamNext, StreamStep, CreateEnds

(* Nothing has been reported when the program starts.                      *)
LEMMA ReportInit == StreamInit => ReportInv
BY DEF StreamInit, Init, ReportInv

(* A creation given up for want of data leaves an error that says so, and  *)
(* S_PENDING only when the extraction has ended well in the meantime.      *)
THEOREM RefusalIsTold == StreamSpec => []RefusalTold
<1>1. StreamInit => StreamInv
  BY HandleInit, ReportInit DEF StreamInv
<1>2. StreamInv /\ [StreamNext]_all => StreamInv'
  BY HandleNext, ReportNext DEF StreamInv
<1>3. StreamInv => RefusalTold
  BY DEF StreamInv, ReportInv, RefusalTold
<1> QED
  BY <1>1, <1>2, <1>3, PTL DEF StreamSpec

-----------------------------------------------------------------------------
(* Single precision. *)

(* A number has an exponent. *)
LEMMA ExponentExists ==
  ASSUME NEW num \in Nat, NEW den \in Nat \ {0}
  PROVE  \A n \in Nat : num < 2^(Precision + n) * den =>
           \E e \in 0..n : /\ num < 2^(Precision + e) * den
                           /\ e = 0 \/ num >= 2^(Precision + e - 1) * den
<1> DEFINE Good(e) == /\ num < 2^(Precision + e) * den
                      /\ e = 0 \/ num >= 2^(Precision + e - 1) * den
           S == {n \in Nat : num < 2^(Precision + n) * den => \E e \in 0..n : Good(e)}
<1>1. 0 \in S
  OBVIOUS
<1>2. ASSUME NEW n \in S PROVE n + 1 \in S
  <2> SUFFICES ASSUME num < 2^(Precision + (n + 1)) * den
               PROVE  \E e \in 0..(n + 1) : Good(e)
    OBVIOUS
  <2>1. CASE num < 2^(Precision + n) * den
    <3>1. PICK e \in 0..n : Good(e)
      BY <2>1
    <3> HIDE DEF Good
    <3> QED
      BY <3>1
  <2>2. CASE ~(num < 2^(Precision + n) * den)
    <3>1. Precision + (n + 1) - 1 = Precision + n /\ Precision + n \in Nat
      BY PrecisionAssumption
    <3>2. 2^(Precision + n) * den \in Nat
      BY <3>1, PowerNat, TimesNat
    <3>3. num >= 2^(Precision + n) * den
      BY <2>2, <3>2
    <3>4. Good(n + 1)
      BY <3>1, <3>3
    <3> QED
      BY <3>4
  <2> QED
    BY <2>1, <2>2
<1>3. S = Nat
  <2> HIDE DEF S
  <2>1. S \in SUBSET Nat
    BY DEF S
  <2> QED
    BY <1>1, <1>2, <2>1, SetInduction
<1> QED
  BY <1>3

(* What Nearest returns. *)
LEMMA NearestIs ==
  ASSUME NEW num \in Nat, NEW den \in Nat \ {0},
         num < 2^(Precision + Exponents) * den
  PROVE  \E k \in 0..Exponents, q \in Nat, rest \in Nat, up \in {0, 1} :
           /\ num < 2^(Precision + k) * den
           /\ k = 0 \/ num >= 2^(Precision + k - 1) * den
           /\ num = q * (2^k * den) + rest /\ rest < 2^k * den
           /\ up = 0 => 2 * rest <= 2^k * den
           /\ up = 1 => 2 * rest >= 2^k * den
           /\ rest = 0 => up = 0
           /\ Nearest(num, den) = (q + up) * 2^k
<1> DEFINE Good(e) == /\ num < 2^(Precision + e) * den
                      /\ e = 0 \/ num >= 2^(Precision + e - 1) * den
           k == CHOOSE e \in 0..Exponents : Good(e)
           ulp == 2^k * den
           rest == num % ulp
           even == (num \div ulp) % 2 = 0
           up == 2 * rest > ulp \/ (2 * rest = ulp /\ ~even)
           u == IF up THEN 1 ELSE 0
<1>1. Exponents \in Nat
  BY PrecisionAssumption DEF Exponents
<1>2. k \in 0..Exponents /\ Good(k)
  BY <1>1, ExponentExists
<1>3. Nearest(num, den) = (num \div ulp + u) * 2^k
  BY DEF Nearest
<1> HIDE DEF k
<1>4. ulp \in Nat \ {0}
  BY <1>2, PowerPositive
<1> HIDE DEF ulp
<1>5. /\ num \div ulp \in Nat /\ rest \in Nat /\ rest < ulp
      /\ num = (num \div ulp) * ulp + rest
  BY <1>4, Division
<1> HIDE DEF rest, even
<1>6. /\ u \in {0, 1} /\ (u = 0 => 2 * rest <= ulp) /\ (u = 1 => 2 * rest >= ulp)
      /\ (rest = 0 => u = 0)
  BY <1>4, <1>5
<1> HIDE DEF u
<1> QED
  BY <1>2, <1>3, <1>5, <1>6 DEF ulp

(* The numbers that the computation is made of. *)
LEMMA Scale ==
  /\ Precision \in Nat /\ Precision >= 1
  /\ 2^Precision \in Nat /\ 2^Precision >= 2
  /\ One = 128 * 2^Precision /\ One \in Nat \ {0}
  /\ Exponents = 3 * Precision + 8
<1>1. Precision \in Nat /\ Precision >= 1
  BY PrecisionAssumption
<1>2. 2^Precision \in Nat /\ 2^Precision >= 2
  <2>1. Precision - 1 \in Nat /\ (Precision - 1) + 1 = Precision
    BY <1>1
  <2>2. 2^Precision = 2 * 2^(Precision - 1) /\ 2^(Precision - 1) \in Nat \ {0}
    BY <2>1, PowerNext, PowerPositive
  <2> QED
    BY <2>2
<1>3. 2^7 = 128
  OBVIOUS
<1>4. 2^(Precision + 7) = 2^Precision * 2^7
  BY <1>1, PowerSum
<1> QED
  BY <1>1, <1>2, <1>3, <1>4 DEF One, Exponents

(* A percentage that a DWORD holds is within the range of Nearest.         *)
LEMMA FactorFits ==
  ASSUME NEW percent \in Nat, percent < 100 * 2^(2 * Precision)
  PROVE  percent * One \in Nat /\ percent * One < 2^(Precision + Exponents) * 100
<1> DEFINE T == 2^(2 * Precision)
           L == 2^(Precision + Exponents)
<1>0. /\ One \in Nat \ {0} /\ Precision \in Nat /\ Precision + 7 \in Nat
      /\ 2 * Precision \in Nat /\ Exponents = 3 * Precision + 8
  BY Scale
<1>1. T \in Nat \ {0} /\ L \in Nat
  BY <1>0, PowerPositive, PowerNat
<1>2. T * One <= L
  <2>1. 2 * Precision + (Precision + 7) <= Precision + Exponents
        /\ 2 * Precision + (Precision + 7) \in Nat /\ Precision + Exponents \in Nat
    BY <1>0
  <2>2. 2^(2 * Precision + (Precision + 7)) = T * One
    BY <1>0, PowerSum DEF One
  <2> QED
    BY <2>1, <2>2, PowerMonotone
<1> HIDE DEF T, L
<1>3. percent + 1 <= 100 * T /\ 100 * T \in Nat /\ T * One \in Nat
  BY <1>0, <1>1, TimesNat DEF T
<1>4. (percent + 1) * One <= (100 * T) * One
  BY <1>0, <1>3, TimesMonotone
<1>5. (percent + 1) * One = percent * One + One /\ percent * One \in Nat
      /\ (100 * T) * One = 100 * (T * One)
  BY <1>0, <1>1, TimesNat
<1> DEFINE pOne == percent * One
           TOne == T * One
<1> HIDE DEF pOne, TOne
<1>6. pOne + One <= 100 * TOne /\ pOne \in Nat /\ TOne \in Nat /\ TOne <= L
  BY <1>2, <1>3, <1>4, <1>5 DEF pOne, TOne
<1>7. pOne < L * 100
  BY <1>0, <1>1, <1>6
<1> QED
  BY <1>6, <1>7 DEF pOne, L

(* What is nearest to a number is at most twice as much.                   *)
LEMMA NearestAtMostTwice ==
  ASSUME NEW num \in Nat, num < 2^(Precision + Exponents)
  PROVE  Nearest(num, 1) \in Nat /\ Nearest(num, 1) <= 2 * num
<1>1. num < 2^(Precision + Exponents) * 1
  <2>1. Precision + Exponents \in Nat
    BY Scale
  <2>2. 2^(Precision + Exponents) \in Nat
    BY <2>1, PowerNat
  <2> QED
    BY <2>2
<1>2. PICK k \in 0..Exponents, q \in Nat, rest \in Nat, up \in {0, 1} :
        /\ num < 2^(Precision + k) * 1
        /\ k = 0 \/ num >= 2^(Precision + k - 1) * 1
        /\ num = q * (2^k * 1) + rest /\ rest < 2^k * 1
        /\ up = 0 => 2 * rest <= 2^k * 1
        /\ up = 1 => 2 * rest >= 2^k * 1
        /\ rest = 0 => up = 0
        /\ Nearest(num, 1) = (q + up) * 2^k
  BY <1>1, NearestIs, 1 \in Nat \ {0}, Zenon
<1> DEFINE U == 2^k
           y == q * U
<1>3. U \in Nat /\ y \in Nat /\ num = y + rest
      /\ (up = 1 => 2 * rest >= U) /\ Nearest(num, 1) = (q + up) * U
  <2>1. U \in Nat
    BY PowerNat
  <2> QED
    BY <1>2, <2>1, TimesNat
<1>4. (q + up) * U = y \/ (up = 1 /\ (q + up) * U = y + U)
  BY <1>3
<1> HIDE DEF U, y
<1> QED
  BY <1>3, <1>4

(* For every QWORD and DWORD the position is a number.                     *)
LEMMA PositionsAreNumbers ==
  ASSUME NEW percent \in Minima \cup {20}
  PROVE  Positions(percent) \subseteq Nat
<1> DEFINE length == Nearest(Size, 1)
           factor == Clamped(Nearest(percent * One, 100))
           exact == length * factor
           L == 2^(Precision + Exponents)
<1>0. /\ One \in Nat \ {0} /\ Precision \in Nat /\ Precision >= 1 /\ Size \in Nat
      /\ Exponents = 3 * Precision + 8 /\ Precision + Exponents \in Nat
  BY Scale, SizeAssumption
<1>1. L \in Nat /\ L = (2 * 2^(3 * Precision)) * One /\ 2^(3 * Precision) \in Nat
  <2>1. 3 * Precision \in Nat /\ 3 * Precision + 1 \in Nat /\ Precision + 7 \in Nat
        /\ Precision + Exponents = (3 * Precision + 1) + (Precision + 7)
    BY <1>0
  <2>2. L = 2^(3 * Precision + 1) * One
    BY <2>1, PowerSum DEF One
  <2>3. 2^(3 * Precision + 1) = 2 * 2^(3 * Precision)
    BY <2>1, PowerNext
  <2> QED
    BY <1>0, <2>1, <2>2, <2>3, PowerNat
<1> HIDE DEF L
<1>2. length \in Nat /\ length <= 2 * Size
  <2>1. Size < L
    <3> DEFINE T == 2^(3 * Precision)
    <3>1. Size < T /\ T \in Nat /\ L = (2 * T) * One
      BY <1>1, WidthAssumption
    <3> HIDE DEF T
    <3>2. 1 * T <= (2 * One) * T
      BY <1>0, <3>1, TimesMonotone
    <3> QED
      BY <1>0, <3>1, <3>2
  <2> QED
    BY <1>0, <2>1, NearestAtMostTwice DEF L
<1>3. factor \in Nat /\ factor <= One
  <2>1. percent \in Nat /\ percent < 100 * 2^(2 * Precision)
    <3>1. 2^(2 * Precision) \in Nat \ {0}
      BY <1>0, PowerPositive
    <3> QED
      BY <3>1, MinimaAssumption, WidthAssumption
  <2>2. percent * One \in Nat /\ percent * One < 2^(Precision + Exponents) * 100
    BY <2>1, FactorFits
  <2> DEFINE num == percent * One
  <2> HIDE DEF num
  <2>3. PICK k \in 0..Exponents, q \in Nat, rest \in Nat, up \in {0, 1} :
          /\ num < 2^(Precision + k) * 100
          /\ k = 0 \/ num >= 2^(Precision + k - 1) * 100
          /\ num = q * (2^k * 100) + rest /\ rest < 2^k * 100
          /\ up = 0 => 2 * rest <= 2^k * 100
          /\ up = 1 => 2 * rest >= 2^k * 100
          /\ rest = 0 => up = 0
          /\ Nearest(num, 100) = (q + up) * 2^k
    BY <2>2, NearestIs, 100 \in Nat \ {0}, Zenon DEF num
  <2>4. 2^k \in Nat /\ q + up \in Nat
    BY PowerNat
  <2>5. Nearest(num, 100) \in Nat
    BY <2>3, <2>4, TimesNat
  <2> QED
    BY <1>0, <2>5 DEF Clamped, Least, num
<1> HIDE DEF length, factor
<1>4. exact \in Nat /\ exact < L
  <2> DEFINE T == 2^(3 * Precision)
  <2>1. length + 1 <= 2 * T /\ T \in Nat /\ L = (2 * T) * One
    BY <1>0, <1>1, <1>2, WidthAssumption
  <2> HIDE DEF T
  <2>2. factor * length <= One * length
    BY <1>0, <1>2, <1>3, TimesMonotone
  <2>3. (length + 1) * One <= (2 * T) * One
    BY <1>0, <1>2, <2>1, TimesMonotone
  <2>4. (length + 1) * One = One * length + One /\ factor * length = exact
        /\ exact \in Nat /\ One * length \in Nat
    BY <1>0, <1>2, <1>3, TimesNat
  <2> HIDE DEF exact
  <2> QED
    BY <1>0, <1>1, <2>1, <2>2, <2>3, <2>4
<1>5. Positions(percent) = {exact \div One, Nearest(exact, 1) \div One}
  BY DEF Positions, length, factor
<1> HIDE DEF exact
<1>6. Nearest(exact, 1) \in Nat
  BY <1>4, NearestAtMostTwice DEF L
<1>7. exact \div One \in Nat /\ Nearest(exact, 1) \div One \in Nat
  BY <1>0, <1>4, <1>6, Division
<1> QED
  BY <1>5, <1>7

-----------------------------------------------------------------------------
(* A stream is a client of its entry. *)

ConfigInv == bufferMin \in Minima \cup {20} /\ min \in Minima \cup {0, 20}

(* The configuration keeps its type.                                       *)
LEMMA ConfigNext == ConfigInv /\ [StreamNext]_all => ConfigInv' /\ GetConfig \in Minima \cup {20}
<1> SUFFICES ASSUME ConfigInv, [StreamNext]_all
             PROVE  ConfigInv' /\ GetConfig \in Minima \cup {20}
  OBVIOUS
<1>1. GetConfig \in Minima \cup {20}
  BY DEF ConfigInv, GetConfig
<1>2. ConfigInv'
  <2>1. CASE SetConfig
    BY <2>1 DEF SetConfig, ConfigInv, stream
  <2>2. CASE BufferMinimum
    BY <1>1, <2>2 DEF BufferMinimum, ConfigInv
  <2>3. CASE UNCHANGED <<bufferMin, min>>
    BY <2>3 DEF ConfigInv
  <2>4. StreamNext => SetConfig \/ BufferMinimum \/ UNCHANGED <<bufferMin, min>>
    BY DEF StreamNext, StreamStep, CreateEnds, OpenEntry, MinimumBuffered, Refuse, Closed,
       CloseHandle, UseEntry, CreateSucceeds, CreateFails, StreamFree, EntryTask, EntryCall,
       UserAnswers, stream
  <2> QED
    BY <2>1, <2>2, <2>3, <2>4 DEF all, stream
<1> QED
  BY <1>1, <1>2

(* A step of a stream is a step of the client and the task of an entry, or *)
(* leaves the entry alone.                                                 *)
LEMMA StreamSteps ==
  ASSUME ConfigInv, [StreamNext]_all
  PROVE  [Next]_vars
<1>1. CASE BufferMinimum
  <2>1. PICK p \in Positions(GetConfig) : BufferEntry(Least(p, Size + 1))
    BY <1>1 DEF BufferMinimum
  <2>2. p \in Nat
    BY <2>1, ConfigNext, PositionsAreNumbers
  <2>3. Least(p, Size + 1) \in 0..Size+1
    BY <2>2, SizeAssumption DEF Least
  <2> QED
    BY <2>1, <2>3 DEF Next, ClientCall
<1>2. CASE UseEntry
  <2>1. \/ \E n \in 1..MaxRead : ReadEntry(n)
        \/ \E o \in 0..Size : SeekEntry(o)
    BY <1>2 DEF UseEntry
  <2>2. \A o \in 0..Size : o \in 0..Size+1
    BY SizeAssumption
  <2> QED
    BY <2>1, <2>2 DEF Next, ClientCall
<1>3. CASE Refuse \/ CreateFails \/ StreamFree
  BY <1>3 DEF Refuse, CreateFails, StreamFree, CloseHandle, Next, ClientCall
<1>4. CASE EntryTask \/ EntryCall \/ UserAnswers
  BY <1>4 DEF EntryTask, EntryCall, UserAnswers, Next
<1>5. CASE \/ SetConfig \/ OpenEntry \/ MinimumBuffered \/ CreateSucceeds \/ Closed
           \/ UNCHANGED all
  BY <1>5 DEF SetConfig, OpenEntry, MinimumBuffered, CreateSucceeds, Closed, all
<1> QED
  BY <1>1, <1>2, <1>3, <1>4, <1>5 DEF StreamNext, StreamStep, CreateEnds

(* The configuration begins as InitConfig sets it.                         *)
LEMMA ConfigInit == StreamInit => Init /\ ConfigInv
BY DEF StreamInit, ConfigInv

(* A BASS stream implements the client that ArchiveEntry allows, so that   *)
(* all that is proved of an entry holds of an entry that BASS plays, of    *)
(* every length, also of those whose minimum is rounded beyond their end.  *)
THEOREM StreamIsClient == StreamSpec => Spec
<1>1. ConfigInv /\ [StreamNext]_all => ConfigInv'
  BY ConfigNext
<1>2. ConfigInv /\ [StreamNext]_all => [Next]_vars
  BY StreamSteps
<1> QED
  BY ConfigInit, <1>1, <1>2, PTL DEF StreamSpec, Spec

(* Every variable keeps its type, and the entry its inductive invariant.   *)
THEOREM StreamTypes == StreamSpec => []StreamTypeOK
<1>1. HandleInv /\ [StreamNext]_all => HandleInv'
  BY HandleNext
<1>2. ConfigInv /\ [StreamNext]_all => ConfigInv'
  BY ConfigNext
<1>3. HandleInv /\ ConfigInv /\ IInv => StreamTypeOK
  <2> SUFFICES ASSUME HandleInv, ConfigInv, IInv PROVE StreamTypeOK
    OBVIOUS
  <2>1. closes \in 0..1
    <3>1. closes = 0 \/ closes = 1
      BY DEF HandleInv
    <3> QED
      BY <3>1
  <2>2. bass \in Ended \cup {"none", "not opened", "open", "buffering", "refuse", "creating",
                          "refusing", "playing", "failing", "freeing"}
    BY DEF HandleInv, Reading, Closing
  <2> QED
    BY <2>1, <2>2 DEF StreamTypeOK, ConfigInv
<1> QED
  BY StreamIsClient, Invariance, HandleInit, ConfigInit, <1>1, <1>2, <1>3, PTL DEF StreamSpec

-----------------------------------------------------------------------------
(* The minimum is available. *)

Enough(n) == (n + 2) * 100 > Size * Least(min, 100)

(* The position that is waited for is enough, an answer of TRUE is about   *)
(* that position unless a wrong password went unnoticed, and what was      *)
(* enough stays so.                                                        *)
MinimumInv ==
  /\ bass = "buffering" => Enough(arg)
  /\ bass = "buffering" /\ pc = "idle" => returned.call = "Buffer" /\ returned.arg = arg
  /\ bass \in {"creating", "playing"} => Unnoticed \/ Enough(OnDisk)

(* More is enough where less is.                                           *)
LEMMA EnoughGrows ==
  ASSUME NEW m \in Nat, NEW n \in Nat, m <= n, NEW need \in Int, (m + 2) * 100 > need
  PROVE  (n + 2) * 100 > need
OBVIOUS

(* A function returns an answer about itself.                              *)
LEMMA ClientReturns ==
  ASSUME ClientStep
  PROVE  /\ UNCHANGED <<call, arg>>
         /\ pc' = "idle" => returned'.call = call /\ returned'.arg = arg
<1>1. UNCHANGED <<call, arg>>
  BY DEF ClientStep, BufferCheck, BufferPoll, BufferTimeout, BufferWait, FailReadResult,
     FailReport, ReadFirst, ReadAgain, SeekFirst, SeekAgain, CloseReport, CloseCancel, CloseJoin
<1>2. (\E ok : Return(ok)) \/ pc' # "idle"
  BY DEF ClientStep, BufferCheck, BufferPoll, BufferTimeout, BufferWait, FailReadResult,
     FailReport, ReadFirst, ReadAgain, SeekFirst, SeekAgain, CloseReport, CloseCancel, CloseJoin,
     Buffered
<1> QED
  BY <1>1, <1>2 DEF Return

(* Every step of a stream keeps it so.                                     *)
LEMMA MinimumNext ==
  ASSUME Arithmetic, MayDamage = FALSE, IInv, DataInv, HandleInv, ConfigInv, MinimumInv,
         [StreamNext]_all
  PROVE  MinimumInv'
<1>1. OnDisk \in 0..Size /\ OnDisk' \in 0..Size /\ OnDisk <= OnDisk' /\ Size \in Nat
  BY OnDiskGrows, StreamSteps, SizeAssumption
<1>2. Size * Least(min, 100) \in Int
  <2>1. min \in Nat
    BY MinimaAssumption DEF ConfigInv
  <2>2. Least(min, 100) \in Int
    BY <2>1 DEF Least
  <2> QED
    BY <1>1, <2>2
<1>3. (Unnoticed \/ Enough(OnDisk)) /\ min' = min => Unnoticed' \/ Enough(OnDisk)'
  <2>1. Unnoticed => Unnoticed'
    BY StreamSteps, UnnoticedStays
  <2>2. Enough(OnDisk) /\ min' = min => Enough(OnDisk)'
    BY <1>1, <1>2, EnoughGrows DEF Enough
  <2> QED
    BY <2>1, <2>2
<1>4. CASE BufferMinimum
  <2>1. PICK p \in Positions(GetConfig) : BufferEntry(Least(p, Size + 1))
    BY <1>4 DEF BufferMinimum
  <2>2. (p + 2) * 100 > Size * Least(GetConfig, 100) /\ p \in 0..Size
    BY <2>1, ConfigNext DEF Arithmetic
  <2>0. Least(p, Size + 1) = p
    BY <2>2, SizeAssumption DEF Least
  <2>3. arg' = p /\ min' = GetConfig /\ bass' = "buffering" /\ pc' = "buffer"
    BY <1>4, <2>0, <2>1 DEF BufferMinimum, BufferEntry, Call
  <2>4. Enough(arg)'
    BY <2>2, <2>3 DEF Enough
  <2> QED
    BY <2>3, <2>4 DEF MinimumInv
<1>5. CASE MinimumBuffered
  <2>1. CASE returned.ok
    <3>1. returned.call = "Buffer" /\ returned.arg = arg /\ Enough(arg)
      BY <1>5 DEF MinimumBuffered, MinimumInv
    <3>2. (Unnoticed \/ arg <= OnDisk) /\ arg \in Nat
      BY <2>1, <3>1 DEF DataInv, IInv, TypeOK
    <3>3. Unnoticed \/ Enough(OnDisk)
      BY <1>1, <1>2, <3>1, <3>2, EnoughGrows DEF Enough
    <3>4. bass' \in {"creating", "refuse"} /\ min' = min
      BY <1>5 DEF MinimumBuffered
    <3> QED
      BY <1>3, <3>3, <3>4 DEF MinimumInv
  <2>2. CASE ~returned.ok
    <3>1. bass' = "refuse"
      BY <1>5, <2>2 DEF MinimumBuffered, Ensured
    <3> QED
      BY <3>1 DEF MinimumInv
  <2> QED
    BY <2>1, <2>2
<1>6. CASE SetConfig \/ UNCHANGED all
  <2>1. UNCHANGED <<bass, min, pc, arg, returned>>
    BY <1>6 DEF SetConfig, all, vars, client, stream
  <2> QED
    BY <1>3, <2>1 DEF MinimumInv, Enough
<1>7. CASE OpenEntry \/ Refuse \/ CreateFails \/ StreamFree \/ Closed
  <2>1. bass' \notin {"buffering", "creating", "playing"}
    BY <1>7 DEF OpenEntry, Refuse, CreateFails, StreamFree, Closed, AfterFailure
  <2> QED
    BY <2>1 DEF MinimumInv
<1>8. CASE UseEntry \/ CreateSucceeds
  <2>1. bass \in {"creating", "playing"} /\ bass' \in {"creating", "playing"} /\ min' = min
    BY <1>8 DEF UseEntry, CreateSucceeds, stream
  <2> QED
    BY <1>3, <2>1 DEF MinimumInv
<1>9. CASE EntryTask \/ UserAnswers
  <2>1. UNCHANGED <<bass, min, pc, arg, returned>>
    BY <1>9, TaskSteps DEF EntryTask, UserAnswers, stream
  <2> QED
    BY <1>3, <2>1 DEF MinimumInv, Enough
<1>10. CASE EntryCall
  <2>1. /\ UNCHANGED <<bass, min, call, arg>>
        /\ pc' = "idle" => returned'.call = call /\ returned'.arg = arg
    BY <1>10, ClientReturns DEF EntryCall, stream
  <2>2. bass = "buffering" => call = "Buffer"
    BY DEF HandleInv
  <2> QED
    BY <1>3, <2>1, <2>2 DEF MinimumInv, Enough
<1> QED
  BY <1>4, <1>5, <1>6, <1>7, <1>8, <1>9, <1>10 DEF StreamNext, StreamStep, CreateEnds

(* When BASS begins to read an undamaged entry the part of it that the     *)
(* configuration asked for is in the temp file, and stays there, whatever  *)
(* is configured in the meantime, if the arithmetic is exact enough and no *)
(* wrong password went unnoticed.                                          *)
LEMMA MinimumIsAvailable ==
  ASSUME Arithmetic, MayDamage = FALSE
  PROVE  StreamSpec => []MinimumAvailable
<1>1. HandleInv /\ [StreamNext]_all => HandleInv'
  BY HandleNext
<1>2. ConfigInv /\ [StreamNext]_all => ConfigInv' /\ [Next]_vars
  BY ConfigNext, StreamSteps
<1>3. IInv /\ DataInv /\ [Next]_vars => DataInv'
  BY MayDamage = FALSE, DataNext
<1>4. IInv /\ DataInv /\ HandleInv /\ ConfigInv /\ MinimumInv /\ [StreamNext]_all => MinimumInv'
  BY Arithmetic, MayDamage = FALSE, MinimumNext
<1>5. StreamInit => MinimumInv
  BY DEF StreamInit, MinimumInv
<1>6. MinimumInv => MinimumAvailable
  BY DEF MinimumInv, MinimumAvailable, Enough
<1> QED
  BY StreamIsClient, Invariance, DataInit, HandleInit, ConfigInit,
     <1>1, <1>2, <1>3, <1>4, <1>5, <1>6, PTL DEF StreamSpec

-----------------------------------------------------------------------------
(* With such arithmetic a stream never waits for a position beyond the end *)
(* of its entry, which BufferEntry would refuse.                           *)
LEMMA MinimumIsInside ==
  ASSUME Arithmetic
  PROVE  StreamSpec => []MinimumInside
<1>1. ConfigInv /\ [StreamNext]_all => ConfigInv'
  BY ConfigNext
<1>2. ConfigInv /\ MinimumInside /\ [StreamNext]_all => MinimumInside'
  <2> SUFFICES ASSUME ConfigInv, MinimumInside, [StreamNext]_all PROVE MinimumInside'
    OBVIOUS
  <2>1. CASE BufferMinimum
    <3>1. PICK p \in Positions(GetConfig) : BufferEntry(Least(p, Size + 1))
      BY <2>1 DEF BufferMinimum
    <3>0. p \in 0..Size
      BY <3>1, ConfigNext DEF Arithmetic
    <3>2. Least(p, Size + 1) <= Size
      BY <3>0, SizeAssumption DEF Least
    <3> QED
      BY <3>1, <3>2 DEF BufferEntry, Call, MinimumInside
  <2>2. CASE UseEntry
    <3>1. call' \in {"Read", "Seek"}
      BY <2>2 DEF UseEntry, ReadEntry, SeekEntry, Call
    <3> QED
      BY <3>1 DEF MinimumInside
  <2>3. CASE Refuse \/ CreateFails \/ StreamFree
    <3>1. call' = "Close" \/ UNCHANGED <<call, arg>>
      BY <2>3 DEF Refuse, CreateFails, StreamFree, CloseHandle, CloseEntry, Call, vars, client
    <3> QED
      BY <3>1 DEF MinimumInside
  <2>4. CASE EntryTask \/ UserAnswers
    BY <2>4, TaskSteps DEF EntryTask, UserAnswers, MinimumInside
  <2>5. CASE EntryCall
    BY <2>5, ClientReturns DEF EntryCall, MinimumInside
  <2>6. CASE \/ SetConfig \/ OpenEntry \/ MinimumBuffered \/ CreateSucceeds \/ Closed
             \/ UNCHANGED all
    <3>1. UNCHANGED <<call, arg>>
      BY <2>6 DEF SetConfig, OpenEntry, MinimumBuffered, CreateSucceeds, Closed, all, vars,
         client
    <3> QED
      BY <3>1 DEF MinimumInside
  <2> QED
    BY <2>1, <2>2, <2>3, <2>4, <2>5, <2>6 DEF StreamNext, StreamStep, CreateEnds
<1>3. StreamInit => MinimumInside
  BY DEF StreamInit, Init, MinimumInside
<1> QED
  BY ConfigInit, <1>1, <1>2, <1>3, PTL DEF StreamSpec

-----------------------------------------------------------------------------
(* The arithmetic is exact enough for entries whose length is a float. *)

(* Whole numbers of Precision digits are floats. *)
LEMMA WholeIsFloat ==
  ASSUME NEW m \in Nat, m < 2^Precision
  PROVE  Nearest(m, 1) = m
<1>1. m < 2^(Precision + Exponents) * 1
  <2>1. Precision \in Nat /\ Precision + Exponents \in Nat /\ Precision <= Precision + Exponents
    BY Scale
  <2>2. 2^Precision <= 2^(Precision + Exponents) /\ 2^(Precision + Exponents) \in Nat
    BY <2>1, PowerMonotone, PowerNat
  <2> QED
    BY <2>2, Scale
<1>2. PICK k \in 0..Exponents, q \in Nat, rest \in Nat, up \in {0, 1} :
        /\ m < 2^(Precision + k) * 1
        /\ k = 0 \/ m >= 2^(Precision + k - 1) * 1
        /\ m = q * (2^k * 1) + rest /\ rest < 2^k * 1
        /\ up = 0 => 2 * rest <= 2^k * 1
        /\ up = 1 => 2 * rest >= 2^k * 1
        /\ rest = 0 => up = 0
        /\ Nearest(m, 1) = (q + up) * 2^k
  BY <1>1, NearestIs, 1 \in Nat \ {0}, Zenon
<1>3. k = 0
  <2> SUFFICES ASSUME k # 0 PROVE FALSE
    OBVIOUS
  <2>1. Precision \in Nat /\ Precision + k - 1 \in Nat /\ Precision <= Precision + k - 1
    BY Scale
  <2>2. 2^Precision <= 2^(Precision + k - 1) /\ 2^(Precision + k - 1) \in Nat
    BY <2>1, PowerMonotone, PowerNat
  <2> QED
    BY <1>2, <2>2, Scale
<1>4. 2^k = 1
  BY <1>3
<1> QED
  BY <1>2, <1>4

(* The nearest number to a percentage is at most 2^-Precision of it below. *)
LEMMA FactorClose ==
  ASSUME NEW percent \in Nat \ {0}, percent < 100 * 2^(2 * Precision)
  PROVE  /\ Nearest(percent * One, 100) \in Nat
         /\ 100 * Nearest(percent * One, 100) >= 128 * (percent * (2^Precision - 1))
<1> DEFINE Q == 2^Precision
           num == percent * One
           f == Nearest(num, 100)
<1>0. Q \in Nat /\ Q >= 2 /\ One = 128 * Q /\ Precision \in Nat /\ Precision >= 1
      /\ Exponents = 3 * Precision + 8
  BY Scale
<1>1. num = 128 * (percent * Q) /\ num \in Nat
  BY <1>0
<1>2. num < 2^(Precision + Exponents) * 100
  BY FactorFits
<1> HIDE DEF num
<1>3. PICK k \in 0..Exponents, q \in Nat, rest \in Nat, up \in {0, 1} :
        /\ num < 2^(Precision + k) * 100
        /\ k = 0 \/ num >= 2^(Precision + k - 1) * 100
        /\ num = q * (2^k * 100) + rest /\ rest < 2^k * 100
        /\ up = 0 => 2 * rest <= 2^k * 100
        /\ up = 1 => 2 * rest >= 2^k * 100
        /\ rest = 0 => up = 0
        /\ f = (q + up) * 2^k
  BY <1>1, <1>2, NearestIs, 100 \in Nat \ {0}, Zenon
<1> HIDE DEF f
<1>4. k # 0
  <2> SUFFICES ASSUME k = 0 PROVE FALSE
    OBVIOUS
  <2>1. num < Q * 100
    BY <1>0, <1>3 DEF Q
  <2> HIDE DEF Q
  <2>2. percent * Q >= 1 * Q
    BY <1>0, TimesMonotone
  <2> QED
    BY <1>0, <1>1, <2>1, <2>2, TimesNat
<1> DEFINE U == 2^(k - 1)
<1>5. 2^k = 2 * U /\ U \in Nat /\ 2^(Precision + k - 1) = Q * U
  <2>1. k - 1 \in Nat /\ (k - 1) + 1 = k /\ Precision + k - 1 = Precision + (k - 1)
    BY <1>0, <1>4
  <2> QED
    BY <1>0, <2>1, PowerNext, PowerSum, PowerNat
<1> HIDE DEF Q, U
<1>6. f \in Nat /\ 200 * f >= 2 * num - 200 * U
  <2> DEFINE V == q * U
  <2>1. V \in Nat
    BY <1>5, TimesNat
  <2>2. num = 200 * V + rest /\ (up = 0 => 2 * rest <= 200 * U) /\ rest < 200 * U
    BY <1>3, <1>5
  <2>3. up = 0 => f = 2 * V
    BY <1>3, <1>5
  <2>4. up = 1 => f = 2 * V + 2 * U
    BY <1>3, <1>5
  <2> HIDE DEF V
  <2> QED
    BY <1>1, <1>5, <2>1, <2>2, <2>3, <2>4
<1>7. 100 * U <= 128 * percent
  <2>1. num >= 100 * (U * Q)
    BY <1>0, <1>3, <1>4, <1>5
  <2>2. 128 * (percent * Q) >= 100 * (U * Q)
    BY <1>1, <2>1
  <2>3. (128 * percent) * Q >= (100 * U) * Q
    BY <1>0, <1>5, <2>2
  <2> QED
    BY <1>0, <1>5, <2>3, TimesReflects
<1>8. num - 128 * percent = 128 * (percent * (Q - 1))
  BY <1>0, <1>1
<1> QED
  BY <1>0, <1>1, <1>5, <1>6, <1>7, <1>8 DEF Q, f, num

(* How the product is rounded: it stays inside the entry, and loses next   *)
(* to nothing, or half a byte of a number that is whole then.              *)
LEMMA ProductClose ==
  ASSUME Size < 2^Precision, NEW x \in Nat, x <= Size * One
  PROVE  LET r == Nearest(x, 1)
         IN  /\ r \in Nat /\ r <= Size * One
             /\ \/ 2 * r >= 2 * x - One /\ \E n \in Nat : r = n * One
                \/ r >= x - 32 * 2^Precision /\ x < 64 * (2^Precision * 2^Precision)
<1> DEFINE Q == 2^Precision
           r == Nearest(x, 1)
<1>0. /\ Q \in Nat /\ Q >= 2 /\ One = 128 * Q /\ One \in Nat \ {0}
      /\ Precision \in Nat /\ Precision >= 1
      /\ Exponents = 3 * Precision + 8 /\ Size \in Nat /\ Size < Q
  BY Scale, SizeAssumption
<1> DEFINE Limit == 2^(2 * Precision + 7)
<1>1. Limit = Q * One /\ Size * One < Limit /\ Limit \in Nat
  <2>1. 2 * Precision + 7 = Precision + (Precision + 7) /\ Precision + 7 \in Nat
    BY <1>0
  <2>2. Limit = 2^Precision * 2^(Precision + 7)
    BY <1>0, <2>1, PowerSum
  <2> HIDE DEF Limit
  <2>3. Limit = Q * One
    BY <2>2 DEF One
  <2> HIDE DEF Q
  <2>4. (Size + 1) * One <= Q * One
    BY <1>0, TimesMonotone
  <2> QED
    BY <1>0, <2>3, <2>4, TimesNat
<1>2. x < 2^(Precision + Exponents) * 1
  <2>1. 2 * Precision + 7 <= Precision + Exponents /\ Precision + Exponents \in Nat
        /\ 2 * Precision + 7 \in Nat
    BY <1>0
  <2>2. Limit <= 2^(Precision + Exponents) /\ 2^(Precision + Exponents) \in Nat
    BY <2>1, PowerMonotone, PowerNat
  <2> HIDE DEF Limit
  <2> QED
    BY <1>0, <1>1, <2>2, TimesNat
<1>3. PICK k \in 0..Exponents, q \in Nat, rest \in Nat, up \in {0, 1} :
        /\ x < 2^(Precision + k) * 1
        /\ k = 0 \/ x >= 2^(Precision + k - 1) * 1
        /\ x = q * (2^k * 1) + rest /\ rest < 2^k * 1
        /\ up = 0 => 2 * rest <= 2^k * 1
        /\ up = 1 => 2 * rest >= 2^k * 1
        /\ rest = 0 => up = 0
        /\ r = (q + up) * 2^k
  BY <1>2, NearestIs, 1 \in Nat \ {0}, Zenon
<1>4. k <= Precision + 7
  <2> SUFFICES ASSUME k >= Precision + 8 PROVE FALSE
    BY <1>0
  <2>1. 2 * Precision + 7 <= Precision + k - 1 /\ Precision + k - 1 \in Nat
        /\ 2 * Precision + 7 \in Nat /\ k # 0
    BY <1>0
  <2>2. Limit <= 2^(Precision + k - 1) /\ 2^(Precision + k - 1) \in Nat
    BY <2>1, PowerMonotone, PowerNat
  <2>3. x >= 2^(Precision + k - 1)
    BY <1>3, <2>1, <2>2
  <2> HIDE DEF Limit
  <2> QED
    BY <1>0, <1>1, <2>2, <2>3, TimesNat
<1> DEFINE U == 2^k
<1>5. U \in Nat \ {0} /\ x = q * U + rest /\ rest < U /\ r = (q + up) * U
      /\ (up = 0 => 2 * rest <= U) /\ (up = 1 => 2 * rest >= U)
  <2>1. U \in Nat \ {0}
    BY PowerPositive
  <2> QED
    BY <1>3, <2>1
<1> DEFINE c == 2^(Precision + 7 - k)
<1>6. One = c * U /\ c \in Nat
  <2>1. Precision + 7 - k \in Nat /\ (Precision + 7 - k) + k = Precision + 7 /\ k \in Nat
    BY <1>0, <1>4
  <2>2. 2^((Precision + 7 - k) + k) = c * U
    BY <2>1, PowerSum
  <2>3. One = c * U
    BY <2>1, <2>2 DEF One
  <2> QED
    BY <2>1, <2>3, PowerNat
<1>7. k = Precision + 7 => U = One
  BY DEF One
<1>8. k <= Precision + 6 => U <= 64 * Q /\ x < 64 * (Q * Q)
  <2> SUFFICES ASSUME k <= Precision + 6
               PROVE  U <= 64 * Q /\ x < 64 * (Q * Q)
    OBVIOUS
  <2>1. 2^(Precision + 6) = 64 * Q
    <3>1. 2^(Precision + 6) = 2^Precision * 2^6
      BY <1>0, PowerSum
    <3>2. 2^6 = 64
      OBVIOUS
    <3> QED
      BY <1>0, <3>1, <3>2
  <2>2. U <= 2^(Precision + 6)
    BY <1>0, PowerMonotone
  <2>3. 2^(Precision + k) = Q * U
    BY <1>0, PowerSum
  <2> HIDE DEF Q, U
  <2>4. U * Q <= (64 * Q) * Q
    BY <1>0, <1>5, <2>1, <2>2, TimesMonotone
  <2> QED
    BY <1>0, <1>3, <1>5, <2>1, <2>2, <2>3, <2>4 DEF Q, U
<1> HIDE DEF Q, U, c, r, Limit
<1> DEFINE y == q * U
<1>9. y \in Nat /\ x = y + rest /\ (up = 0 => r = y) /\ (up = 1 => r = y + U)
  BY <1>5, TimesNat
<1>10. r \in Nat /\ 2 * r >= 2 * x - U
  <2> HIDE DEF y
  <2> QED
    BY <1>5, <1>9
<1>11. r <= Size * One
  <2> DEFINE b == Size * c
  <2>1. b \in Nat /\ Size * One = b * U
    BY <1>0, <1>5, <1>6, TimesNat
  <2> HIDE DEF b
  <2>2. CASE up = 0
    <3> HIDE DEF y
    <3> QED
      BY <1>5, <1>9, <2>1, <2>2, TimesNat
  <2>3. CASE up = 1
    <3>1. q * U < b * U
      <4>1. rest # 0
        BY <1>3, <2>3
      <4> QED
        BY <1>5, <1>9, <2>1, <4>1
    <3>2. q + 1 <= b
      BY <1>5, <2>1, <3>1, TimesReflects
    <3>3. (q + 1) * U <= b * U
      BY <1>5, <2>1, <3>2, TimesMonotone
    <3> QED
      BY <1>5, <2>1, <2>3, <3>3
  <2> QED
    BY <2>2, <2>3
<1>12. CASE k = Precision + 7
  <2>1. 2 * r >= 2 * x - One
    BY <1>7, <1>10, <1>12
  <2>2. r = (q + up) * One /\ q + up \in Nat
    BY <1>5, <1>7, <1>12
  <2> QED
    BY <1>10, <1>11, <2>1, <2>2 DEF r
<1>13. CASE k <= Precision + 6
  <2>1. r >= x - 32 * Q
    <3> HIDE DEF y
    <3> QED
      BY <1>0, <1>5, <1>8, <1>10, <1>13
  <2> QED
    BY <1>8, <1>10, <1>11, <1>13, <2>1 DEF r, Q
<1> QED
  BY <1>0, <1>4, <1>12, <1>13

(* A whole position of a rounded or unrounded product is at most two bytes *)
(* below the exact one.                                                    *)
LEMMA AtMostTwoLess ==
  ASSUME Size < 2^Precision, NEW m \in 0..100, NEW x \in Nat,
         100 * x >= Size * (128 * (m * (2^Precision - 1))),
         NEW r \in Nat, NEW p \in Nat, r < (p + 1) * One,
         \/ r = x
         \/ 2 * r >= 2 * x - One /\ r = p * One
         \/ r >= x - 32 * 2^Precision /\ x < 64 * (2^Precision * 2^Precision)
  PROVE  (p + 2) * 100 > Size * m
<1> DEFINE Q == 2^Precision
           mS == Size * m
           pOne == p * One
<1>0. Q \in Nat /\ Q >= 2 /\ One = 128 * Q /\ Size \in Nat /\ Size + 1 <= Q /\ m \in Nat
  BY Scale, SizeAssumption
<1> SUFFICES ASSUME (p + 2) * 100 <= mS PROVE FALSE
  BY <1>0
<1> HIDE DEF Q
<1>1. mS \in Nat /\ mS <= 100 * (Q - 1)
  <2>1. m * Size <= 100 * Size
    BY <1>0, TimesMonotone
  <2> QED
    BY <1>0, <2>1, TimesNat
<1>2. 100 * x >= 128 * (mS * Q) - 128 * mS
  <2>1. Size * (128 * (m * (Q - 1))) = 128 * (mS * Q) - 128 * mS
    BY <1>0
  <2> QED
    BY <2>1 DEF Q
<1>3. pOne \in Nat /\ (p + 1) * One = pOne + One /\ r < pOne + One
  BY <1>0, TimesNat
<1>4. 100 * pOne + 200 * One <= 128 * (mS * Q)
  <2>1. ((p + 2) * 100) * One <= mS * One
    <3> HIDE DEF mS
    <3> QED
      BY <1>0, <1>1, TimesMonotone
  <2>2. ((p + 2) * 100) * One = 100 * pOne + 200 * One
    BY <1>0
  <2>3. mS * One = 128 * (mS * Q)
    <3> HIDE DEF mS
    <3> QED
      BY <1>0, <1>1
  <2> QED
    BY <2>1, <2>2, <2>3
<1>5. mS * Q \in Nat
  BY <1>0, <1>1, TimesNat
<1> HIDE DEF pOne, mS
<1> DEFINE mSQ == mS * Q
<1>6. CASE r = x
  <2> HIDE DEF mSQ
  <2> QED
    BY <1>0, <1>1, <1>2, <1>3, <1>4, <1>5, <1>6 DEF mSQ
<1>7. CASE 2 * r >= 2 * x - One /\ r = p * One
  <2>1. r = pOne
    BY <1>7 DEF pOne
  <2> HIDE DEF mSQ
  <2> QED
    BY <1>0, <1>1, <1>2, <1>3, <1>4, <1>5, <1>7, <2>1 DEF mSQ
<1>8. CASE r >= x - 32 * Q /\ x < 64 * (Q * Q)
  <2>1. mS > 75 * Q
    <3> HIDE DEF mSQ
    <3> QED
      BY <1>0, <1>1, <1>2, <1>3, <1>4, <1>5, <1>8 DEF mSQ
  <2>2. Q >= 3
    BY <1>0, <1>1, <2>1
  <2>3. mS * (Q - 1) < 50 * (Q * Q)
    <3>1. mS * (Q - 1) = mSQ - mS
      BY <1>0, <1>1
    <3> HIDE DEF mSQ
    <3> DEFINE QQ == Q * Q
    <3>2. QQ \in Nat
      BY <1>0, TimesNat
    <3>3. 100 * x >= 128 * mSQ - 128 * mS /\ x < 64 * QQ /\ mSQ \in Nat
      BY <1>2, <1>5, <1>8 DEF mSQ
    <3> HIDE DEF QQ
    <3>4. mSQ - mS < 50 * QQ
      BY <1>1, <3>2, <3>3
    <3> QED
      BY <3>1, <3>4 DEF QQ
  <2>4. (75 * Q) * (Q - 1) <= mS * (Q - 1)
    BY <1>0, <1>1, <2>1, TimesMonotone
  <2>5. (75 * Q) * (Q - 1) = 75 * (Q * Q) - 75 * Q /\ 3 * Q <= Q * Q
    BY <1>0, <2>2, TimesMonotone
  <2>6. 75 * (Q * Q) - 75 * Q < 50 * (Q * Q)
    <3>1. mS * (Q - 1) \in Int /\ Q * Q \in Nat
      BY <1>0, <1>1, TimesNat
    <3> QED
      BY <1>0, <2>3, <2>4, <2>5, <3>1
  <2>7. Q * Q \in Nat
    BY <1>0, TimesNat
  <2> QED
    BY <1>0, <2>5, <2>6, <2>7
<1> QED
  BY <1>6, <1>7, <1>8 DEF Q

(* Of an entry of less than 2^Precision bytes, 2^24 in the program, whose  *)
(* length is a float therefore, what the configuration says is asked for:  *)
(* to within two bytes and never beyond the end.                           *)
THEOREM ArithmeticOfShortEntries ==
  ASSUME Size < 2^Precision
  PROVE  Arithmetic
<1> SUFFICES ASSUME NEW percent \in Minima \cup {20}, NEW p \in Positions(percent)
             PROVE  p \in 0..Size /\ (p + 2) * 100 > Size * Least(percent, 100)
  BY DEF Arithmetic
<1> DEFINE Q == 2^Precision
           m == Least(percent, 100)
           f == Nearest(percent * One, 100)
           factor == Clamped(f)
           x == Size * factor
<1>0. /\ Q \in Nat /\ Q >= 2 /\ One = 128 * Q /\ One \in Nat \ {0}
      /\ Size \in Nat /\ Precision \in Nat
  BY Scale, SizeAssumption
<1>1. percent \in Nat /\ percent < 100 * 2^(2 * Precision)
  <2>1. 2 * Precision \in Nat
    BY <1>0
  <2>2. 20 < 100 * 2^(2 * Precision)
    BY <2>1, PowerPositive
  <2> QED
    BY <2>2, MinimaAssumption, WidthAssumption
<1>2. m \in 0..100 /\ m <= percent
  BY <1>1 DEF Least
<1>3. f \in Nat /\ (percent # 0 => 100 * f >= 128 * (percent * (Q - 1)))
  <2>1. CASE percent = 0
    <3>1. percent * One = 0
      BY <1>0, <2>1
    <3>2. 0 < 2^(Precision + Exponents) * 100
      <4>1. Precision + Exponents \in Nat
        BY Scale
      <4> QED
        BY <4>1, PowerPositive
    <3>3. PICK k \in 0..Exponents, q \in Nat, rest \in Nat, up \in {0, 1} :
            /\ 0 < 2^(Precision + k) * 100
            /\ k = 0 \/ 0 >= 2^(Precision + k - 1) * 100
            /\ 0 = q * (2^k * 100) + rest /\ rest < 2^k * 100
            /\ up = 0 => 2 * rest <= 2^k * 100
            /\ up = 1 => 2 * rest >= 2^k * 100
            /\ rest = 0 => up = 0
            /\ Nearest(0, 100) = (q + up) * 2^k
      BY <3>2, NearestIs, 100 \in Nat \ {0}, 0 \in Nat, Zenon
    <3>4. 2^k \in Nat /\ q + up \in Nat
      BY PowerNat
    <3>5. f \in Nat
      BY <3>1, <3>3, <3>4, TimesNat
    <3> QED
      BY <2>1, <3>5
  <2>2. CASE percent # 0
    BY <1>1, <2>2, FactorClose
  <2> QED
    BY <2>1, <2>2
<1> HIDE DEF f
<1>4. factor \in Nat /\ factor <= One /\ 100 * factor >= 128 * (m * (Q - 1))
  <2>1. m * (Q - 1) \in Nat /\ m * (Q - 1) <= 100 * (Q - 1)
    BY <1>0, <1>2, TimesNat, TimesMonotone
  <2>2. percent * (Q - 1) \in Nat /\ m * (Q - 1) <= percent * (Q - 1)
    BY <1>0, <1>1, <1>2, TimesNat, TimesMonotone
  <2>3. percent = 0 => m * (Q - 1) = 0
    BY <1>0, <1>2
  <2> DEFINE a == m * (Q - 1)
             b == percent * (Q - 1)
  <2> HIDE DEF a, b, Q, m
  <2>4. CASE factor = f /\ f <= One
    BY <1>0, <1>3, <2>1, <2>2, <2>3, <2>4 DEF a, b
  <2>5. CASE factor = One
    BY <1>0, <2>1, <2>5 DEF a
  <2>6. (factor = f /\ f <= One) \/ factor = One
    BY DEF Clamped, Least
  <2> QED
    BY <2>4, <2>5, <2>6
<1> HIDE DEF factor, m
<1>5. x \in Nat /\ x <= Size * One /\ 100 * x >= Size * (128 * (m * (Q - 1)))
  <2>1. factor * Size <= One * Size
    BY <1>0, <1>4, TimesMonotone
  <2>2. 128 * (m * (Q - 1)) \in Nat
    BY <1>0, <1>2, TimesNat
  <2>3. (128 * (m * (Q - 1))) * Size <= (100 * factor) * Size
    BY <1>0, <1>4, <2>2, TimesMonotone
  <2> HIDE DEF Q
  <2> QED
    BY <1>0, <1>4, <2>1, <2>2, <2>3, TimesNat
<1>6. Positions(percent) = {x \div One, Nearest(x, 1) \div One}
  BY <1>0, WholeIsFloat DEF Positions, factor, f
<1> HIDE DEF x, Q
<1>7. ASSUME NEW r \in Nat, r <= Size * One,
             \/ r = x
             \/ 2 * r >= 2 * x - One /\ \E n \in Nat : r = n * One
             \/ r >= x - 32 * Q /\ x < 64 * (Q * Q)
      PROVE  r \div One \in 0..Size /\ (r \div One + 2) * 100 > Size * m
  <2> DEFINE d == r \div One
  <2>1. d \in Nat /\ r % One \in Nat /\ r % One < One /\ r = d * One + (r % One)
    BY <1>0, Division
  <2>2. ASSUME NEW n \in Nat, r = n * One PROVE d = n
    BY <1>0, <2>2, Quotient
  <2> HIDE DEF d
  <2>3. r < (d + 1) * One
    BY <1>0, <2>1
  <2>4. d <= Size
    <3>1. d * One < (Size + 1) * One
      BY <1>0, <1>7, <2>1, TimesNat
    <3> QED
      BY <1>0, <2>1, <3>1, TimesReflects
  <2>5. \/ r = x
        \/ 2 * r >= 2 * x - One /\ r = d * One
        \/ r >= x - 32 * 2^Precision /\ x < 64 * (2^Precision * 2^Precision)
    BY <1>7, <2>2 DEF Q
  <2>6. (d + 2) * 100 > Size * m
    BY <1>2, <1>5, <2>1, <2>3, <2>5, AtMostTwoLess DEF Q
  <2> QED
    BY <1>0, <2>1, <2>4, <2>6 DEF d
<1>8. CASE p = x \div One
  BY <1>5, <1>7, <1>8 DEF m
<1>9. CASE p = Nearest(x, 1) \div One
  <2> DEFINE r == Nearest(x, 1)
  <2>1. /\ r \in Nat /\ r <= Size * One
        /\ \/ 2 * r >= 2 * x - One /\ \E n \in Nat : r = n * One
           \/ r >= x - 32 * Q /\ x < 64 * (Q * Q)
    BY <1>5, ProductClose DEF Q
  <2> HIDE DEF r
  <2>2. r \div One \in 0..Size /\ (r \div One + 2) * 100 > Size * m
    BY <1>7, <2>1
  <2> QED
    BY <1>9, <2>2 DEF r, m
<1> QED
  BY <1>6, <1>8, <1>9

(* So a stream of such an entry never waits for a position beyond its end: *)
(* the refusals that the rounding of the length causes begin at 2^24.      *)
THEOREM ShortEntriesInside ==
  ASSUME Size < 2^Precision
  PROVE  StreamSpec => []MinimumInside
BY ArithmeticOfShortEntries, MinimumIsInside

(* And when BASS begins to read such an entry, undamaged, the part of it   *)
(* that was asked for is in the temp file, unless a wrong password went    *)
(* unnoticed.                                                              *)
THEOREM ShortEntriesAvailable ==
  ASSUME Size < 2^Precision, MayDamage = FALSE
  PROVE  StreamSpec => []MinimumAvailable
BY ArithmeticOfShortEntries, MinimumIsAvailable
=============================================================================
