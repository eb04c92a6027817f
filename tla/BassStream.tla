----------------------------- MODULE BassStream -----------------------------
(***************************************************************************)
(* A BASS stream on an archive entry (bass_zipstream.cpp, Config.cpp): the *)
(* entry is opened, a minimum part of it is buffered, and the handle goes  *)
(* to BASS, which reads and seeks it through the file procedures and       *)
(* closes it.  The entry is ArchiveEntry's, with the calls that this       *)
(* program makes instead of those any client may make.                     *)
(*                                                                         *)
(* The minimum is computed in single precision.  A float is a number of    *)
(* Precision binary digits times a power of two, rounded to nearest with   *)
(* ties to even.  Precision is 24 in the program.                          *)
(***************************************************************************)
EXTENDS ArchiveEntry

CONSTANTS
  Precision,   \* binary digits of a float
  Minima       \* values the application gives ZS_BUFFER_MIN

ASSUME PrecisionAssumption == Precision \in Nat \ {0}
ASSUME MinimaAssumption    == Minima \subseteq Nat

(* A length is a QWORD and a percentage a DWORD, so below 2^72 and 2^48.   *)
ASSUME WidthAssumption ==
  /\ Size < 2^(3 * Precision)
  /\ \A percent \in Minima : percent < 100 * 2^(2 * Precision)

VARIABLES
  bufferMin,   \* config[ZS_BUFFER_MIN]
  bass,        \* where the stream is
  min,         \* what StreamCreateFile read of the configuration
  closes       \* (history) how often ARCHIVE_CloseEntry was called

stream == <<bass, min, closes>>
all    == <<vars, bufferMin, stream>>

-----------------------------------------------------------------------------
(* Single precision. *)

Exponents == 3 * Precision + 8    \* bound on the exponents that occur

(* The float nearest to num/den, which is a whole number here.             *)
Nearest(num, den) ==
  LET k    == CHOOSE e \in 0..Exponents :
                /\ num < 2^(Precision + e) * den
                /\ e = 0 \/ num >= 2^(Precision + e - 1) * den
      ulp  == 2^k * den
      rest == num % ulp
      even == (num \div ulp) % 2 = 0
      up   == 2 * rest > ulp \/ (2 * rest = ulp /\ ~even)
  IN  (num \div ulp + IF up THEN 1 ELSE 0) * 2^k

(* A factor is counted in parts of 1/One, so that a percent has all its    *)
(* digits before the point.                                                *)
One == 2^(Precision + 7)

FaultyClamped(factor) == factor      \* more than all of the entry
Clamped(factor) == Least(factor, One)

(* The product may be rounded once more or not, as the compiler keeps it.  *)
Positions(percent) ==
  LET exact == Nearest(Size, 1) * Clamped(Nearest(percent * One, 100))
  IN  {exact \div One, Nearest(exact, 1) \div One}

(* What the single precision arithmetic must give for every percentage     *)
(* that may be configured: a part of the entry, and at most two bytes less *)
(* than was asked for.                                                     *)
Arithmetic ==
  \A percent \in Minima \cup {20} : \A p \in Positions(percent) :
    p \in 0..Size /\ (p + 2) * 100 > Size * Least(percent, 100)

-----------------------------------------------------------------------------
StreamInit ==
  /\ Init
  /\ bufferMin = 20       \* InitConfig
  /\ bass = "none" /\ min = 0 /\ closes = 0

(* BASS_ZIPSTREAM_SetConfig, by any thread at any time. *)
SetConfig ==
  /\ bufferMin' \in Minima
  /\ UNCHANGED <<vars, stream>>

(* GetConfig takes zero for a value that was never set. *)
GetConfig == IF bufferMin = 0 THEN 20 ELSE bufferMin

(* ARCHIVE_OpenEntry. *)
OpenEntry ==
  /\ bass = "none"
  /\ bass' \in {"open", "not opened"}
  /\ UNCHANGED <<vars, bufferMin, min, closes>>

(* Positions beyond the end are all refused in the same way, by the test   *)
(* of ArchiveEntry::Buffer; Size + 1 stands for every one of them.         *)
BufferMinimum ==
  /\ bass = "open"
  /\ min' = GetConfig
  /\ \E p \in Positions(min') : BufferEntry(Least(p, Size + 1))
  /\ bass' = "buffering"
  /\ UNCHANGED <<bufferMin, closes>>

FaultyEnsured(ok) == TRUE            \* BufferEntry's answer is not looked at
Ensured(ok) == ok

MinimumBuffered ==
  /\ bass = "buffering" /\ pc = "idle"
  /\ bass' = IF Ensured(returned.ok) THEN "creating" ELSE "refuse"
  /\ UNCHANGED <<vars, bufferMin, min, closes>>

(* A handle is closed; a second time there is no handle.                   *)
CloseHandle ==
  /\ closes' = closes + 1
  /\ IF freed THEN UNCHANGED vars ELSE CloseEntry
  /\ UNCHANGED <<bufferMin, min>>

Refuse ==
  /\ bass = "refuse"
  /\ CloseHandle
  /\ bass' = "refusing"

(* BASS looks at the file, and later plays it. *)
UseEntry ==
  /\ bass \in {"creating", "playing"} /\ pc = "idle"
  /\ \/ \E n \in 1..MaxRead : ReadEntry(n)
     \/ \E o \in 0..Size : SeekEntry(o)
  /\ UNCHANGED <<bufferMin, stream>>

(* BASS_StreamCreateFileUser ends.  If it fails it closes the file.        *)
CreateSucceeds ==
  /\ bass = "creating" /\ pc = "idle"
  /\ bass' = "playing"
  /\ UNCHANGED <<vars, bufferMin, min, closes>>

CreateFails ==
  /\ bass = "creating" /\ pc = "idle"
  /\ CloseHandle
  /\ bass' = "failing"

StreamFree ==
  /\ bass = "playing" /\ pc = "idle"
  /\ CloseHandle
  /\ bass' = "freeing"

FaultyAfterFailure == "refuse"       \* closes what BASS has closed
AfterFailure == "failed"

(* CloseEntry returns, and the function or BASS is done. *)
Closed ==
  /\ pc = "idle"
  /\ \/ bass = "refusing" /\ bass' = "refused"
     \/ bass = "failing" /\ bass' = AfterFailure
     \/ bass = "freeing" /\ bass' = "freed"
  /\ UNCHANGED <<vars, bufferMin, min, closes>>

(* Inside the entry. *)
EntryTask == bass \notin {"none", "not opened"} /\ TaskStep /\ UNCHANGED <<bufferMin, stream>>
EntryCall == ClientStep /\ UNCHANGED <<bufferMin, stream>>
UserAnswers == Answer /\ UNCHANGED <<bufferMin, stream>>

StreamStep == BufferMinimum \/ MinimumBuffered \/ Refuse \/ Closed
CreateEnds == CreateSucceeds \/ CreateFails

StreamNext ==
  \/ SetConfig \/ OpenEntry \/ StreamStep \/ UseEntry \/ CreateEnds \/ StreamFree
  \/ EntryTask \/ EntryCall \/ UserAnswers

StreamSpec == StreamInit /\ [][StreamNext]_all

(* Every thread runs, the user answers in the end, and BASS does not look  *)
(* at the file for ever before it decides.                                 *)
StreamFairSpec ==
  /\ StreamSpec
  /\ WF_all(StreamStep) /\ WF_all(EntryTask) /\ WF_all(EntryCall) /\ WF_all(UserAnswers)
  /\ SF_all(CreateEnds)

-----------------------------------------------------------------------------
Ended == {"refused", "failed", "freed"}

(* Each variable keeps its type, and the entry keeps its own invariant     *)
(* under the calls of a stream.                                            *)
StreamTypeOK ==
  /\ IInv
  /\ bufferMin \in Minima \cup {20} /\ min \in Minima \cup {0, 20}
  /\ bass \in Ended \cup {"none", "not opened", "open", "buffering", "refuse", "creating",
                          "refusing", "playing", "failing", "freeing"}
  /\ closes \in 0..1

(* Whoever gives up the stream, this function when the minimum cannot be   *)
(* had, BASS when it cannot create it or when it is freed, the handle is   *)
(* closed exactly once, and then the entry is gone.                        *)
ClosedOnce ==
  /\ closes <= 1
  /\ bass \in Ended => closes = 1 /\ freed

(* When BASS begins to read, the percentage the application asked for can  *)
(* be read, to within the two bytes that rounding may cost, unless a wrong *)
(* password went unnoticed.                                                *)
MinimumAvailable ==
  bass \in {"creating", "playing"} =>
    Unnoticed \/ (OnDisk + 2) * 100 > Size * Least(min, 100)

(* The minimum that is asked for is a part of the entry: BufferEntry       *)
(* refuses a position beyond it, and no stream of that entry could ever    *)
(* be created.                                                             *)
MinimumInside ==
  call = "Buffer" => arg <= Size

(* A creation given up for want of data leaves an error behind, through    *)
(* the reports of both BufferEntry and CloseEntry.  BufferEntry reads the  *)
(* result before the completion and may take S_PENDING for the error; that *)
(* is the error in the end only if the extraction has succeeded after all. *)
RefusalTold ==
  bass = "refused" => lastError # "ok" /\ (lastError = "pending" => result = "ok")

(* The function returns, with a stream or without.                         *)
CreationReturns == bass = "open" ~> bass \in Ended \cup {"playing"}

-----------------------------------------------------------------------------
(* The inductive strengthening of ClosedOnce and RefusalTold.              *)

Closing == {"refusing", "failing", "freeing"}
Reading == {"none", "not opened", "open", "buffering", "refuse", "creating", "playing"}

(* The call the entry is in, for every state of the stream.                *)
HandleInv ==
  /\ CallInv
  /\ bass \in Reading \cup Closing \cup Ended
  /\ bass \in {"none", "not opened", "open", "refuse"} \cup Ended => pc = "idle"
  /\ bass = "buffering" => call = "Buffer"
  /\ bass \in Reading => call # "Close" /\ ~freed
  /\ bass \in Closing => call = "Close"
  /\ bass \in Ended => freed
  /\ closes = IF bass \in Reading THEN 0 ELSE 1

(* What has been reported, for every state of a stream that is refused.    *)
ReportInv ==
  /\ (result = "pending") <=> task \in {"started", "asking", "extracting"}
  /\ completed \in BOOLEAN /\ (completed => task = "exited")
  /\ lastError = "pending" => completed
  /\ bass = "buffering" /\ pc = "idle" => returned.ok \/ lastError # "ok"
  /\ bass \in {"refuse", "refusing", "refused"} => lastError # "ok"
  /\ bass = "refused" \/ (bass = "refusing" /\ pc # "report") =>
       (lastError = "pending" => result = "ok")

StreamInv == HandleInv /\ ReportInv
=============================================================================
