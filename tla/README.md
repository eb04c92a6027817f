# BASS_ZIPSTREAM: a verification project

BASS_ZIPSTREAM lets an application list the entries of an archive and play or
read one of them while 7-Zip is still extracting it.  A client opens an entry;
a thread of its own extracts the entry into a file of the temp folder; the
client reads that file through the same operating system handle, waits for data
that is not there yet, and leaves the file behind for the next session that
wants the same entry.

This directory holds TLA+ models of that machinery, TLC configurations that
check them on small instances, and proofs that TLAPS checks for every value of
the constants.  Paths below are relative to `src/bass_zipstream/` unless they
say otherwise.

## 1. Inventory

| component | code | state it keeps | operations |
|---|---|---|---|
| Shared temp file stream | `CFileStream.cpp`, `CFile.cpp` | one file handle with one file pointer; a logical position, a dirty flag and a closed flag for each of the two ends; `IsConcurrent`; a semaphore | `Create`, `Open`, `Begin`, `End`, `Reader.Seek/Read/Close`, `Writer.Seek/Write/Close` |
| Password prompts | `ArchiveExtractPrompt.cpp`, `__prompt1__`/`__prompt2__` of `ArchiveInterface.cpp` | a process-wide list of the archives that have a prompt up; the application's handler | `AddFile`, `RemoveFile`, `ContainsFile`, `Prompt`, `Wait` |
| Entry calls | `ArchiveEntryInterface.cpp`, `ArchiveEntry.cpp` | the reading end, the task, `LastError` | `OpenEntry`, `BufferEntry`, `ReadEntry`, `SeekEntry`, `IsEOF`, `GetEntryAvailable`, `CloseEntry` |
| Extraction task | `ArchiveExtractTask.cpp`, `ArchiveExtractCallback.cpp` | `Result`, `Completed`, the thread, the open ends of its files, the password | `Start`, `Run`, `GetStream`, `SetOperationResult`, `CryptoGetTextPassword`, `Close`, `Wait` |
| Temp file cache | `ArchiveExtractCallback.cpp` (`GetFileName`, `OpenFile`, `Cleanup`), `CFile.cpp` (`Open`) | the files in the temp folder, shared by all processes | naming, search, creation, reuse, `Cleanup` |
| Archive handle | `Archive.cpp`, `ArchiveInterface.cpp` | the opened 7-Zip archive, its tasks | `Create`, `Open`, `ExtractEntry`, `OpenEntry`, `CloseEntry`, `Close`, `Release` |
| BASS stream creation | `bass_zipstream.cpp`, `Config.cpp` | the configuration; who owns the entry | `BASS_ZIPSTREAM_StreamCreateFile`, the file procedures |
| Last error | `ErrorInterface.cpp` | one number | get (and clear), set |
| Managed wrapper | `src/ManagedBass.ZipStream/` | the pinned password delegate | P/Invoke, `Handles.Pin` |
| 7-Zip | `src/7z/` (vendored) | | decoding; `CObjectVector::FindInSorted` |
| Codec glue, BASS headers, stubs, build files | `Codecs.cpp`, `src/bass/`, ... | tables | |

How they interact:

- *Shared state.*  The client thread and the extraction thread share the file
  pointer of the temp file, `IsConcurrent`, the semaphore, the closed flags, and
  `Result` and `Completed` of the task, the last three without a lock.  All
  sessions of a process share the list of prompts and `LastError`.  All sessions
  of all processes share the temp folder, where only the sharing modes of
  `CreateFile` keep them apart.
- *Calls.*  `ARCHIVE_...Entry` functions call `ArchiveEntry`, which calls the
  reading end; 7-Zip calls `ArchiveExtractCallback`, which hands it the writing
  end and reports its results.
- *Callbacks.*  The extraction thread calls the application's password handler
  and stays in it as long as the user takes; `Buffer` on the client thread waits
  for the prompt to go away.
- *Joining.*  `CloseEntry` cancels the task by closing both ends, waits for the
  thread, and deletes the archive.

What is hard:

| behaviour | where | what makes the component correct |
|---|---|---|
| two threads, one file pointer | `CFileStream.cpp:61-196` | exclusion; the temp file is a prefix of the entry; a read returns the bytes behind the reader's position |
| the lock is switched off in mid-flight | `CFileStream.cpp:244-258, 324-330` | exclusion still holds; nobody waits for a token that never comes |
| three unlocked fields tell how far the extraction is | `ArchiveEntry.cpp:37-46`, `ArchiveExtractTask.cpp:21-36` | what was reported available stays so; a TRUE of Buffer or Seek means data |
| a timeout races a prompt | `ArchiveEntry.cpp:65-89` | every call returns; Buffer does not give up under a prompt |
| a close races the task | `Archive.cpp:173-193` | the join ends; nothing is used after it was deleted |
| an unsorted list under a binary search | `ArchiveExtractPrompt.cpp:6-23` | a prompt that is up is found, one that is gone is not |
| check, then open | `ArchiveExtractCallback.cpp:39-85` | a file is reused only if it holds the entry |
| files outlive processes | `ArchiveExtractCallback.cpp:19-37, 69-75` | a partial file is not taken for a complete one; different entries have different files |
| seven acquisitions, each can fail | `ArchiveEntryInterface.cpp:18-60`, `Archive.cpp:142-165` | the caller has a whole entry or nothing |
| one error variable for all threads | `ErrorInterface.cpp:5-13` | an undisturbed error is the caller's own |
| a pinned delegate replaced under its callers | `ArchiveInterface.cpp:150-169`, `Handles.cs:8-27` | the handler that is called is alive |
| single precision for 64 bit lengths | `bass_zipstream.cpp:89-94` | the position asked for lies inside the entry |

`hazards` in `PROJECT.json` lists these line by line, with the properties that
cover each one.

## 2. Plan

Written, in this order, the most important first:

1. `EntryStream`, `FileStream`, `MCFileStream`, `FileStream_proof`
2. `ExtractPrompt`, `MCExtractPrompt`, `ExtractPrompt_proof`
3. `ArchiveEntry`, `MCArchiveEntry`, `ArchiveEntry_proof`
4. `TempName`, `TempCache`, `MCTempCache`, `TempCache_proof`, `TempName_proof`
5. `BassStream`, `MCBassStream`, `BassStream_proof`
6. `PinnedHandler`, `EntryHandle`, `Application`, `MCApplication`,
   `Application_proof`
7. `NumberFacts`, the lemmas about numbers that the proofs share

What could still be added: a bare archive handle (`ARCHIVE_Create` to
`ARCHIVE_Release`), which has no thread but its caller's.

Composition: `FileStream` implements `EntryStream` by a refinement mapping;
`ArchiveEntry` stands on `FileStream`'s result and treats one stream call as one
step; `MCTempCache` takes its paths from `TempName`; `BassStream` extends
`ArchiveEntry` and replaces the calls of an arbitrary client by those of a
stream; `Application` extends `EntryHandle` and `PinnedHandler`, whose steps it
ties together: only the extraction thread of an open entry asks for a password.

Abstract specifications: `EntryStream`, which `FileStream` implements under a
refinement mapping, and `ArchiveEntry`, which `BassStream` implements with its
own calls in place of an arbitrary client's.

## 3. Modules and the code

Operators whose name begins with `Faulty` are seeded faults.  No action uses
them; each stands directly before the operator which a plausible mistake would
turn into it, and replacing that operator's body with it makes the property that
guards it fail.

### EntryStream

What a reader of an entry under extraction is promised: bytes are appended, the
reader has a cursor of its own, a read hands over exactly the bytes behind the
cursor and never more than have been written.  Byte *i* of the entry is the
number *i*, so a wrong offset is visible in what a read delivers.

### FileStream

The client thread and the extraction thread on one `CFileStream`.  Each access
to the shared state is one action: the test of `IsClosed` and `IsConcurrent`
in `Begin` (`Call`, `Enter`), the semaphore (`Acquire`, `Release`), the repair of
the file pointer (`ReadSync`, `WriteSync`), the transfer (`ReadFile`,
`WriteFile`), the book-keeping with its dirty flags (`ReadNote`, `WriteNote`),
`End` with its second look at `IsConcurrent` (`Leave`), and the two closes, which
clear `IsConcurrent` before they mark their end closed (`Unshare`, `ShutReader`,
`ShutWriter`).  `Cancel` closes the reader and the writer at any moment of the
extraction.  `WriteFile` may stop short (a full disk), the repair of the pointer
may fail (`SyncFails`), and the decoder may end with a result of its own at any
point (`Finish`).  `DeviceSpec` adds a `ReadFile` that fails (`ReadFails`); `Spec`,
which the data properties and their proofs are about, assumes that the reads of a
local temp file succeed.

| variable | code |
|---|---|
| `file`, `fileLen`, `filePos` | the temp file and the pointer of its handle |
| `readPos`, `writePos` | `Position` of reader and writer |
| `readDirty`, `writeDirty` | `ReadDirty`, `WriteDirty` |
| `readerClosed`, `writerClosed` | `IsClosed` of the ends |
| `isConcurrent`, `semaphore` | `IsConcurrent`, `Semaphore` |
| `pc`, `op`, `count`, `goal` | program counters and locals of the two threads |
| `result`, `completed` | `ArchiveExtractTask::Result`, `Completed` |
| `buffer`, `available`, `sent`, `failed` | the client's buffer, what it was told is available, what the decoder handed over, a write went wrong |

### ExtractPrompt

`FileNames`, its binary search translated from `CObjectVector::FindInSorted`
(`src/7z/CPP/Common/MyVector.h:564-580`; `Turn` is one turn of its loop), prompts
of several sessions and clients in `Wait`.  Names are numbers, ordered as the file names are.  `inOrder`
is a history variable: the list has been in order at all times.

### ArchiveEntry

One open entry behind the exported functions.  `BufferEntry`, `ReadEntry`,
`SeekEntry` and `CloseEntry` are the calls; the actions between them are the
steps of the client thread in the order of the code (`BufferCheck`, `BufferPoll`,
`BufferTimeout`, `BufferWait`, `FailReadResult`, `FailReport`, `ReadFirst`,
`ReadAgain`, `SeekFirst`, `SeekAgain`, `CloseReport`, `CloseCancel`, `CloseJoin`).
The task asks for a password, writes, ends, closes its writers and sets
`Completed`; each is a step.  `Init` covers entries that are cached or fresh,
encrypted or plain, with or without a handler.  One call of the stream is one
step here, which is what `FileStream` establishes.  A wrong password is refused,
with nothing written, only by a format that tests it first (Zip, RAR 5);
otherwise the decoder writes what it makes of the data, stops anywhere, and the
task may end with S_OK, as it does for every failure of a decoder
(`ArchiveExtractCallback.cpp:175-184`).  `Unnoticed` names that case.

### TempName

`GetFileName`: a 64 bit hash, written in decimal limbs because TLC's integers
have 32 bits, of which the first eight decimal digits become the name of the
temp file.  Operators only; assumptions of `MCTempCache` evaluate them on names
whose hash does and does not wrap around, and tie the paths of its instances to
them.

### TempCache

Sessions of any number of processes on one temp folder.  `Find` is the length a
directory shows, which lags behind for a file that is being written; `Create`
and `Open` are the two ways `OpenFile` goes on; `OpenFails` is a sharing
violation; `Extract`, `Close` and `Crash` end in a file that stays; a session may
end as `leaked`, when the thread does not start (`Archive.cpp:142-165`).
`StartCleanup` and `Visit` are `ARCHIVE_Cleanup`.  `raced` and `old` are history
variables.

### BassStream

`BASS_ZIPSTREAM_StreamCreateFile` on top of `ArchiveEntry`: open, read the
configuration, ask for the minimum, hand the handle to BASS, and close it on
whichever path the stream ends.  `bass` is where the stream is; the actions of
the entry run inside `EntryTask`, `EntryCall` and `UserAnswers`.  `Positions` is
the arithmetic of lines 89-94: floats are numbers of `Precision` binary digits,
rounded to nearest with ties to even, and the product is rounded or not, as
compilers keep it in a register.  A position beyond the end is represented by
`Size + 1`: `Buffer` refuses them all by the same test (`ArchiveEntry.cpp:66`).
`WidthAssumption` is that the length is a QWORD and a percentage a DWORD.  BASS itself is external: it reads and seeks as
it likes, then succeeds or fails, and closes the file when it fails (comment at
`:113`) or is freed.  `SetConfig` happens at any time.  `closes` is a history
variable.

### PinnedHandler, EntryHandle, Application

`PinnedHandler` follows a password handler from `Archive.GetPassword` of the
managed wrapper to the threads that call it.  `GetPassword`, `Pin` and
`SetPrompt` are the three steps of a registration (the old handle leaves the
dictionary, the new one enters it unless another thread was faster, native code
gets the pointer), `Ask`, `Test`, `Invoke` and `Answered` those of an extraction
thread in `__prompt2__`, which reads the pointer once or twice.  `Collect` is the
runtime: it takes delegates that neither the dictionary nor a call keeps.

`EntryHandle` is `ARCHIVE_OpenEntry` step by step.  `holds` is what a call has
acquired, `Parts` what a whole entry consists of, `leaked` what nobody has a
pointer to any more.  `Allocate`, `NewArchive`, `OpenArchive`, `NewEntry`,
`ExtractEntry` and `NotAFile` succeed or throw, `Fail` is the code behind the `try`
block, `CloseEntry` and `Join` give everything back, `CloseNothing` is the close of
a null handle.  `error` is `LastError`, named by what could not be had; `mine` and
`disturbed` are history variables.

`Application` puts both together; `overlapped` is a history variable about the
last registration: it met another one or an open entry.  A later one that meets
neither makes it false again, so that what the earlier ones left behind in the
dictionary and in native code counts.  The tests never overlap: they register, open and close entries, and clear
(`src/ManagedBass.ZipStream.Tests/Utils.cs:172-211`).

## 4. Runs

| run | instance | shows |
|---|---|---|
| `stream` | an entry of 3 bytes, requests of at most 2 | type, exclusion, no stranded waiter, prefix, complete reads, the inductive invariant, the refinement of `EntryStream`, and that calls return and the task completes |
| `entry` | 2 bytes, reads of up to 3, 2 turns of the wait loop, no damage | position, Buffer and Seek are backed by data unless a wrong password goes unnoticed, what was available stays, Buffer does not give up under a prompt, nothing used after the free, every call returns |
| `prompt` | 3 sessions on 2 archives, 2 prompts each | no prompt takes another's name off the list; on a sorted list the search is exact; while the list stays sorted, finished prompts are not found and `Wait` returns; the inductive invariant of the proofs |
| `cache` | 3 sessions, 3 entries, 2 of which share a path, damage possible | an extraction is alone with its file, a reader's file does not change, a reused file has the length it was judged by, a `TRUE` of Cleanup means all deleted |
| `bass` | 5 bytes, floats of 4 digits, minima 0, 60, 150 | the handle is closed once, the minimum is there (unless a wrong password goes unnoticed) and inside the entry, a refusal leaves an error, the creation returns |
| `app` | 2 sessions, 2 registering threads, 2 handlers | whichever step fails, a caller has a whole entry or nothing; only what belongs to an entry leaks; an undisturbed error is the caller's own; the handler that is called is alive if the last registration met neither another one nor an open entry |
| `prompt_hidden`, `entry_read_zero`, `entry_damaged`, `cache_overlap`, `cache_collision`, `bass_rounding` | small instances of the above | findings, section 7 |

Why the bounds are enough:

- *Stream.*  With three bytes and requests of one or two, an entry takes two or
  three writes and reads that are short, exact and empty; the reader is behind,
  at and (after a swallowed data error) beyond the end of the file, and both
  threads are at every step of their calls when the other closes.  A longer file
  adds no new order of the pointer and the two positions.
- *Entry.*  Two bytes have a partly extracted state; offsets are 0 to `Size`+1,
  so before, at and beyond the end.  `Timeout` 2 tells the last turn of the wait
  loop from the others.  Read length 3 exceeds the entry.
- *Prompts.*  Two archives in either order are enough to put the list out of
  order, two sessions on one of them to list a name twice, and lists of three to
  search left, right and hit; `MaxPrompts` 2 lets a session prompt again.
- *Stream creation.*  Four digits put the first number that is not a float at 17,
  so that a length of 5 stands for those below 2^24 and 31 for those above; 0 is
  the unset configuration, 60 a part of the entry, 150 more than all of it.  The
  computation may fall two bytes short; of five bytes 60 percent are three, so
  that the minimum still says something of the part as well as of the whole.
- *Cache.*  Three sessions let a third interfere with two that are at their
  search and their extraction.  Of two entries with one path the lengths are 1
  and 2, so a partial file of one has the length of the other.  Sessions are
  symmetric and interchangeable, no property names one, and no liveness is
  checked there.

- *Application.*  Two sessions let one open, fail or close while the other has an
  error to read; two registrations overlap; the second handler replaces the
  first.  Sessions, registering threads and handlers are symmetric, and no
  liveness is checked there.

`CHECK_DEADLOCK FALSE` stands where the system really stops: a closed stream or
entry, sessions that have used up their prompts, and threads that have called a
handler that is gone, whose call does not come back.  The cache never stops, and
the configuration of `BassStream` can always be set.

## 5. Fairness

- `FileStream`: weak fairness of each thread's next step, because the scheduler
  runs both; not of `ClientCall` or `Cancel`, since nothing makes a client call.
  Strong fairness of taking the semaphore: while it is shared each thread
  releases it after a bounded number of steps, and the system's semaphore wakes
  a waiter rather than letting it lose to the other thread for ever.  Without it
  a client that polls without end could in principle starve the task.
- `ArchiveEntry`: weak fairness of the task, of the client's steps inside a call,
  and of `Answer`: a password prompt is answered or cancelled in the end.  That
  is an assumption about the user; `CloseEntry` under an unanswered prompt does
  wait (`Archive.cpp:178-183`).  New calls are not fair.
- `ExtractPrompt`: the same, per session.
- `BassStream`: those of `ArchiveEntry`, its own steps, and strong fairness of
  BASS's decision, which says that BASS does not read for ever before it decides.
- The other modules check safety only.

## 6. Proofs

`NumberFacts` holds what the proofs need about numbers.  The library's induction
takes an operator, which the installed provers cannot instantiate; `SetInduction`
says the same of a set of numbers, and follows from the library's fact that an
injection of a finite set into itself is onto.  Powers of two come from the
library's fact about the number of subsets.  With them the proofs reach what a
recursive function computes.

`FileStream_proof`, for every entry length and request size:

- `Invariance`: `IInv` holds in every reachable state.  Its parts are the type
  invariant, `LockInv`, `TaskInv`, `FileInv`, `ClientInv`, `WritePointerInv` and
  `ReadPointerInv`.  Exclusion alone is not inductive, because `Begin` and `End`
  do nothing once `IsConcurrent` is off; `LockInv` carries the reason why that is
  safe: it is only switched off by a thread that is closing its end and will
  make no more transfers, and until then the semaphore is taken exactly if a
  thread is inside.  Nor is the prefix property: `WritePointerInv` says that
  the pointer is where the writer needs it or its flag says otherwise, counting
  the moment between the client's transfer and its raising of the flag.
- `Typing`, `Exclusion`, `WaitersServed`, `FileIsPrefix`, `ReadsAreComplete`: the
  run's properties as consequences.
- `Refinement`: `Spec => Stream!Spec`, step by step from `IInv`.
- `DeviceExclusion`: exclusion and the service of waiters also under `DeviceSpec`;
  the typing and `LockInv` alone are inductive there.

`ExtractPrompt_proof`, for any sessions, archives and number of prompts:

- `FindIsSound`, `FindIsComplete`: the binary search on lists of any length.  A
  function that satisfies the recursion exists, built over the lengths of the
  windows `list[left + 1 .. right]`, and by the same induction what it answers is
  -1 or the index of an entry with the name, and on an ordered list not -1 when
  there is one.
- `PromptInvariance`: `PromptListInv`, the typing with `CountInv` and the order of
  the list.  That each prompt is listed is inductive only as a count: a name is in
  the list at least as often as prompts for it are in progress, and `RemoveFile`
  takes one occurrence of that name (`FindIsSound`).  While the list has stayed in
  order the count is exact, for `RemoveFile` then finds what it looks for
  (`FindIsComplete`).
- `PromptTypeOK`, `PromptsListed`, `SearchExact`, `NobodyWaitsForThePast`: the run's
  invariants as consequences.
- `VisibleWhenSorted`, `OneArchiveIsSafe`: how far `PromptVisible`, which
  `prompt_hidden` refutes, does hold: wherever the list is in order, and always
  when the open entries are all of one archive.

`ArchiveEntry_proof`, for every length, read length and timeout:

- `Invariance`, `Typing`, `JoinedBeforeFree`, `AvailableKept`: from `IInv`, which
  adds to the type invariant that a task with a result writes no more, that only
  a closing client closes the writer under a task without a result, and that the
  wait loop waits for the position its caller asked for.
- `DataPromises`, `ReaderIsBacked`, `SeeksLand`: for entries that are not damaged
  (`MayDamage = FALSE`), `BufferTrueMeansData`, `PositionBacked` and `SeekLands`.
  These say of themselves what they except: an archive opened with a wrong
  password that nobody noticed (`Unnoticed`), which stays so (`UnnoticedStays`).
  `DataInv` states the promises of every call that returned, also while the next
  one runs, which is what makes them inductive.
- `PromptIsAwaited`: `PromptAwaited`, from the fact that a task asks once; a task
  that was asking at the last turn of the loop has been answered when Buffer
  gives up.

`TempCache_proof`, for any sessions, entries, paths and lengths:

- `Types`, `WriterIsAlone`, `SkippedFileIsWhole`, `CleanupIsComplete`: from `IInv`.  It
  adds that a session holds a handle exactly where `at` says so (`HandleInv`),
  that two handles on one path are in modes that admit each other
  (`SharingInv`), that a file under extraction is the extracting session's own
  (`OwnerInv`), that a session which decided to skip and was not raced still sees
  the length it saw (`SkipInv`), and what Cleanup has left (`CleanupInv`).
- `ReadersAreUndisturbed`: the action property, from the same invariant.
- `SkippedFileIsEntry`: if paths are never shared and wrong data, of a damaged
  archive or a wrong password, never goes unnoticed, a session that skips its
  extraction and was not raced reads all of its own entry.  So the collision, the
  race and wrong data are the only ways to violate
  `SkippedIsEntry`; each assumption takes one of them away.

`TempName_proof`, for every name and index:

- `TurnIsUInt64`: the arithmetic on three limbs is that of a 64 bit integer; a
  turn of the hash is `31 * x + n` modulo 2^64.
- `HashIsLoop`: for a name of any length the fold of these turns is a UInt64, and
  its number is the last of the sequence that the loop of `GetFileName` goes
  through.  It assumes only that a character and the index together are below 2^64.
- `NameIsLeadingDigits`: `Left8` divides the hash by a power of ten and leaves eight
  digits, or leaves it alone if it has no more.

`BassStream_proof`, for any entry, configuration and precision:

- `StreamClosesOnce`, `RefusalIsTold`: without further assumptions.  `HandleInv`
  ties the state of the stream to the call its entry is in.  `ReportInv` follows
  the error through the two reports that write it; it is S_PENDING in the end
  only for an extraction that ended well.
- `StreamIsClient`: `StreamSpec => Spec` of `ArchiveEntry`, so that all that is
  proved there holds of an entry that BASS plays, whatever its length; `StreamTypes`
  follows.  Neither assumes anything of the positions: that the computation gives
  a number at all, of any QWORD and DWORD, is `PositionsAreNumbers`, and one beyond
  the end is a call that an arbitrary client may make as well.
- `ArithmeticOfShortEntries`: for an entry whose length is below 2^`Precision` (2^24
  bytes in the program), and for every percentage a DWORD can hold, all positions
  the computation can give lie inside the entry and at most two bytes below the
  exact one (`Arithmetic`).  Such a length is a float and is not rounded; the
  factor is at most one, and its rounding and that of the product are each off by
  less than a byte.
- `ShortEntriesInside`, `ShortEntriesAvailable`: so such a stream never waits for a
  position beyond the end, and, of an undamaged entry and unless a wrong password
  goes unnoticed, its minimum is extracted when BASS begins.  The lemmas
  `MinimumIsInside` and `MinimumIsAvailable` are the part of the argument about the
  steps of the stream, under `Arithmetic`; run `bass` finds it for its instance and
  `bass_rounding` refutes it for a longer entry.

`Application_proof`, for any sessions, registering threads and handlers:

- `AppInvariance` and, from it, `AppTypes`, `NothingHalfOpen`, `LeaksAreBounded`,
  `ErrorIsOwn`, `HandlerStaysAlive`.  `HoldInv` says what has been acquired at each step of
  OpenEntry, `ErrorInv` that LastError is that of a failed call until another one
  disturbs it.  `HandlerLive` is inductive only with the reason why an idle
  application has no callers: `RunInv`, that a thread runs only while there is a
  handle to close, which is what the join of CloseEntry is for, and `PinInv`,
  that native code has what the dictionary keeps while nobody registers, unless
  the last registration overlapped.  A lone registration establishes `PinInv`
  whatever earlier races have left (`PinStart`), for `Pin` first takes out the
  handle it finds.

The proofs assume only the named `ASSUME`s of the modules, about their constants,
and what a theorem names under its own ASSUME.

Every invariant and action property of the passing runs is a theorem, a few
under an assumption that the theorem names (undamaged entries, short entries).
Only model-checked: liveness (`CallsReturn`, `TaskCompletes`, `WaitReturns`,
`CreationReturns`), for the prover reaches neither fairness nor ENABLED; that the
temp file names of an archive's entries differ, which `ApartAssumption` of
`MCTempCache` evaluates for some names; and `Arithmetic` of an entry of 2^24 bytes
or more, where it fails for some lengths and holds for others.

## 7. Findings

- `prompt_hidden`: `AddFile` appends (`ArchiveExtractPrompt.cpp:14`), `ContainsFile`
  searches as if the list were sorted.  With prompts of two archives up, one is
  not found, and `Buffer` times out under a prompt.  One archive cannot show it
  (`OneArchiveIsSafe`).  `RemoveFile` searches in the
  same way and can leave a name behind, which keeps a later `Wait` in its loop.
- `entry_read_zero`: after a timeout `ReadEntry` returns 0 in the middle of a
  healthy entry, which the loop of the repository's own README takes for the end.
- `entry_damaged`: `SetOperationResult` drops all failures but a wrong password
  (`ArchiveExtractCallback.cpp:182`), and the entry counts as fully available.
  The same line serves a wrong password badly in an archive that is intact.  Zip
  and RAR 5 test the password before they decode, Zip by one byte
  (`src/7z/CPP/7zip/Archive/Zip/ZipHandler.cpp:1191-1194`) or two, so that one
  wrong password in 256 or in 65536 passes.  7z and the older RAR never report
  `kWrongPassword`: they decode what comes out and end with a data error or a
  checksum error (`src/7z/CPP/7zip/Archive/Rar/RarHandler.cpp:1743, 1751-1765`).
  The task then ends with S_OK, as for a damaged entry, and if the garbage has the
  full length it stays in the temp folder and is served to the next session, which
  may have the right password.
- `cache_overlap`: between `Find` and the opening (`ArchiveExtractCallback.cpp:71`)
  another session may cut the file or Cleanup may delete it; the session then
  reads what is left, or an empty file, and extracts nothing.
- `cache_collision`: the eight leading digits of the hash hardly depend on the
  last characters of a name (`ArchiveExtractCallback.cpp:34`).  `C:\Disc1.zip` and
  `C:\Disc2.zip`, whose names the model computes, share temp files.
- `bass_rounding`: the length is rounded to a float before it is multiplied
  (`bass_zipstream.cpp:94`).  With a minimum of 100 percent an entry of 16777219
  bytes is asked for up to 16777220, which `Buffer` refuses, so that its stream is
  never created.  Below 2^24 bytes it cannot happen (`ShortEntriesInside`).

Met while modelling and not the subject of a run: a read moves the shared pointer
before it calls `ReadFile`, but raises `WriteDirty` only for transferred bytes
(`CFileStream.cpp:107`).  If `ReadFile` fails, the next write lands at the reader's
position; after a further read the writer continues in its place, and the file
can reach the entry's length with wrong contents, by which a later session
accepts it.  TLC shows the misplaced write as a violation of `PrefixIntact` when
`MCFileStream` is run with `SPECIFICATION DeviceSpec`.

Met while reading and not the subject of a run: a minimum of zero is taken for
unset and becomes 20 (`Config.cpp:12`), so the test `factor > 0` never fails;
BufferEntry can report S_PENDING for an extraction that ended between its two
looks (`ArchiveEntryInterface.cpp:140-142`); beyond the end `SeekEntry`
answers TRUE without a move (`ArchiveEntryInterface.cpp:193`); wrong data of the
right length stays in the cache and is served again (`MayDamage` in
`TempCache`); `ArchiveError.cs:11-12` of the managed wrapper
gives E_NOT_A_FILE and E_TIMEOUT other values than `ErrorInterface.h:9-10`, so its
comparisons never match; `LastError` is read and cleared without a lock, and a
thread can lose its error to another (`ErrorInterface.cpp:5-13`; `ErrorOwn` is about
errors that no other thread has disturbed); a prompt that is answered between the last turn of
Buffer's loop and its search for a prompt is not followed by a retry
(`ArchiveEntry.cpp:83`; `PromptAwaited` says what Buffer does guarantee);
`ARCHIVE_Release` deletes a `void*`, which runs no destructor
(`ArchiveInterface.cpp:135`); an OpenEntry that fails in `Archive::OpenEntry` leaks
the `ArchiveEntry`, which no pointer has left (`Archive.cpp:167-171`; `OnlyEntriesLeak`
bounds what can be lost); `Handles.Pin` tells whether it pinned, and
`Archive.GetPassword` ignores it (`Archive.cs:87`), so of two registrations at a
time one may reach native code that nothing keeps, until the next registration
that meets no other; a handler replaced or cleared while an entry is open may be
called after it is gone, for `Handles.Pin` frees the old one
(`src/ManagedBass.ZipStream/Handles.cs:14`) before native code gets the new pointer
(`ArchiveInterface.cpp:167`), and `__prompt2__` reads that without a lock
(`:151, 156`).
`HandlerLive` promises nothing in these two cases.

## 8. Abstractions and what is not modelled

- One client thread per entry, as the functions are used by BASS and by the
  tests.  The decoder writes the entry in order and never more than its size.
- A format that tests the password refuses a wrong one before anything is
  written.  One that does not, or whose test is passed by chance, writes any part
  of the entry's length, also all of it, and ends with S_OK or with the failure of
  a write.  What `written` counts is then the decoder's output, which need not be
  the entry's data.  `PositionBacked`, `BufferTrueMeansData`, `SeekLands` and
  `MinimumAvailable` therefore except `Unnoticed`; the other properties hold through
  it.  A cached file is not decrypted, so `Unnoticed` is about the session that
  extracts; in `TempCache` wrong data of either origin is the same (`MayDamage`).
- A crash is that of a process; its writes survive.  A crash of the whole system,
  which may lose them, is not modelled.
- `CFileStreamWriter::SetSize`, which nothing calls, is left out of `FileStream`.
  A failing `ReadFile` is in `DeviceSpec` only: the data properties of `Spec` do
  not survive it (section 7).
- `ArchiveEntry` reads the handler pointer in one step; `PinnedHandler` tests and
  calls it in two.
- `EntryHandle` leaves out calls with null arguments, which return at once, names
  errors by the part of the work that failed, and takes an error code that the
  code "hopefully" gets from Windows (`Archive.cpp:58, 149, 160`) to be one.  The
  failing opening of a file and the reading of its archive are one step.  Its
  thread ends in one step with its completion; `ArchiveEntry` has the steps.
- That 7-Zip's handler keeps the archive's file open until it is closed or
  released, and that a task which did not start keeps the handler, is taken from
  how `src/7z/` is used.
- A delegate is kept by the dictionary, a registration in progress or a call
  in progress, and by nothing else; an application that keeps its handlers itself
  can only be safer.
- Not modelled, with the reason, in `PROJECT.json`: the codec tables, BASS, the C
  runtime stubs, the managed declarations.

## 9. Running

    tlc -config MCFileStream.cfg MCFileStream      # and likewise the other runs
    tlapm FileStream_proof.tla
    tlapm ArchiveEntry_proof.tla                   # and likewise the other proofs

`PROJECT.json` lists the runs, the mutants of each property and the lines of
code that each definition stands for.
