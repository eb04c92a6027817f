----------------------------- MODULE EntryHandle ----------------------------
(***************************************************************************)
(* What ARCHIVE_OpenEntry acquires step by step, gives back or leaves      *)
(* behind when one of the steps fails, and ARCHIVE_CloseEntry gives back   *)
(* (ArchiveEntryInterface.cpp, Archive.cpp, ArchiveEntry.cpp); and the     *)
(* error it leaves in the one LastError of the process                     *)
(* (ErrorInterface.cpp).  A session is a thread of the application that    *)
(* opens and closes entries, and closes what it has got from a call that   *)
(* failed as well.                                                         *)
(***************************************************************************)

CONSTANT Sessions

VARIABLES
  at,         \* where each session is
  handle,     \* *handle is not NULL
  holds,      \* what its call or its handle holds
  leaked,     \* what failed calls have left behind
  running,    \* the extraction thread of its entry runs
  error,      \* LastError, named by what could not be had
  mine,       \* (history) the error its last call has set
  disturbed,  \* (history) another call has set or cleared LastError since
  told        \* what ARCHIVE_GetLastError has read

parts   == <<at, handle, holds, leaked, running>>
errors  == <<error, mine, disturbed, told>>
opening == <<parts, errors>>

(* The memory of the handle, the Archive, its open file, the ArchiveEntry, *)
(* its callback, the temp file's handle, the task and its thread.          *)
Parts == {"memory", "archive", "file", "entry", "callback", "temp", "task"}

OpenInit ==
  /\ at = [s \in Sessions |-> "closed"]
  /\ handle = [s \in Sessions |-> FALSE]
  /\ holds = [s \in Sessions |-> {}]
  /\ leaked = {}
  /\ running = [s \in Sessions |-> FALSE]
  /\ error = "ok"
  /\ mine = [s \in Sessions |-> "ok"]
  /\ disturbed = [s \in Sessions |-> FALSE]
  /\ told = [s \in Sessions |-> "ok"]

-----------------------------------------------------------------------------
(* ARCHIVE_SetLastError.  Everybody who has not read its error yet loses it.*)

Disturb(s) ==
  [t \in Sessions |-> t # s /\ (disturbed[t] \/ at[t] \in {"failing", "failed"})]

FaultyRaised(e) == IF error = "ok" THEN e ELSE error   \* the first one stays
Raised(e) == e

SetLastError(s, e) ==
  /\ error' = Raised(e)
  /\ disturbed' = Disturb(s)
  /\ UNCHANGED told

(* An error of OpenEntry. *)
Fails(s, e) == SetLastError(s, e) /\ mine' = [mine EXCEPT ![s] = e]

(* A step succeeds, and its results are held; ... *)
Got(s, new, next) ==
  /\ holds' = [holds EXCEPT ![s] = @ \cup new]
  /\ at' = [at EXCEPT ![s] = next]
  /\ UNCHANGED <<leaked, errors>>

(* ... or throws, and nobody has a pointer to what it had made so far.     *)
(* Where the code throws what ::GetLastError says, "hopefully" an error, it *)
(* is one here.                                                            *)
Throws(s, e, lost) ==
  /\ Fails(s, e)
  /\ holds' = [holds EXCEPT ![s] = @ \ lost]
  /\ leaked' = leaked \cup lost
  /\ at' = [at EXCEPT ![s] = "failing"]

-----------------------------------------------------------------------------
(* ARCHIVE_OpenEntry. *)

Allocate(s) ==
  /\ at[s] = "closed"
  /\ \/ Got(s, {"memory"}, "new archive") /\ handle' = [handle EXCEPT ![s] = TRUE]
     \/ Fails(s, "archive") /\ at' = [at EXCEPT ![s] = "failed"]
        /\ UNCHANGED <<handle, holds, leaked>>
  /\ UNCHANGED running

(* new Archive loads the codecs; Open finds the format, opens the file and *)
(* reads the archive.                                                      *)
NewArchive(s) ==
  /\ at[s] = "new archive"
  /\ Got(s, {"archive"}, "open archive") \/ Throws(s, "archive", {})
  /\ UNCHANGED <<handle, running>>

OpenArchive(s) ==
  /\ at[s] = "open archive"
  /\ Got(s, {"file"}, "new entry") \/ Throws(s, "archive", {})
  /\ UNCHANGED <<handle, running>>

(* Archive::OpenEntry: new ArchiveEntry, and GetEntry.  The entry may be   *)
(* of no size, a folder.                                                   *)
NewEntry(s) ==
  /\ at[s] = "new entry"
  /\ \/ Got(s, {"entry"}, "extract")
     \/ Got(s, {"entry"}, "no file")
     \/ Throws(s, "entry", {"entry"})
  /\ UNCHANGED <<handle, running>>

(* Archive::ExtractEntry: OpenFiles, GetInStream, Start.  A task that does *)
(* not start keeps the archive it was made for open.                       *)
Lost == {{"entry", "callback"}, {"entry", "callback", "temp"},
         {"entry", "callback", "temp", "task", "file"}}

ExtractEntry(s) ==
  /\ at[s] = "extract"
  /\ \/ /\ Got(s, {"callback", "temp", "task"}, "open")
        /\ running' = [running EXCEPT ![s] = TRUE]
     \/ \E lost \in Lost : Throws(s, "entry", lost) /\ UNCHANGED running
  /\ UNCHANGED handle

NotAFile(s) ==
  /\ at[s] = "no file"
  /\ Throws(s, "not a file", {})
  /\ UNCHANGED <<handle, running>>

FaultyFreed == {"memory", "entry"}     \* forgets the archive
Freed == {"memory", "archive", "file", "entry"}

FaultyEmptied(given) == given          \* leaves a pointer to freed memory
Emptied(given) == FALSE

(* What is behind the try block. *)
Fail(s) ==
  /\ at[s] = "failing"
  /\ holds' = [holds EXCEPT ![s] = {}]
  /\ leaked' = leaked \cup (holds[s] \ Freed)
  /\ handle' = [handle EXCEPT ![s] = Emptied(@)]
  /\ at' = [at EXCEPT ![s] = "failed"]
  /\ UNCHANGED <<running, errors>>

-----------------------------------------------------------------------------
(* ARCHIVE_GetLastError, in its two steps. *)

ReadError(s) ==
  /\ at[s] = "failed"
  /\ told' = [told EXCEPT ![s] = error]
  /\ at' = [at EXCEPT ![s] = "clearing"]
  /\ UNCHANGED <<handle, holds, leaked, running, error, mine, disturbed>>

Forget(s) ==
  /\ mine' = [mine EXCEPT ![s] = "ok"]
  /\ told' = [told EXCEPT ![s] = "ok"]

ClearError(s) ==
  /\ at[s] = "clearing"
  /\ error' = "ok"
  /\ disturbed' = Disturb(s)
  /\ Forget(s)
  /\ at' = [at EXCEPT ![s] = "told"]
  /\ UNCHANGED <<handle, holds, leaked, running>>

-----------------------------------------------------------------------------
(* ARCHIVE_CloseEntry: of no handle; ... *)

CloseNothing(s) ==
  /\ at[s] \in {"failed", "told"} /\ ~handle[s]
  /\ at' = [at EXCEPT ![s] = "closed"]
  /\ disturbed' = [disturbed EXCEPT ![s] = FALSE]
  /\ Forget(s)
  /\ UNCHANGED <<handle, holds, leaked, running, error>>

(* of a handle: report what the task has ended with, ... *)
CloseEntry(s) ==
  /\ at[s] \in {"failed", "told", "open"} /\ handle[s]
  /\ \/ UNCHANGED errors
     \/ ~running[s] /\ SetLastError(s, "result") /\ UNCHANGED mine
  /\ at' = [at EXCEPT ![s] = "joining"]
  /\ UNCHANGED <<handle, holds, leaked, running>>

FaultyJoined(s) == TRUE                \* does not wait for the thread
Joined(s) == ~running[s]

(* wait for the thread, and delete everything. *)
Join(s) ==
  /\ at[s] = "joining" /\ Joined(s)
  /\ holds' = [holds EXCEPT ![s] = {}]
  /\ handle' = [handle EXCEPT ![s] = FALSE]
  /\ at' = [at EXCEPT ![s] = "closed"]
  /\ UNCHANGED <<leaked, running, errors>>

(* Another function of an open entry fails. *)
FunctionFails(s) ==
  /\ at[s] = "open"
  /\ SetLastError(s, "result")
  /\ UNCHANGED <<parts, mine>>

(* The extraction is completed, and its thread ends. *)
EndTask(s) ==
  /\ running[s]
  /\ running' = [running EXCEPT ![s] = FALSE]
  /\ UNCHANGED <<at, handle, holds, leaked, errors>>

SessionStep(s) ==
  \/ NewArchive(s) \/ OpenArchive(s) \/ NewEntry(s) \/ ExtractEntry(s) \/ NotAFile(s)
  \/ Fail(s) \/ ReadError(s) \/ ClearError(s) \/ FunctionFails(s)
  \/ CloseNothing(s) \/ CloseEntry(s) \/ Join(s)

-----------------------------------------------------------------------------
Places == {"closed", "new archive", "open archive", "new entry", "no file", "extract",
           "open", "failing", "failed", "clearing", "told", "joining"}
Errors == {"ok", "archive", "entry", "not a file", "result"}

(* Each variable keeps its type. *)
OpenTypeOK ==
  /\ at \in [Sessions -> Places]
  /\ handle \in [Sessions -> BOOLEAN] /\ running \in [Sessions -> BOOLEAN]
  /\ holds \in [Sessions -> SUBSET Parts] /\ leaked \subseteq Parts
  /\ error \in Errors /\ mine \in [Sessions -> Errors] /\ told \in [Sessions -> Errors]
  /\ disturbed \in [Sessions -> BOOLEAN]

(* A session that gets a handle gets a whole entry, whichever step of      *)
(* OpenEntry might have failed, and a session that gets none, or has       *)
(* closed its handle, is left with nothing it would have to close.         *)
AllOrNothing ==
  \A s \in Sessions :
    /\ at[s] \in {"open", "joining"} => handle[s] /\ holds[s] = Parts
    /\ at[s] \in {"failed", "clearing", "told", "closed"} => ~handle[s] /\ holds[s] = {}

(* A failed OpenEntry gives back the memory of its handle and its Archive; *)
(* what it may leave behind was made for the entry, and it leaves an entry *)
(* behind with it.                                                         *)
OnlyEntriesLeak ==
  /\ leaked \cap {"memory", "archive"} = {}
  /\ leaked # {} => "entry" \in leaked

(* A session that asks for the error of its call gets it, unless another   *)
(* call has set or cleared an error since.                                 *)
ErrorOwn ==
  \A s \in Sessions :
    at[s] = "clearing" /\ ~disturbed[s] => told[s] = mine[s] /\ told[s] # "ok"

-----------------------------------------------------------------------------
(* The inductive strengthening of the invariants above.                    *)

(* What OpenEntry has acquired when it comes to a step; and what a step    *)
(* that threw has left is what Fail gives back.                            *)
HoldInv ==
  \A s \in Sessions :
    /\ at[s] \in {"new archive", "open archive", "new entry", "extract", "no file",
                  "failing"} => handle[s]
    /\ at[s] = "new archive" => holds[s] = {"memory"}
    /\ at[s] = "open archive" => holds[s] = {"memory", "archive"}
    /\ at[s] = "new entry" => holds[s] = {"memory", "archive", "file"}
    /\ at[s] \in {"extract", "no file"} => holds[s] = {"memory", "archive", "file", "entry"}
    /\ at[s] = "failing" => holds[s] \subseteq Freed

(* The thread of an entry runs while there is a handle to close.           *)
RunInv == \A s \in Sessions : running[s] => at[s] \in {"open", "joining"}

(* LastError is that of a failed call until another call disturbs it.      *)
ErrorInv ==
  \A s \in Sessions :
    at[s] \in {"failing", "failed"} /\ ~disturbed[s] => error = mine[s] /\ mine[s] # "ok"

OpenInv == OpenTypeOK /\ HoldInv /\ RunInv /\ AllOrNothing /\ OnlyEntriesLeak
           /\ ErrorInv /\ ErrorOwn
=============================================================================
