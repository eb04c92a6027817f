----------------------------- MODULE TempCache ------------------------------
(***************************************************************************)
(* The temp files that sessions leave to one another                       *)
(* (ArchiveExtractCallback::OpenFile, Cleanup; CFileStream::Create, Open;  *)
(* CFile::Open).  A session is one opened entry, in any process; the only  *)
(* thing that sessions share is the temp folder, and the sharing modes of  *)
(* CreateFile are all that keeps them apart.                               *)
(***************************************************************************)
EXTENDS Integers

CONSTANTS
  Sessions,
  Entries,      \* entries of archives
  Paths,        \* names in the temp folder
  PathOf,       \* the temp file of an entry: ArchiveExtractCallback::GetFileName
  SizeOf,       \* its length
  MayDamage,    \* TRUE: extraction may produce wrong data without an error
  Nothing       \* no entry, no file

ASSUME PathAssumption    == PathOf \in [Entries -> Paths]
ASSUME SizeAssumption    == SizeOf \in [Entries -> Nat \ {0}]
ASSUME DamageAssumption  == MayDamage \in BOOLEAN
ASSUME NothingAssumption == Nothing \notin Entries \cup [of : Entries, len : Nat, good : BOOLEAN]

VARIABLES
  file,       \* per path: Nothing, or whose data it holds, how much, and whether it is right
  at,         \* where each session is
  entry,      \* the entry it opens, or Nothing
  overwrite,  \* what OpenFile decided
  access,     \* the access its handle on the file has, {} for none
  left,       \* the files Cleanup has still to visit
  success,    \* Cleanup has deleted all it visited
  old,        \* (history) files that were there when Cleanup began and still are
  raced       \* (history) the file may have changed since OpenFile looked at it

session == <<at, entry, overwrite, access>>
cleaner == <<left, success, old>>
vars    == <<file, session, cleaner, raced>>

Path(s) == PathOf[entry[s]]

Empty(e) == [of |-> e, len |-> 0, good |-> TRUE]
Whole(e) == [of |-> e, len |-> SizeOf[e], good |-> TRUE]

Init ==
  /\ file = [p \in Paths |-> Nothing]
  /\ at = [s \in Sessions |-> "closed"]
  /\ entry = [s \in Sessions |-> Nothing]
  /\ overwrite = [s \in Sessions |-> FALSE]
  /\ access = [s \in Sessions |-> {}]
  /\ left = {} /\ success = TRUE /\ old = {}
  /\ raced = [s \in Sessions |-> FALSE]

-----------------------------------------------------------------------------
(* CreateFile grants an access if every open handle on the file shares it  *)
(* and the new handle shares the access of all of them.                    *)

FaultyShare == {"read", "write"}
Share == {"read"}

Holds(s, p) == access[s] # {} /\ Path(s) = p

Granted(p, wanted, shared) ==
  \A t \in Sessions : Holds(t, p) => wanted \subseteq Share /\ access[t] \subseteq shared

(* Sessions that have looked at a file and not opened it yet. *)
Race(p, others) ==
  raced' = [t \in Sessions |->
              raced[t] \/ (t \in others /\ at[t] = "found" /\ Path(t) = p)]

-----------------------------------------------------------------------------
(* OpenFile: look for the file ...                                         *)

Written(p) == \E t \in Sessions : Holds(t, p) /\ "write" \in access[t]

(* The length a directory shows: of a file that is being written, any      *)
(* length it has had; of no file, none.                                    *)
Found(p) ==
  IF file[p] = Nothing THEN {-1}
  ELSE IF Written(p) THEN 0..file[p].len
  ELSE {file[p].len}

FaultyOverwrite(size, e) == size = -1       \* any file will do
Overwrite(size, e) == size # SizeOf[e]

Find(s) ==
  /\ at[s] = "closed"
  /\ \E e \in Entries : \E size \in Found(PathOf[e]) :
       /\ entry' = [entry EXCEPT ![s] = e]
       /\ overwrite' = [overwrite EXCEPT ![s] = Overwrite(size, e)]
       /\ raced' = [raced EXCEPT ![s] = Written(PathOf[e])]
  /\ at' = [at EXCEPT ![s] = "found"]
  /\ UNCHANGED <<file, access, cleaner>>

(* ... and open it.  If the thread of the extraction does not start, the   *)
(* callback, its file and the handle stay behind (Archive::ExtractEntry).  *)
Opened(s, kind, wanted) ==
  /\ Granted(Path(s), wanted, Share)
  /\ access' = [access EXCEPT ![s] = wanted]
  /\ \E state \in {kind, "leaked"} : at' = [at EXCEPT ![s] = state]

(* CREATE_ALWAYS: a new file, or the old one cut to nothing. *)
Create(s) ==
  /\ at[s] = "found" /\ overwrite[s]
  /\ Opened(s, "extracting", {"read", "write"})
  /\ file' = [file EXCEPT ![Path(s)] = Empty(entry[s])]
  /\ old' = old \ {Path(s)}
  /\ Race(Path(s), Sessions \ {s})
  /\ UNCHANGED <<entry, overwrite, left, success>>

(* OPEN_ALWAYS: the file there is, or a new one.  Nothing is extracted.    *)
Open(s) ==
  /\ at[s] = "found" /\ ~overwrite[s]
  /\ Opened(s, "reading", {"read"})
  /\ file' = IF file[Path(s)] = Nothing
             THEN [file EXCEPT ![Path(s)] = Empty(entry[s])] ELSE file
  /\ UNCHANGED <<entry, overwrite, cleaner, raced>>

Ended(s) ==
  /\ at' = [at EXCEPT ![s] = "closed"]
  /\ entry' = [entry EXCEPT ![s] = Nothing]
  /\ overwrite' = [overwrite EXCEPT ![s] = FALSE]
  /\ access' = [access EXCEPT ![s] = {}]
  /\ raced' = [raced EXCEPT ![s] = FALSE]
  /\ UNCHANGED <<file, cleaner>>

(* A sharing violation: OpenEntry fails. *)
OpenFails(s) ==
  /\ at[s] = "found"
  /\ ~Granted(Path(s), IF overwrite[s] THEN {"read", "write"} ELSE {"read"}, Share)
  /\ Ended(s)

(* The extraction writes; damaged data, or data that a wrong password has  *)
(* made of it, need not be noticed.                                        *)
Longer(f, right) == [of |-> f.of, len |-> f.len + 1, good |-> f.good /\ right]

Extract(s) ==
  /\ at[s] = "extracting"
  /\ LET p == Path(s)
     IN  /\ file[p].len < SizeOf[entry[s]]
         /\ \E right \in IF MayDamage THEN BOOLEAN ELSE {TRUE} :
              file' = [file EXCEPT ![p] = Longer(@, right)]
  /\ UNCHANGED <<session, cleaner, raced>>

(* CloseEntry, before the extraction is over or after; the file stays.  A  *)
(* process that dies closes its handles too, the leaked ones included.     *)
Close(s) ==
  /\ at[s] \in {"extracting", "reading"}
  /\ Ended(s)

Crash(s) ==
  /\ at[s] # "closed"
  /\ Ended(s)

-----------------------------------------------------------------------------
(* ArchiveExtractCallback::Cleanup enumerates the temp files.              *)

StartCleanup ==
  /\ left = {}
  /\ left' = {p \in Paths : file[p] # Nothing}
  /\ old' = left'
  /\ success' = TRUE
  /\ UNCHANGED <<file, session, raced>>

(* DeleteFileW wants an access that no handle shares. *)
Deletable(p) == Granted(p, {"delete"}, {"read", "write", "delete"})

FaultyVisited(p) == success                    \* only the last file counts
Visited(p) == success /\ Deletable(p)

Visit ==
  /\ left # {}
  /\ \E p \in left :
       /\ left' = left \ {p}
       /\ IF file[p] = Nothing THEN UNCHANGED <<file, success, old, raced>>
          ELSE /\ success' = Visited(p)
               /\ IF Deletable(p)
                  THEN /\ file' = [file EXCEPT ![p] = Nothing]
                       /\ old' = old \ {p}
                       /\ Race(p, Sessions)
                  ELSE UNCHANGED <<file, old, raced>>
  /\ UNCHANGED session

-----------------------------------------------------------------------------
Next ==
  \/ \E s \in Sessions : \/ Find(s) \/ Create(s) \/ Open(s) \/ OpenFails(s)
                         \/ Extract(s) \/ Close(s) \/ Crash(s)
  \/ StartCleanup \/ Visit

Spec == Init /\ [][Next]_vars

-----------------------------------------------------------------------------
Contents == {f \in [of : Entries, len : Nat, good : BOOLEAN] : f.len <= SizeOf[f.of]}

(* Each variable keeps its type: no file outgrows the entry it belongs to. *)
TypeOK ==
  /\ file \in [Paths -> {Nothing} \cup Contents]
  /\ at \in [Sessions -> {"closed", "found", "extracting", "reading", "leaked"}]
  /\ entry \in [Sessions -> Entries \cup {Nothing}]
  /\ \A s \in Sessions : at[s] # "closed" => entry[s] # Nothing
  /\ overwrite \in [Sessions -> BOOLEAN]
  /\ access \in [Sessions -> {{}, {"read"}, {"read", "write"}}]
  /\ left \subseteq Paths /\ old \subseteq Paths /\ success \in BOOLEAN
  /\ raced \in [Sessions -> BOOLEAN]

(* While a session extracts into a file no other session has it open, and  *)
(* it holds what this session has written: no other session cuts it, and   *)
(* Cleanup does not remove it.                                             *)
WriterAlone ==
  \A s \in Sessions : at[s] = "extracting" =>
    /\ \A t \in Sessions \ {s} : ~Holds(t, Path(s))
    /\ file[Path(s)] # Nothing /\ file[Path(s)].of = entry[s]

(* A file that a session reads does not change under it.                   *)
ReaderUndisturbed ==
  [][\A s \in Sessions :
       at[s] = "reading" /\ at'[s] = "reading" => file'[Path(s)] = file[Path(s)]]_vars

(* A session that skips the extraction gets a file of the length of its    *)
(* entry, whatever sessions before it were broken off or died, provided    *)
(* nobody wrote, cut or deleted the file between the search and the        *)
(* opening of it.                                                          *)
SkippedIsWhole ==
  \A s \in Sessions :
    at[s] = "reading" /\ ~raced[s] =>
      file[Path(s)] # Nothing /\ file[Path(s)].len = SizeOf[entry[s]]

(* What the tests expect of a file left by an earlier session: a session   *)
(* that skips the extraction reads its own entry, and all of it.           *)
SkippedIsEntry ==
  \A s \in Sessions : at[s] = "reading" => file[Path(s)] = Whole(entry[s])

(* When Cleanup returns TRUE nothing is left of what it found.             *)
CleanupComplete == left = {} /\ success => old = {}

-----------------------------------------------------------------------------
(* The inductive strengthening of the invariants above.                    *)

(* A session has a handle exactly where it says so.                        *)
HandleInv ==
  \A s \in Sessions :
    /\ (access[s] = {}) <=> at[s] \in {"closed", "found"}
    /\ at[s] = "extracting" => "write" \in access[s]
    /\ at[s] = "reading" => "write" \notin access[s]

(* A file open for writing is open once, and a file that is open is there. *)
SharingInv ==
  \A s \in Sessions : access[s] # {} =>
    /\ file[Path(s)] # Nothing
    /\ "write" \in access[s] => \A t \in Sessions \ {s} : ~Holds(t, Path(s))

(* A file that is extracted belongs to the entry that is extracted.        *)
OwnerInv == \A s \in Sessions : at[s] = "extracting" => file[Path(s)].of = entry[s]

(* A session that has decided to skip the extraction, or has skipped it,   *)
(* and was not raced has a whole file that nobody writes.                  *)
Skipping(s) == at[s] = "reading" \/ (at[s] = "found" /\ ~overwrite[s])

SkipInv ==
  \A s \in Sessions :
    Skipping(s) /\ ~raced[s] =>
      /\ file[Path(s)] # Nothing /\ file[Path(s)].len = SizeOf[entry[s]]
      /\ ~Written(Path(s))

(* What Cleanup has found is there, and as long as it has deleted all that *)
(* it visited, still to be visited.                                        *)
CleanupInv ==
  /\ \A p \in old : file[p] # Nothing
  /\ success => old \subseteq left

IInv == TypeOK /\ HandleInv /\ SharingInv /\ OwnerInv /\ SkipInv /\ CleanupInv
=============================================================================
