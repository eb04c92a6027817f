--------------------------- MODULE ExtractPrompt ---------------------------
(***************************************************************************)
(* Password prompts (ArchiveExtractPrompt.cpp).  A task that needs a       *)
(* password lists its archive's name, calls the application's handler, and *)
(* takes the name off again; a client that ran into its buffer timeout     *)
(* stays in Wait for as long as its archive's name is listed.              *)
(*                                                                         *)
(* The list is process wide.  Names are appended at the end but looked up  *)
(* with a binary search, FindInSorted; names are numbers here, compared as *)
(* the file names are.                                                     *)
(***************************************************************************)
EXTENDS Integers, Sequences, FiniteSets, SequencesExt

CONSTANTS
  Session,     \* an open entry: its client and its extraction task
  NameOf,      \* the archive each session has opened
  MaxPrompts   \* bound on the prompts of one session

ASSUME NameAssumption == NameOf \in [Session -> Nat]
ASSUME PromptAssumption == MaxPrompts \in Nat

VARIABLES
  fileNames,   \* ArchiveExtractPrompt::FileNames
  handler,     \* ArchiveExtractPrompt::Handler is set
  task,        \* where each session's task is
  asked,       \* prompts each session has made
  client,      \* where each session's client is
  waited,      \* result of each client's running Wait
  inOrder      \* (history) the list has been in order all along

vars == <<fileNames, handler, task, asked, client, waited, inOrder>>

Name == {NameOf[s] : s \in Session}

-----------------------------------------------------------------------------
(* CObjectVector::FindInSorted: an index from 0, or -1. *)

FaultyUpperHalf(mid) == mid + 2   \* skips the neighbour
UpperHalf(mid) == mid + 1

(* A turn of its loop, with list[left + 1 .. right] still to be searched.  *)
Turn(list, name, search, left, right) ==
  LET mid == (left + right) \div 2
  IN  IF left >= right THEN -1
      ELSE IF name = list[mid + 1] THEN mid
      ELSE IF name < list[mid + 1] THEN search[<<left, mid>>]
      ELSE search[<<UpperHalf(mid), right>>]

Windows(list) == (0..Len(list)+1) \X (0..Len(list))

FindInSorted(list, name) ==
  LET search[w \in Windows(list)] == Turn(list, name, search, w[1], w[2])
  IN  search[<<0, Len(list)>>]

InOrder(list) == \A i, j \in DOMAIN list : i < j => list[i] <= list[j]

ContainsFile(name) == FindInSorted(fileNames, name) >= 0

(* The operators named Faulty... are seeded faults: no action uses them,   *)
(* they stand beside the operator a plausible mistake would turn into them.*)
FaultyWithoutOldest(list, name) == IF list = << >> THEN list ELSE Tail(list)
FaultyWithoutAny(list, name) == SelectSeq(list, LAMBDA e : e # name)
FaultyWithoutNone(list, name) == list

(* What RemoveFile leaves of a list. *)
Without(list, name) ==
  LET index == FindInSorted(list, name)
  IN  IF index >= 0 THEN RemoveAt(list, index + 1) ELSE list

-----------------------------------------------------------------------------
Init ==
  /\ fileNames = << >>
  /\ handler = FALSE
  /\ task = [s \in Session |-> "extracting"]
  /\ asked = [s \in Session |-> 0]
  /\ client = [s \in Session |-> "idle"]
  /\ waited = [s \in Session |-> FALSE]
  /\ inOrder = TRUE

(* Each change of the list. *)
Relist(list) ==
  /\ fileNames' = list
  /\ inOrder' = (inOrder /\ InOrder(list))

(* ARCHIVE_GetPassword installs a handler; none is ever taken out. *)
SetHandler ==
  /\ handler' = TRUE
  /\ UNCHANGED <<fileNames, task, asked, client, waited, inOrder>>

FaultyListed(s) == -1 - NameOf[s]  \* another name than the one Wait looks for
Listed(s) == NameOf[s]

(* Prompt: AddFile, then the handler is running. *)
Prompt(s) ==
  /\ task[s] = "extracting" /\ handler
  /\ asked[s] < MaxPrompts
  /\ Relist(Append(fileNames, Listed(s)))
  /\ asked' = [asked EXCEPT ![s] = @ + 1]
  /\ task' = [task EXCEPT ![s] = "asking"]
  /\ UNCHANGED <<handler, client, waited>>

(* Without a handler the task is refused and its extraction ends. *)
PromptRefused(s) ==
  /\ task[s] = "extracting" /\ ~handler
  /\ task' = [task EXCEPT ![s] = "refused"]
  /\ UNCHANGED <<fileNames, handler, asked, client, waited, inOrder>>

(* The user answers or cancels and the handler returns. *)
Answer(s) ==
  /\ task[s] = "asking"
  /\ task' = [task EXCEPT ![s] = "answered"]
  /\ UNCHANGED <<fileNames, handler, asked, client, waited, inOrder>>

RemoveFile(s) ==
  /\ task[s] = "answered"
  /\ Relist(Without(fileNames, NameOf[s]))
  /\ task' = [task EXCEPT ![s] = "extracting"]
  /\ UNCHANGED <<handler, asked, client, waited>>

StartWait(s) ==
  /\ client[s] = "idle" /\ handler
  /\ client' = [client EXCEPT ![s] = "waiting"]
  /\ waited' = [waited EXCEPT ![s] = FALSE]
  /\ UNCHANGED <<fileNames, handler, task, asked, inOrder>>

AfterPoll(name) == IF ContainsFile(name) THEN "waiting" ELSE "idle"

(* One turn of Wait's loop, under the critical section. *)
Poll(s) ==
  /\ client[s] = "waiting"
  /\ client' = [client EXCEPT ![s] = AfterPoll(NameOf[s])]
  /\ waited' = [waited EXCEPT ![s] = @ \/ ContainsFile(NameOf[s])]
  /\ UNCHANGED <<fileNames, handler, task, asked, inOrder>>

Next ==
  \/ SetHandler
  \/ \E s \in Session :
       \/ Prompt(s) \/ PromptRefused(s) \/ Answer(s) \/ RemoveFile(s)
       \/ StartWait(s) \/ Poll(s)

Spec == Init /\ [][Next]_vars

(* The user answers in the end, and every thread runs. *)
Fairness ==
  \A s \in Session : WF_vars(Answer(s)) /\ WF_vars(RemoveFile(s)) /\ WF_vars(Poll(s))

FairSpec == Spec /\ Fairness

-----------------------------------------------------------------------------
Occurrences(name) == Cardinality({i \in DOMAIN fileNames : fileNames[i] = name})
Prompting(name)   == {s \in Session : NameOf[s] = name /\ task[s] \in {"asking", "answered"}}

(* The list holds names, the threads are where a thread can be. *)
TypeOK ==
  /\ fileNames \in Seq(Name)
  /\ handler \in BOOLEAN
  /\ task \in [Session -> {"extracting", "asking", "answered", "refused"}]
  /\ asked \in [Session -> 0..MaxPrompts]
  /\ client \in [Session -> {"idle", "waiting"}]
  /\ waited \in [Session -> BOOLEAN]
  /\ inOrder \in BOOLEAN

(* A prompt in progress is in the list, whatever order the prompts of the  *)
(* sessions come and go in: RemoveFile never takes another's entry.        *)
EveryPromptListed ==
  \A n \in Name : Occurrences(n) >= Cardinality(Prompting(n))

(* On a list that happens to be in order the search is exact, so a client  *)
(* that looks while a prompt for its archive is up finds it.               *)
SearchExactWhenSorted ==
  InOrder(fileNames) => \A n \in Name : ContainsFile(n) <=> Occurrences(n) > 0

(* As long as the list has stayed in order, a name found in it belongs to  *)
(* a prompt that is still in progress: nobody waits for one that is over.  *)
NoStalePrompt ==
  inOrder => \A n \in Name : ContainsFile(n) => Prompting(n) # {}

(* If the list stays in order Wait ends once the prompts are over, and the *)
(* client can try again.                                                   *)
WaitReturns ==
  []inOrder => \A s \in Session : client[s] = "waiting" ~> client[s] = "idle"

(* What ArchiveEntry::Buffer's check, "if we're prompting for input",      *)
(* promises whatever the archives are: a client that looks while a prompt  *)
(* for its archive is up finds it.                                         *)
PromptVisible ==
  \A s \in Session : task[s] = "asking" => ContainsFile(NameOf[s])

-----------------------------------------------------------------------------
(* The inductive strengthening of the invariants above: a prompt is in the *)
(* list once, and as long as the list stays in order nothing else is.      *)
CountInv ==
  \A n \in Name :
    /\ IsFiniteSet(Prompting(n))
    /\ Occurrences(n) >= Cardinality(Prompting(n))
    /\ inOrder => Occurrences(n) = Cardinality(Prompting(n))

PromptListInv == TypeOK /\ CountInv /\ (inOrder => InOrder(fileNames))
=============================================================================
