-------------------------- MODULE Application_proof -------------------------
(***************************************************************************)
(* Proofs about Application for any number of sessions, registrations and  *)
(* handlers.                                                               *)
(***************************************************************************)
EXTENDS Application, TLAPS

(* The steps of a session and its extraction thread that change what       *)
(* EntryHandle describes.                                                  *)
OpenStep(s) == Allocate(s) \/ SessionStep(s) \/ EndTask(s)

-----------------------------------------------------------------------------
(* Sessions. *)

(* A step that succeeds or throws keeps the types, for the arguments that  *)
(* OpenEntry gives it.                                                     *)
LEMMA GotTypes ==
  ASSUME OpenTypeOK, NEW s \in Sessions, NEW new \in SUBSET Parts, NEW next \in Places,
         Got(s, new, next)
  PROVE  /\ at' \in [Sessions -> Places] /\ holds' \in [Sessions -> SUBSET Parts]
         /\ leaked' \subseteq Parts /\ UNCHANGED errors
BY DEF OpenTypeOK, Got

LEMMA ErrorTypes ==
  ASSUME OpenTypeOK, NEW s \in Sessions, NEW e \in Errors, Fails(s, e)
  PROVE  /\ error' = e /\ mine' = [mine EXCEPT ![s] = e]
         /\ error' \in Errors /\ mine' \in [Sessions -> Errors]
         /\ told' \in [Sessions -> Errors] /\ disturbed' \in [Sessions -> BOOLEAN]
BY DEF OpenTypeOK, Fails, SetLastError, Raised, Disturb

LEMMA ThrowTypes ==
  ASSUME OpenTypeOK, NEW s \in Sessions, NEW e \in Errors, NEW lost \in SUBSET Parts,
         Throws(s, e, lost)
  PROVE  /\ at' \in [Sessions -> Places] /\ holds' \in [Sessions -> SUBSET Parts]
         /\ leaked' \subseteq Parts
         /\ error' \in Errors /\ mine' \in [Sessions -> Errors]
         /\ told' \in [Sessions -> Errors] /\ disturbed' \in [Sessions -> BOOLEAN]
<1>1. Fails(s, e)
  BY DEF Throws
<1>2. at' \in [Sessions -> Places]
  BY DEF OpenTypeOK, Throws, Places
<1>3. holds' \in [Sessions -> SUBSET Parts] /\ leaked' \subseteq Parts
  BY DEF OpenTypeOK, Throws
<1> QED
  BY <1>1, <1>2, <1>3, ErrorTypes

(* Every step of a session keeps the types.                                *)
LEMMA OpenTypes ==
  ASSUME OpenTypeOK, NEW s \in Sessions, OpenStep(s)
  PROVE  OpenTypeOK'
<1>0. /\ {} \in SUBSET Parts /\ {"memory"} \in SUBSET Parts /\ {"archive"} \in SUBSET Parts
      /\ {"file"} \in SUBSET Parts /\ {"entry"} \in SUBSET Parts
      /\ {"callback", "temp", "task"} \in SUBSET Parts /\ Lost \subseteq SUBSET Parts
  BY DEF Parts, Lost
<1>e. {"archive", "entry", "not a file"} \subseteq Errors
  BY DEF Errors
<1>1. CASE Allocate(s)
  <2>1. handle' \in [Sessions -> BOOLEAN] /\ running' \in [Sessions -> BOOLEAN]
    BY <1>1 DEF Allocate, OpenTypeOK
  <2>2. CASE Got(s, {"memory"}, "new archive")
    BY <1>0, <2>1, <2>2, GotTypes DEF OpenTypeOK, Places, errors
  <2>3. CASE Fails(s, "archive") /\ at' = [at EXCEPT ![s] = "failed"]
             /\ UNCHANGED <<handle, holds, leaked>>
    BY <1>e, <2>1, <2>3, ErrorTypes DEF OpenTypeOK, Places
  <2> QED
    BY <1>1, <2>2, <2>3 DEF Allocate
<1>2. CASE NewArchive(s)
  <2>1. handle' \in [Sessions -> BOOLEAN] /\ running' \in [Sessions -> BOOLEAN]
    BY <1>2 DEF NewArchive, OpenTypeOK
  <2>2. CASE Got(s, {"archive"}, "open archive")
    BY <1>0, <2>1, <2>2, GotTypes DEF OpenTypeOK, Places, errors
  <2>3. CASE Throws(s, "archive", {})
    BY <1>0, <1>e, <2>1, <2>3, ThrowTypes DEF OpenTypeOK
  <2> QED
    BY <1>2, <2>2, <2>3 DEF NewArchive
<1>3. CASE OpenArchive(s)
  <2>1. handle' \in [Sessions -> BOOLEAN] /\ running' \in [Sessions -> BOOLEAN]
    BY <1>3 DEF OpenArchive, OpenTypeOK
  <2>2. CASE Got(s, {"file"}, "new entry")
    BY <1>0, <2>1, <2>2, GotTypes DEF OpenTypeOK, Places, errors
  <2>3. CASE Throws(s, "archive", {})
    BY <1>0, <1>e, <2>1, <2>3, ThrowTypes DEF OpenTypeOK
  <2> QED
    BY <1>3, <2>2, <2>3 DEF OpenArchive
<1>4. CASE NewEntry(s)
  <2>1. handle' \in [Sessions -> BOOLEAN] /\ running' \in [Sessions -> BOOLEAN]
    BY <1>4 DEF NewEntry, OpenTypeOK
  <2>2. CASE Got(s, {"entry"}, "extract") \/ Got(s, {"entry"}, "no file")
    BY <1>0, <2>1, <2>2, GotTypes DEF OpenTypeOK, Places, errors
  <2>3. CASE Throws(s, "entry", {"entry"})
    BY <1>0, <1>e, <2>1, <2>3, ThrowTypes DEF OpenTypeOK
  <2> QED
    BY <1>4, <2>2, <2>3 DEF NewEntry
<1>5. CASE ExtractEntry(s)
  <2>1. handle' \in [Sessions -> BOOLEAN] /\ running' \in [Sessions -> BOOLEAN]
    BY <1>5 DEF ExtractEntry, OpenTypeOK
  <2>2. CASE Got(s, {"callback", "temp", "task"}, "open")
    BY <1>0, <2>1, <2>2, GotTypes DEF OpenTypeOK, Places, errors
  <2>3. CASE \E lost \in Lost : Throws(s, "entry", lost)
    BY <1>0, <1>e, <2>1, <2>3, ThrowTypes DEF OpenTypeOK
  <2> QED
    BY <1>5, <2>2, <2>3 DEF ExtractEntry
<1> USE DEF OpenTypeOK, Parts, Places, Errors, SetLastError, Raised, Disturb, Fails, Throws,
            parts, errors
<1>6. CASE NotAFile(s)
  BY <1>6 DEF NotAFile
<1>7. CASE Fail(s)
  BY <1>7 DEF Fail, Emptied
<1>8. CASE ReadError(s)
  BY <1>8 DEF ReadError
<1>9. CASE ClearError(s)
  BY <1>9 DEF ClearError, Forget
<1>10. CASE CloseNothing(s)
  BY <1>10 DEF CloseNothing, Forget
<1>11. CASE CloseEntry(s)
  BY <1>11 DEF CloseEntry
<1>12. CASE Join(s)
  BY <1>12 DEF Join
<1>13. CASE FunctionFails(s)
  BY <1>13 DEF FunctionFails
<1>14. CASE EndTask(s)
  BY <1>14 DEF EndTask
<1> QED
  BY <1>1, <1>2, <1>3, <1>4, <1>5, <1>6, <1>7, <1>8, <1>9, <1>10, <1>11, <1>12, <1>13,
     <1>14 DEF OpenStep, SessionStep

(* A step of one session leaves the handle of another alone.               *)
LEMMA Others ==
  ASSUME OpenTypeOK, NEW s \in Sessions, OpenStep(s), NEW t \in Sessions, t # s
  PROVE  /\ at'[t] = at[t] /\ handle'[t] = handle[t] /\ holds'[t] = holds[t]
         /\ running'[t] = running[t] /\ mine'[t] = mine[t] /\ told'[t] = told[t]
<1> USE DEF OpenTypeOK, SetLastError, Fails, Throws, Got, parts, errors
<1>1. CASE Allocate(s)
  BY <1>1 DEF Allocate
<1>2. CASE NewArchive(s)
  BY <1>2 DEF NewArchive
<1>3. CASE OpenArchive(s)
  BY <1>3 DEF OpenArchive
<1>4. CASE NewEntry(s)
  BY <1>4 DEF NewEntry
<1>5. CASE ExtractEntry(s)
  BY <1>5 DEF ExtractEntry
<1>6. CASE NotAFile(s)
  BY <1>6 DEF NotAFile
<1>7. CASE Fail(s)
  BY <1>7 DEF Fail
<1>8. CASE ReadError(s)
  BY <1>8 DEF ReadError
<1>9. CASE ClearError(s)
  BY <1>9 DEF ClearError, Forget
<1>10. CASE CloseNothing(s)
  BY <1>10 DEF CloseNothing, Forget
<1>11. CASE CloseEntry(s)
  BY <1>11 DEF CloseEntry
<1>12. CASE Join(s)
  BY <1>12 DEF Join
<1>13. CASE FunctionFails(s)
  BY <1>13 DEF FunctionFails
<1>14. CASE EndTask(s)
  BY <1>14 DEF EndTask
<1> QED
  BY <1>1, <1>2, <1>3, <1>4, <1>5, <1>6, <1>7, <1>8, <1>9, <1>10, <1>11, <1>12, <1>13,
     <1>14 DEF OpenStep, SessionStep

(* What a step of a session does to its own place and handle.              *)
LEMMA Own ==
  ASSUME OpenTypeOK, HoldInv, RunInv, AllOrNothing, NEW s \in Sessions, OpenStep(s)
  PROVE  \/ at'[s] = "new archive" /\ handle'[s] /\ holds'[s] = {"memory"} /\ ~running'[s]
         \/ at'[s] = "open archive" /\ handle'[s] /\ holds'[s] = {"memory", "archive"}
            /\ ~running'[s]
         \/ at'[s] = "new entry" /\ handle'[s] /\ holds'[s] = {"memory", "archive", "file"}
            /\ ~running'[s]
         \/ at'[s] \in {"extract", "no file"} /\ handle'[s]
            /\ holds'[s] = {"memory", "archive", "file", "entry"} /\ ~running'[s]
         \/ at'[s] = "failing" /\ handle'[s] /\ holds'[s] \subseteq Freed /\ ~running'[s]
         \/ at'[s] \in {"failed", "clearing", "told", "closed"} /\ ~handle'[s]
            /\ holds'[s] = {} /\ ~running'[s]
         \/ at'[s] \in {"open", "joining"} /\ handle'[s] /\ holds'[s] = Parts
<1>0. /\ at \in [Sessions -> Places] /\ handle \in [Sessions -> BOOLEAN]
      /\ holds \in [Sessions -> SUBSET Parts] /\ running \in [Sessions -> BOOLEAN]
  BY DEF OpenTypeOK
<1>a. running[s] => at[s] \in {"open", "joining"}
  BY DEF RunInv
<1>b. at[s] \in {"closed", "failed", "clearing", "told"} => ~handle[s] /\ holds[s] = {}
  BY DEF AllOrNothing
<1>c. at[s] \in {"open", "joining"} => handle[s] /\ holds[s] = Parts
  BY DEF AllOrNothing
<1>1. CASE Allocate(s)
  BY <1>0, <1>1, <1>a, <1>b DEF Allocate, Got
<1>2. CASE NewArchive(s)
  <2>0. /\ handle[s] /\ holds[s] = {"memory"} /\ ~running[s]
        /\ UNCHANGED <<handle, running>>
    BY <1>2, <1>a DEF NewArchive, HoldInv
  <2>1. CASE Got(s, {"archive"}, "open archive")
    <3>1. at'[s] = "open archive" /\ holds'[s] = holds[s] \cup {"archive"}
      BY <1>0, <2>1 DEF Got
    <3> QED
      BY <2>0, <3>1
  <2>2. CASE Throws(s, "archive", {})
    <3>1. at'[s] = "failing" /\ holds'[s] = holds[s] \ {}
      BY <1>0, <2>2 DEF Throws
    <3> QED
      BY <2>0, <3>1 DEF Freed
  <2> QED
    BY <1>2, <2>1, <2>2 DEF NewArchive
<1>3. CASE OpenArchive(s)
  <2>0. /\ handle[s] /\ holds[s] = {"memory", "archive"} /\ ~running[s]
        /\ UNCHANGED <<handle, running>>
    BY <1>3, <1>a DEF OpenArchive, HoldInv
  <2>1. CASE Got(s, {"file"}, "new entry")
    <3>1. at'[s] = "new entry" /\ holds'[s] = holds[s] \cup {"file"}
      BY <1>0, <2>1 DEF Got
    <3> QED
      BY <2>0, <3>1
  <2>2. CASE Throws(s, "archive", {})
    <3>1. at'[s] = "failing" /\ holds'[s] = holds[s] \ {}
      BY <1>0, <2>2 DEF Throws
    <3> QED
      BY <2>0, <3>1 DEF Freed
  <2> QED
    BY <1>3, <2>1, <2>2 DEF OpenArchive
<1>4. CASE NewEntry(s)
  <2>0. /\ handle[s] /\ holds[s] = {"memory", "archive", "file"} /\ ~running[s]
        /\ UNCHANGED <<handle, running>>
    BY <1>4, <1>a DEF NewEntry, HoldInv
  <2>1. CASE Got(s, {"entry"}, "extract") \/ Got(s, {"entry"}, "no file")
    <3>1. at'[s] \in {"extract", "no file"} /\ holds'[s] = holds[s] \cup {"entry"}
      BY <1>0, <2>1 DEF Got
    <3> QED
      BY <2>0, <3>1
  <2>2. CASE Throws(s, "entry", {"entry"})
    <3>1. at'[s] = "failing" /\ holds'[s] = holds[s] \ {"entry"}
      BY <1>0, <2>2 DEF Throws
    <3> QED
      BY <2>0, <3>1 DEF Freed
  <2> QED
    BY <1>4, <2>1, <2>2 DEF NewEntry
<1>5. CASE ExtractEntry(s)
  <2>0. /\ handle[s] /\ holds[s] = {"memory", "archive", "file", "entry"} /\ ~running[s]
        /\ UNCHANGED handle
    BY <1>5, <1>a DEF ExtractEntry, HoldInv
  <2>1. CASE Got(s, {"callback", "temp", "task"}, "open")
    <3>1. at'[s] = "open" /\ holds'[s] = holds[s] \cup {"callback", "temp", "task"}
      BY <1>0, <2>1 DEF Got
    <3> QED
      BY <2>0, <3>1 DEF Parts
  <2>2. ASSUME NEW lost \in Lost, Throws(s, "entry", lost), UNCHANGED running
        PROVE  at'[s] = "failing" /\ handle'[s] /\ holds'[s] \subseteq Freed /\ ~running'[s]
    <3>1. at'[s] = "failing" /\ holds'[s] = holds[s] \ lost
      BY <1>0, <2>2 DEF Throws
    <3> QED
      BY <2>0, <2>2, <3>1 DEF Freed
  <2> QED
    BY <1>5, <2>1, <2>2 DEF ExtractEntry
<1>6. CASE NotAFile(s)
  BY <1>0, <1>6, <1>a DEF NotAFile, Throws, HoldInv, Freed
<1>7. CASE Fail(s)
  BY <1>0, <1>7, <1>a DEF Fail, Emptied
<1>8. CASE ReadError(s)
  BY <1>0, <1>8, <1>a, <1>b DEF ReadError
<1>9. CASE ClearError(s)
  BY <1>0, <1>9, <1>a, <1>b DEF ClearError
<1>10. CASE CloseNothing(s)
  BY <1>0, <1>10, <1>a, <1>b DEF CloseNothing
<1>11. CASE CloseEntry(s)
  BY <1>0, <1>11, <1>b, <1>c DEF CloseEntry
<1>12. CASE Join(s)
  BY <1>0, <1>12 DEF Join, Joined
<1>13. CASE FunctionFails(s)
  BY <1>0, <1>13, <1>c DEF FunctionFails, parts
<1>14. CASE EndTask(s)
  BY <1>0, <1>14, <1>a, <1>c DEF EndTask
<1> QED
  BY <1>1, <1>2, <1>3, <1>4, <1>5, <1>6, <1>7, <1>8, <1>9, <1>10, <1>11, <1>12, <1>13,
     <1>14 DEF OpenStep, SessionStep

(* ... so that everybody has all of an entry or nothing.                   *)
LEMMA HoldNext ==
  ASSUME OpenTypeOK, HoldInv, RunInv, AllOrNothing, NEW s \in Sessions, OpenStep(s)
  PROVE  (HoldInv /\ RunInv /\ AllOrNothing)'
<1>1. HoldInv'
  <2> SUFFICES ASSUME NEW t \in Sessions
               PROVE  /\ at'[t] \in {"new archive", "open archive", "new entry", "extract",
                                     "no file", "failing"} => handle'[t]
                      /\ at'[t] = "new archive" => holds'[t] = {"memory"}
                      /\ at'[t] = "open archive" => holds'[t] = {"memory", "archive"}
                      /\ at'[t] = "new entry" => holds'[t] = {"memory", "archive", "file"}
                      /\ at'[t] \in {"extract", "no file"} =>
                           holds'[t] = {"memory", "archive", "file", "entry"}
                      /\ at'[t] = "failing" => holds'[t] \subseteq Freed
    BY DEF HoldInv, Freed
  <2>1. CASE t = s
    BY <2>1, Own
  <2>2. CASE t # s
    <3>1. at'[t] = at[t] /\ handle'[t] = handle[t] /\ holds'[t] = holds[t]
      BY <2>2, Others
    <3> QED
      BY <3>1 DEF HoldInv
  <2> QED
    BY <2>1, <2>2
<1>2. RunInv'
  BY Own, Others DEF RunInv
<1>3. AllOrNothing'
  BY Own, Others DEF AllOrNothing
<1> QED
  BY <1>1, <1>2, <1>3

(* What is left behind belongs to an entry.                                *)
LEMMA LeakNext ==
  ASSUME OpenTypeOK, HoldInv, OnlyEntriesLeak, NEW s \in Sessions, OpenStep(s)
  PROVE  OnlyEntriesLeak'
<1>1. CASE NewArchive(s) \/ OpenArchive(s)
  BY <1>1 DEF NewArchive, OpenArchive, Got, Throws, OnlyEntriesLeak
<1>2. CASE NewEntry(s)
  BY <1>2 DEF NewEntry, Got, Throws, OnlyEntriesLeak
<1>3. CASE ExtractEntry(s)
  BY <1>3 DEF ExtractEntry, Got, Throws, Lost, OnlyEntriesLeak
<1>4. CASE NotAFile(s)
  BY <1>4 DEF NotAFile, Throws, OnlyEntriesLeak
<1>5. CASE Fail(s)
  BY <1>5 DEF Fail, HoldInv, OnlyEntriesLeak
<1>6. CASE Allocate(s) \/ EndTask(s) \/ CloseNothing(s) \/ CloseEntry(s) \/ Join(s)
  BY <1>6 DEF Allocate, Got, EndTask, CloseNothing, CloseEntry, Join, OnlyEntriesLeak
<1>7. CASE ReadError(s) \/ ClearError(s) \/ FunctionFails(s)
  BY <1>7 DEF ReadError, ClearError, FunctionFails, parts, OnlyEntriesLeak
<1> QED
  BY <1>1, <1>2, <1>3, <1>4, <1>5, <1>6, <1>7 DEF OpenStep, SessionStep

(* A step of another session that touches LastError is on record.          *)
LEMMA Disturbance ==
  ASSUME OpenTypeOK, NEW s \in Sessions, OpenStep(s), NEW t \in Sessions, t # s
  PROVE  \/ error' = error /\ disturbed'[t] = disturbed[t]
         \/ disturbed'[t] = (disturbed[t] \/ at[t] \in {"failing", "failed"})
<1> USE DEF OpenTypeOK, SetLastError, Disturb, Fails, Throws, Got, parts, errors
<1>1. CASE Allocate(s) \/ NewArchive(s) \/ OpenArchive(s)
  BY <1>1 DEF Allocate, NewArchive, OpenArchive
<1>2. CASE NewEntry(s) \/ ExtractEntry(s) \/ NotAFile(s)
  BY <1>2 DEF NewEntry, ExtractEntry, NotAFile
<1>3. CASE Fail(s) \/ ReadError(s) \/ ClearError(s) \/ FunctionFails(s)
  BY <1>3 DEF Fail, ReadError, ClearError, FunctionFails
<1>4. CASE CloseNothing(s) \/ CloseEntry(s) \/ Join(s) \/ EndTask(s)
  BY <1>4 DEF CloseNothing, CloseEntry, Join, EndTask
<1> QED
  BY <1>1, <1>2, <1>3, <1>4 DEF OpenStep, SessionStep

LEMMA ErrorNext ==
  ASSUME OpenTypeOK, AllOrNothing, RunInv, ErrorInv, ErrorOwn,
         NEW s \in Sessions, OpenStep(s)
  PROVE  (ErrorInv /\ ErrorOwn)'
<1> DEFINE Kept(t) == at[t] \in {"failing", "failed"} /\ ~disturbed[t] =>
                        error = mine[t] /\ mine[t] # "ok"
           Told(t) == at[t] = "clearing" /\ ~disturbed[t] => told[t] = mine[t] /\ told[t] # "ok"
<1>0. /\ at \in [Sessions -> Places] /\ mine \in [Sessions -> Errors]
      /\ told \in [Sessions -> Errors] /\ disturbed \in [Sessions -> BOOLEAN]
  BY DEF OpenTypeOK
<1>a. \A t \in Sessions : Kept(t) /\ Told(t)
  BY DEF ErrorInv, ErrorOwn
<1>b. at[s] \in {"failed", "told"} => ~handle[s]
  BY DEF AllOrNothing
<1>1. ASSUME NEW t \in Sessions, t # s PROVE Kept(t)' /\ Told(t)'
  BY <1>0, <1>1, <1>a, Others, Disturbance
<1>2. Kept(s)' /\ Told(s)'
  <2>1. CASE Allocate(s) \/ NewArchive(s) \/ OpenArchive(s) \/ NewEntry(s)
    BY <1>0, <2>1 DEF Allocate, NewArchive, OpenArchive, NewEntry, Got, Throws, Fails,
       SetLastError, Raised
  <2>2. CASE ExtractEntry(s) \/ NotAFile(s)
    BY <1>0, <2>2 DEF ExtractEntry, NotAFile, Got, Throws, Fails, SetLastError, Raised
  <2>3. CASE Fail(s)
    BY <1>0, <1>a, <2>3 DEF Fail, errors
  <2>4. CASE ReadError(s)
    BY <1>0, <1>a, <2>4 DEF ReadError
  <2>5. CASE ClearError(s) \/ CloseNothing(s) \/ CloseEntry(s) \/ Join(s)
    BY <1>0, <1>b, <2>5 DEF ClearError, CloseNothing, CloseEntry, Join
  <2>6. CASE FunctionFails(s)
    BY <1>0, <2>6 DEF FunctionFails, parts
  <2>7. CASE EndTask(s)
    BY <1>0, <1>a, <2>7 DEF EndTask, errors
  <2> QED
    BY <2>1, <2>2, <2>3, <2>4, <2>5, <2>6, <2>7 DEF OpenStep, SessionStep
<1> QED
  BY <1>1, <1>2 DEF ErrorInv, ErrorOwn

(* The part of the inductive invariant about sessions is kept.             *)
LEMMA OpenNext ==
  ASSUME OpenInv, NEW s \in Sessions, OpenStep(s)
  PROVE  OpenInv'
<1> USE DEF OpenInv
<1> QED
  BY OpenTypes, HoldNext, LeakNext, ErrorNext

-----------------------------------------------------------------------------
(* Handlers. *)

(* The steps of what PinnedHandler describes, by who takes them.           *)
RegisterStep == \E r \in Registrars : GetPassword(r) \/ Pin(r) \/ SetPrompt(r)
AskStep(c)   == Ask(c) \/ Test(c) \/ Invoke(c) \/ Answered(c)

LEMMA HandlerTypes ==
  ASSUME HandlerTypeOK, RegisterStep \/ Collect \/ \E c \in Callers : AskStep(c)
  PROVE  HandlerTypeOK'
<1> USE DEF HandlerTypeOK, native, asking
<1>1. ASSUME NEW r \in Registrars, GetPassword(r) PROVE HandlerTypeOK'
  BY <1>1 DEF GetPassword
<1>2. ASSUME NEW r \in Registrars, Pin(r) PROVE HandlerTypeOK'
  BY <1>2 DEF Pin, Added
<1>3. ASSUME NEW r \in Registrars, SetPrompt(r) PROVE HandlerTypeOK'
  BY <1>3 DEF SetPrompt
<1>4. CASE Collect
  BY <1>4 DEF Collect
<1>5. ASSUME NEW c \in Callers, AskStep(c) PROVE HandlerTypeOK'
  BY <1>5 DEF AskStep, Ask, Test, Invoke, Answered
<1> QED
  BY <1>1, <1>2, <1>3, <1>4, <1>5 DEF RegisterStep

(* The runtime does not collect what is kept.                              *)
LEMMA KeptNext ==
  ASSUME HandlerTypeOK, KeptInv, RegisterStep \/ Collect \/ \E c \in Callers : AskStep(c)
  PROVE  KeptInv'
<1> USE DEF HandlerTypeOK, KeptInv, native, asking
<1>1. ASSUME NEW r \in Registrars, GetPassword(r) PROVE KeptInv'
  BY <1>1, NullAssumption DEF GetPassword
<1>2. ASSUME NEW r \in Registrars, Pin(r) PROVE KeptInv'
  BY <1>2 DEF Pin, Added
<1>3. ASSUME NEW r \in Registrars, SetPrompt(r) PROVE KeptInv'
  BY <1>3, NullAssumption DEF SetPrompt
<1>4. CASE Collect
  BY <1>4 DEF Collect, Rooted
<1>5. ASSUME NEW c \in Callers, AskStep(c) PROVE KeptInv'
  BY <1>5 DEF AskStep, Ask, Test, Invoke, Answered
<1> QED
  BY <1>1, <1>2, <1>3, <1>4, <1>5 DEF RegisterStep

(* A registration that meets no other begins with an empty dictionary,     *)
(* whatever earlier ones have left in it or in native code, ...            *)
LEMMA PinStart ==
  ASSUME HandlerTypeOK, ~Registering, NEW r \in Registrars, GetPassword(r)
  PROVE  PinInv'
BY DEF HandlerTypeOK, PinInv, Registering, GetPassword

(* ... and leaves native code with what the dictionary keeps.              *)
LEMMA PinNext ==
  ASSUME HandlerTypeOK, PinInv, NEW r \in Registrars, Pin(r) \/ SetPrompt(r)
  PROVE  PinInv'
<1> USE DEF HandlerTypeOK, PinInv, Registering, native
<1>1. CASE Pin(r)
  BY <1>1 DEF Pin, Added
<1>2. CASE SetPrompt(r)
  BY <1>2 DEF SetPrompt
<1> QED
  BY <1>1, <1>2

(* An extraction thread calls what it has tested.                          *)
LEMMA CallNext ==
  ASSUME HandlerTypeOK, CallInv, NEW c \in Callers, AskStep(c)
  PROVE  CallInv'
<1> USE DEF HandlerTypeOK, CallInv, native
<1>1. CASE Ask(c)
  BY <1>1 DEF Ask
<1>2. CASE Test(c)
  BY <1>2 DEF Test
<1>3. CASE Invoke(c)
  BY <1>3 DEF Invoke
<1>4. CASE Answered(c)
  BY <1>4 DEF Answered
<1> QED
  BY <1>1, <1>2, <1>3, <1>4 DEF AskStep

-----------------------------------------------------------------------------
(* Both together. *)

LEMMA StartNext ==
  ASSUME AppInv, NEW r \in Registrars, StartRegistration(r)
  PROVE  AppInv'
<1>0. GetPassword(r) /\ RegisterStep /\ HandlerTypeOK /\ KeptInv
  BY DEF StartRegistration, RegisterStep, AppInv, AppTypeOK
<1>1. UNCHANGED <<opening, asking>>
  BY <1>0 DEF StartRegistration, GetPassword
<1>2. OpenInv'
  BY <1>1 DEF AppInv, OpenInv, OpenTypeOK, HoldInv, RunInv, AllOrNothing, OnlyEntriesLeak,
     ErrorInv, ErrorOwn, opening, parts, errors
<1>3. AppTypeOK' /\ KeptInv'
  BY <1>0, <1>2, HandlerTypes, KeptNext DEF AppInv, AppTypeOK, OpenInv, StartRegistration
<1>4. \A s \in Sessions : ask'[s] # "idle" => running'[s]
  BY <1>1 DEF AppInv, opening, parts, asking
<1>5. ASSUME ~overlapped' PROVE ApartInv'
  <2>1. ~Registering /\ \A s \in Sessions : at[s] = "closed"
    BY <1>5 DEF StartRegistration
  <2>2. PinInv'
    BY <1>0, <2>1, PinStart
  <2>3. \A s \in Sessions : ask[s] = "idle"
    BY <2>1 DEF AppInv, OpenInv, RunInv
  <2>4. CallInv'
    BY <1>1, <2>3, CallersAssumption DEF CallInv, asking
  <2> QED
    BY <1>1, <2>1, <2>2, <2>4 DEF ApartInv, opening, parts
<1> QED
  BY <1>2, <1>3, <1>4, <1>5 DEF AppInv

LEMMA RegistrationNext ==
  ASSUME AppInv, NEW r \in Registrars, Registration(r)
  PROVE  AppInv'
<1>0. (Pin(r) \/ SetPrompt(r)) /\ RegisterStep /\ HandlerTypeOK /\ KeptInv
  BY DEF Registration, RegisterStep, AppInv, AppTypeOK
<1>1. UNCHANGED <<opening, asking, overlapped>> /\ reg[r] # "idle"
  BY <1>0 DEF Registration, Pin, SetPrompt
<1>2. OpenInv'
  BY <1>1 DEF AppInv, OpenInv, OpenTypeOK, HoldInv, RunInv, AllOrNothing, OnlyEntriesLeak,
     ErrorInv, ErrorOwn, opening, parts, errors
<1>3. AppTypeOK' /\ KeptInv'
  BY <1>0, <1>1, <1>2, HandlerTypes, KeptNext DEF AppInv, AppTypeOK, OpenInv
<1>4. \A s \in Sessions : ask'[s] # "idle" => running'[s]
  BY <1>1 DEF AppInv, opening, parts, asking
<1>5. ASSUME ~overlapped' PROVE ApartInv'
  <2>1. ApartInv /\ \A s \in Sessions : at[s] = "closed"
    BY <1>1, <1>5 DEF AppInv, ApartInv, Registering
  <2>2. PinInv'
    BY <1>0, <2>1, PinNext DEF ApartInv
  <2>3. \A s \in Sessions : ask[s] = "idle"
    BY <2>1 DEF AppInv, OpenInv, RunInv
  <2>4. CallInv'
    BY <1>1, <2>3, CallersAssumption DEF CallInv, asking
  <2> QED
    BY <1>1, <2>1, <2>2, <2>4 DEF ApartInv, opening, parts
<1> QED
  BY <1>2, <1>3, <1>4, <1>5 DEF AppInv

(* A step of a session, or the end of its thread when it does not ask.     *)
LEMMA SessionNext ==
  ASSUME AppInv, NEW s \in Sessions,
         StartOpen(s) \/ Session(s) \/ (ask[s] = "idle" /\ EndTask(s) /\ UNCHANGED handing
                                         /\ UNCHANGED overlapped)
  PROVE  AppInv'
<1>0. OpenStep(s) /\ UNCHANGED handing /\ (overlapped => overlapped')
      /\ overlapped' \in BOOLEAN
  BY DEF StartOpen, Session, OpenStep, AppInv, AppTypeOK, Registering
<1>1. OpenInv'
  BY <1>0, OpenNext DEF AppInv
<1>2. HandlerTypeOK' /\ KeptInv'
  BY <1>0 DEF AppInv, AppTypeOK, HandlerTypeOK, KeptInv, handing, native, asking
<1>3. \A t \in Sessions : ask'[t] # "idle" => running'[t]
  <2> SUFFICES ASSUME NEW t \in Sessions, ask[t] # "idle" PROVE running'[t]
    BY <1>0 DEF handing, asking
  <2>1. running[t]
    BY DEF AppInv
  <2>2. CASE t # s
    BY <1>0, <2>1, <2>2, Others DEF AppInv, OpenInv
  <2>3. CASE t = s
    <3>1. at[s] \in {"open", "joining"}
      BY <2>1, <2>3 DEF AppInv, OpenInv, RunInv
    <3>2. CloseEntry(s) \/ Join(s) \/ FunctionFails(s)
      BY <2>3, <3>1 DEF StartOpen, Session, SessionStep, Allocate, NewArchive, OpenArchive,
         NewEntry, ExtractEntry, NotAFile, Fail, ReadError, ClearError, CloseNothing
    <3> QED
      BY <2>1, <2>3, <3>2 DEF CloseEntry, Join, FunctionFails, parts
  <2> QED
    BY <2>2, <2>3
<1>4. ASSUME ~overlapped' PROVE ApartInv'
  <2>1. ApartInv
    BY <1>0, <1>4 DEF AppInv
  <2>2. PinInv' /\ CallInv'
    BY <1>0, <2>1 DEF ApartInv, PinInv, CallInv, Registering, handing, native, asking
  <2>3. ASSUME Registering' PROVE \A t \in Sessions : at'[t] = "closed"
    <3>1. Registering
      BY <1>0, <2>3 DEF Registering, handing
    <3>2. \A t \in Sessions : at[t] = "closed" /\ ~running[t]
      BY <2>1, <3>1 DEF ApartInv, AppInv, OpenInv, RunInv
    <3>3. ~StartOpen(s)
      BY <1>4, <3>1 DEF StartOpen
    <3>4. FALSE
      BY <3>2, <3>3 DEF Session, SessionStep, NewArchive, OpenArchive, NewEntry,
         ExtractEntry, NotAFile, Fail, ReadError, ClearError, FunctionFails, CloseNothing,
         CloseEntry, Join, EndTask
    <3> QED
      BY <3>4
  <2> QED
    BY <2>2, <2>3 DEF ApartInv
<1> QED
  BY <1>0, <1>1, <1>2, <1>3, <1>4 DEF AppInv, AppTypeOK, OpenInv

(* A step of a thread in its prompt, or of the collector.                  *)
LEMMA AskNext ==
  ASSUME AppInv, UNCHANGED <<opening, overlapped>>,
         Collect \/ \E s \in Sessions : running[s] /\ AskStep(s)
  PROVE  AppInv'
<1>0. Collect \/ \E c \in Callers : AskStep(c)
  BY CallersAssumption
<1>1. OpenInv' /\ overlapped' \in BOOLEAN
  BY DEF AppInv, AppTypeOK, OpenInv, OpenTypeOK, HoldInv, RunInv, AllOrNothing,
     OnlyEntriesLeak, ErrorInv, ErrorOwn, opening, parts, errors
<1>2. HandlerTypeOK' /\ KeptInv'
  BY <1>0, HandlerTypes, KeptNext DEF AppInv, AppTypeOK
<1>3. \A t \in Sessions : ask'[t] # "idle" => running'[t]
  <2>1. CASE Collect
    BY <2>1 DEF Collect, asking, AppInv, opening, parts
  <2>2. ASSUME NEW s \in Sessions, running[s], AskStep(s)
        PROVE  \A t \in Sessions : ask'[t] # "idle" => running'[t]
    BY <2>2, CallersAssumption DEF AskStep, Ask, Test, Invoke, Answered, AppInv, AppTypeOK,
       HandlerTypeOK, opening, parts
  <2> QED
    BY <2>1, <2>2
<1>4. ASSUME ~overlapped' PROVE ApartInv'
  <2>1. ApartInv
    BY <1>4 DEF AppInv
  <2>2. UNCHANGED <<pinned, native, reg, value>>
    BY <1>0 DEF Collect, AskStep, Ask, Test, Invoke, Answered
  <2>3. PinInv'
    BY <2>1, <2>2 DEF ApartInv, PinInv, Registering, native
  <2>4. CallInv'
    <3>1. CASE Collect
      BY <2>1, <3>1 DEF Collect, ApartInv, CallInv, native, asking
    <3>2. CASE \E c \in Callers : AskStep(c)
      BY <2>1, <3>2, CallNext DEF ApartInv, AppInv, AppTypeOK
    <3> QED
      BY <1>0, <3>1, <3>2
  <2> QED
    BY <2>1, <2>2, <2>3, <2>4 DEF ApartInv, Registering, opening, parts
<1> QED
  BY <1>1, <1>2, <1>3, <1>4 DEF AppInv, AppTypeOK, OpenInv

-----------------------------------------------------------------------------
(* The inductive invariant. *)
LEMMA AppNextInv == AppInv /\ [AppNext]_app => AppInv'
<1> SUFFICES ASSUME AppInv, [AppNext]_app PROVE AppInv'
  OBVIOUS
<1>1. ASSUME NEW r \in Registrars, StartRegistration(r) \/ Registration(r) PROVE AppInv'
  BY <1>1, StartNext, RegistrationNext
<1>2. ASSUME NEW s \in Sessions, StartOpen(s) \/ Session(s) PROVE AppInv'
  BY <1>2, SessionNext
<1>3. ASSUME NEW s \in Sessions, Thread(s) PROVE AppInv'
  <2>1. CASE ask[s] = "idle" /\ EndTask(s) /\ UNCHANGED handing /\ UNCHANGED overlapped
    BY <2>1, SessionNext
  <2>2. CASE AskStep(s) /\ UNCHANGED opening /\ UNCHANGED overlapped
    BY <1>3, <2>2, AskNext DEF Thread
  <2> QED
    BY <1>3, <2>1, <2>2 DEF Thread, AskStep
<1>4. CASE Collector
  BY <1>4, AskNext DEF Collector
<1>5. CASE UNCHANGED app
  BY <1>5 DEF app, AppInv, AppTypeOK, OpenInv, OpenTypeOK, HoldInv, RunInv, AllOrNothing,
     OnlyEntriesLeak, ErrorInv, ErrorOwn, HandlerTypeOK, KeptInv, ApartInv, PinInv, CallInv,
     Registering, opening, parts, errors, handing, native, asking
<1> QED
  BY <1>1, <1>2, <1>3, <1>4, <1>5 DEF AppNext

LEMMA AppInitInv == AppInit => AppInv
<1> SUFFICES ASSUME AppInit PROVE AppInv
  OBVIOUS
<1>1. OpenInv
  BY DEF AppInit, OpenInit, OpenInv, OpenTypeOK, Places, Errors, HoldInv, RunInv,
     AllOrNothing, OnlyEntriesLeak, ErrorInv, ErrorOwn
<1>2. HandlerTypeOK /\ KeptInv
  BY DEF AppInit, HandlerInit, HandlerTypeOK, KeptInv
<1>3. ApartInv
  BY DEF AppInit, HandlerInit, ApartInv, PinInv, CallInv, Registering
<1>4. \A s \in Sessions : ask[s] = "idle"
  BY CallersAssumption DEF AppInit, HandlerInit
<1> QED
  BY <1>1, <1>2, <1>3, <1>4 DEF AppInv, AppTypeOK, OpenInv, AppInit

THEOREM AppInvariance == AppSpec => []AppInv
BY AppInitInv, AppNextInv, PTL DEF AppSpec

(* Type correctness.                                                       *)
THEOREM AppTypes == AppSpec => []AppTypeOK
<1>1. AppInv => AppTypeOK
  BY DEF AppInv
<1> QED
  BY <1>1, AppInvariance, PTL

(* Whichever step of OpenEntry fails, nobody is left with part of an entry. *)
THEOREM NothingHalfOpen == AppSpec => []AllOrNothing
<1>1. AppInv => AllOrNothing
  BY DEF AppInv, OpenInv
<1> QED
  BY <1>1, AppInvariance, PTL

(* What a failed OpenEntry leaves behind was made for an entry.            *)
THEOREM LeaksAreBounded == AppSpec => []OnlyEntriesLeak
<1>1. AppInv => OnlyEntriesLeak
  BY DEF AppInv, OpenInv
<1> QED
  BY <1>1, AppInvariance, PTL

(* An error nobody has disturbed is the caller's own.                      *)
THEOREM ErrorIsOwn == AppSpec => []ErrorOwn
<1>1. AppInv => ErrorOwn
  BY DEF AppInv, OpenInv
<1> QED
  BY <1>1, AppInvariance, PTL

(* After a registration that meets neither another one nor an open entry,  *)
(* whatever became of those before it, no extraction thread calls a        *)
(* handler that is gone.                                                   *)
THEOREM HandlerStaysAlive == AppSpec => []HandlerLive
<1>1. AppInv => HandlerLive
  <2> SUFFICES ASSUME AppInv, ~overlapped, NEW s \in Sessions, ask[s] = "called"
               PROVE  Callable(target[s]) /\ pinned = {target[s]}
    BY DEF HandlerLive
  <2>1. handler /\ target[s] = prompt1 /\ prompt1 # Null
    BY CallersAssumption DEF AppInv, ApartInv, CallInv
  <2>2. at[s] # "closed"
    BY DEF AppInv, OpenInv, RunInv
  <2>3. pinned = {prompt1}
    BY <2>1, <2>2 DEF AppInv, ApartInv, PinInv
  <2> QED
    BY <2>1, <2>3 DEF AppInv, KeptInv, Callable
<1> QED
  BY <1>1, AppInvariance, PTL
=============================================================================
