---------------------------- MODULE Application -----------------------------
(***************************************************************************)
(* An application at work: sessions open and close entries (EntryHandle),  *)
(* the extraction threads of the open ones ask for passwords, and threads  *)
(* register and clear the handler that answers them (PinnedHandler).       *)
(***************************************************************************)
EXTENDS EntryHandle, PinnedHandler

ASSUME CallersAssumption == Callers = Sessions

VARIABLE overlapped   \* (history) the last registration met another, or an open entry

app == <<opening, handing, overlapped>>

AppInit == OpenInit /\ HandlerInit /\ overlapped = FALSE

(* The tests register before they open entries and clear after they have   *)
(* closed them (Utils.PasswordHandler).                                    *)
StartRegistration(r) ==
  /\ GetPassword(r)
  /\ overlapped' = (Registering \/ \E s \in Sessions : at[s] # "closed")
  /\ UNCHANGED opening

StartOpen(s) ==
  /\ Allocate(s)
  /\ overlapped' = (overlapped \/ Registering)
  /\ UNCHANGED handing

Registration(r) == (Pin(r) \/ SetPrompt(r)) /\ UNCHANGED <<opening, overlapped>>

Session(s) == SessionStep(s) /\ UNCHANGED <<handing, overlapped>>

(* The extraction thread of a session. *)
Thread(s) ==
  /\ running[s]
  /\ \/ (Ask(s) \/ Test(s) \/ Invoke(s) \/ Answered(s)) /\ UNCHANGED opening
     \/ ask[s] = "idle" /\ EndTask(s) /\ UNCHANGED handing
  /\ UNCHANGED overlapped

Collector == Collect /\ UNCHANGED <<opening, overlapped>>

AppNext ==
  \/ \E r \in Registrars : StartRegistration(r) \/ Registration(r)
  \/ \E s \in Sessions : StartOpen(s) \/ Session(s) \/ Thread(s)
  \/ Collector

AppSpec == AppInit /\ [][AppNext]_app

-----------------------------------------------------------------------------
(* Every variable keeps its type. *)
AppTypeOK == OpenTypeOK /\ HandlerTypeOK /\ overlapped \in BOOLEAN

(* If the last handler was registered, or cleared, by one thread and while *)
(* no entry was open, an extraction thread never calls a handler that has  *)
(* been cleared, replaced or collected, though it reads the pointer        *)
(* without a lock, and once more after it has tested it.  Whatever earlier *)
(* registrations did to one another, that one has repaired.                *)
HandlerLive ==
  ~overlapped =>
    \A s \in Sessions : ask[s] = "called" => Callable(target[s]) /\ pinned = {target[s]}

-----------------------------------------------------------------------------
(* The inductive strengthening of the invariants above: registrations and  *)
(* open entries exclude each other, and only open entries ask.             *)
ApartInv ==
  /\ Registering => \A s \in Sessions : at[s] = "closed"
  /\ PinInv /\ CallInv

AppInv ==
  /\ AppTypeOK /\ OpenInv /\ KeptInv
  /\ \A s \in Sessions : ask[s] # "idle" => running[s]
  /\ ~overlapped => ApartInv
=============================================================================
