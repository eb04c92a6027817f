---------------------------- MODULE PinnedHandler ---------------------------
(***************************************************************************)
(* The application's password handler on its way from a managed delegate   *)
(* to the extraction threads (Handles.Pin and Archive.GetPassword of the   *)
(* managed wrapper, ARCHIVE_GetPassword and __prompt2__ of                 *)
(* ArchiveInterface.cpp).  Native code keeps a plain pointer to it; only   *)
(* the dictionary of Handles keeps it from being collected.                *)
(***************************************************************************)

CONSTANTS
  Registrars,   \* threads that call Archive.GetPassword
  Callers,      \* extraction threads
  Delegates,    \* handlers the application makes, each for one registration
  Null          \* no handler

ASSUME NullAssumption == Null \notin Delegates

VARIABLES
  pinned,    \* Handles.Pinned of "ARCHIVE_GetPassword": no value or one
  prompt1,   \* __prompt1__
  handler,   \* ArchiveExtractPrompt::Handler is set
  reg,       \* where each registration is
  value,     \* what it registers
  ask,       \* where each extraction thread is in its prompt
  target,    \* the handler it has found or calls
  made,      \* delegates that have been made
  dead       \* delegates that have been collected

native  == <<prompt1, handler>>
asking  == <<ask, target>>
handing == <<pinned, native, reg, value, asking, made, dead>>

HandlerInit ==
  /\ pinned = {} /\ prompt1 = Null /\ handler = FALSE
  /\ reg = [r \in Registrars |-> "idle"]
  /\ value = [r \in Registrars |-> Null]
  /\ ask = [c \in Callers |-> "idle"]
  /\ target = [c \in Callers |-> Null]
  /\ made = {} /\ dead = {}

Registering == \E r \in Registrars : reg[r] # "idle"

-----------------------------------------------------------------------------
(* Archive.GetPassword: Handles.Pin takes the old handle out and frees it, *)

GetPassword(r) ==
  /\ reg[r] = "idle"
  /\ \E v \in (Delegates \ made) \cup {Null} :
       /\ value' = [value EXCEPT ![r] = v]
       /\ made' = made \cup ({v} \ {Null})
  /\ pinned' = {}
  /\ reg' = [reg EXCEPT ![r] = "removed"]
  /\ UNCHANGED <<native, asking, dead>>

(* ... puts the new one in, unless another thread was faster, and its      *)
(* answer is not looked at;                                                *)
FaultyAdded(v) == pinned \cup {v}     \* in spite of the other
Added(v) == IF pinned = {} THEN {v} ELSE pinned

Pin(r) ==
  /\ reg[r] = "removed"
  /\ pinned' = Added(value[r])
  /\ reg' = [reg EXCEPT ![r] = "pinned"]
  /\ UNCHANGED <<native, value, asking, made, dead>>

(* ARCHIVE_GetPassword passes the pointer on. *)
SetPrompt(r) ==
  /\ reg[r] = "pinned"
  /\ prompt1' = value[r] /\ handler' = TRUE
  /\ reg' = [reg EXCEPT ![r] = "idle"]
  /\ value' = [value EXCEPT ![r] = Null]
  /\ UNCHANGED <<pinned, asking, made, dead>>

(* The runtime collects a delegate that neither the dictionary nor a call  *)
(* in progress keeps; the application keeps none.                          *)
Rooted(d) ==
  \/ d \in pinned
  \/ \E r \in Registrars : value[r] = d
  \/ \E c \in Callers : ask[c] = "called" /\ target[c] = d

Collect ==
  /\ \E d \in made \ dead : ~Rooted(d) /\ dead' = dead \cup {d}
  /\ UNCHANGED <<pinned, native, reg, value, asking, made>>

-----------------------------------------------------------------------------
(* CryptoGetTextPassword: CanPrompt, and __prompt2__ tests __prompt1__ ... *)

Ask(c) ==
  /\ ask[c] = "idle" /\ handler
  /\ ask' = [ask EXCEPT ![c] = "asked"]
  /\ UNCHANGED <<pinned, native, reg, value, target, made, dead>>

Test(c) ==
  /\ ask[c] = "asked"
  /\ target' = [target EXCEPT ![c] = prompt1]
  /\ ask' = [ask EXCEPT ![c] = IF prompt1 = Null THEN "idle" ELSE "tested"]
  /\ UNCHANGED <<pinned, native, reg, value, made, dead>>

(* ... and calls it; the program may read the variable again or not. *)
Invoke(c) ==
  /\ ask[c] = "tested"
  /\ \E d \in {target[c], prompt1} : target' = [target EXCEPT ![c] = d]
  /\ ask' = [ask EXCEPT ![c] = "called"]
  /\ UNCHANGED <<pinned, native, reg, value, made, dead>>

Callable(d) == d # Null /\ d \notin dead

(* The handler returns.  What becomes of a call of none is undefined, and  *)
(* the thread does not come back from it here.                             *)
Answered(c) ==
  /\ ask[c] = "called" /\ Callable(target[c])
  /\ ask' = [ask EXCEPT ![c] = "idle"]
  /\ target' = [target EXCEPT ![c] = Null]
  /\ UNCHANGED <<pinned, native, reg, value, made, dead>>

-----------------------------------------------------------------------------
(* Each variable keeps its type, and the dictionary has one value at most. *)
HandlerTypeOK ==
  /\ pinned \in {{}} \cup {{v} : v \in Delegates \cup {Null}}
  /\ prompt1 \in Delegates \cup {Null} /\ handler \in BOOLEAN
  /\ reg \in [Registrars -> {"idle", "removed", "pinned"}]
  /\ value \in [Registrars -> Delegates \cup {Null}]
  /\ ask \in [Callers -> {"idle", "asked", "tested", "called"}]
  /\ target \in [Callers -> Delegates \cup {Null}]
  /\ made \subseteq Delegates /\ dead \subseteq made

-----------------------------------------------------------------------------
(* Inductive parts of what Application promises.                           *)

(* What the dictionary or a registration keeps has not been collected.     *)
KeptInv ==
  /\ pinned \cap dead = {}
  /\ \A r \in Registrars : value[r] \notin dead

(* With one registration at a time native code has what the dictionary     *)
(* keeps, except while one is under way.                                   *)
PinInv ==
  /\ \A r, q \in Registrars : reg[r] # "idle" /\ reg[q] # "idle" => r = q
  /\ \A r \in Registrars : reg[r] = "removed" => pinned = {}
  /\ \A r \in Registrars : reg[r] = "pinned" => pinned = {value[r]}
  /\ handler /\ ~Registering => pinned = {prompt1}

(* With no registration under way a call goes to the handler it has tested.*)
CallInv ==
  \A c \in Callers :
    /\ ask[c] # "idle" => handler
    /\ ask[c] \in {"tested", "called"} => target[c] = prompt1 /\ prompt1 # Null
=============================================================================
