---------------------------- MODULE MCTempCache -----------------------------
(***************************************************************************)
(* TempCache for sessions that open entries of the archives "C:\Disc1.zip" *)
(* and "C:\Disc2.zip", whose temp files have the names that GetFileName    *)
(* gives them.  An entry is a number; each case is a table of names and a  *)
(* table of lengths.                                                       *)
(***************************************************************************)
EXTENDS TempCache, Sequences, TLC

Name == INSTANCE TempName

DotZip == <<46, 122, 105, 112>>                                     \* ".zip"
Root   == <<67, 58, 92>>                                            \* "C:\"
Disc(n) == Root \o <<68, 105, 115, 99, 48 + n>> \o DotZip           \* "C:\Disc1.zip"
Album   == Root \o <<65, 108, 98, 117, 109, 115, 92>>               \* "C:\Albums\Part 01.zip"
             \o <<80, 97, 114, 116, 32, 48, 49>> \o DotZip

(* Entries of one archive do not share temp files: a name so short that    *)
(* its hash does not wrap, two of the length at which it begins to, and    *)
(* one that wraps at every further character.                              *)
ASSUME ApartAssumption ==
  \A name \in {Root \o <<97>> \o DotZip, Disc(1), Disc(2), Album} : Name!EntriesApart(name, 20)

(* The temp files of the first two entries of "Disc1" and the first of     *)
(* "Disc2": the leading digits of the hash miss the end of the name.       *)
Disc1Entry0 == 72660393
Disc1Entry1 == 72922947
Disc2Entry0 == 72660393

ASSUME NameAssumption ==
  /\ Name!GetFileName(Disc(1), 0) = Disc1Entry0
  /\ Name!GetFileName(Disc(1), 1) = Disc1Entry1
  /\ Name!GetFileName(Disc(2), 0) = Disc2Entry0

One == 1..1
Two == 1..2
Three == 1..3

(* One entry, of two bytes. *)
OnePath == <<Disc1Entry0>>
OneSize == <<2>>

(* The first entries of two archives, of one length. *)
DiscsPath == <<Disc1Entry0, Disc2Entry0>>
DiscsSize == <<1, 1>>

(* The first entries of two archives, of two lengths, and a third entry. *)
MixedPath == <<Disc1Entry0, Disc2Entry0, Disc1Entry1>>
MixedSize == <<1, 2, 1>>

MCPaths == {PathOf[e] : e \in Entries}

Symmetric == Permutations(Sessions)
=============================================================================
