-------------------------- MODULE TempCache_proof ---------------------------
(***************************************************************************)
(* Proofs about TempCache for any sessions, entries, paths, sizes and any  *)
(* assignment of entries to paths.                                         *)
(***************************************************************************)
EXTENDS TempCache, TLAPS

(* A session that is not closed has an entry, and its entry a path.        *)
LEMMA PathType ==
  ASSUME TypeOK, NEW s \in Sessions, at[s] # "closed"
  PROVE  entry[s] \in Entries /\ Path(s) \in Paths
BY PathAssumption DEF TypeOK, Path

(* What the contents of a file are, record by record.                      *)
LEMMA ContentsType ==
  \A f : f \in Contents <=> /\ f \in [of : Entries, len : Nat, good : BOOLEAN]
                           /\ f.len <= SizeOf[f.of]
BY Zenon DEF Contents

(* A file made or cut for an entry is a file of no length.                 *)
LEMMA EmptyType ==
  ASSUME NEW e \in Entries
  PROVE  /\ Empty(e) \in Contents /\ Empty(e) # Nothing
         /\ Empty(e).of = e /\ Empty(e).len = 0
<1>1. Empty(e) \in [of : Entries, len : Nat, good : BOOLEAN]
  BY DEF Empty
<1>2. Empty(e).of = e /\ Empty(e).len = 0
  BY DEF Empty
<1>3. SizeOf[e] \in Nat \ {0}
  BY SizeAssumption
<1>4. Empty(e).len <= SizeOf[Empty(e).of]
  BY <1>2, <1>3
<1> QED
  BY <1>1, <1>2, <1>4, ContentsType, NothingAssumption, Zenon

(* A write makes a file longer by one, and leaves it its owner.            *)
LEMMA WriteType ==
  ASSUME NEW f \in Contents, f.len < SizeOf[f.of], NEW right \in BOOLEAN
  PROVE  /\ Longer(f, right) \in Contents /\ Longer(f, right) # Nothing
         /\ Longer(f, right).of = f.of
<1>1. f \in [of : Entries, len : Nat, good : BOOLEAN]
  BY ContentsType, Zenon
<1>2. f.of \in Entries /\ f.len \in Nat /\ f.good \in BOOLEAN /\ SizeOf[f.of] \in Nat
  BY <1>1, SizeAssumption
<1>3. /\ Longer(f, right) \in [of : Entries, len : Nat, good : BOOLEAN]
      /\ Longer(f, right).of = f.of /\ Longer(f, right).len = f.len + 1
  BY <1>2 DEF Longer
<1>4. Longer(f, right).len <= SizeOf[Longer(f, right).of]
  BY <1>2, <1>3
<1> QED
  BY <1>3, <1>4, ContentsType, NothingAssumption, Zenon

(* A handle that writes or deletes is granted only on a file that nobody   *)
(* has open, and one that reads only beside others that read.              *)
LEMMA GrantedAlone ==
  /\ \A p : Granted(p, {"read", "write"}, Share) => \A t \in Sessions : ~Holds(t, p)
  /\ \A p : Granted(p, {"read"}, Share) =>
       \A t \in Sessions : Holds(t, p) => "write" \notin access[t]
  /\ \A p : Deletable(p) => \A t \in Sessions : ~Holds(t, p)
<1>1. {"read"} \subseteq Share /\ "write" \notin Share /\ "delete" \notin Share
  BY DEF Share
<1> QED
  BY <1>1 DEF Granted, Deletable

(* The temp folder is empty when the first session comes.                  *)
LEMMA IInit == Init => IInv
<1> SUFFICES ASSUME Init PROVE IInv
  OBVIOUS
<1>1. TypeOK
  BY DEF Init, TypeOK
<1>2. HandleInv /\ SharingInv /\ OwnerInv /\ SkipInv /\ CleanupInv
  BY DEF Init, HandleInv, SharingInv, OwnerInv, Skipping, SkipInv, CleanupInv
<1> QED
  BY <1>1, <1>2 DEF IInv

-----------------------------------------------------------------------------
(* One lemma for each kind of step.                                        *)

(* The search for the temp file.                                           *)
LEMMA FindNext ==
  ASSUME IInv, NEW s \in Sessions, Find(s)
  PROVE  IInv'
<1>0. TypeOK /\ HandleInv /\ SharingInv /\ OwnerInv /\ SkipInv /\ CleanupInv
  BY DEF IInv
<1>a. PICK e \in Entries : \E size \in Found(PathOf[e]) :
        /\ entry' = [entry EXCEPT ![s] = e]
        /\ overwrite' = [overwrite EXCEPT ![s] = Overwrite(size, e)]
        /\ raced' = [raced EXCEPT ![s] = Written(PathOf[e])]
  BY DEF Find
<1>1. PICK size \in Found(PathOf[e]) :
        /\ at[s] = "closed"
        /\ entry' = [entry EXCEPT ![s] = e]
        /\ overwrite' = [overwrite EXCEPT ![s] = Overwrite(size, e)]
        /\ raced' = [raced EXCEPT ![s] = Written(PathOf[e])]
        /\ at' = [at EXCEPT ![s] = "found"]
        /\ UNCHANGED <<file, access, left, success, old>>
  BY <1>a DEF Find, cleaner
<1>2. Written(PathOf[e]) \in BOOLEAN /\ Overwrite(size, e) \in BOOLEAN /\ e # Nothing
  BY NothingAssumption DEF Written, Overwrite
<1>3. TypeOK'
  BY <1>0, <1>1, <1>2 DEF TypeOK
<1>4. access[s] = {}
  BY <1>0, <1>1 DEF HandleInv
<1>5. \A t \in Sessions : access[t] # {} => t # s /\ Path(t)' = Path(t)
  BY <1>0, <1>1, <1>4 DEF Path, TypeOK
<1>6. \A t \in Sessions : \A p : Holds(t, p)' <=> Holds(t, p)
  BY <1>1, <1>5 DEF Holds
<1>7. HandleInv'
  BY <1>0, <1>1 DEF HandleInv, TypeOK
<1>8. SharingInv'
  BY <1>0, <1>1, <1>5, <1>6 DEF SharingInv
<1>9. OwnerInv'
  BY <1>0, <1>1 DEF OwnerInv, TypeOK, Path
<1>10. \A p : Written(p)' <=> Written(p)
  BY <1>1, <1>6 DEF Written
<1>11. ASSUME ~overwrite'[s], ~raced'[s]
       PROVE  file[PathOf[e]] # Nothing /\ file[PathOf[e]].len = SizeOf[e]
  <2>1. ~Written(PathOf[e]) /\ ~Overwrite(size, e)
    BY <1>0, <1>1, <1>2, <1>11 DEF TypeOK
  <2>2. size = SizeOf[e] /\ size # -1
    BY <2>1, SizeAssumption DEF Overwrite
  <2> QED
    BY <2>1, <2>2 DEF Found
<1>12. SkipInv'
  <2> SUFFICES ASSUME NEW t \in Sessions, Skipping(t)', ~raced'[t]
               PROVE  /\ file[Path(t)'] # Nothing /\ file[Path(t)'].len = SizeOf[entry'[t]]
                      /\ ~Written(Path(t)')
    BY <1>1, <1>10 DEF SkipInv
  <2>1. CASE t = s
    <3>1. ~overwrite'[s] /\ entry'[s] = e /\ raced'[s] = Written(PathOf[e])
      BY <1>0, <1>1, <2>1 DEF Skipping, TypeOK
    <3> QED
      BY <1>11, <2>1, <3>1 DEF Path
  <2>2. CASE t # s
    BY <1>0, <1>1, <2>2 DEF SkipInv, Skipping, Path, TypeOK
  <2> QED
    BY <2>1, <2>2
<1>13. CleanupInv'
  BY <1>0, <1>1 DEF CleanupInv
<1> QED
  BY <1>3, <1>7, <1>8, <1>9, <1>12, <1>13 DEF IInv

(* A session that ends, by CloseEntry, a failure to open or a crash.       *)
LEMMA EndedNext ==
  ASSUME IInv, NEW s \in Sessions, at[s] # "closed", Ended(s)
  PROVE  IInv'
<1>0. TypeOK /\ HandleInv /\ SharingInv /\ OwnerInv /\ SkipInv /\ CleanupInv
  BY DEF IInv
<1>1. /\ at' = [at EXCEPT ![s] = "closed"]
      /\ entry' = [entry EXCEPT ![s] = Nothing]
      /\ overwrite' = [overwrite EXCEPT ![s] = FALSE]
      /\ access' = [access EXCEPT ![s] = {}]
      /\ raced' = [raced EXCEPT ![s] = FALSE]
      /\ UNCHANGED <<file, left, success, old>>
  BY DEF Ended, cleaner
<1>2. TypeOK'
  BY <1>0, <1>1 DEF TypeOK
<1>3. /\ at'[s] = "closed" /\ access'[s] = {}
      /\ \A t \in Sessions \ {s} : /\ at'[t] = at[t] /\ access'[t] = access[t]
                                   /\ Path(t)' = Path(t) /\ entry'[t] = entry[t]
                                   /\ overwrite'[t] = overwrite[t] /\ raced'[t] = raced[t]
  BY <1>0, <1>1 DEF TypeOK, Path
<1>4. \A t \in Sessions : \A p : Holds(t, p)' => t # s /\ Holds(t, p)
  BY <1>3 DEF Holds
<1>5. \A p : Written(p)' => Written(p)
  BY <1>3, <1>4 DEF Written
<1>6. HandleInv'
  BY <1>0, <1>3 DEF HandleInv
<1>7. SharingInv'
  BY <1>0, <1>1, <1>3, <1>4 DEF SharingInv
<1>8. OwnerInv'
  BY <1>0, <1>1, <1>3 DEF OwnerInv
<1>9. SkipInv'
  BY <1>0, <1>1, <1>3, <1>5 DEF SkipInv, Skipping
<1>10. CleanupInv'
  BY <1>0, <1>1 DEF CleanupInv
<1> QED
  BY <1>2, <1>6, <1>7, <1>8, <1>9, <1>10 DEF IInv

(* The temp file is made, or cut to nothing.                               *)
LEMMA CreateNext ==
  ASSUME IInv, NEW s \in Sessions, Create(s)
  PROVE  IInv'
<1>0. TypeOK /\ HandleInv /\ SharingInv /\ OwnerInv /\ SkipInv /\ CleanupInv
  BY DEF IInv
<1>1. PICK state \in {"extracting", "leaked"} : at' = [at EXCEPT ![s] = state]
  BY DEF Create, Opened
<1>2. /\ at[s] = "found" /\ overwrite[s]
      /\ access' = [access EXCEPT ![s] = {"read", "write"}]
      /\ file' = [file EXCEPT ![Path(s)] = Empty(entry[s])]
      /\ old' = old \ {Path(s)}
      /\ raced' = [t \in Sessions |->
                     raced[t] \/ (t \in Sessions \ {s} /\ at[t] = "found" /\ Path(t) = Path(s))]
      /\ UNCHANGED <<entry, overwrite, left, success>>
  BY DEF Create, Opened, Race
<1>3. \A t \in Sessions : ~Holds(t, Path(s))
  BY GrantedAlone DEF Create, Opened
<1>4. /\ entry[s] \in Entries /\ Path(s) \in Paths
      /\ Empty(entry[s]) \in Contents /\ Empty(entry[s]) # Nothing
      /\ Empty(entry[s]).of = entry[s]
  BY <1>0, <1>2, PathType, EmptyType
<1>5. TypeOK'
  BY <1>0, <1>1, <1>2, <1>4 DEF TypeOK
<1>6. /\ at'[s] \in {"extracting", "leaked"} /\ access'[s] = {"read", "write"}
      /\ \A t \in Sessions \ {s} : at'[t] = at[t] /\ access'[t] = access[t]
      /\ \A t \in Sessions : Path(t)' = Path(t)
      /\ \A t \in Sessions :
           raced'[t] = (raced[t] \/ (t # s /\ at[t] = "found" /\ Path(t) = Path(s)))
  BY <1>0, <1>1, <1>2 DEF TypeOK, Path
<1>7. /\ file'[Path(s)] = Empty(entry[s])
      /\ \A p \in Paths \ {Path(s)} : file'[p] = file[p]
  BY <1>0, <1>2, <1>4 DEF TypeOK
<1>8. \A t \in Sessions \ {s} : access[t] # {} => Path(t) # Path(s) /\ Path(t) \in Paths
  <2> SUFFICES ASSUME NEW t \in Sessions \ {s}, access[t] # {}
               PROVE  Path(t) # Path(s) /\ Path(t) \in Paths
    OBVIOUS
  <2>1. at[t] # "closed"
    BY <1>0 DEF HandleInv
  <2> QED
    BY <1>0, <1>3, <2>1, PathType DEF Holds
<1>9. \A t \in Sessions \ {s} : \A p : Holds(t, p)' <=> Holds(t, p)
  BY <1>6 DEF Holds
<1>10. \A p : Holds(s, p)' <=> p = Path(s)
  BY <1>6 DEF Holds
<1>11. HandleInv'
  BY <1>0, <1>6 DEF HandleInv
<1>12. SharingInv'
  <2> SUFFICES ASSUME NEW t \in Sessions, access'[t] # {}
               PROVE  /\ file'[Path(t)'] # Nothing
                      /\ "write" \in access'[t] =>
                           \A u \in Sessions \ {t} : ~Holds(u, Path(t))'
    BY <1>6 DEF SharingInv
  <2>1. CASE t = s
    BY <1>3, <1>4, <1>6, <1>7, <1>9, <2>1
  <2>2. CASE t # s
    <3>1. /\ access[t] # {} /\ access'[t] = access[t]
          /\ Path(t) # Path(s) /\ file'[Path(t)] = file[Path(t)]
      BY <1>6, <1>7, <1>8, <2>2
    <3>2. /\ file[Path(t)] # Nothing
          /\ "write" \in access[t] => \A u \in Sessions \ {t} : ~Holds(u, Path(t))
      BY <1>0, <3>1 DEF SharingInv
    <3> QED
      BY <1>6, <1>9, <1>10, <3>1, <3>2
  <2> QED
    BY <2>1, <2>2
<1>13. OwnerInv'
  <2> SUFFICES ASSUME NEW t \in Sessions, at'[t] = "extracting"
               PROVE  file'[Path(t)].of = entry[t]
    BY <1>2, <1>6 DEF OwnerInv
  <2>1. CASE t = s
    BY <1>4, <1>7, <2>1
  <2>2. CASE t # s
    <3>1. at[t] = "extracting" /\ access[t] # {}
      BY <1>0, <1>6, <2>2 DEF HandleInv
    <3> QED
      BY <1>0, <1>7, <1>8, <2>2, <3>1 DEF OwnerInv
  <2> QED
    BY <2>1, <2>2
<1>14. SkipInv'
  <2> SUFFICES ASSUME NEW t \in Sessions, Skipping(t)', ~raced'[t]
               PROVE  /\ file'[Path(t)] # Nothing /\ file'[Path(t)].len = SizeOf[entry[t]]
                      /\ ~Written(Path(t))'
    BY <1>2, <1>6 DEF SkipInv, Written
  <2>1. t # s
    BY <1>6 DEF Skipping
  <2>2. Skipping(t) /\ ~raced[t] /\ Path(t) # Path(s) /\ Path(t) \in Paths
    <3>1. Skipping(t) /\ ~raced[t] /\ (at[t] = "found" => Path(t) # Path(s))
      BY <1>2, <1>6, <2>1 DEF Skipping
    <3>2. at[t] # "closed" /\ (at[t] # "found" => access[t] # {})
      BY <1>0, <3>1 DEF Skipping, HandleInv
    <3> QED
      BY <1>0, <1>8, <2>1, <3>1, <3>2, PathType
  <2>3. /\ file[Path(t)] # Nothing /\ file[Path(t)].len = SizeOf[entry[t]]
        /\ ~Written(Path(t))
    BY <1>0, <2>2 DEF SkipInv
  <2>4. ~Written(Path(t))'
    BY <1>6, <1>9, <1>10, <2>2, <2>3 DEF Written
  <2> QED
    BY <1>7, <2>2, <2>3, <2>4
<1>15. CleanupInv'
  BY <1>0, <1>2, <1>7 DEF CleanupInv, TypeOK
<1> QED
  BY <1>5, <1>11, <1>12, <1>13, <1>14, <1>15 DEF IInv

(* The temp file that was found is opened for reading.                     *)
LEMMA OpenNext ==
  ASSUME IInv, NEW s \in Sessions, Open(s)
  PROVE  IInv'
<1>0. TypeOK /\ HandleInv /\ SharingInv /\ OwnerInv /\ SkipInv /\ CleanupInv
  BY DEF IInv
<1>1. PICK state \in {"reading", "leaked"} : at' = [at EXCEPT ![s] = state]
  BY DEF Open, Opened
<1>2. /\ at[s] = "found" /\ ~overwrite[s]
      /\ access' = [access EXCEPT ![s] = {"read"}]
      /\ file' = IF file[Path(s)] = Nothing
                 THEN [file EXCEPT ![Path(s)] = Empty(entry[s])] ELSE file
      /\ UNCHANGED <<entry, overwrite, left, success, old, raced>>
  BY DEF Open, Opened, cleaner
<1>3. \A t \in Sessions : Holds(t, Path(s)) => "write" \notin access[t]
  BY GrantedAlone DEF Open, Opened
<1>4. /\ entry[s] \in Entries /\ Path(s) \in Paths
      /\ Empty(entry[s]) \in Contents /\ Empty(entry[s]) # Nothing
  BY <1>0, <1>2, PathType, EmptyType
<1>5. TypeOK'
  BY <1>0, <1>1, <1>2, <1>4 DEF TypeOK
<1>6. /\ at'[s] \in {"reading", "leaked"} /\ access'[s] = {"read"}
      /\ \A t \in Sessions \ {s} : at'[t] = at[t] /\ access'[t] = access[t]
      /\ \A t \in Sessions : Path(t)' = Path(t)
  BY <1>0, <1>1, <1>2 DEF TypeOK, Path
<1>7. /\ file'[Path(s)] # Nothing
      /\ \A p : file[p] # Nothing => file'[p] = file[p]
  <2>1. CASE file[Path(s)] = Nothing
    BY <1>0, <1>2, <1>4, <2>1 DEF TypeOK
  <2>2. CASE file[Path(s)] # Nothing
    BY <1>2, <2>2
  <2> QED
    BY <2>1, <2>2
<1>8. \A t \in Sessions \ {s} : \A p : Holds(t, p)' <=> Holds(t, p)
  BY <1>6 DEF Holds
<1>9. \A p : Holds(s, p)' <=> p = Path(s)
  BY <1>6 DEF Holds
<1>10. \A p : Written(p)' => Written(p)
  BY <1>6, <1>8 DEF Written
<1>11. HandleInv'
  BY <1>0, <1>6 DEF HandleInv
<1>12. SharingInv'
  <2> SUFFICES ASSUME NEW t \in Sessions, access'[t] # {}
               PROVE  /\ file'[Path(t)'] # Nothing
                      /\ "write" \in access'[t] =>
                           \A u \in Sessions \ {t} : ~Holds(u, Path(t))'
    BY <1>6 DEF SharingInv
  <2>1. CASE t = s
    BY <1>6, <1>7, <2>1
  <2>2. CASE t # s
    <3>1. /\ access[t] # {} /\ access'[t] = access[t]
          /\ file[Path(t)] # Nothing
          /\ "write" \in access[t] => \A u \in Sessions \ {t} : ~Holds(u, Path(t))
      BY <1>0, <1>6, <2>2 DEF SharingInv
    <3>2. "write" \in access[t] => Path(t) # Path(s)
      BY <1>3, <3>1 DEF Holds
    <3> QED
      BY <1>6, <1>7, <1>8, <1>9, <3>1, <3>2
  <2> QED
    BY <2>1, <2>2
<1>13. OwnerInv'
  <2> SUFFICES ASSUME NEW t \in Sessions, at'[t] = "extracting"
               PROVE  file'[Path(t)].of = entry[t]
    BY <1>2, <1>6 DEF OwnerInv
  <2>1. at[t] = "extracting" /\ access[t] # {}
    BY <1>0, <1>6 DEF HandleInv
  <2> QED
    BY <1>0, <1>7, <2>1 DEF OwnerInv, SharingInv
<1>14. SkipInv'
  <2> SUFFICES ASSUME NEW t \in Sessions, Skipping(t)', ~raced'[t]
               PROVE  /\ file'[Path(t)] # Nothing /\ file'[Path(t)].len = SizeOf[entry[t]]
                      /\ ~Written(Path(t))'
    BY <1>2, <1>6 DEF SkipInv, Written
  <2>1. Skipping(t) /\ ~raced[t]
    BY <1>2, <1>6 DEF Skipping
  <2> QED
    BY <1>0, <1>7, <1>10, <1>6, <2>1 DEF SkipInv, Written
<1>15. CleanupInv'
  BY <1>0, <1>2, <1>7 DEF CleanupInv
<1> QED
  BY <1>5, <1>11, <1>12, <1>13, <1>14, <1>15 DEF IInv

(* The extraction writes to the file.                                      *)
LEMMA ExtractNext ==
  ASSUME IInv, NEW s \in Sessions, Extract(s)
  PROVE  IInv'
<1>0. TypeOK /\ HandleInv /\ SharingInv /\ OwnerInv /\ SkipInv /\ CleanupInv
  BY DEF IInv
<1>1. /\ at[s] = "extracting" /\ file[Path(s)].len < SizeOf[entry[s]]
      /\ UNCHANGED <<at, entry, overwrite, access, left, success, old, raced>>
  BY DEF Extract, session, cleaner
<1>2. PICK right \in BOOLEAN : file' = [file EXCEPT ![Path(s)] = Longer(@, right)]
  BY DEF Extract
<1>3. /\ Path(s) \in Paths /\ access[s] # {} /\ "write" \in access[s]
      /\ file[Path(s)].of = entry[s]
  BY <1>0, <1>1, PathType DEF HandleInv, OwnerInv
<1>4. file[Path(s)] \in Contents
  BY <1>0, <1>3 DEF TypeOK, SharingInv
<1> DEFINE g == Longer(file[Path(s)], right)
<1>5. file' = [file EXCEPT ![Path(s)] = g]
  BY <1>2
<1>6. g \in Contents /\ g # Nothing /\ g.of = file[Path(s)].of
  BY <1>1, <1>3, <1>4, WriteType
<1> HIDE DEF g
<1>7. /\ file'[Path(s)] = g
      /\ \A p \in Paths \ {Path(s)} : file'[p] = file[p]
  BY <1>0, <1>3, <1>5 DEF TypeOK
<1>8. TypeOK'
  BY <1>0, <1>1, <1>3, <1>5, <1>6 DEF TypeOK
<1>9. /\ \A t \in Sessions : Path(t)' = Path(t)
      /\ \A t \in Sessions : \A p : Holds(t, p)' <=> Holds(t, p)
      /\ \A p : Written(p)' <=> Written(p)
  BY <1>1 DEF Path, Holds, Written
<1>10. HandleInv'
  BY <1>0, <1>1 DEF HandleInv
<1>11. \A p \in Paths : file[p] # Nothing => file'[p] # Nothing
  BY <1>6, <1>7
<1>12. SharingInv'
  <2>1. \A t \in Sessions : access[t] # {} => Path(t) \in Paths
    BY <1>0, PathType DEF HandleInv
  <2> QED
    BY <1>0, <1>1, <1>9, <1>11, <2>1 DEF SharingInv
<1>13. OwnerInv'
  <2> SUFFICES ASSUME NEW t \in Sessions, at[t] = "extracting"
               PROVE  file'[Path(t)].of = entry[t]
    BY <1>1, <1>9 DEF OwnerInv
  <2>1. Path(t) \in Paths /\ file[Path(t)].of = entry[t]
    BY <1>0, PathType DEF OwnerInv
  <2>2. file'[Path(t)].of = file[Path(t)].of
    BY <1>6, <1>7, <2>1
  <2> QED
    BY <2>1, <2>2
<1>14. SkipInv'
  <2> SUFFICES ASSUME NEW t \in Sessions, Skipping(t), ~raced[t]
               PROVE  /\ file'[Path(t)] # Nothing /\ file'[Path(t)].len = SizeOf[entry[t]]
                      /\ ~Written(Path(t))
    BY <1>1, <1>9 DEF SkipInv, Skipping
  <2>1. /\ file[Path(t)] # Nothing /\ file[Path(t)].len = SizeOf[entry[t]]
        /\ ~Written(Path(t))
    BY <1>0 DEF SkipInv
  <2>2. Path(t) # Path(s) /\ Path(t) \in Paths
    BY <1>0, <1>3, <2>1, PathType DEF Written, Holds, Skipping
  <2> QED
    BY <1>7, <2>1, <2>2
<1>15. CleanupInv'
  BY <1>0, <1>1, <1>11 DEF CleanupInv, TypeOK
<1> QED
  BY <1>8, <1>10, <1>12, <1>13, <1>14, <1>15 DEF IInv

(* Cleanup begins, and lists the files there are.                          *)
LEMMA StartCleanupNext ==
  ASSUME IInv, StartCleanup
  PROVE  IInv'
<1>0. TypeOK /\ HandleInv /\ SharingInv /\ OwnerInv /\ SkipInv /\ CleanupInv
  BY DEF IInv
<1>1. /\ left' = {p \in Paths : file[p] # Nothing} /\ old' = left' /\ success' = TRUE
      /\ UNCHANGED <<file, at, entry, overwrite, access, raced>>
  BY DEF StartCleanup, session
<1>2. TypeOK'
  BY <1>0, <1>1 DEF TypeOK
<1>3. \A p : Written(p)' <=> Written(p)
  BY <1>1 DEF Written, Holds, Path
<1>4. HandleInv' /\ SharingInv' /\ OwnerInv'
  BY <1>0, <1>1 DEF HandleInv, SharingInv, OwnerInv, Holds, Path
<1>5. SkipInv'
  BY <1>0, <1>1, <1>3 DEF SkipInv, Skipping, Path
<1>6. CleanupInv'
  BY <1>1 DEF CleanupInv
<1> QED
  BY <1>2, <1>4, <1>5, <1>6 DEF IInv

(* Cleanup visits a file it has listed.                                    *)
LEMMA VisitNext ==
  ASSUME IInv, Visit
  PROVE  IInv'
<1>0. TypeOK /\ HandleInv /\ SharingInv /\ OwnerInv /\ SkipInv /\ CleanupInv
  BY DEF IInv
<1>1. PICK p \in left :
       /\ left' = left \ {p}
       /\ IF file[p] = Nothing THEN UNCHANGED <<file, success, old, raced>>
          ELSE /\ success' = Visited(p)
               /\ IF Deletable(p)
                  THEN /\ file' = [file EXCEPT ![p] = Nothing]
                       /\ old' = old \ {p}
                       /\ Race(p, Sessions)
                  ELSE UNCHANGED <<file, old, raced>>
  BY DEF Visit
<1>2. p \in Paths /\ UNCHANGED <<at, entry, overwrite, access>>
  BY <1>0 DEF TypeOK, Visit, session
<1>3. Visited(p) \in BOOLEAN /\ (Visited(p) => success /\ Deletable(p))
  BY <1>0 DEF Visited, TypeOK, Deletable, Granted
<1>4. /\ \A t \in Sessions : Path(t)' = Path(t)
      /\ \A t \in Sessions : \A q : Holds(t, q)' <=> Holds(t, q)
      /\ \A q : Written(q)' <=> Written(q)
  BY <1>2 DEF Path, Holds, Written
<1>5. \A t \in Sessions : access[t] # {} => Path(t) \in Paths
  BY <1>0, PathType DEF HandleInv
<1>6. HandleInv'
  BY <1>0, <1>2 DEF HandleInv
<1>7. CASE file[p] # Nothing /\ Deletable(p)
  <2>1. /\ file' = [file EXCEPT ![p] = Nothing] /\ old' = old \ {p} /\ success' = Visited(p)
        /\ raced' = [t \in Sessions |->
                       raced[t] \/ (t \in Sessions /\ at[t] = "found" /\ Path(t) = p)]
    BY <1>1, <1>7 DEF Race
  <2>2. \A q \in Paths \ {p} : file'[q] = file[q]
    BY <1>0, <1>2, <2>1 DEF TypeOK
  <2>3. TypeOK'
    BY <1>0, <1>1, <1>2, <1>3, <2>1 DEF TypeOK
  <2>4. \A t \in Sessions : access[t] # {} => Path(t) # p
    BY <1>7, GrantedAlone DEF Holds
  <2>5. SharingInv'
    BY <1>0, <1>2, <1>4, <1>5, <2>2, <2>4 DEF SharingInv
  <2>6. OwnerInv'
    BY <1>0, <1>2, <1>4, <1>5, <2>2, <2>4 DEF OwnerInv, HandleInv
  <2>7. SkipInv'
    <3> SUFFICES ASSUME NEW t \in Sessions, Skipping(t), ~raced'[t]
                 PROVE  /\ file'[Path(t)] # Nothing /\ file'[Path(t)].len = SizeOf[entry[t]]
                        /\ ~Written(Path(t))
      BY <1>2, <1>4 DEF SkipInv, Skipping
    <3>1. ~raced[t] /\ (at[t] = "found" => Path(t) # p)
      BY <2>1
    <3>2. at[t] # "closed" /\ (at[t] # "found" => access[t] # {})
      BY <1>0 DEF Skipping, HandleInv
    <3>3. Path(t) \in Paths \ {p}
      BY <1>0, <2>4, <3>1, <3>2, PathType
    <3> QED
      BY <1>0, <2>2, <3>1, <3>3 DEF SkipInv
  <2>8. CleanupInv'
    BY <1>0, <1>1, <1>3, <2>1, <2>2 DEF CleanupInv, TypeOK
  <2> QED
    BY <1>6, <2>3, <2>5, <2>6, <2>7, <2>8 DEF IInv
<1>8. CASE ~(file[p] # Nothing /\ Deletable(p))
  <2>1. /\ UNCHANGED <<file, old, raced>>
        /\ \/ file[p] = Nothing /\ success' = success
           \/ success' = FALSE
    BY <1>1, <1>3, <1>8
  <2>2. TypeOK'
    BY <1>0, <1>1, <1>2, <2>1 DEF TypeOK
  <2>3. SharingInv' /\ OwnerInv'
    BY <1>0, <1>2, <1>4, <2>1 DEF SharingInv, OwnerInv
  <2>4. SkipInv'
    BY <1>0, <1>2, <1>4, <2>1 DEF SkipInv, Skipping
  <2>5. CleanupInv'
    BY <1>0, <1>1, <2>1 DEF CleanupInv
  <2> QED
    BY <1>6, <2>2, <2>3, <2>4, <2>5 DEF IInv
<1> QED
  BY <1>7, <1>8

(* Every step keeps the invariant.                                         *)
LEMMA INext == IInv /\ [Next]_vars => IInv'
<1> SUFFICES ASSUME IInv, [Next]_vars
             PROVE  IInv'
  OBVIOUS
<1>1. ASSUME NEW s \in Sessions, Find(s) PROVE IInv'
  BY <1>1, FindNext
<1>2. ASSUME NEW s \in Sessions, Create(s) PROVE IInv'
  BY <1>2, CreateNext
<1>3. ASSUME NEW s \in Sessions, Open(s) PROVE IInv'
  BY <1>3, OpenNext
<1>4. ASSUME NEW s \in Sessions, OpenFails(s) \/ Close(s) \/ Crash(s) PROVE IInv'
  <2>1. at[s] # "closed" /\ Ended(s)
    BY <1>4 DEF OpenFails, Close, Crash
  <2> QED
    BY <2>1, EndedNext
<1>5. ASSUME NEW s \in Sessions, Extract(s) PROVE IInv'
  BY <1>5, ExtractNext
<1>6. CASE StartCleanup
  BY <1>6, StartCleanupNext
<1>7. CASE Visit
  BY <1>7, VisitNext
<1>8. CASE UNCHANGED vars
  <2>1. UNCHANGED <<file, at, entry, overwrite, access, left, success, old, raced>>
    BY <1>8 DEF vars, session, cleaner
  <2>2. /\ \A t \in Sessions : Path(t)' = Path(t)
        /\ \A t \in Sessions : \A q : Holds(t, q)' <=> Holds(t, q)
        /\ \A q : Written(q)' <=> Written(q)
    BY <2>1 DEF Path, Holds, Written
  <2>3. TypeOK' /\ HandleInv' /\ CleanupInv'
    BY <2>1 DEF IInv, TypeOK, HandleInv, CleanupInv
  <2>4. SharingInv' /\ OwnerInv'
    BY <2>1, <2>2 DEF IInv, SharingInv, OwnerInv
  <2>5. SkipInv'
    BY <2>1, <2>2 DEF IInv, SkipInv, Skipping
  <2> QED
    BY <2>3, <2>4, <2>5 DEF IInv
<1> QED
  BY <1>1, <1>2, <1>3, <1>4, <1>5, <1>6, <1>7, <1>8 DEF Next

(* The invariant holds for any number of sessions, entries and paths.      *)
LEMMA Inductive == Spec => []IInv
<1>1. Init => IInv
  BY IInit
<1>2. IInv /\ [Next]_vars => IInv'
  BY INext
<1> QED
  BY <1>1, <1>2, PTL DEF Spec

-----------------------------------------------------------------------------
(* Every variable keeps its type.                                          *)
THEOREM Types == Spec => []TypeOK
<1>1. IInv => TypeOK
  BY DEF IInv
<1> QED
  BY <1>1, Inductive, PTL

(* While a session extracts into a file nobody else has the file open, and *)
(* it is there and the session's own, whatever the other sessions and      *)
(* Cleanup do (CreateFile's sharing modes as CFileStream asks for them).   *)
THEOREM WriterIsAlone == Spec => []WriterAlone
<1>1. IInv => WriterAlone
  BY DEF IInv, HandleInv, SharingInv, OwnerInv, WriterAlone
<1> QED
  BY <1>1, Inductive, PTL

(* A file whose length shows that it need not be extracted is whole when   *)
(* it is opened, however many sessions broke off or died before, unless    *)
(* another session touched it in between (OpenFile's two steps).           *)
THEOREM SkippedFileIsWhole == Spec => []SkippedIsWhole
<1>1. IInv => SkippedIsWhole
  BY DEF IInv, SkipInv, Skipping, SkippedIsWhole
<1> QED
  BY <1>1, Inductive, PTL

(* When Cleanup returns TRUE no file that it found is left.                *)
THEOREM CleanupIsComplete == Spec => []CleanupComplete
<1>1. IInv => CleanupComplete
  BY DEF IInv, CleanupInv, CleanupComplete
<1> QED
  BY <1>1, Inductive, PTL

(* No step of another session, and none of Cleanup, changes a file that a  *)
(* session reads.                                                          *)
THEOREM ReadersAreUndisturbed == Spec => ReaderUndisturbed
<1> DEFINE Undisturbed == \A s \in Sessions :
             at[s] = "reading" /\ at'[s] = "reading" => file'[Path(s)] = file[Path(s)]
<1>1. ASSUME IInv, Next
      PROVE  Undisturbed
  <2> SUFFICES ASSUME NEW s \in Sessions, at[s] = "reading"
               PROVE  file'[Path(s)] = file[Path(s)]
    OBVIOUS
  <2>0. TypeOK /\ HandleInv /\ SharingInv
    BY <1>1 DEF IInv
  <2>1. /\ access[s] # {} /\ Holds(s, Path(s)) /\ Path(s) \in Paths
        /\ file[Path(s)] # Nothing
    BY <2>0, PathType DEF HandleInv, SharingInv, Holds
  <2>2. ASSUME NEW t \in Sessions, Create(t) PROVE file'[Path(s)] = file[Path(s)]
    <3>1. Path(t) # Path(s)
      BY <2>1, <2>2, GrantedAlone DEF Create, Opened
    <3> QED
      BY <2>0, <2>1, <2>2, <3>1 DEF Create, TypeOK
  <2>3. ASSUME NEW t \in Sessions, Open(t) PROVE file'[Path(s)] = file[Path(s)]
    BY <2>0, <2>1, <2>3 DEF Open, TypeOK
  <2>4. ASSUME NEW t \in Sessions, Extract(t) PROVE file'[Path(s)] = file[Path(s)]
    <3>1. at[t] = "extracting" /\ access[t] # {} /\ "write" \in access[t] /\ t # s
      BY <2>0, <2>4 DEF Extract, HandleInv
    <3>2. Path(t) # Path(s)
      BY <2>0, <2>1, <3>1 DEF SharingInv
    <3> QED
      BY <2>0, <2>1, <2>4, <3>2 DEF Extract, TypeOK
  <2>5. ASSUME Visit PROVE file'[Path(s)] = file[Path(s)]
    <3>1. PICK p \in left : file' = file \/ (Deletable(p) /\ file' = [file EXCEPT ![p] = Nothing])
      BY <2>5 DEF Visit
    <3>2. Deletable(p) => p # Path(s)
      BY <2>1, GrantedAlone
    <3> QED
      BY <2>0, <2>1, <3>1, <3>2 DEF TypeOK
  <2>6. ASSUME NEW t \in Sessions, Find(t) \/ OpenFails(t) \/ Close(t) \/ Crash(t)
        PROVE  file'[Path(s)] = file[Path(s)]
    BY <2>6 DEF Find, OpenFails, Close, Crash, Ended
  <2>7. CASE StartCleanup
    BY <2>7 DEF StartCleanup
  <2> QED
    BY <1>1, <2>2, <2>3, <2>4, <2>5, <2>6, <2>7 DEF Next
<1>2. ASSUME UNCHANGED vars
      PROVE  [Undisturbed]_vars
  BY <1>2
<1>3. IInv /\ [Next]_vars => [Undisturbed]_vars
  BY <1>1, <1>2
<1> QED
  BY <1>3, Inductive, PTL DEF Spec, ReaderUndisturbed

-----------------------------------------------------------------------------
(* The scope of the findings: what it takes for a session to be served     *)
(* something else than its entry.                                          *)

(* Files are where the entry they belong to has its file, and right.       *)
PlaceInv ==
  \A p \in Paths : file[p] # Nothing => PathOf[file[p].of] = p /\ file[p].good

LEMMA PlaceNext ==
  ASSUME MayDamage = FALSE, IInv, PlaceInv, [Next]_vars
  PROVE  PlaceInv'
<1>0. TypeOK /\ file \in [Paths -> {Nothing} \cup Contents]
  BY DEF IInv, TypeOK
<1>1. ASSUME NEW e \in Entries, NEW s \in Sessions, entry[s] = e,
             file' = [file EXCEPT ![Path(s)] = Empty(entry[s])]
      PROVE  PlaceInv'
  <2>1. Path(s) = PathOf[e] /\ PathOf[e] \in Paths
    BY <1>1, PathAssumption DEF Path
  <2>2. Empty(e).of = e /\ Empty(e).good = TRUE
    BY DEF Empty
  <2>3. ASSUME NEW p \in Paths, file'[p] # Nothing
        PROVE  PathOf[file'[p].of] = p /\ file'[p].good
    BY <1>0, <1>1, <2>1, <2>2, <2>3 DEF PlaceInv
  <2> QED
    BY <2>3 DEF PlaceInv
<1>2. ASSUME NEW s \in Sessions, Create(s) PROVE PlaceInv'
  BY <1>0, <1>1, <1>2, PathType DEF Create
<1>3. ASSUME NEW s \in Sessions, Open(s) PROVE PlaceInv'
  <2>1. CASE file[Path(s)] = Nothing
    BY <1>0, <1>1, <1>3, <2>1, PathType DEF Open
  <2>2. CASE file[Path(s)] # Nothing
    BY <1>3, <2>2 DEF Open, PlaceInv
  <2> QED
    BY <2>1, <2>2
<1>4. ASSUME NEW s \in Sessions, Extract(s) PROVE PlaceInv'
  <2>1. Path(s) \in Paths /\ file[Path(s)] # Nothing
    BY <1>0, <1>4, PathType DEF Extract, IInv, HandleInv, SharingInv
  <2>2. file' = [file EXCEPT ![Path(s)] = Longer(file[Path(s)], TRUE)]
    BY <1>4, MayDamage = FALSE DEF Extract
  <2>3. /\ Longer(file[Path(s)], TRUE).of = file[Path(s)].of
        /\ Longer(file[Path(s)], TRUE).good = file[Path(s)].good
    <3>1. file[Path(s)].good \in BOOLEAN
      BY <1>0, <2>1, ContentsType
    <3> QED
      BY <3>1 DEF Longer
  <2>4. ASSUME NEW p \in Paths, file'[p] # Nothing
        PROVE  PathOf[file'[p].of] = p /\ file'[p].good
    <3>1. CASE p = Path(s)
      BY <1>0, <2>1, <2>2, <2>3, <3>1 DEF PlaceInv
    <3>2. CASE p # Path(s)
      BY <1>0, <2>1, <2>2, <2>4, <3>2 DEF PlaceInv
    <3> QED
      BY <3>1, <3>2
  <2> QED
    BY <2>4 DEF PlaceInv
<1>5. CASE Visit
  <2>1. \A p \in Paths : file'[p] = Nothing \/ file'[p] = file[p]
    BY <1>0, <1>5 DEF Visit
  <2> QED
    BY <2>1 DEF PlaceInv
<1>6. ASSUME UNCHANGED file PROVE PlaceInv'
  BY <1>6 DEF PlaceInv
<1> QED
  BY <1>2, <1>3, <1>4, <1>5, <1>6
     DEF Next, Find, OpenFails, Close, Crash, Ended, StartCleanup, vars

(* Where every entry has a temp file name of its own and neither damage    *)
(* nor a wrong password goes unnoticed, a session that skips the           *)
(* extraction reads its own entry and all of it, unless another session or *)
(* Cleanup came between its search and its opening: the two findings about *)
(* SkippedIsEntry and wrong data that nobody noticed are all that can be   *)
(* wrong with it.                                                          *)
THEOREM SkippedFileIsEntry ==
  ASSUME MayDamage = FALSE, \A e, f \in Entries : PathOf[e] = PathOf[f] => e = f
  PROVE  Spec => [](\A s \in Sessions :
                      at[s] = "reading" /\ ~raced[s] => file[Path(s)] = Whole(entry[s]))
<1> DEFINE Served == \A s \in Sessions :
                       at[s] = "reading" /\ ~raced[s] => file[Path(s)] = Whole(entry[s])
<1>1. Init => PlaceInv
  BY DEF Init, PlaceInv
<1>2. IInv /\ PlaceInv /\ [Next]_vars => PlaceInv'
  BY MayDamage = FALSE, PlaceNext
<1>3. IInv /\ PlaceInv => Served
  <2> SUFFICES ASSUME IInv, PlaceInv, NEW s \in Sessions, at[s] = "reading", ~raced[s]
               PROVE  file[Path(s)] = Whole(entry[s])
    OBVIOUS
  <2> DEFINE f == file[Path(s)]
  <2>1. entry[s] \in Entries /\ Path(s) \in Paths /\ PathOf[entry[s]] = Path(s)
    BY PathType DEF IInv, Path
  <2>2. f # Nothing /\ f.len = SizeOf[entry[s]]
    BY DEF IInv, SkipInv, Skipping
  <2>3. f \in Contents
    BY <2>1, <2>2 DEF IInv, TypeOK
  <2>4. f \in [of : Entries, len : Nat, good : BOOLEAN]
    BY <2>3, ContentsType
  <2>5. PathOf[f.of] = Path(s) /\ f.good
    BY <2>1, <2>2 DEF PlaceInv
  <2>6. f.of = entry[s]
    BY <2>1, <2>4, <2>5, \A e, g \in Entries : PathOf[e] = PathOf[g] => e = g
  <2> HIDE DEF f
  <2> QED
    BY <2>2, <2>4, <2>5, <2>6 DEF Whole, f
<1> QED
  BY <1>1, <1>2, <1>3, Inductive, PTL DEF Spec
=============================================================================
