------------------------ MODULE TemporaryFileProofs ------------------------
(***************************************************************************)
(* Proofs about TemporaryFile, for any finite number of streams, any limit *)
(* and any number of tries: the counter is exact, the limit is kept, and   *)
(* Delete's assertion never fails.                                         *)
(***************************************************************************)
EXTENDS TemporaryFile, FiniteSetTheorems, TLAPS

(* A slot has a path from the creation of its file to its deletion. *)
PathAtWork == \A s \in Slot : path[s] # None <=> pc[s] \in {"open", "undo", "live", "delete"}

(* Delete has read a count that includes its own file. *)
OwnCountRead == \A s \in Slot : pc[s] \in {"decrement", "assert"} => read[s] > 0

(* Make tries again only while it has tries left. *)
TriesLeft == \A s \in Slot : pc[s] = "create" => tries[s] < Tries

(* A file that could not be deleted is nobody's. *)
OrphansAreLost == \A s \in Slot : path[s] # None => path[s] \in files \ orphans

(* No two slots have the same file. *)
PathsApart == \A s, r \in HasFile : path[s] = path[r] => s = r

FilesAreKnown == files \subseteq {path[s] : s \in HasFile} \cup orphans

FewPassed == Cardinality(Passed) < Limit

Inv ==
  /\ TypeOK /\ NeverAborts
  /\ CountIsExact /\ FewPassed
  /\ PathAtWork /\ OwnCountRead /\ TriesLeft
  /\ OrphansAreLost /\ PathsApart /\ FilesAreKnown

-----------------------------------------------------------------------------

LEMMA CountedFinite == IsFiniteSet(Counted) /\ IsFiniteSet(Passed) /\ IsFiniteSet(HasFile)
  BY SlotAssumption, FS_Subset DEF Counted, Passed, HasFile

LEMMA InitInv == Init => Inv
  <1> SUFFICES ASSUME Init PROVE Inv
    OBVIOUS
  <1>1. Counted = {} /\ Passed = {} /\ HasFile = {}
    BY DEF Init, Counted, Passed, HasFile
  <1>2. TypeOK
    <2>1. 0 \in 0 .. Tries
      BY LimitAssumption
    <2>2. pc \in [Slot -> PC]
      BY DEF Init, PC
    <2>3. /\ path \in [Slot -> Path \cup {None}]
          /\ tries \in [Slot -> 0 .. Tries] /\ read \in [Slot -> Nat]
      BY <2>1 DEF Init
    <2>4. QED BY <2>2, <2>3 DEF Init, TypeOK
  <1>3. CountIsExact /\ FewPassed
    BY <1>1, FS_EmptySet, LimitAssumption DEF Init, CountIsExact, FewPassed
  <1>4. PathAtWork /\ OwnCountRead /\ TriesLeft /\ OrphansAreLost
    BY DEF Init, PathAtWork, OwnCountRead, TriesLeft, OrphansAreLost
  <1>5. PathsApart /\ FilesAreKnown
    BY <1>1 DEF Init, PathsApart, FilesAreKnown
  <1>6. QED BY <1>2, <1>3, <1>4, <1>5 DEF Init, Inv, NeverAborts

(* How the sets of slots follow a step of one slot. *)
LEMMA StepOfOne ==
  ASSUME TypeOK, NEW s \in Slot, NEW label \in PC, GoTo(s, label)
  PROVE  /\ pc' \in [Slot -> PC]
         /\ pc'[s] = label
         /\ \A r \in Slot : r # s => pc'[r] = pc[r]
         /\ Counted' = IF label \in {"none", "assert"} THEN Counted \ {s} ELSE Counted \cup {s}
         /\ Passed' = IF label \in {"none", "assert", "check", "back"}
                      THEN Passed \ {s} ELSE Passed \cup {s}
  <1>1. /\ pc' \in [Slot -> PC]
        /\ pc'[s] = label
        /\ \A r \in Slot : r # s => pc'[r] = pc[r]
    BY DEF TypeOK, GoTo
  <1>2. Counted' = IF label \in {"none", "assert"} THEN Counted \ {s} ELSE Counted \cup {s}
    BY <1>1 DEF Counted
  <1>3. Passed' = IF label \in {"none", "assert", "check", "back"}
                  THEN Passed \ {s} ELSE Passed \cup {s}
    BY <1>1 DEF Counted, Passed
  <1>4. QED BY <1>1, <1>2, <1>3

(* A step that leaves the files and the paths alone. *)
LEMMA FilesKept ==
  ASSUME Inv, UNCHANGED << files, orphans, path >>
  PROVE  OrphansAreLost' /\ PathsApart' /\ FilesAreKnown'
  <1>1. HasFile' = HasFile
    BY DEF HasFile
  <1>2. QED BY <1>1 DEF Inv, OrphansAreLost, PathsApart, FilesAreKnown

(* A step of a slot that is counted before and after. *)
LEMMA CountKept ==
  ASSUME Inv, NEW s \in Slot, NEW label \in PC \ {"none", "assert"}, GoTo(s, label),
         pc[s] \notin {"none", "assert"}, UNCHANGED total_count
  PROVE  CountIsExact' /\ Counted' = Counted
  <1>1. s \in Counted /\ Counted' = Counted \cup {s}
    BY StepOfOne DEF Inv, Counted
  <1>2. Counted' = Counted
    BY <1>1
  <1>3. QED BY <1>2 DEF Inv, CountIsExact

(* A slot that is counted keeps the counter above zero, and takes one when *)
(* it goes.                                                                *)
LEMMA CountedIsPositive ==
  ASSUME Inv, NEW s \in Counted
  PROVE  /\ total_count > 0
         /\ Cardinality(Counted \ {s}) = total_count - 1 /\ total_count - 1 \in Nat
  <1>1. Cardinality(Counted \ {s}) = Cardinality(Counted) - 1
    BY CountedFinite, FS_RemoveElement
  <1>2. Cardinality(Counted \ {s}) \in Nat /\ Cardinality(Counted) \in Nat
    BY CountedFinite, FS_RemoveElement, FS_CardinalityType
  <1>3. QED BY <1>1, <1>2 DEF Inv, CountIsExact

LEMMA CountTaken ==
  ASSUME Inv, NEW s \in Slot, NEW label \in {"none", "assert"}, GoTo(s, label),
         pc[s] \notin {"none", "assert"}, total_count' = total_count - 1
  PROVE  CountIsExact' /\ total_count' \in Nat
  <1>1. s \in Counted /\ label \in PC
    BY DEF Counted, PC
  <1>2. Counted' = Counted \ {s}
    BY <1>1, StepOfOne DEF Inv
  <1>3. QED BY <1>1, <1>2, CountedIsPositive DEF CountIsExact

(* A step that passes no check. *)
LEMMA NoneMorePassed ==
  ASSUME Inv, NEW s \in Slot, NEW label \in PC, GoTo(s, label),
         s \in Passed \/ label \in {"none", "assert", "check", "back"}
  PROVE  FewPassed'
  <1>1. Passed' \subseteq Passed
    BY StepOfOne DEF Inv
  <1>2. Cardinality(Passed') <= Cardinality(Passed)
    BY <1>1, CountedFinite, FS_Subset
  <1>3. /\ Cardinality(Passed') \in Nat /\ Cardinality(Passed) \in Nat
        /\ Limit \in Nat
    BY <1>1, CountedFinite, FS_Subset, FS_CardinalityType, LimitAssumption
  <1>4. QED BY <1>2, <1>3 DEF Inv, FewPassed

-----------------------------------------------------------------------------

LEMMA CountInv ==
  ASSUME Inv, NEW s \in Slot, Count(s) PROVE Inv'
  <1>1. pc[s] = "none" /\ GoTo(s, "check") /\ "check" \in PC
    BY DEF Count, At, PC
  <1>2. TypeOK'
    BY <1>1, StepOfOne DEF Inv, TypeOK, Count, disk
  <1>3. CountIsExact'
    <2>1. s \notin Counted /\ Counted' = Counted \cup {s}
      BY <1>1, StepOfOne DEF Inv, Counted
    <2>2. Cardinality(Counted') = Cardinality(Counted) + 1
      BY <2>1, CountedFinite, FS_AddElement
    <2>3. QED BY <2>2 DEF Inv, CountIsExact, Count
  <1>4. FewPassed'
    BY <1>1, NoneMorePassed
  <1>5. PathAtWork' /\ OwnCountRead' /\ TriesLeft'
    BY <1>1, StepOfOne DEF Inv, PathAtWork, OwnCountRead, TriesLeft, Count
  <1>6. OrphansAreLost' /\ PathsApart' /\ FilesAreKnown'
    BY FilesKept DEF Count, disk
  <1>7. QED BY <1>2, <1>3, <1>4, <1>5, <1>6 DEF Inv, NeverAborts, Count

(* A slot that passes the check is counted, with all that passed before:   *)
(* the count it has read is at least theirs plus one.                      *)
LEMMA CheckInv ==
  ASSUME Inv, NEW s \in Slot, Check(s) PROVE Inv'
  <1> DEFINE label == IF BelowLimit(total_count) THEN "create" ELSE "back"
  <1>1. pc[s] = "check" /\ GoTo(s, label) /\ label \in PC \ {"none", "assert"}
    BY DEF Check, At, PC
  <1>2. TypeOK'
    <2>1. 0 \in 0 .. Tries
      BY LimitAssumption
    <2>2. tries' \in [Slot -> 0 .. Tries]
      BY <2>1 DEF Inv, TypeOK, Check
    <2>3. QED BY <1>1, <2>2, StepOfOne DEF Inv, TypeOK, Check, disk
  <1>3. CountIsExact' /\ Counted' = Counted
    BY <1>1, CountKept DEF Check
  <1>4. FewPassed'
    <2>1. CASE BelowLimit(total_count)
      <3>1. Passed' \subseteq Counted
        BY <1>3 DEF Passed
      <3>2. Cardinality(Passed') <= Cardinality(Counted)
        BY <3>1, CountedFinite, FS_Subset
      <3>3. Cardinality(Passed') \in Nat /\ Cardinality(Counted) \in Nat
        BY <3>1, CountedFinite, FS_Subset, FS_CardinalityType
      <3>4. Cardinality(Counted) < Limit
        BY <2>1 DEF BelowLimit, Inv, CountIsExact
      <3>5. QED BY <3>2, <3>3, <3>4, LimitAssumption DEF FewPassed
    <2>2. CASE ~ BelowLimit(total_count)
      BY <1>1, <2>2, NoneMorePassed
    <2>3. QED BY <2>1, <2>2
  <1>5. PathAtWork' /\ OwnCountRead' /\ TriesLeft'
    BY <1>1, StepOfOne, LimitAssumption DEF Inv, TypeOK, PathAtWork, OwnCountRead, TriesLeft, Check
  <1>6. OrphansAreLost' /\ PathsApart' /\ FilesAreKnown'
    BY FilesKept DEF Check, disk
  <1>7. QED BY <1>2, <1>3, <1>4, <1>5, <1>6 DEF Inv, NeverAborts, Check

(* The new file is nobody else's, because its name did not exist. *)
LEMMA FileAdded ==
  ASSUME Inv, NEW s \in Slot, NEW p \in Path \ files, path[s] = None,
         files' = files \cup {p}, path' = [path EXCEPT ![s] = p], UNCHANGED orphans
  PROVE  OrphansAreLost' /\ PathsApart' /\ FilesAreKnown'
  <1>1. p # None /\ p \notin orphans
    BY NoneAssumption DEF Inv, TypeOK
  <1>2. path'[s] = p /\ \A r \in Slot : r # s => path'[r] = path[r]
    BY DEF Inv, TypeOK
  <1>3. HasFile' = HasFile \cup {s}
    BY <1>1, <1>2 DEF HasFile
  <1>4. \A r \in HasFile : r # s /\ r \in Slot /\ path[r] \in files \ orphans
    BY DEF Inv, OrphansAreLost, HasFile
  <1>5. OrphansAreLost'
    BY <1>1, <1>2 DEF Inv, OrphansAreLost
  <1>6. PathsApart'
    BY <1>2, <1>3, <1>4 DEF Inv, PathsApart
  <1>7. FilesAreKnown'
    <2> SUFFICES ASSUME NEW f \in files', f \notin orphans
                 PROVE  \E r \in HasFile' : f = path'[r]
      BY DEF FilesAreKnown
    <2>1. CASE f = p
      BY <2>1, <1>2, <1>3
    <2>2. CASE f # p
      <3>1. PICK r \in HasFile : f = path[r]
        BY <2>2 DEF Inv, FilesAreKnown
      <3>2. r \in HasFile' /\ path'[r] = path[r]
        BY <1>2, <1>3, <1>4
      <3>3. QED BY <3>1, <3>2
    <2>3. QED BY <2>1, <2>2
  <1>8. QED BY <1>5, <1>6, <1>7

LEMMA FileDeleted ==
  ASSUME Inv, NEW s \in Slot, path[s] # None, DeleteFile(s)
  PROVE  /\ path' \in [Slot -> Path \cup {None}]
         /\ path'[s] = None /\ \A r \in Slot : r # s => path'[r] = path[r]
         /\ files' \subseteq Path /\ orphans' \subseteq files'
         /\ OrphansAreLost' /\ PathsApart' /\ FilesAreKnown'
  <1>1. /\ path' \in [Slot -> Path \cup {None}]
        /\ path'[s] = None /\ \A r \in Slot : r # s => path'[r] = path[r]
    BY DEF Inv, TypeOK, DeleteFile
  <1>2. HasFile' = HasFile \ {s}
    BY <1>1 DEF HasFile
  <1>3. path[s] \in files \ orphans /\ files \subseteq Path /\ orphans \subseteq files
    BY DEF Inv, TypeOK, OrphansAreLost
  <1>4. \A r \in HasFile' : r \in Slot /\ path'[r] = path[r] /\ path[r] # path[s]
    BY <1>1, <1>2 DEF Inv, PathsApart, HasFile
  <1>5. PathsApart'
    BY <1>2, <1>4 DEF Inv, PathsApart
  <1>6. files' \subseteq Path /\ orphans' \subseteq files'
    BY <1>3 DEF DeleteFile, Deleted
  <1>7. OrphansAreLost'
    <2> SUFFICES ASSUME NEW r \in Slot, path'[r] # None
                 PROVE  path'[r] \in files' \ orphans'
      BY DEF OrphansAreLost
    <2>1. r \in HasFile' /\ path'[r] = path[r] /\ path[r] # path[s]
      BY <1>4 DEF HasFile
    <2>2. path[r] \in files \ orphans
      BY <2>1 DEF Inv, OrphansAreLost
    <2>3. QED BY <2>1, <2>2 DEF DeleteFile, Deleted
  <1>8. FilesAreKnown'
    <2> SUFFICES ASSUME NEW f \in files', f \notin orphans'
                 PROVE  \E r \in HasFile' : f = path'[r]
      BY DEF FilesAreKnown
    <2>1. f \in files /\ f \notin orphans /\ f # path[s]
      BY DEF DeleteFile, Deleted
    <2>2. PICK r \in HasFile : f = path[r]
      BY <2>1 DEF Inv, FilesAreKnown
    <2>3. r \in HasFile'
      BY <2>1, <2>2, <1>2
    <2>4. QED BY <2>2, <2>3, <1>4
  <1>9. QED BY <1>1, <1>5, <1>6, <1>7, <1>8

-----------------------------------------------------------------------------

LEMMA CreateInv ==
  ASSUME Inv, NEW s \in Slot, Create(s) PROVE Inv'
  <1>1. pc[s] = "create" /\ path[s] = None /\ s \in Passed
    BY DEF Create, At, Inv, PathAtWork, Passed, Counted
  <1>2. CASE \E p \in Path \ files : /\ files' = files \cup {p}
                                    /\ path' = [path EXCEPT ![s] = p]
                                    /\ GoTo(s, "open")
                                    /\ UNCHANGED tries
    <2>1. PICK p \in Path \ files : /\ files' = files \cup {p}
                                    /\ path' = [path EXCEPT ![s] = p]
                                    /\ GoTo(s, "open")
                                    /\ UNCHANGED tries
      BY <1>2
    <2>2. "open" \in PC \ {"none", "assert"} /\ p # None
      BY NoneAssumption DEF PC
    <2>3. path' \in [Slot -> Path \cup {None}] /\ path'[s] = p
      BY <2>1 DEF Inv, TypeOK
    <2>4. \A r \in Slot : r # s => path'[r] = path[r]
      BY <2>1 DEF Inv, TypeOK
    <2>5. OrphansAreLost' /\ PathsApart' /\ FilesAreKnown'
      BY <2>1, <1>1, FileAdded DEF Create
    <2>6. TypeOK'
      BY <2>1, <2>2, <2>3, StepOfOne DEF Inv, TypeOK, Create
    <2>7. CountIsExact' /\ FewPassed'
      BY <1>1, <2>1, <2>2, CountKept, NoneMorePassed DEF Create
    <2>8. PathAtWork' /\ OwnCountRead' /\ TriesLeft'
      BY <2>1, <2>2, <2>3, <2>4, StepOfOne DEF Inv, PathAtWork, OwnCountRead, TriesLeft, Create
    <2>9. QED BY <2>5, <2>6, <2>7, <2>8 DEF Inv, NeverAborts, Create
  <1>3. CASE \E label \in {"create", "back"} :
               /\ GoTo(s, label) /\ tries' \in [Slot -> 0 .. Tries]
               /\ label = "create" => tries'[s] < Tries
               /\ \A r \in Slot : r # s => tries'[r] = tries[r]
               /\ UNCHANGED << path, files >>
    <2>1. PICK label \in {"create", "back"} :
               /\ GoTo(s, label) /\ tries' \in [Slot -> 0 .. Tries]
               /\ label = "create" => tries'[s] < Tries
               /\ \A r \in Slot : r # s => tries'[r] = tries[r]
               /\ UNCHANGED << path, files >>
      BY <1>3
    <2>2. label \in PC \ {"none", "assert"}
      BY DEF PC
    <2>3. TypeOK'
      BY <2>1, <2>2, StepOfOne DEF Inv, TypeOK, Create
    <2>4. CountIsExact' /\ FewPassed'
      BY <1>1, <2>1, <2>2, CountKept, NoneMorePassed DEF Create
    <2>5. PathAtWork' /\ OwnCountRead' /\ TriesLeft'
      BY <1>1, <2>1, <2>2, StepOfOne DEF Inv, PathAtWork, OwnCountRead, TriesLeft, Create
    <2>6. OrphansAreLost' /\ PathsApart' /\ FilesAreKnown'
      BY <2>1, FilesKept DEF Create
    <2>7. QED BY <2>3, <2>4, <2>5, <2>6 DEF Inv, NeverAborts, Create
  <1>4. CASE /\ tries' = [tries EXCEPT ![s] = Tried(@)]
             /\ GoTo(s, IF tries'[s] < Tries THEN "create" ELSE "back")
             /\ UNCHANGED << path, files >>
    <2>1. tries[s] < Tries
      BY <1>1 DEF Inv, TriesLeft
    <2>2. tries' \in [Slot -> 0 .. Tries]
      BY <1>4, <2>1, LimitAssumption DEF Inv, TypeOK, Tried
    <2>3. \A r \in Slot : r # s => tries'[r] = tries[r]
      BY <1>4 DEF Inv, TypeOK
    <2>4. QED BY <1>3, <1>4, <2>2, <2>3
  <1>5. CASE GoTo(s, "back") /\ UNCHANGED << path, tries, files >>
    BY <1>3, <1>5 DEF Inv, TypeOK
  <1>6. QED BY <1>2, <1>4, <1>5 DEF Create

LEMMA OpenInv ==
  ASSUME Inv, NEW s \in Slot, Open(s) PROVE Inv'
  <1>1. pc[s] = "open" /\ s \in Passed
    BY DEF Open, At, Passed, Counted
  <1>2. PICK label \in {"live", "undo"} : GoTo(s, label)
    BY DEF Open
  <1>3. label \in PC \ {"none", "assert"}
    BY DEF PC
  <1>4. TypeOK'
    BY <1>2, <1>3, StepOfOne DEF Inv, TypeOK, Open, disk
  <1>5. CountIsExact' /\ FewPassed'
    BY <1>1, <1>2, <1>3, CountKept, NoneMorePassed DEF Open
  <1>6. PathAtWork' /\ OwnCountRead' /\ TriesLeft'
    BY <1>1, <1>2, <1>3, StepOfOne DEF Inv, PathAtWork, OwnCountRead, TriesLeft, Open
  <1>7. OrphansAreLost' /\ PathsApart' /\ FilesAreKnown'
    BY FilesKept DEF Open, disk
  <1>8. QED BY <1>4, <1>5, <1>6, <1>7 DEF Inv, NeverAborts, Open

LEMMA UndoInv ==
  ASSUME Inv, NEW s \in Slot, Undo(s) PROVE Inv'
  <1>1. pc[s] = "undo" /\ path[s] # None /\ GoTo(s, "back") /\ "back" \in PC
    BY DEF Undo, At, Inv, PathAtWork, PC
  <1>2. /\ path' \in [Slot -> Path \cup {None}]
        /\ path'[s] = None /\ \A r \in Slot : r # s => path'[r] = path[r]
        /\ files' \subseteq Path /\ orphans' \subseteq files'
        /\ OrphansAreLost' /\ PathsApart' /\ FilesAreKnown'
    BY <1>1, FileDeleted DEF Undo
  <1>3. TypeOK'
    BY <1>1, <1>2, StepOfOne DEF Inv, TypeOK, Undo
  <1>4. CountIsExact' /\ FewPassed'
    BY <1>1, CountKept, NoneMorePassed DEF Undo
  <1>5. PathAtWork' /\ OwnCountRead' /\ TriesLeft'
    BY <1>1, <1>2, StepOfOne DEF Inv, PathAtWork, OwnCountRead, TriesLeft, Undo
  <1>6. QED BY <1>2, <1>3, <1>4, <1>5 DEF Inv, NeverAborts, Undo

LEMMA GiveBackInv ==
  ASSUME Inv, NEW s \in Slot, GiveBack(s) PROVE Inv'
  <1>1. pc[s] = "back" /\ GoTo(s, "none") /\ "none" \in PC
    BY DEF GiveBack, At, PC
  <1>2. CountIsExact'
    BY <1>1, CountTaken DEF GiveBack, GivenBack
  <1>3. TypeOK'
    BY <1>1, CountTaken, StepOfOne DEF Inv, TypeOK, GiveBack, GivenBack, disk
  <1>4. FewPassed'
    BY <1>1, NoneMorePassed
  <1>5. PathAtWork' /\ OwnCountRead' /\ TriesLeft'
    BY <1>1, StepOfOne DEF Inv, PathAtWork, OwnCountRead, TriesLeft, GiveBack
  <1>6. OrphansAreLost' /\ PathsApart' /\ FilesAreKnown'
    BY FilesKept DEF GiveBack, disk
  <1>7. QED BY <1>2, <1>3, <1>4, <1>5, <1>6 DEF Inv, NeverAborts, GiveBack

LEMMA CloseInv ==
  ASSUME Inv, NEW s \in Slot, Close(s) PROVE Inv'
  <1>1. pc[s] = "live" /\ s \in Passed /\ GoTo(s, "delete") /\ "delete" \in PC
    BY DEF Close, At, Passed, Counted, PC
  <1>2. TypeOK'
    BY <1>1, StepOfOne DEF Inv, TypeOK, Close, disk
  <1>3. CountIsExact' /\ FewPassed'
    BY <1>1, CountKept, NoneMorePassed DEF Close
  <1>4. PathAtWork' /\ OwnCountRead' /\ TriesLeft'
    BY <1>1, StepOfOne DEF Inv, PathAtWork, OwnCountRead, TriesLeft, Close
  <1>5. OrphansAreLost' /\ PathsApart' /\ FilesAreKnown'
    BY FilesKept DEF Close, disk
  <1>6. QED BY <1>2, <1>3, <1>4, <1>5 DEF Inv, NeverAborts, Close

LEMMA DeleteInv ==
  ASSUME Inv, NEW s \in Slot, Delete(s) PROVE Inv'
  <1>1. /\ pc[s] = "delete" /\ path[s] # None /\ s \in Passed
        /\ GoTo(s, "read") /\ "read" \in PC
    BY DEF Delete, At, Inv, PathAtWork, PC, Passed, Counted
  <1>2. /\ path' \in [Slot -> Path \cup {None}]
        /\ path'[s] = None /\ \A r \in Slot : r # s => path'[r] = path[r]
        /\ files' \subseteq Path /\ orphans' \subseteq files'
        /\ OrphansAreLost' /\ PathsApart' /\ FilesAreKnown'
    BY <1>1, FileDeleted DEF Delete
  <1>3. TypeOK'
    BY <1>1, <1>2, StepOfOne DEF Inv, TypeOK, Delete
  <1>4. CountIsExact' /\ FewPassed'
    BY <1>1, CountKept, NoneMorePassed DEF Delete
  <1>5. PathAtWork' /\ OwnCountRead' /\ TriesLeft'
    BY <1>1, <1>2, StepOfOne DEF Inv, PathAtWork, OwnCountRead, TriesLeft, Delete
  <1>6. QED BY <1>2, <1>3, <1>4, <1>5 DEF Inv, NeverAborts, Delete

LEMMA ReadCountInv ==
  ASSUME Inv, NEW s \in Slot, ReadCount(s) PROVE Inv'
  <1>1. pc[s] = "read" /\ s \in Passed /\ GoTo(s, "decrement") /\ "decrement" \in PC
    BY DEF ReadCount, At, Passed, Counted, PC
  <1>2. total_count > 0
    BY <1>1, CountedIsPositive DEF Passed
  <1>3. read' \in [Slot -> Nat] /\ read'[s] > 0 /\ \A r \in Slot : r # s => read'[r] = read[r]
    BY <1>2 DEF Inv, TypeOK, ReadCount
  <1>4. TypeOK'
    BY <1>1, <1>3, StepOfOne DEF Inv, TypeOK, ReadCount, disk
  <1>5. CountIsExact' /\ FewPassed'
    BY <1>1, CountKept, NoneMorePassed DEF ReadCount
  <1>6. PathAtWork' /\ OwnCountRead' /\ TriesLeft'
    BY <1>1, <1>3, StepOfOne DEF Inv, PathAtWork, OwnCountRead, TriesLeft, ReadCount
  <1>7. OrphansAreLost' /\ PathsApart' /\ FilesAreKnown'
    BY FilesKept DEF ReadCount, disk
  <1>8. QED BY <1>4, <1>5, <1>6, <1>7 DEF Inv, NeverAborts, ReadCount

LEMMA DecrementInv ==
  ASSUME Inv, NEW s \in Slot, Decrement(s) PROVE Inv'
  <1>1. pc[s] = "decrement" /\ GoTo(s, "assert") /\ "assert" \in PC
    BY DEF Decrement, At, PC
  <1>2. CountIsExact'
    BY <1>1, CountTaken DEF Decrement
  <1>3. TypeOK'
    BY <1>1, CountTaken, StepOfOne DEF Inv, TypeOK, Decrement, disk
  <1>4. FewPassed'
    BY <1>1, NoneMorePassed
  <1>5. PathAtWork' /\ OwnCountRead' /\ TriesLeft'
    BY <1>1, StepOfOne DEF Inv, PathAtWork, OwnCountRead, TriesLeft, Decrement
  <1>6. OrphansAreLost' /\ PathsApart' /\ FilesAreKnown'
    BY FilesKept DEF Decrement, disk
  <1>7. QED BY <1>2, <1>3, <1>4, <1>5, <1>6 DEF Inv, NeverAborts, Decrement

LEMMA AssertCountInv ==
  ASSUME Inv, NEW s \in Slot, AssertCount(s) PROVE Inv'
  <1>1. pc[s] = "assert" /\ s \notin Counted /\ GoTo(s, "none") /\ "none" \in PC
    BY DEF AssertCount, At, Counted, PC
  <1>2. NeverAborts'
    BY <1>1 DEF Inv, TypeOK, OwnCountRead, NeverAborts, AssertCount
  <1>3. TypeOK'
    BY <1>1, StepOfOne DEF Inv, TypeOK, AssertCount, disk
  <1>4. Counted' = Counted
    BY <1>1, StepOfOne DEF Inv
  <1>5. CountIsExact' /\ FewPassed'
    BY <1>1, <1>4, NoneMorePassed DEF Inv, CountIsExact, AssertCount
  <1>6. PathAtWork' /\ OwnCountRead' /\ TriesLeft'
    BY <1>1, StepOfOne DEF Inv, TypeOK, PathAtWork, OwnCountRead, TriesLeft, AssertCount
  <1>7. OrphansAreLost' /\ PathsApart' /\ FilesAreKnown'
    BY FilesKept DEF AssertCount, disk
  <1>8. QED BY <1>2, <1>3, <1>5, <1>6, <1>7 DEF Inv

-----------------------------------------------------------------------------

LEMMA NextInv == Inv /\ [Next]_vars => Inv'
  <1> SUFFICES ASSUME Inv, [Next]_vars PROVE Inv'
    OBVIOUS
  <1>1. CASE UNCHANGED vars
    BY <1>1 DEF vars, Inv, TypeOK, NeverAborts, CountIsExact, FewPassed, PathAtWork,
                OwnCountRead, TriesLeft, OrphansAreLost, PathsApart, FilesAreKnown,
                Counted, Passed, HasFile
  <1>2. CASE \E s \in Slot : Count(s) \/ Close(s) \/ Step(s)
    BY <1>2, CountInv, CheckInv, CreateInv, OpenInv, UndoInv, GiveBackInv, CloseInv,
       DeleteInv, ReadCountInv, DecrementInv, AssertCountInv DEF Step
  <1>3. QED BY <1>1, <1>2 DEF Next

THEOREM Invariance == Spec => []Inv
  BY InitInv, NextInv, PTL DEF Spec

(* Every variable keeps its type in every run of the calls. *)
THEOREM TypeCorrect == Spec => []TypeOK
  <1>1. Inv => TypeOK
    BY DEF Inv
  <1>2. QED BY <1>1, Invariance, PTL

(* The counter is the number of files and calls under way: no way out of   *)
(* Make or Delete, and no interleaving, loses or repeats a decrement.      *)
THEOREM CountExact == Spec => []CountIsExact
  <1>1. Inv => CountIsExact
    BY DEF Inv
  <1>2. QED BY <1>1, Invariance, PTL

(* Fewer than Limit files are in use, although Make counts itself and      *)
(* checks in separate steps: whoever passes the check has counted all who  *)
(* passed before.                                                          *)
THEOREM LimitKept == Spec => []LimitIsKept
  <1>1. Inv => LimitIsKept
    <2> SUFFICES ASSUME Inv PROVE LimitIsKept
      OBVIOUS
    <2>1. HasFile \subseteq Passed
      BY DEF Inv, PathAtWork, HasFile, Passed, Counted
    <2>2. Cardinality(HasFile) <= Cardinality(Passed)
      BY <2>1, CountedFinite, FS_Subset
    <2>3. Cardinality(HasFile) \in Nat /\ Cardinality(Passed) \in Nat
      BY CountedFinite, FS_CardinalityType
    <2>4. QED BY <2>2, <2>3, LimitAssumption DEF Inv, FewPassed, LimitIsKept
  <1>2. QED BY <1>1, Invariance, PTL

(* A Make that fails after it has created its file deletes it again: the   *)
(* files on TM are those in use and those the library could not delete.    *)
THEOREM NothingLeftBehind == Spec => []NoFileLeftBehind
  <1>1. Inv => NoFileLeftBehind
    <2> SUFFICES ASSUME Inv PROVE NoFileLeftBehind
      OBVIOUS
    <2>1. orphans \subseteq files /\ \A s \in HasFile : path[s] \in files
      BY DEF Inv, TypeOK, OrphansAreLost, HasFile
    <2>2. files = {path[s] : s \in HasFile} \cup orphans
      BY <2>1 DEF Inv, FilesAreKnown
    <2>3. QED BY <2>2 DEF Inv, PathsApart, NoFileLeftBehind
  <1>2. QED BY <1>1, Invariance, PTL

(* Delete's assertion that the count was not zero never fails. *)
THEOREM NoAbort == Spec => []NeverAborts
  <1>1. Inv => NeverAborts
    BY DEF Inv
  <1>2. QED BY <1>1, Invariance, PTL

=============================================================================
