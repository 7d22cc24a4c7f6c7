------------------------ MODULE AlbumDirectoryProofs ------------------------
(***************************************************************************)
(* Proofs about AlbumDirectory, for any folders and names of files: what a *)
(* scan has reported and what it has yet to reach.                         *)
(*                                                                         *)
(* The scan is depth first, its stack being path and unread. A file is     *)
(* ahead of the scan when one of the folders on the way to it, or its own  *)
(* name, is unread in a folder that is open. The invariant says that no    *)
(* file that was reported is ahead, and that every file that must be       *)
(* reported was reported or is ahead.                                      *)
(***************************************************************************)
EXTENDS AlbumDirectory, SequenceTheorems, FiniteSetTheorems, TLAPS

(* How many folders are open, the root aside. *)
depth == Len(path)

(* The folders of the path, up to the k-th, are those on the way to d. *)
Follows(d, k) == \A i \in 1 .. k : d[i] = path[i]

(* What is in the k-th folder that is open. *)
ContentsAt(k) ==
  IF k = 4 THEN tree[path] ELSE {d[k] : d \in {e \in DayFolder : Follows(e, k - 1)}}

(* The k-th name on the way to the file n of the folder d. *)
Item(d, n, k) == IF k = 4 THEN n ELSE d[k]

Ahead(d, n) == \E k \in 1 .. level : Follows(d, k - 1) /\ Item(d, n, k) \in unread[k]

UnreadIsList == unread \in Seq(SUBSET (Int \cup Name))

(* The path leads to the folder of some day by names the scan descends to. *)
PathIsValid ==
  /\ depth # 0 => \E d \in DayFolder : Follows(d, depth)
  /\ \A k \in 1 .. depth : ValidName(k, path[k])

(* What is unread is in the folders that are open, and these themselves    *)
(* were read.                                                              *)
UnreadIsContents ==
  /\ \A k \in 1 .. level : unread[k] \subseteq ContentsAt(k)
  /\ \A k \in 1 .. depth : path[k] \notin unread[k]

(* What was reported is a file of the storage with the type asked for, ... *)
EntriesAreFiles ==
  \A i \in DOMAIN entries :
    /\ entries[i].folder \in DatedFolder
    /\ entries[i].name \in tree[entries[i].folder]
    /\ \E word \in Decrypted(entries[i].name) : Matches(entries[i].name, word, args.flags)

(* ... is not ahead, ... *)
EntriesAreBehind ==
  \A i \in DOMAIN entries : ~ Ahead(entries[i].folder, entries[i].name)

(* ... and was not reported before. *)
EntriesDiffer ==
  \A i, j \in DOMAIN entries :
    entries[i].folder = entries[j].folder /\ entries[i].name = entries[j].name => i = j

(* A command begins with nothing reported, and no failure. *)
StartsEmpty == pc = "open" => entries = << >> /\ ~ failed

(* A scan goes on only while the array has room. *)
HasRoom == pc = "scan" /\ args.op = "ListEntries" /\ args.max > 0 => Len(entries) < args.max

IsSeen(d, n) == \E i \in DOMAIN entries : entries[i].folder = d /\ entries[i].name = n

(* Nothing that must be seen is passed over. *)
NothingPassedOver ==
  pc = "scan" /\ ~ failed =>
    \A f \in MustSee(args.flags) : IsSeen(f[1], f[2]) \/ Ahead(f[1], f[2])

Inv ==
  /\ TypeOK /\ UnreadIsList
  /\ PathIsValid
  /\ UnreadIsContents
  /\ EntriesAreFiles
  /\ EntriesAreBehind
  /\ EntriesDiffer
  /\ StartsEmpty
  /\ HasRoom /\ RoomIsRespected
  /\ NothingPassedOver /\ ScanIsComplete

-----------------------------------------------------------------------------
(* Paths and folders. *)

LEMMA FolderIsList ==
  ASSUME NEW d \in DayFolder
  PROVE  /\ d \in Seq(Int) /\ Len(d) = 3
         /\ \A k \in 1 .. 3 : d[k] \in Int
  <1>1. d = << d[1], d[2], d[3] >> /\ d[1] \in Int /\ d[2] \in Int /\ d[3] \in Int
    BY FolderAssumption
  <1>2. << d[1], d[2], d[3] >> \in Seq(Int) /\ Len(<< d[1], d[2], d[3] >>) = 3
    BY <1>1
  <1> DEFINE e == << d[1], d[2], d[3] >>
  <1>3. e \in Seq(Int) /\ Len(e) = 3 /\ \A k \in 1 .. 3 : e[k] \in Int
    BY <1>1, <1>2
  <1> HIDE DEF e
  <1>4. d = e
    BY <1>1 DEF e
  <1>5. QED BY <1>3, <1>4

(* The path p is the beginning of d exactly if they agree name by name.    *)
LEMMA PrefixByNames ==
  ASSUME NEW d \in DayFolder, NEW p \in Seq(Int), Len(p) <= 3
  PROVE  SubSeq(d, 1, Len(p)) = p <=> \A i \in 1 .. Len(p) : d[i] = p[i]
  <1>1. d \in Seq(Int) /\ Len(d) = 3
    BY FolderIsList
  <1>2. Len(p) \in Nat
    BY LenProperties
  <1>3. \A i \in 1 .. Len(p) : d[i] \in Int
    BY <1>2, FolderIsList
  <1> DEFINE q == SubSeq(d, 1, Len(p))
  <1>4. /\ q \in Seq(Int)
        /\ Len(q) = IF 1 <= Len(p) THEN Len(p) - 1 + 1 ELSE 0
        /\ \A i \in 1 .. Len(p) - 1 + 1 : q[i] = d[1 + i - 1]
    BY <1>2, <1>3, SubSeqProperties
  <1>5. Len(q) = Len(p) /\ \A i \in 1 .. Len(p) : q[i] = d[i]
    BY <1>2, <1>4
  <1>6. (\A i \in 1 .. Len(p) : q[i] = p[i]) => q = p
    <2> HIDE DEF q
    <2> QED BY <1>4, <1>5, SeqEqual
  <1> HIDE DEF q
  <1>7. QED BY <1>5, <1>6 DEF q

(* A path of three names that leads to a day is that day. *)
LEMMA PathIsFolder ==
  ASSUME NEW d \in DayFolder, NEW p \in Seq(Int), Len(p) = 3,
         \A i \in 1 .. 3 : d[i] = p[i]
  PROVE  p = d
  BY FolderIsList, SeqEqual

(* What Contents finds in the folder p. *)
LEMMA ContentsByNames ==
  ASSUME NEW p \in Seq(Int), Len(p) <= 3
  PROVE  /\ Len(p) = 3 => Contents(p) = tree[p]
         /\ Len(p) # 3 =>
              Contents(p) = {d[Len(p) + 1] :
                d \in {e \in DayFolder : \A i \in 1 .. Len(p) : e[i] = p[i]}}
  <1>1. {e \in DayFolder : SubSeq(e, 1, Len(p)) = p}
          = {e \in DayFolder : \A i \in 1 .. Len(p) : e[i] = p[i]}
    BY PrefixByNames
  <1>2. QED BY <1>1, Zenon DEF Contents

-----------------------------------------------------------------------------
(* The stack of the scan. *)

LEMMA Stack ==
  ASSUME Inv, pc = "scan"
  PROVE  /\ depth \in 0 .. 3 /\ level = depth + 1 /\ level \in 1 .. 4 /\ level - 1 = depth
         /\ Last(unread) = unread[level]
         /\ unread \in Seq(SUBSET (Int \cup Name)) /\ path \in Seq(Int)
  <1>1. depth \in Nat /\ path \in Seq(Int) /\ depth <= 3 /\ level = depth + 1
    BY LenProperties DEF Inv, TypeOK, depth
  <1>2. depth \in 0 .. 3 /\ level \in 1 .. 4 /\ level - 1 = depth
    BY <1>1
  <1>3. QED BY <1>1, <1>2 DEF Inv, UnreadIsList, Last, level

(* One name less is unread in the last folder. *)
LEMMA WithoutName ==
  ASSUME Inv, pc = "scan", NEW n
  PROVE  /\ Without(n) \in Seq(SUBSET (Int \cup Name))
         /\ Len(Without(n)) = level
         /\ \A k \in 1 .. level - 1 : Without(n)[k] = unread[k]
         /\ Without(n)[level] = unread[level] \ {n}
  <1>1. unread \in Seq(SUBSET (Int \cup Name)) /\ level \in 1 .. Len(unread)
    BY Stack DEF level
  <1>2. unread[level] \ {n} \in SUBSET (Int \cup Name)
    BY <1>1, ElementOfSeq
  <1>3. level \in Nat /\ level = Len(unread)
    BY Stack DEF level
  <1> DEFINE e == unread[level] \ {n}
             w == [unread EXCEPT ![level] = e]
  <1>4. /\ w \in Seq(SUBSET (Int \cup Name))
        /\ Len(w) = Len(unread)
        /\ \A j \in 1 .. Len(unread) : w[j] = IF j = level THEN e ELSE unread[j]
    <2> HIDE DEF e
    <2> QED BY <1>1, <1>2, ExceptSeq DEF e
  <1>5. Without(n) = w
    BY DEF Without
  <1> HIDE DEF w
  <1>6. /\ \A k \in 1 .. level - 1 : w[k] = unread[k]
        /\ w[level] = e
    BY <1>1, <1>3, <1>4
  <1>7. QED BY <1>3, <1>4, <1>5, <1>6 DEF e

(* The folders of dated days are those the scan descends to. *)
LEMMA DatedByNames ==
  ASSUME NEW d \in DayFolder
  PROVE  d \in DatedFolder <=> \A k \in 1 .. 3 : ValidName(k, d[k])
  <1>1. d[1] \in Int /\ d[2] \in Int /\ d[3] \in Int
    BY FolderIsList
  <1>2. /\ ValidName(1, d[1]) <=> d[1] <= 10000
        /\ ValidName(2, d[2]) <=> 1 <= d[2] /\ d[2] <= 12
        /\ ValidName(3, d[3]) <=> 1 <= d[3] /\ d[3] <= 31
    BY DEF ValidName
  <1>3. (\A k \in 1 .. 3 : ValidName(k, d[k])) <=>
          ValidName(1, d[1]) /\ ValidName(2, d[2]) /\ ValidName(3, d[3])
    <2>1. \A k \in 1 .. 3 : k = 1 \/ k = 2 \/ k = 3
      OBVIOUS
    <2>2. 1 \in 1 .. 3 /\ 2 \in 1 .. 3 /\ 3 \in 1 .. 3
      OBVIOUS
    <2>3. QED BY <2>1, <2>2, Zenon
  <1>4. QED BY <1>1, <1>2, <1>3 DEF DatedFolder

(* A name is taken out of the last folder: nothing else moves. *)
LEMMA NameRemoved ==
  ASSUME Inv, pc = "scan", NEW n \in Last(unread), unread' = Without(n),
         UNCHANGED << tree, path, pc >>
  PROVE  /\ level' = level
         /\ \A k \in 1 .. level : unread'[k] \subseteq unread[k]
         /\ UnreadIsList' /\ PathIsValid' /\ UnreadIsContents'
         /\ \A d, m : Ahead(d, m)' => Ahead(d, m)
         /\ \A d, m : Ahead(d, m) /\ ~ Ahead(d, m)' =>
                       Follows(d, level - 1) /\ Item(d, m, level) = n
  <1>1. /\ unread' \in Seq(SUBSET (Int \cup Name))
        /\ Len(unread') = level
        /\ \A k \in 1 .. level - 1 : unread'[k] = unread[k]
        /\ unread'[level] = unread[level] \ {n}
    BY WithoutName
  <1>2. level \in 1 .. 4 /\ level = depth + 1 /\ depth \in 0 .. 3 /\ depth' = depth
    BY Stack DEF depth
  <1>3. level' = level
    BY <1>1 DEF level
  <1>4. \A k \in 1 .. level : unread'[k] = IF k = level THEN unread[k] \ {n} ELSE unread[k]
    BY <1>1, <1>2
  <1>5. PathIsValid' /\ \A d, k : Follows(d, k)' <=> Follows(d, k)
    BY DEF Inv, PathIsValid, Follows, depth
  <1>6. \A k : ContentsAt(k)' = ContentsAt(k)
    BY <1>5 DEF ContentsAt
  <1>7. UnreadIsContents'
    <2>1. ASSUME NEW k \in 1 .. level' PROVE (unread[k])' \subseteq ContentsAt(k)'
      BY <1>3, <1>4, <1>6, <2>1 DEF Inv, UnreadIsContents
    <2>2. ASSUME NEW k \in 1 .. depth' PROVE (path[k])' \notin (unread[k])'
      <3>1. k \in 1 .. depth /\ k \in 1 .. level
        BY <1>2
      <3>2. QED BY <1>4, <3>1 DEF Inv, UnreadIsContents
    <2>3. QED BY <2>1, <2>2 DEF UnreadIsContents
  <1>8. \A d, m : Ahead(d, m)' => Ahead(d, m)
    BY <1>3, <1>4, <1>5 DEF Ahead, Item
  <1>9. \A d, m : Ahead(d, m) /\ ~ Ahead(d, m)' =>
                 Follows(d, level - 1) /\ Item(d, m, level) = n
    BY <1>3, <1>4, <1>5 DEF Ahead, Item
  <1>10. QED BY <1>1, <1>3, <1>4, <1>5, <1>7, <1>8, <1>9 DEF UnreadIsList

(* The last folder is left. *)
LEMMA FolderLeft ==
  ASSUME Inv, pc = "scan", level # 1, LeaveFolder, UNCHANGED tree
  PROVE  /\ level' = level - 1 /\ level' = depth' + 1
         /\ path' \in Seq(Int) /\ depth' <= 3
         /\ \A k \in 1 .. level' : unread'[k] = unread[k]
         /\ UnreadIsList' /\ PathIsValid' /\ UnreadIsContents'
         /\ \A d, m : Ahead(d, m)' => Ahead(d, m)
         /\ \A d, m : Ahead(d, m) /\ ~ Ahead(d, m)' => Item(d, m, level) \in unread[level]
  <1>1. /\ level \in 2 .. 4 /\ level = depth + 1 /\ depth \in 1 .. 3
        /\ unread \in Seq(SUBSET (Int \cup Name)) /\ path \in Seq(Int)
        /\ level = Len(unread)
    BY Stack DEF level
  <1>2. /\ unread' \in Seq(SUBSET (Int \cup Name)) /\ Len(unread') = level - 1
        /\ \A k \in 1 .. level - 1 : unread'[k] = unread[k]
    <2> DEFINE last == level - 1
    <2>1. last \in 1 .. 3 /\ last \in Int /\ 1 <= last /\ last - 1 + 1 = last
          /\ \A k \in 1 .. last : k \in 1 .. Len(unread) /\ 1 + k - 1 = k
      BY <1>1
    <2>2. \A k \in 1 .. last : unread[k] \in SUBSET (Int \cup Name)
      BY <1>1, <2>1, ElementOfSeq
    <2>3. unread' = SubSeq(unread, 1, last)
      BY <1>1 DEF LeaveFolder, Front
    <2> HIDE DEF last
    <2>4. /\ SubSeq(unread, 1, last) \in Seq(SUBSET (Int \cup Name))
          /\ Len(SubSeq(unread, 1, last)) = IF 1 <= last THEN last - 1 + 1 ELSE 0
          /\ \A k \in 1 .. last - 1 + 1 : SubSeq(unread, 1, last)[k] = unread[1 + k - 1]
      BY <2>1, <2>2, SubSeqProperties
    <2>5. QED BY <2>1, <2>3, <2>4 DEF last
  <1>3. /\ path' \in Seq(Int) /\ depth' = depth - 1
        /\ \A k \in 1 .. depth - 1 : path'[k] = path[k]
    <2> DEFINE last == depth - 1
    <2>1. last \in 0 .. 2 /\ last \in Int
          /\ (1 <= last => last - 1 + 1 = last) /\ (~ 1 <= last => last = 0)
          /\ \A k \in 1 .. last : k \in 1 .. Len(path) /\ 1 + k - 1 = k /\ k \in 1 .. last - 1 + 1
      BY <1>1 DEF depth
    <2>2. \A k \in 1 .. last : path[k] \in Int
      BY <1>1, <2>1, ElementOfSeq
    <2>3. path' = SubSeq(path, 1, last)
      BY <1>1 DEF LeaveFolder, Parent, Front, depth
    <2> HIDE DEF last
    <2>4. /\ SubSeq(path, 1, last) \in Seq(Int)
          /\ Len(SubSeq(path, 1, last)) = IF 1 <= last THEN last - 1 + 1 ELSE 0
          /\ \A k \in 1 .. last - 1 + 1 : SubSeq(path, 1, last)[k] = path[1 + k - 1]
      BY <2>1, <2>2, SubSeqProperties
    <2>5. QED BY <2>1, <2>3, <2>4 DEF last, depth
  <1>4. level' = level - 1 /\ level' \in 1 .. 3
    BY <1>1, <1>2 DEF level
  <1>5. depth' = level' - 1 /\ depth' \in 0 .. 2
    BY <1>1, <1>3, <1>4
  <1>6. ASSUME NEW d, NEW k \in 0 .. depth' PROVE Follows(d, k)' <=> Follows(d, k)
    <2>1. \A i \in 1 .. k : path'[i] = path[i]
      BY <1>1, <1>3
    <2>2. QED BY <2>1 DEF Follows
  <1>7. \A k \in 1 .. level' : ContentsAt(k)' = ContentsAt(k)
    <2>1. \A k \in 1 .. level' : k # 4 /\ k - 1 \in 0 .. depth'
      BY <1>4, <1>5
    <2>2. QED BY <1>6, <2>1 DEF ContentsAt
  <1>8. PathIsValid'
    <2>1. PICK d \in DayFolder : Follows(d, depth)
      BY <1>1 DEF Inv, PathIsValid
    <2>2. \A k \in 1 .. depth' : k \in 1 .. depth
      BY <1>1, <1>3
    <2>3. Follows(d, depth)'
      BY <1>1, <1>3, <2>1, <2>2 DEF Follows
    <2>4. \A k \in 1 .. depth' : ValidName(k, path'[k])
      BY <1>1, <1>3 DEF Inv, PathIsValid
    <2>5. QED BY <2>3, <2>4 DEF PathIsValid
  <1>9. UnreadIsContents'
    <2>1. ASSUME NEW k \in 1 .. level' PROVE (unread[k])' \subseteq ContentsAt(k)'
      <3>1. k \in 1 .. level /\ k \in 1 .. level - 1
        BY <1>1, <1>4
      <3>2. QED BY <1>2, <1>7, <3>1 DEF Inv, UnreadIsContents
    <2>2. ASSUME NEW k \in 1 .. depth' PROVE (path[k])' \notin (unread[k])'
      <3>1. k \in 1 .. depth /\ k \in 1 .. depth - 1 /\ k \in 1 .. level - 1
        BY <1>1, <1>3
      <3>2. QED BY <1>2, <1>3, <3>1 DEF Inv, UnreadIsContents
    <2>3. QED BY <2>1, <2>2 DEF UnreadIsContents
  <1>10. \A d, m : Ahead(d, m)' => Ahead(d, m)
    <2>1. \A k \in 1 .. level' : k \in 1 .. level /\ k - 1 \in 0 .. depth'
      BY <1>1, <1>4, <1>5
    <2>2. QED BY <1>2, <1>4, <1>6, <2>1 DEF Ahead, Item
  <1>11. \A d, m : Ahead(d, m) /\ ~ Ahead(d, m)' => Item(d, m, level) \in unread[level]
    <2>1. \A k \in 1 .. level : k # level => k \in 1 .. level' /\ k - 1 \in 0 .. depth'
      BY <1>1, <1>4, <1>5
    <2>2. QED BY <1>2, <1>4, <1>6, <2>1 DEF Ahead, Item
  <1>12. QED BY <1>1, <1>2, <1>3, <1>4, <1>5, <1>8, <1>9, <1>10, <1>11 DEF UnreadIsList

LEMMA OneMore ==
  \A k \in 0 .. 3 : /\ \A i \in 1 .. k + 1 : i \in 1 .. k \/ i = k + 1
                    /\ \A i \in 1 .. k : i \in 1 .. k + 1
  OBVIOUS

(* A folder is opened: the files in it are ahead as they were, and nothing *)
(* else moves.                                                             *)
LEMMA FolderOpened ==
  ASSUME NEW l \in 1 .. 3, l = level, Inv, pc = "scan", NEW n \in Last(unread), ValidName(l, n),
         path' = Append(path, n), unread' = Append(Without(n), Contents(path')),
         UNCHANGED << tree, pc >>
  PROVE  /\ level' = l + 1 /\ level' = depth' + 1 /\ depth' <= 3
         /\ path' \in Seq(Int)
         /\ \A k \in 1 .. level' : unread'[k] \subseteq (IF k = 4 THEN Name ELSE Int)
         /\ UnreadIsList' /\ PathIsValid' /\ UnreadIsContents'
         /\ \A d \in DayFolder : \A m : Ahead(d, m)' => Ahead(d, m)
         /\ \A d \in DayFolder : \A m \in tree[d] : Ahead(d, m) => Ahead(d, m)'
  <1>1. /\ Without(n) \in Seq(SUBSET (Int \cup Name))
        /\ Len(Without(n)) = l
        /\ \A k \in 1 .. l - 1 : Without(n)[k] = unread[k]
        /\ Without(n)[l] = unread[l] \ {n}
    BY WithoutName
  <1>2. /\ depth \in 0 .. 2 /\ l = depth + 1 /\ l - 1 = depth
        /\ path \in Seq(Int) /\ n \in unread[l] /\ l # 4
        /\ l \in 1 .. l /\ l + 1 - 1 = l /\ (l + 1 = 4 <=> l = 3)
    <2>1. /\ depth \in 0 .. 3 /\ l = depth + 1 /\ path \in Seq(Int)
          /\ Last(unread) = unread[l]
      BY Stack
    <2>2. n \in unread[l]
      BY <2>1
    <2>3. QED BY <2>1, <2>2
  <1>3. n \in ContentsAt(l)
    BY <1>2 DEF Inv, UnreadIsContents
  <1>4. PICK e \in DayFolder : Follows(e, depth) /\ e[l] = n
    BY <1>2, <1>3 DEF ContentsAt
  <1>5. n \in Int
    BY <1>4, FolderIsList
  <1>6. /\ path' \in Seq(Int) /\ depth' = l
        /\ \A i \in 1 .. depth : path'[i] = path[i]
        /\ path'[l] = n
    <2>1. /\ path' \in Seq(Int) /\ Len(path') = Len(path) + 1
          /\ \A i \in 1 .. Len(path) : path'[i] = path[i]
          /\ path'[Len(path) + 1] = n
      BY <1>2, <1>5, AppendProperties
    <2>2. QED BY <1>2, <2>1 DEF depth
  <1>7. \A d : Follows(d, l)' <=> Follows(d, depth) /\ d[l] = n
    <2>1. /\ \A i \in 1 .. l : i \in 1 .. depth \/ i = l
          /\ \A i \in 1 .. depth : i \in 1 .. l
      <3>1. depth \in 0 .. 3 /\ l = depth + 1
        BY Stack
      <3>2. QED BY <3>1, OneMore, Zenon
    <2>2. QED BY <1>2, <1>6, <2>1 DEF Follows
  <1>8. ASSUME NEW d, NEW k \in 0 .. depth PROVE Follows(d, k)' <=> Follows(d, k)
    <2>1. \A i \in 1 .. k : i \in 1 .. depth
      BY <1>2
    <2>2. QED BY <1>6, <2>1 DEF Follows
  <1>9. \A k \in 1 .. l : ContentsAt(k)' = ContentsAt(k)
    <2>1. \A k \in 1 .. l : k # 4 /\ k - 1 \in 0 .. depth
      BY <1>2
    <2>2. QED BY <1>8, <2>1 DEF ContentsAt
  <1>10. Contents(path') = ContentsAt(l + 1)'
    <2>1. /\ depth' = 3 => Contents(path') = tree[path']
          /\ depth' # 3 => Contents(path') = {d[depth' + 1] :
                d \in {f \in DayFolder : \A i \in 1 .. depth' : f[i] = path'[i]}}
      <3>1. depth' <= 3 /\ path' \in Seq(Int)
        BY <1>2, <1>6
      <3>2. QED BY <3>1, ContentsByNames DEF depth
    <2>2. l + 1 = 4 <=> l = 3
      BY <1>2
    <2>3. l + 1 - 1 = l
      BY <1>2
    <2>4. CASE l = 3
      <3>1. ContentsAt(l + 1)' = tree[path']
        BY <2>2, <2>4 DEF ContentsAt
      <3>2. depth' = 3
        BY <1>6, <2>4
      <3>3. QED BY <2>1, <3>1, <3>2, Zenon
    <2>5. CASE l # 3
      <3>1. {f \in DayFolder : Follows(f, l)'}
              = {f \in DayFolder : \A i \in 1 .. depth' : f[i] = path'[i]}
        BY <1>6 DEF Follows
      <3>2. ContentsAt(l + 1)' = {d[l + 1] : d \in {f \in DayFolder : Follows(f, l)'}}
        BY <2>2, <2>3, <2>5 DEF ContentsAt
      <3>3. depth' = l /\ depth' # 3
        BY <1>6, <2>5
      <3> DEFINE S == {f \in DayFolder : Follows(f, l)'}
      <3>4. Contents(path') = {d[depth' + 1] : d \in S}
        BY <2>1, <3>1, <3>3, Zenon
      <3>5. ContentsAt(l + 1)' = {d[l + 1] : d \in S}
        BY <3>2
      <3> HIDE DEF S
      <3>6. {d[depth' + 1] : d \in S} = {d[l + 1] : d \in S}
        BY <3>3
      <3>7. QED BY <3>4, <3>5, <3>6, Zenon
    <2>6. QED BY <2>4, <2>5
  <1>11. l = 3 => path' = e
    <2>1. \A i \in 1 .. l : e[i] = path'[i]
      BY <1>4, <1>7 DEF Follows
    <2>2. l = 3 => Len(path') = 3
      BY <1>6 DEF depth
    <2>3. QED BY <1>6, <2>1, <2>2, PathIsFolder
  <1>12. Contents(path') \subseteq (IF l + 1 = 4 THEN Name ELSE Int)
    <2>1. CASE l = 3
      <3>1. Contents(path') = tree[path']
        BY <1>2, <1>10, <2>1 DEF ContentsAt
      <3>2. tree[e] \subseteq Name
        BY DEF Inv, TypeOK
      <3>3. QED BY <1>2, <1>11, <2>1, <3>1, <3>2
    <2>2. CASE l # 3
      <3>1. l + 1 \in 1 .. 3
        BY <1>2, <2>2
      <3>2. QED BY <1>10, <3>1, FolderIsList DEF ContentsAt
    <2>3. QED BY <2>1, <2>2
  <1>13. /\ unread' \in Seq(SUBSET (Int \cup Name)) /\ level' = l + 1
         /\ \A k \in 1 .. l - 1 : unread'[k] = unread[k]
         /\ unread'[l] = unread[l] \ {n}
         /\ unread'[l + 1] = Contents(path')
    <2>1. Contents(path') \in SUBSET (Int \cup Name)
      BY <1>12
    <2>2. /\ unread' \in Seq(SUBSET (Int \cup Name)) /\ Len(unread') = Len(Without(n)) + 1
          /\ \A k \in 1 .. Len(Without(n)) : unread'[k] = Without(n)[k]
          /\ unread'[Len(Without(n)) + 1] = Contents(path')
      BY <1>1, <2>1, AppendProperties
    <2>3. Len(unread') = level'
      BY DEF level
    <2>4. \A k \in 1 .. l - 1 : k \in 1 .. l
      BY <1>2
    <2>5. l \in 1 .. l
      BY <1>2
    <2>6. QED BY <1>1, <2>2, <2>3, <2>4, <2>5
  <1>14. \A k \in 1 .. level' : k \in 1 .. l - 1 \/ k = l \/ k = l + 1
    BY <1>2, <1>13
  <1>15. PathIsValid'
    <2>1. Follows(e, l)'
      BY <1>4, <1>7
    <2>2. \A k \in 1 .. depth' : k \in 1 .. depth \/ k = l
      BY <1>2, <1>6
    <2>3. \A k \in 1 .. depth' : ValidName(k, path'[k])
      BY <1>6, <2>2 DEF Inv, PathIsValid
    <2>4. QED BY <1>6, <2>1, <2>3 DEF PathIsValid
  <1>16. UnreadIsContents'
    <2>1. ASSUME NEW k \in 1 .. level' PROVE (unread[k])' \subseteq ContentsAt(k)'
      <3>1. CASE k = l + 1
        BY <1>10, <1>13, <3>1
      <3>2. CASE k # l + 1
        <4>1. k \in 1 .. l
          BY <1>2, <1>14, <3>2
        <4>2. unread'[k] \subseteq unread[k]
          BY <1>13, <1>14, <3>2
        <4>3. QED BY <1>9, <4>1, <4>2 DEF Inv, UnreadIsContents
      <3>3. QED BY <3>1, <3>2
    <2>2. ASSUME NEW k \in 1 .. depth' PROVE (path[k])' \notin (unread[k])'
      <3>1. CASE k = l
        BY <1>6, <1>13, <3>1
      <3>2. CASE k # l
        <4>1. k \in 1 .. depth /\ k \in 1 .. l - 1
          BY <1>2, <1>6, <3>2
        <4>2. QED BY <1>6, <1>13, <4>1 DEF Inv, UnreadIsContents
      <3>3. QED BY <3>1, <3>2
    <2>3. QED BY <2>1, <2>2 DEF UnreadIsContents
  <1>17. ASSUME NEW d \in DayFolder, NEW m, Ahead(d, m)' PROVE Ahead(d, m)
    <2>1. PICK k \in 1 .. level' : Follows(d, k - 1)' /\ Item(d, m, k) \in unread'[k]
      BY <1>17 DEF Ahead, Item
    <2>2. CASE k = l + 1
      <3>1. Follows(d, l)' /\ l \in 1 .. l
        BY <1>2, <2>1, <2>2
      <3>2. Follows(d, l - 1) /\ d[l] \in unread[l]
        BY <1>2, <1>7, <3>1
      <3>3. QED BY <1>2, <3>1, <3>2 DEF Ahead, Item
    <2>3. CASE k # l + 1
      <3>1. k \in 1 .. l /\ k - 1 \in 0 .. depth
        BY <1>2, <1>14, <2>3
      <3>2. unread'[k] \subseteq unread[k]
        BY <1>13, <1>14, <2>3
      <3>3. QED BY <1>8, <2>1, <3>1, <3>2 DEF Ahead
    <2>4. QED BY <2>2, <2>3
  <1>18. ASSUME NEW d \in DayFolder, NEW m \in tree[d], Ahead(d, m) PROVE Ahead(d, m)'
    <2>1. PICK k \in 1 .. l : Follows(d, k - 1) /\ Item(d, m, k) \in unread[k]
      BY <1>18 DEF Ahead
    <2>2. k - 1 \in 0 .. depth /\ k \in 1 .. level' /\ l + 1 \in 1 .. level'
      BY <1>2, <1>13
    <2>3. CASE k = l /\ d[l] = n
      (* The folder on the way to the file is the one that is opened. *)
      <3>1. Follows(d, l)'
        BY <1>2, <1>7, <2>1, <2>3
      <3>2. l = 3 => path' = d
        <4>1. \A i \in 1 .. l : d[i] = path'[i]
          BY <3>1 DEF Follows
        <4>2. l = 3 => Len(path') = 3
          BY <1>6 DEF depth
        <4>3. QED BY <1>6, <4>1, <4>2, PathIsFolder
      <3>3. Item(d, m, l + 1) \in ContentsAt(l + 1)'
        <4>1. CASE l = 3
          <5>1. Item(d, m, l + 1) = m
            BY <1>2, <4>1 DEF Item
          <5>2. ContentsAt(l + 1)' = tree[path']
            BY <1>2, <4>1 DEF ContentsAt
          <5>3. QED BY <3>2, <4>1, <5>1, <5>2
        <4>2. CASE l # 3
          <5>1. l + 1 # 4 /\ l + 1 - 1 = l
            BY <1>2, <4>2
          <5>2. QED BY <3>1, <5>1 DEF Item, ContentsAt
        <4>3. QED BY <4>1, <4>2
      <3>4. l + 1 - 1 = l
        BY <1>2
      <3>5. Item(d, m, l + 1)' \in (unread[l + 1])'
        <4>1. Item(d, m, l + 1)' = Item(d, m, l + 1)
          BY DEF Item
        <4>2. (unread[l + 1])' = ContentsAt(l + 1)'
          BY <1>10, <1>13, Zenon
        <4>3. QED BY <3>3, <4>1, <4>2, Zenon
      <3>6. Follows(d, l + 1 - 1)' /\ l + 1 \in 1 .. level'
        BY <2>2, <3>1, <3>4
      <3>7. PICK j : j = l + 1
        OBVIOUS
      <3>8. j \in 1 .. level' /\ Follows(d, j - 1)' /\ Item(d, m, j) \in unread'[j]
        <4>1. j - 1 = l /\ j \in 1 .. level'
          BY <2>2, <3>7
        <4>2. Follows(d, j - 1)'
          BY <3>1, <4>1 DEF Follows
        <4>3. Item(d, m, j) \in unread'[j]
          BY <3>5, <3>7 DEF Item
        <4>4. QED BY <4>1, <4>2, <4>3
      <3>9. QED BY <3>8 DEF Ahead, Item
    <2>4. CASE ~ (k = l /\ d[l] = n)
      <3>1. Item(d, m, k) \in unread'[k]
        <4>1. CASE k = l
          BY <1>2, <1>13, <2>1, <2>4, <4>1 DEF Item
        <4>2. CASE k # l
          <5>1. k \in 1 .. l - 1
            BY <1>2, <4>2
          <5>2. QED BY <1>13, <2>1, <5>1
        <4>3. QED BY <4>1, <4>2
      <3>2. Follows(d, k - 1)'
        BY <1>8, <2>1, <2>2
      <3>3. QED BY <2>2, <3>1, <3>2 DEF Ahead, Item
    <2>5. QED BY <2>3, <2>4
  <1>19. \A k \in 1 .. level' : unread'[k] \subseteq (IF k = 4 THEN Name ELSE Int)
    <2>1. \A k \in 1 .. l : unread[k] \subseteq (IF k = 4 THEN Name ELSE Int)
      BY DEF Inv, TypeOK
    <2>2. \A k \in 1 .. l - 1 : k \in 1 .. l
      BY <1>2
    <2>3. ASSUME NEW k \in 1 .. level'
          PROVE  unread'[k] \subseteq (IF k = 4 THEN Name ELSE Int)
      <3>1. CASE k \in 1 .. l - 1
        BY <1>13, <2>1, <2>2, <3>1
      <3>2. CASE k = l
        BY <1>2, <1>13, <2>1, <3>2
      <3>3. CASE k = l + 1
        BY <1>12, <1>13, <3>3
      <3>4. QED BY <1>14, <3>1, <3>2, <3>3
    <2>4. QED BY <2>3
  <1>20. level' = depth' + 1 /\ depth' <= 3
    BY <1>2, <1>6, <1>13
  <1>21. QED BY <1>6, <1>13, <1>15, <1>16, <1>17, <1>18, <1>19, <1>20 DEF UnreadIsList

-----------------------------------------------------------------------------
(* What has been reported. *)

LEMMA SeenByName ==
  ASSUME NEW d, NEW m
  PROVE  << d, m >> \in Seen <=> IsSeen(d, m)
  BY DEF Seen, IsSeen

Entry == [folder: DayFolder, name: Name, type: ContentType]

(* An entry is added, of a file that was not reported. *)
LEMMA EntryAdded ==
  ASSUME Inv, NEW d \in DatedFolder, d = path, NEW n \in tree[d],
         NEW word \in Decrypted(n), FromString(n, word), TypeOfName(n, word) \in args.flags,
         ~ IsSeen(d, n),
         entries' = Append(entries, [folder |-> path, name |-> n, type |-> TypeOfName(n, word)]),
         UNCHANGED << tree, args >>
  PROVE  /\ entries' \in Seq(Entry) /\ Len(entries') = Len(entries) + 1 /\ Len(entries) \in Nat
         /\ EntriesAreFiles' /\ EntriesDiffer'
         /\ \A e, m : IsSeen(e, m) => IsSeen(e, m)'
         /\ \A i \in DOMAIN entries' :
              \/ i \in DOMAIN entries /\ entries'[i] = entries[i]
              \/ entries'[i].folder = d /\ entries'[i].name = n
         /\ \E i \in DOMAIN entries' : entries'[i].folder = d /\ entries'[i].name = n
  <1> DEFINE new == [folder |-> path, name |-> n, type |-> TypeOfName(n, word)]
  <1>1. /\ entries \in Seq(Entry) /\ tree \in [DayFolder -> SUBSET Name]
        /\ args.flags \subseteq ContentType
    BY DEF Inv, TypeOK, Entry
  <1>2. d \in DayFolder /\ n \in Name
    BY <1>1 DEF DatedFolder
  <1>3. new \in Entry /\ new.folder = d /\ new.name = n
    BY <1>1, <1>2 DEF Entry
  <1>4. entries' = Append(entries, new)
    OBVIOUS
  <1> HIDE DEF new
  <1>5. Matches(n, word, args.flags)
    BY DEF Matches
  <1>6. PICK l \in Nat : l = Len(entries)
    BY <1>1, LenProperties
  <1>7. /\ entries' \in Seq(Entry) /\ Len(entries') = l + 1
        /\ DOMAIN entries = 1 .. l /\ DOMAIN entries' = 1 .. (l + 1)
        /\ \A i \in 1 .. l : entries'[i] = entries[i]
        /\ entries'[l + 1] = new
    BY <1>1, <1>3, <1>4, <1>6, AppendProperties, LenProperties
  <1>8. /\ \A i \in DOMAIN entries' : i \in DOMAIN entries \/ i = l + 1
        /\ l + 1 \in DOMAIN entries' /\ \A i \in DOMAIN entries : i \in DOMAIN entries'
    BY <1>7
  <1>9. \A i \in DOMAIN entries : entries'[i] = entries[i]
    BY <1>7
  <1>10. EntriesAreFiles'
    <2> SUFFICES ASSUME NEW i \in DOMAIN entries'
                 PROVE  /\ entries'[i].folder \in DatedFolder
                        /\ entries'[i].name \in tree[entries'[i].folder]
                        /\ \E w \in Decrypted(entries'[i].name) :
                             Matches(entries'[i].name, w, args.flags)
      BY DEF EntriesAreFiles
    <2>1. CASE i \in DOMAIN entries
      BY <1>9, <2>1 DEF Inv, EntriesAreFiles
    <2>2. CASE i = l + 1
      BY <1>3, <1>5, <1>7, <2>2
    <2>3. QED BY <1>8, <2>1, <2>2
  <1>11. EntriesDiffer'
    <2> SUFFICES ASSUME NEW i \in DOMAIN entries', NEW j \in DOMAIN entries',
                        entries'[i].folder = entries'[j].folder,
                        entries'[i].name = entries'[j].name
                 PROVE  i = j
      BY DEF EntriesDiffer
    <2>1. CASE i \in DOMAIN entries /\ j \in DOMAIN entries
      BY <1>9, <2>1 DEF Inv, EntriesDiffer
    <2>2. CASE i \in DOMAIN entries /\ j = l + 1
      BY <1>3, <1>7, <1>9, <2>2 DEF IsSeen
    <2>3. CASE j \in DOMAIN entries /\ i = l + 1
      BY <1>3, <1>7, <1>9, <2>3 DEF IsSeen
    <2>4. QED BY <1>8, <2>1, <2>2, <2>3
  <1>12. \A e, m : IsSeen(e, m) => IsSeen(e, m)'
    BY <1>8, <1>9 DEF IsSeen
  <1>13. \A i \in DOMAIN entries' :
           \/ i \in DOMAIN entries /\ entries'[i] = entries[i]
           \/ entries'[i].folder = d /\ entries'[i].name = n
    BY <1>3, <1>7, <1>8, <1>9
  <1>14. \E i \in DOMAIN entries' : entries'[i].folder = d /\ entries'[i].name = n
    BY <1>3, <1>7, <1>8
  <1>15. QED BY <1>6, <1>7, <1>10, <1>11, <1>12, <1>13, <1>14

-----------------------------------------------------------------------------
(* The steps. *)

Rest == pc # "scan" /\ path = << >> /\ unread = << >>

StackInv ==
  /\ path \in Seq(Int) /\ Len(path) <= 3
  /\ \A k \in 1 .. level : unread[k] \subseteq (IF k = 4 THEN Name ELSE Int)
  /\ UnreadIsList /\ PathIsValid /\ UnreadIsContents
  /\ EntriesAreBehind /\ HasRoom /\ NothingPassedOver

(* What the invariant says of the stack holds while there is none. *)
LEMMA AtRest == Rest => StackInv
  <1> SUFFICES ASSUME Rest PROVE StackInv
    OBVIOUS
  <1>1. path \in Seq(Int) /\ unread \in Seq(SUBSET (Int \cup Name)) /\ level = 0 /\ depth = 0
    BY EmptySeq DEF Rest, level, depth
  <1>2. 1 .. level = {} /\ 1 .. depth = {}
    BY <1>1
  <1>3. Len(path) <= 3
    BY <1>1 DEF depth
  <1>4. \A k \in 1 .. level : unread[k] \subseteq (IF k = 4 THEN Name ELSE Int)
    BY <1>2
  <1>5. PathIsValid /\ UnreadIsContents
    BY <1>1, <1>2 DEF PathIsValid, UnreadIsContents
  <1>6. EntriesAreBehind
    BY <1>2 DEF EntriesAreBehind, Ahead
  <1>7. HasRoom /\ NothingPassedOver
    BY DEF Rest, HasRoom, NothingPassedOver
  <1>8. QED BY <1>1, <1>3, <1>4, <1>5, <1>6, <1>7 DEF UnreadIsList, StackInv

(* A scan ends. *)
LEMMA Finished ==
  ASSUME Inv, Finish, UNCHANGED << tree, args >>,
         entries' \in Seq(Entry), failed' \in BOOLEAN,
         EntriesAreFiles', EntriesDiffer', RoomIsRespected', ScanIsComplete'
  PROVE  Inv'
  <1>1. Rest' /\ pc' = "idle"
    BY DEF Finish, Rest
  <1>2. StackInv'
    BY <1>1, AtRest, PTL
  <1>3. TypeOK'
    BY <1>1, <1>2 DEF Inv, TypeOK, Rest, Entry, StackInv
  <1>4. StartsEmpty'
    BY <1>1 DEF StartsEmpty
  <1>5. QED BY <1>1, <1>2, <1>3, <1>4 DEF Inv, StackInv

(* A scan goes on with nothing new reported: no file comes ahead, and of   *)
(* those that must be seen none is passed over unless a call failed.       *)
LEMMA GoesOn ==
  ASSUME Inv, pc = "scan", UNCHANGED << tree, pc, args, entries >>,
         failed' \in BOOLEAN, failed => failed',
         path' \in Seq(Int), depth' <= 3, level' = depth' + 1,
         \A k \in 1 .. level' : unread'[k] \subseteq (IF k = 4 THEN Name ELSE Int),
         UnreadIsList', PathIsValid', UnreadIsContents',
         \A d \in DayFolder : \A m : Ahead(d, m)' => Ahead(d, m),
         ~ failed' => \A f \in MustSee(args.flags) : Ahead(f[1], f[2]) => Ahead(f[1], f[2])'
  PROVE  Inv'
  <1>1. TypeOK'
    <2>1. Len(path') <= 3 /\ level' = Len(path') + 1
      BY DEF depth
    <2>2. /\ tree' \in [DayFolder -> SUBSET Name]
          /\ args' \in [op: {"None", "ListEntries", "CountEntries"},
                        flags: SUBSET ContentType, max: Nat]
          /\ entries' \in Seq([folder: DayFolder, name: Name, type: ContentType])
      BY DEF Inv, TypeOK
    <2>3. QED BY <2>1, <2>2, Zenon DEF TypeOK
  <1>2. EntriesAreFiles' /\ EntriesDiffer'
    BY DEF Inv, EntriesAreFiles, EntriesDiffer
  <1>3. EntriesAreBehind'
    <2> SUFFICES ASSUME NEW i \in DOMAIN entries
                 PROVE  ~ Ahead(entries[i].folder, entries[i].name)'
      BY DEF EntriesAreBehind
    <2>1. PICK d, m : d \in DayFolder /\ d = entries[i].folder /\ m = entries[i].name
      BY DEF Inv, EntriesAreFiles, DatedFolder
    <2>2. ~ Ahead(d, m)
      BY <2>1 DEF Inv, EntriesAreBehind
    <2>3. ~ Ahead(d, m)'
      BY <2>1, <2>2
    <2>4. QED BY <2>1, <2>3 DEF Ahead, Item, Follows
  <1>4. StartsEmpty' /\ HasRoom' /\ RoomIsRespected' /\ ScanIsComplete'
    BY DEF Inv, StartsEmpty, HasRoom, RoomIsRespected, ScanIsComplete
  <1>5. NothingPassedOver'
    <2> SUFFICES ASSUME ~ failed', NEW f \in MustSee(args.flags)'
                 PROVE  IsSeen(f[1], f[2])' \/ Ahead(f[1], f[2])'
      BY DEF NothingPassedOver
    <2>1. f \in MustSee(args.flags)
      BY DEF MustSee
    <2>2. IsSeen(f[1], f[2]) \/ Ahead(f[1], f[2])
      BY <2>1 DEF Inv, NothingPassedOver
    <2>3. QED BY <2>1, <2>2 DEF IsSeen
  <1>6. QED BY <1>1, <1>2, <1>3, <1>4, <1>5 DEF Inv

LEMMA StartStep == Inv /\ Start => Inv'
  <1> SUFFICES ASSUME Inv, Start PROVE Inv'
    OBVIOUS
  <1>1. Rest'
    BY DEF Inv, TypeOK, Start, Rest
  <1>2. StackInv'
    BY <1>1, AtRest, PTL
  <1>3. args' \in [op: {"None", "ListEntries", "CountEntries"},
                   flags: SUBSET ContentType, max: Nat]
    BY ArgumentAssumption DEF Start, ListEntries, CountEntries
  <1>4. entries' = << >> /\ entries' \in Seq(Entry) /\ Len(entries') = 0
        /\ DOMAIN entries' = {} /\ failed' = FALSE /\ pc' = "open"
    BY EmptySeq DEF Start
  <1>5. TypeOK'
    <2>1. tree' \in [DayFolder -> SUBSET Name] /\ path' = << >> /\ unread' = << >>
      BY <1>1 DEF Inv, TypeOK, Start, Rest
    <2>2. QED BY <1>1, <1>2, <1>3, <1>4, <2>1 DEF TypeOK, Entry, StackInv
  <1>6. EntriesAreFiles' /\ EntriesDiffer' /\ StartsEmpty' /\ ScanIsComplete'
    BY <1>4 DEF EntriesAreFiles, EntriesDiffer, StartsEmpty, ScanIsComplete
  <1>7. RoomIsRespected'
    BY <1>3, <1>4 DEF RoomIsRespected
  <1>8. QED BY <1>2, <1>5, <1>6, <1>7 DEF Inv, StackInv

LEMMA OpenRootStep == Inv /\ OpenRoot => Inv'
  <1> SUFFICES ASSUME Inv, OpenRoot PROVE Inv'
    OBVIOUS
  <1>1. /\ pc = "open" /\ path = << >> /\ unread = << >> /\ ~ failed
        /\ entries = << >> /\ UNCHANGED << tree, args, entries >>
    BY DEF Inv, TypeOK, StartsEmpty, OpenRoot
  <1>2. CASE Finish /\ failed' = TRUE
    <2>1. entries' \in Seq(Entry) /\ failed' \in BOOLEAN
      BY <1>1, <1>2 DEF Inv, TypeOK, Entry
    <2>2. EntriesAreFiles' /\ EntriesDiffer' /\ RoomIsRespected' /\ ScanIsComplete'
      BY <1>1, <1>2 DEF Inv, EntriesAreFiles, EntriesDiffer, RoomIsRespected, ScanIsComplete
    <2>3. QED BY <1>1, <1>2, <2>1, <2>2, Finished
  <1>3. CASE pc' = "scan" /\ unread' = << Contents(<< >>) >> /\ UNCHANGED << path, failed >>
    <2>1. path' \in Seq(Int) /\ Len(path') = 0 /\ depth' = 0
      BY <1>1, <1>3, EmptySeq DEF depth
    <2>2. path \in Seq(Int) /\ Len(path) = 0 /\ Len(path) <= 3 /\ Len(path) # 3
      BY <1>1, EmptySeq
    <2>3. Contents(path) = {d[1] : d \in DayFolder}
      <3>1. {e \in DayFolder : \A i \in 1 .. Len(path) : e[i] = path[i]} = DayFolder
        BY <2>2
      <3>2. Contents(path) = {d[Len(path) + 1] : d \in DayFolder}
        BY <2>2, <3>1, ContentsByNames, Zenon
      <3>3. {d[Len(path) + 1] : d \in DayFolder} = {d[1] : d \in DayFolder}
        BY <2>2
      <3>4. QED BY <3>2, <3>3, Zenon
    <2>4. Contents(path) \subseteq Int
      BY <2>3, FolderIsList
    <2>5. /\ unread' \in Seq(SUBSET (Int \cup Name)) /\ Len(unread') = 1
          /\ unread'[1] = {d[1] : d \in DayFolder}
      <3> DEFINE all == Contents(path)
      <3>1. unread' = << all >>
        BY <1>1, <1>3
      <3>2. all \in SUBSET (Int \cup Name)
        BY <2>4
      <3> HIDE DEF all
      <3>3. << all >> \in Seq(SUBSET (Int \cup Name)) /\ Len(<< all >>) = 1 /\ << all >>[1] = all
        BY <3>2
      <3>4. QED BY <2>3, <3>1, <3>3 DEF all
    <2>6. level' = 1
      BY <2>5 DEF level
    <2>7. UnreadIsContents'
      <3>1. ContentsAt(1)' = {d[1] : d \in DayFolder}
        BY DEF ContentsAt, Follows
      <3>2. 1 .. level' = {1} /\ 1 .. depth' = {}
        BY <2>1, <2>6
      <3>3. QED BY <2>5, <3>1, <3>2 DEF UnreadIsContents
    <2>8. PathIsValid'
      BY <2>1 DEF PathIsValid
    <2>9. TypeOK'
      <3>1. \A k \in 1 .. level' : unread'[k] \subseteq (IF k = 4 THEN Name ELSE Int)
        BY <2>3, <2>4, <2>5, <2>6
      <3>2. level' = Len(path') + 1 /\ Len(path') <= 3
        BY <2>1, <2>6
      <3>3. /\ tree' \in [DayFolder -> SUBSET Name]
            /\ args' \in [op: {"None", "ListEntries", "CountEntries"},
                          flags: SUBSET ContentType, max: Nat]
            /\ entries' \in Seq([folder: DayFolder, name: Name, type: ContentType])
            /\ failed' \in BOOLEAN
        BY <1>1, <1>3 DEF Inv, TypeOK
      <3>4. QED BY <1>3, <2>1, <3>1, <3>2, <3>3, Zenon DEF TypeOK
    <2>10. DOMAIN entries' = {} /\ Len(entries') = 0 /\ args'.max \in Nat
      BY <1>1, <2>9 DEF TypeOK
    <2>11. /\ EntriesAreFiles' /\ EntriesAreBehind' /\ EntriesDiffer' /\ StartsEmpty'
           /\ ScanIsComplete'
      BY <1>3, <2>10 DEF EntriesAreFiles, EntriesAreBehind, EntriesDiffer, StartsEmpty,
                         ScanIsComplete
    <2>12. HasRoom' /\ RoomIsRespected'
      BY <2>10 DEF HasRoom, RoomIsRespected
    <2>13. NothingPassedOver'
      <3> SUFFICES ASSUME NEW f \in MustSee(args.flags)' PROVE Ahead(f[1], f[2])'
        BY DEF NothingPassedOver
      <3>1. f[1] \in DayFolder
        BY DEF MustSee, DatedFolder
      <3>2. 1 \in 1 .. level' /\ Follows(f[1], 1 - 1)'
        BY <2>6 DEF Follows
      <3>3. Item(f[1], f[2], 1) \in unread'[1]
        BY <2>5, <3>1 DEF Item
      <3>4. QED BY <3>2, <3>3 DEF Ahead, Item
    <2>14. QED BY <2>5, <2>7, <2>8, <2>9, <2>11, <2>12, <2>13 DEF Inv, UnreadIsList
  <1>4. QED BY <1>2, <1>3 DEF OpenRoot

LEMMA SkipFolderStep == Inv /\ SkipFolder => Inv'
  <1> SUFFICES ASSUME Inv, SkipFolder PROVE Inv'
    OBVIOUS
  <1>1. PICK n \in Last(unread) : ~ ValidName(level, n) /\ unread' = Without(n)
    BY DEF SkipFolder
  <1>2. pc = "scan" /\ level \in 1 .. 3 /\ UNCHANGED << tree, pc, args, path, entries, failed >>
    BY DEF SkipFolder
  <1>3. /\ level' = level
        /\ \A k \in 1 .. level : unread'[k] \subseteq unread[k]
        /\ UnreadIsList' /\ PathIsValid' /\ UnreadIsContents'
        /\ \A d, m : Ahead(d, m)' => Ahead(d, m)
        /\ \A d, m : Ahead(d, m) /\ ~ Ahead(d, m)' =>
                      Follows(d, level - 1) /\ Item(d, m, level) = n
    BY <1>1, <1>2, NameRemoved
  <1>4. ASSUME NEW f \in MustSee(args.flags), Ahead(f[1], f[2]) PROVE Ahead(f[1], f[2])'
    (* A dated folder has no name on the way to it that is skipped. *)
    <2>1. f[1] \in DatedFolder /\ f[1] \in DayFolder
      BY DEF MustSee, DatedFolder
    <2>2. ValidName(level, f[1][level])
      BY <1>2, <2>1, DatedByNames
    <2>3. Item(f[1], f[2], level) = f[1][level]
      BY <1>2 DEF Item
    <2>4. PICK d, m : d = f[1] /\ m = f[2]
      OBVIOUS
    <2>5. Ahead(d, m)'
      BY <1>1, <1>3, <1>4, <2>2, <2>3, <2>4
    <2>6. QED BY <2>4, <2>5 DEF Ahead, Item, Follows
  <1>5. /\ path' \in Seq(Int) /\ depth' <= 3 /\ level' = depth' + 1
        /\ failed' \in BOOLEAN /\ (failed => failed')
    <2>1. depth' = depth /\ depth \in 0 .. 3 /\ level = depth + 1 /\ path \in Seq(Int)
      BY <1>2, Stack DEF depth
    <2>2. QED BY <1>2, <1>3, <2>1 DEF Inv, TypeOK
  <1>6. \A k \in 1 .. level' : unread'[k] \subseteq (IF k = 4 THEN Name ELSE Int)
    BY <1>3 DEF Inv, TypeOK
  <1>7. QED BY <1>2, <1>3, <1>4, <1>5, <1>6, GoesOn

LEMMA OpenFolderStep == Inv /\ OpenFolder => Inv'
  <1> SUFFICES ASSUME Inv, OpenFolder PROVE Inv'
    OBVIOUS
  <1>1. /\ pc = "scan" /\ UNCHANGED << tree, args, entries >>
        /\ entries' \in Seq(Entry)
    BY DEF OpenFolder, Inv, TypeOK, Entry
  <1>2. PICK l \in 1 .. 3 : l = level
    BY DEF OpenFolder
  <1>3. PICK n \in Last(unread) :
          /\ ValidName(l, n)
          /\ \/ /\ path' = Append(path, n)
                /\ unread' = Append(Without(n), Contents(path'))
                /\ UNCHANGED << pc, failed >>
             \/ /\ Finish
                /\ failed' = TRUE
    BY <1>2 DEF OpenFolder
  <1>4. CASE Finish /\ failed' = TRUE
    <2>1. EntriesAreFiles' /\ EntriesDiffer' /\ RoomIsRespected' /\ ScanIsComplete'
      BY <1>1, <1>4 DEF Inv, EntriesAreFiles, EntriesDiffer, RoomIsRespected, ScanIsComplete
    <2>2. QED BY <1>1, <1>4, <2>1, Finished
  <1>5. CASE /\ path' = Append(path, n)
             /\ unread' = Append(Without(n), Contents(path'))
             /\ UNCHANGED << pc, failed >>
    <2>1. /\ level' = l + 1 /\ level' = depth' + 1 /\ depth' <= 3
          /\ path' \in Seq(Int)
          /\ \A k \in 1 .. level' : unread'[k] \subseteq (IF k = 4 THEN Name ELSE Int)
          /\ UnreadIsList' /\ PathIsValid' /\ UnreadIsContents'
          /\ \A d \in DayFolder : \A m : Ahead(d, m)' => Ahead(d, m)
          /\ \A d \in DayFolder : \A m \in tree[d] : Ahead(d, m) => Ahead(d, m)'
      BY <1>1, <1>2, <1>3, <1>5, FolderOpened
    <2>2. ASSUME NEW f \in MustSee(args.flags), Ahead(f[1], f[2]) PROVE Ahead(f[1], f[2])'
      <3>1. PICK d \in DayFolder : d = f[1]
        BY DEF MustSee, DatedFolder
      <3>2. PICK m \in tree[d] : m = f[2]
        BY <3>1 DEF MustSee
      <3>3. Ahead(d, m)'
        BY <2>1, <2>2, <3>1, <3>2
      <3>4. QED BY <3>1, <3>2, <3>3 DEF Ahead, Item, Follows
    <2>3. failed' \in BOOLEAN /\ (failed => failed')
      BY <1>5 DEF Inv, TypeOK
    <2>4. QED BY <1>1, <1>5, <2>1, <2>2, <2>3, GoesOn
  <1>6. QED BY <1>3, <1>4, <1>5

LEMMA EndOfFolderStep == Inv /\ EndOfFolder => Inv'
  <1> SUFFICES ASSUME Inv, EndOfFolder PROVE Inv'
    OBVIOUS
  <1>1. /\ pc = "scan" /\ UNCHANGED << tree, args, entries >>
        /\ entries' \in Seq(Entry) /\ failed' \in BOOLEAN /\ (failed => failed')
    <2>1. UNCHANGED failed \/ failed' = TRUE
      BY DEF EndOfFolder
    <2>2. failed' \in BOOLEAN /\ (failed => failed')
      BY <2>1, Zenon DEF Inv, TypeOK
    <2>3. entries \in Seq(Entry)
      BY DEF Inv, TypeOK, Entry
    <2>4. QED BY <2>2, <2>3 DEF EndOfFolder
  <1>2. failed' \/ (~ failed /\ unread[level] = {})
    <2>1. Last(unread) = unread[level]
      BY <1>1, Stack
    <2>2. QED BY <1>1, <2>1 DEF EndOfFolder
  <1>3. CASE level = 1
    <2>1. Finish
      BY <1>3 DEF EndOfFolder
    <2>2. EntriesAreFiles' /\ EntriesDiffer' /\ RoomIsRespected'
      BY <1>1 DEF Inv, EntriesAreFiles, EntriesDiffer, RoomIsRespected
    <2>3. ScanIsComplete'
      <3> SUFFICES ASSUME ~ failed' PROVE (MustSee(args.flags) \subseteq Seen)'
        BY DEF ScanIsComplete
      <3>1. 1 .. level = {1} /\ unread[1] = {}
        BY <1>2, <1>3
      <3>2. \A d, m : ~ Ahead(d, m)
        BY <3>1 DEF Ahead
      <3>3. \A f \in MustSee(args.flags) : IsSeen(f[1], f[2])
        BY <1>1, <1>2, <3>2 DEF Inv, NothingPassedOver
      <3>4. \A f \in MustSee(args.flags) : f = << f[1], f[2] >>
        BY DEF MustSee
      <3>5. MustSee(args.flags) \subseteq Seen
        BY <3>3, <3>4, SeenByName
      <3>6. QED BY <1>1, <3>5 DEF MustSee, Seen
    <2>4. QED BY <1>1, <2>1, <2>2, <2>3, Finished
  <1>4. CASE level # 1
    <2>1. LeaveFolder /\ UNCHANGED pc
      BY <1>4 DEF EndOfFolder, LeaveFolder
    <2>2. /\ level' = level - 1 /\ level' = depth' + 1
          /\ path' \in Seq(Int) /\ depth' <= 3
          /\ \A k \in 1 .. level' : unread'[k] = unread[k]
          /\ UnreadIsList' /\ PathIsValid' /\ UnreadIsContents'
          /\ \A d, m : Ahead(d, m)' => Ahead(d, m)
          /\ \A d, m : Ahead(d, m) /\ ~ Ahead(d, m)' => Item(d, m, level) \in unread[level]
      BY <1>1, <1>4, <2>1, FolderLeft
    <2>3. ASSUME ~ failed', NEW f \in MustSee(args.flags), Ahead(f[1], f[2])
          PROVE  Ahead(f[1], f[2])'
      <3>1. PICK d, m : d = f[1] /\ m = f[2]
        OBVIOUS
      <3>2. Ahead(d, m)'
        BY <1>2, <2>2, <2>3, <3>1
      <3>3. QED BY <3>1, <3>2 DEF Ahead, Item, Follows
    <2>4. \A k \in 1 .. level' : unread'[k] \subseteq (IF k = 4 THEN Name ELSE Int)
      <3>1. \A k \in 1 .. level' : k \in 1 .. level
        <4>1. level \in 1 .. 4
          BY <1>1, Stack
        <4>2. QED BY <2>2, <4>1
      <3>2. QED BY <2>2, <3>1 DEF Inv, TypeOK
    <2>5. QED BY <1>1, <2>1, <2>2, <2>3, <2>4, GoesOn
  <1>5. QED BY <1>3, <1>4

(* The file that is read is in the folder of a dated day, and no other     *)
(* file leaves what is ahead.                                              *)
LEMMA FileIsAhead ==
  ASSUME Inv, pc = "scan", level = 4, NEW n \in Last(unread)
  PROVE  /\ path \in DatedFolder /\ n \in tree[path] /\ n \in Name
         /\ ~ IsSeen(path, n)
         /\ \A d \in DayFolder : Follows(d, 3) => d = path
         /\ \A k \in 1 .. 3 : path[k] \notin unread[k]
  <1>1. /\ depth = 3 /\ path \in Seq(Int) /\ n \in unread[4]
    <2>1. Last(unread) = unread[level] /\ level = depth + 1 /\ depth \in 0 .. 3
          /\ path \in Seq(Int)
      BY Stack
    <2>2. QED BY <2>1
  <1>2. ASSUME NEW d \in DayFolder, Follows(d, 3) PROVE d = path
    <2>1. Len(path) = 3 /\ \A i \in 1 .. 3 : d[i] = path[i]
      BY <1>1, <1>2 DEF Follows, depth
    <2>2. QED BY <1>1, <2>1, PathIsFolder
  <1>3. PICK d \in DayFolder : d = path
    BY <1>1, <1>2 DEF Inv, PathIsValid
  <1>4. \A k \in 1 .. 3 : ValidName(k, d[k])
    BY <1>1, <1>3 DEF Inv, PathIsValid
  <1>5. d \in DatedFolder
    BY <1>4, DatedByNames
  <1>6. n \in tree[path]
    BY <1>1 DEF Inv, UnreadIsContents, ContentsAt
  <1>7. n \in Name
    BY <1>3, <1>6 DEF Inv, TypeOK
  <1>8. \A i \in 1 .. 3 : d[i] = path[i]
    BY <1>3
  <1>9. Ahead(d, n)
    <2>1. Follows(d, 4 - 1) /\ Item(d, n, 4) \in unread[4] /\ 4 \in 1 .. level
      BY <1>1, <1>8 DEF Follows, Item
    <2>2. QED BY <2>1 DEF Ahead
  <1>10. ~ IsSeen(d, n)
    BY <1>9 DEF Inv, EntriesAreBehind, IsSeen
  <1>11. \A k \in 1 .. 3 : path[k] \notin unread[k]
    BY <1>1 DEF Inv, UnreadIsContents
  <1>12. QED BY <1>2, <1>3, <1>5, <1>6, <1>7, <1>10, <1>11

(* The file is read: it is the only one that was ahead and is no more.     *)
LEMMA FileRead ==
  ASSUME Inv, pc = "scan", level = 4, NEW n \in Last(unread), unread' = Without(n),
         UNCHANGED << tree, path, pc >>
  PROVE  /\ path' \in Seq(Int) /\ depth' <= 3 /\ level' = depth' + 1
         /\ \A k \in 1 .. level' : unread'[k] \subseteq (IF k = 4 THEN Name ELSE Int)
         /\ UnreadIsList' /\ PathIsValid' /\ UnreadIsContents'
         /\ \A d, m : Ahead(d, m)' => Ahead(d, m)
         /\ \A d \in DayFolder : \A m : Ahead(d, m) /\ ~ Ahead(d, m)' => d = path /\ m = n
         /\ \A d \in DayFolder : d = path => ~ Ahead(d, n)'
  <1>1. /\ level' = level
        /\ \A k \in 1 .. level : unread'[k] \subseteq unread[k]
        /\ UnreadIsList' /\ PathIsValid' /\ UnreadIsContents'
        /\ \A d, m : Ahead(d, m)' => Ahead(d, m)
        /\ \A d, m : Ahead(d, m) /\ ~ Ahead(d, m)' =>
                      Follows(d, level - 1) /\ Item(d, m, level) = n
    BY NameRemoved
  <1>2. /\ depth' = depth /\ depth = 3 /\ path \in Seq(Int)
    <2>1. depth' = depth /\ depth \in 0 .. 3 /\ level = depth + 1 /\ path \in Seq(Int)
      BY Stack DEF depth
    <2>2. QED BY <2>1
  <1>3. \A k \in 1 .. level' : unread'[k] \subseteq (IF k = 4 THEN Name ELSE Int)
    BY <1>1 DEF Inv, TypeOK
  <1>4. ASSUME NEW d \in DayFolder, NEW m, Ahead(d, m), ~ Ahead(d, m)'
        PROVE  d = path /\ m = n
    <2>1. Follows(d, level - 1) /\ Item(d, m, level) = n
      BY <1>1, <1>4
    <2>2. Follows(d, 3) /\ m = n
      BY <2>1 DEF Item, Follows
    <2>3. QED BY <2>2, FileIsAhead
  <1>5. ASSUME NEW d \in DayFolder, d = path PROVE ~ Ahead(d, n)'
    <2>1. unread'[4] = unread[4] \ {n}
      <3>1. Without(n)[level] = unread[level] \ {n}
        BY WithoutName
      <3>2. QED BY <3>1
    <2>2. \A k \in 1 .. 3 : path[k] \notin unread'[k]
      <3>1. \A k \in 1 .. 3 : k \in 1 .. level
        OBVIOUS
      <3>2. QED BY <1>1, <3>1, FileIsAhead
    <2>3. \A k \in 1 .. 4 : Item(d, n, k) \notin unread'[k]
      BY <1>5, <2>1, <2>2 DEF Item
    <2>4. 1 .. level' = 1 .. 4
      BY <1>1
    <2>5. QED BY <2>3, <2>4 DEF Ahead, Item
  <1>6. QED BY <1>1, <1>2, <1>3, <1>4, <1>5

LEMMA ReadFileStep == Inv /\ ReadFile => Inv'
  <1> SUFFICES ASSUME Inv, ReadFile PROVE Inv'
    OBVIOUS
  <1>1. /\ pc = "scan" /\ level = 4 /\ UNCHANGED << tree, args, failed >>
        /\ failed' \in BOOLEAN /\ (failed => failed')
        /\ entries \in Seq(Entry) /\ Len(entries) \in Nat /\ args.max \in Nat
    BY LenProperties DEF ReadFile, Inv, TypeOK, Entry
  <1>2. PICK n \in Last(unread), word \in 0 .. 2 :
          /\ word \in Decrypted(n)
          /\ IF FromString(n, word)
             THEN Callback(n, TypeOfName(n, word))
             ELSE unread' = Without(n) /\ UNCHANGED << pc, path, entries >>
    BY DEF ReadFile
  <1>3. PICK d \in DatedFolder : d = path
    BY <1>1, FileIsAhead
  <1>4. d \in DayFolder /\ n \in tree[d] /\ n \in Name /\ ~ IsSeen(d, n)
    BY <1>1, <1>3, FileIsAhead DEF DatedFolder
  <1> DEFINE t == TypeOfName(n, word)
  (* What is left to show if the file is not reported and the scan goes on. *)
  <1>5. CASE /\ ~ Matches(n, word, args.flags)
             /\ unread' = Without(n) /\ UNCHANGED << pc, path, entries >>
    <2>1. /\ path' \in Seq(Int) /\ depth' <= 3 /\ level' = depth' + 1
          /\ \A k \in 1 .. level' : unread'[k] \subseteq (IF k = 4 THEN Name ELSE Int)
          /\ UnreadIsList' /\ PathIsValid' /\ UnreadIsContents'
          /\ \A e, m : Ahead(e, m)' => Ahead(e, m)
          /\ \A e \in DayFolder : \A m : Ahead(e, m) /\ ~ Ahead(e, m)' => e = path /\ m = n
      BY <1>1, <1>5, FileRead
    <2>2. ASSUME NEW f \in MustSee(args.flags), Ahead(f[1], f[2]) PROVE Ahead(f[1], f[2])'
      <3>1. PICK e, m : e \in DayFolder /\ e = f[1] /\ m = f[2]
        BY DEF MustSee, DatedFolder
      <3>2. m # n
        BY <1>2, <1>5, <3>1 DEF MustSee
      <3>3. Ahead(e, m)'
        BY <2>1, <2>2, <3>1, <3>2
      <3>4. QED BY <3>1, <3>3 DEF Ahead, Item, Follows
    <2>3. QED BY <1>1, <1>5, <2>1, <2>2, GoesOn
  <1>6. CASE /\ FromString(n, word) /\ t \notin args.flags /\ entries' = entries
             /\ IsFull(entries') /\ Finish
    <2>1. EntriesAreFiles' /\ EntriesDiffer' /\ RoomIsRespected'
      BY <1>1, <1>6 DEF Inv, EntriesAreFiles, EntriesDiffer, RoomIsRespected
    <2>2. ScanIsComplete'
      BY <1>1, <1>6 DEF ScanIsComplete, IsFull
    <2>3. QED BY <1>1, <1>6, <2>1, <2>2, Finished
  <1>7. CASE /\ FromString(n, word) /\ t \in args.flags
             /\ entries' = Append(entries, [folder |-> path, name |-> n, type |-> t])
             /\ IF IsFull(entries')
                THEN Finish
                ELSE unread' = Without(n) /\ UNCHANGED << pc, path >>
    <2>1. /\ entries' \in Seq(Entry) /\ Len(entries') = Len(entries) + 1 /\ Len(entries) \in Nat
          /\ EntriesAreFiles' /\ EntriesDiffer'
          /\ \A e, m : IsSeen(e, m) => IsSeen(e, m)'
          /\ \A i \in DOMAIN entries' :
               \/ i \in DOMAIN entries /\ entries'[i] = entries[i]
               \/ entries'[i].folder = d /\ entries'[i].name = n
          /\ \E i \in DOMAIN entries' : entries'[i].folder = d /\ entries'[i].name = n
      BY <1>1, <1>2, <1>3, <1>4, <1>7, EntryAdded
    <2>2. RoomIsRespected'
      BY <1>1, <2>1 DEF Inv, RoomIsRespected, HasRoom
    <2>3. CASE IsFull(entries') /\ Finish
      <3>1. ScanIsComplete'
        BY <1>1, <2>3 DEF ScanIsComplete, IsFull
      <3>2. QED BY <1>1, <2>1, <2>2, <2>3, <3>1, Finished
    <2>4. CASE ~ IsFull(entries') /\ unread' = Without(n) /\ UNCHANGED << pc, path >>
      <3>1. /\ path' \in Seq(Int) /\ depth' <= 3 /\ level' = depth' + 1
            /\ \A k \in 1 .. level' : unread'[k] \subseteq (IF k = 4 THEN Name ELSE Int)
            /\ UnreadIsList' /\ PathIsValid' /\ UnreadIsContents'
            /\ \A e, m : Ahead(e, m)' => Ahead(e, m)
            /\ \A e \in DayFolder : \A m : Ahead(e, m) /\ ~ Ahead(e, m)' => e = path /\ m = n
            /\ \A e \in DayFolder : e = path => ~ Ahead(e, n)'
        BY <1>1, <2>4, FileRead
      <3>2. TypeOK'
        <4>1. Len(path') <= 3 /\ level' = Len(path') + 1
          BY <3>1 DEF depth
        <4>2. /\ tree' \in [DayFolder -> SUBSET Name]
              /\ args' \in [op: {"None", "ListEntries", "CountEntries"},
                            flags: SUBSET ContentType, max: Nat]
              /\ pc' = "scan" /\ pc' \in {"idle", "open", "scan"}
          BY <1>1, <2>4 DEF Inv, TypeOK
        <4>3. entries' \in Seq([folder: DayFolder, name: Name, type: ContentType])
          BY <2>1 DEF Entry
        <4>4. QED BY <1>1, <3>1, <4>1, <4>2, <4>3, Zenon DEF TypeOK
      <3>3. EntriesAreBehind'
        <4> SUFFICES ASSUME NEW i \in DOMAIN entries'
                     PROVE  ~ Ahead(entries[i].folder, entries[i].name)'
          BY DEF EntriesAreBehind
        <4>1. PICK e, m : e = entries'[i].folder /\ m = entries'[i].name
          OBVIOUS
        <4>2. ~ Ahead(e, m)'
          <5>1. CASE i \in DOMAIN entries /\ entries'[i] = entries[i]
            <6>1. ~ Ahead(e, m)
              BY <4>1, <5>1 DEF Inv, EntriesAreBehind
            <6>2. QED BY <3>1, <6>1
          <5>2. CASE e = d /\ m = n
            BY <1>3, <1>4, <3>1, <5>2
          <5>3. QED BY <2>1, <4>1, <5>1, <5>2
        <4>3. QED BY <4>1, <4>2 DEF Ahead, Item, Follows
      <3>4. HasRoom'
        BY <1>1, <2>1, <2>2, <2>4 DEF HasRoom, RoomIsRespected, IsFull
      <3>5. StartsEmpty' /\ ScanIsComplete'
        BY <1>1, <2>4 DEF StartsEmpty, ScanIsComplete
      <3>6. NothingPassedOver'
        <4> SUFFICES ASSUME ~ failed', NEW f \in MustSee(args.flags)'
                     PROVE  IsSeen(f[1], f[2])' \/ Ahead(f[1], f[2])'
          BY DEF NothingPassedOver
        <4>1. f \in MustSee(args.flags) /\ f[1] \in DayFolder
          BY <1>1 DEF MustSee, DatedFolder
        <4>2. PICK e, m : e \in DayFolder /\ e = f[1] /\ m = f[2]
          BY <4>1
        <4>3. IsSeen(e, m) \/ Ahead(e, m)
          BY <1>1, <4>1, <4>2 DEF Inv, NothingPassedOver
        <4>4. IsSeen(d, n)'
          BY <2>1 DEF IsSeen
        <4>5. IsSeen(e, m)' \/ Ahead(e, m)'
          <5>1. CASE e = d /\ m = n
            BY <4>4, <5>1
          <5>2. CASE ~ (e = d /\ m = n)
            BY <1>3, <4>2, <2>1, <3>1, <4>3, <5>2
          <5>3. QED BY <5>1, <5>2
        <4>6. QED BY <4>2, <4>5 DEF IsSeen, Ahead, Item, Follows
      <3>7. QED BY <2>1, <2>2, <3>1, <3>2, <3>3, <3>4, <3>5, <3>6 DEF Inv
    <2>5. QED BY <1>7, <2>3, <2>4
  <1>8. QED BY <1>2, <1>5, <1>6, <1>7 DEF Callback, Matches

-----------------------------------------------------------------------------

LEMMA InvInit == Init => Inv
  <1> SUFFICES ASSUME Init PROVE Inv
    OBVIOUS
  <1>1. Rest
    BY DEF Init, Rest
  <1>2. StackInv
    BY <1>1, AtRest
  <1>3. entries = << >> /\ entries \in Seq(Entry) /\ Len(entries) = 0 /\ DOMAIN entries = {}
    BY EmptySeq DEF Init
  <1>4. TypeOK
    BY <1>1, <1>2, <1>3 DEF Init, TypeOK, Entry, StackInv, Rest
  <1>5. EntriesAreFiles /\ EntriesDiffer
    BY <1>3 DEF EntriesAreFiles, EntriesDiffer
  <1>6. StartsEmpty /\ RoomIsRespected /\ ScanIsComplete
    BY DEF Init, StartsEmpty, RoomIsRespected, ScanIsComplete
  <1>7. QED BY <1>2, <1>4, <1>5, <1>6 DEF Inv, StackInv

LEMMA InvStutter == Inv /\ UNCHANGED vars => Inv'
  BY DEF vars, Inv, TypeOK, UnreadIsList, PathIsValid, UnreadIsContents, EntriesAreFiles,
         EntriesAreBehind, EntriesDiffer, StartsEmpty, HasRoom, RoomIsRespected,
         NothingPassedOver, ScanIsComplete, level, depth, Follows, ContentsAt, Item, Ahead,
         IsSeen, MustSee, IsFull, Seen

LEMMA InvNext == Inv /\ [Next]_vars => Inv'
  BY StartStep, OpenRootStep, SkipFolderStep, OpenFolderStep, ReadFileStep, EndOfFolderStep,
     InvStutter DEF Next

LEMMA InvHolds == Spec => []Inv
  BY InvInit, InvNext, PTL DEF Spec

(* A scan has one set of unread names for each folder it has open, and     *)
(* none is open between the commands.                                      *)
THEOREM TypeCorrect == Spec => []TypeOK
  <1>1. Inv => TypeOK
    BY DEF Inv
  <1>2. QED BY <1>1, InvHolds, PTL

LEMMA ReportedByInv == Inv => ReportedOnce
  <1> SUFFICES ASSUME Inv PROVE ReportedOnce
    OBVIOUS
  <1>1. entries \in Seq(Entry)
    BY DEF Inv, TypeOK, Entry
  <1>2. PICK l \in Nat : l = Len(entries) /\ DOMAIN entries = 1 .. l
    BY <1>1, LenProperties
  <1>3. Seen \subseteq MaySee(args.flags)
    <2>1. ASSUME NEW i \in DOMAIN entries
          PROVE  << entries[i].folder, entries[i].name >> \in MaySee(args.flags)
      <3>1. entries[i].name \in Name
        <4>1. entries[i] \in Entry
          BY <1>1, <1>2, ElementOfSeq
        <4>2. QED BY <4>1 DEF Entry
      <3>2. QED BY <2>1, <3>1 DEF Inv, EntriesAreFiles, MaySee
    <2>2. QED BY <2>1 DEF Seen
  <1>4. Cardinality(Seen) = l
    <2> DEFINE key == [i \in 1 .. l |-> << entries[i].folder, entries[i].name >>]
    <2>1. \A i, j \in 1 .. l : key[i] = key[j] => i = j
      BY <1>2 DEF Inv, EntriesDiffer
    <2>2. Seen = {key[i] : i \in 1 .. l}
      BY <1>2 DEF Seen
    <2>3. key \in Bijection(1 .. l, Seen)
      <3> HIDE DEF key
      <3>1. key \in [1 .. l -> Seen]
        BY <2>2 DEF key
      <3>2. IsInjective(key)
        BY <2>1, <3>1 DEF IsInjective
      <3>3. \A s \in Seen : \E i \in 1 .. l : key[i] = s
        BY <2>2
      <3>4. QED BY <3>1, <3>2, <3>3 DEF Bijection, Injection, Surjection
    <2>4. IsFiniteSet(1 .. l) /\ Cardinality(1 .. l) = l
      BY FS_Interval
    <2>5. QED BY <2>3, <2>4, FS_Bijection DEF ExistsBijection
  <1>5. QED BY <1>2, <1>3, <1>4 DEF ReportedOnce

(* A command reports files of the storage only, of the types it was asked  *)
(* for, and none twice, whatever is in the folders and wherever the        *)
(* library fails.                                                          *)
THEOREM EntriesReportedOnce == Spec => []ReportedOnce
  BY InvHolds, ReportedByInv, PTL

(* ListEntries never stores more than its array has room for, unless it    *)
(* has none.                                                               *)
THEOREM ArrayRespected == Spec => []RoomIsRespected
  <1>1. Inv => RoomIsRespected
    BY DEF Inv
  <1>2. QED BY <1>1, InvHolds, PTL

(* A scan that met no failure and did not fill the array has reported      *)
(* every file it was asked for, whatever the order ReadDirectory returns   *)
(* the names in.                                                           *)
THEOREM NothingIsMissed == Spec => []ScanIsComplete
  <1>1. Inv => ScanIsComplete
    BY DEF Inv
  <1>2. QED BY <1>1, InvHolds, PTL

=============================================================================
