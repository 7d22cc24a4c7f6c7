-------------------------- MODULE AlbumFilesProofs --------------------------
(***************************************************************************)
(* Copying, deleting and counting files, for any storages, files and       *)
(* sizes; and the agreement of mount_status and mount table which          *)
(* AlbumStorage promises.                                                  *)
(***************************************************************************)
EXTENDS AlbumFiles, FiniteSetTheorems, TLAPS

(* What is known of the running command at each point of its code. *)
CommandKnown ==
  /\ pc \in {"dst", "open", "create", "read", "write", "clean"} =>
       cmd.op = "CopyFile"
  /\ pc = "delete" => cmd.op = "DeleteFile"
  /\ pc = "scan" => cmd.op = "RefreshCache"
  /\ pc # "idle" => (cmd.op = "CopyFile" <=> cmd.src # cmd.dst)

RoomChecked == pc = "create" => HasRoom

(* Up to the creation of the target nothing has touched it. *)
BeforeKept == pc \in {"src", "dst", "open", "create"} => before = Target

Copying == pc \in {"read", "write", "clean"}

(* The target has the size of the source, and its chunks up to the offset. *)
PartCopied ==
  Copying =>
    /\ Source # Absent /\ Target # Absent
    /\ Len(Target) = Len(Source)
    /\ offset <= Len(Source)
    /\ \A i \in 1 .. offset : Target[i] = Source[i]
    /\ pc = "write" => offset + read_size <= Len(Source)

BeingCopied(s, f) == Copying /\ s = cmd.dst /\ f = cmd.file

(* The files that are neither spoiled nor being copied are whole. *)
FilesWhole ==
  \A s \in Storage, f \in File :
    << s, f >> \notin spoiled /\ ~ BeingCopied(s, f) =>
      files[s][f] \in Originals \cup {Absent}

SourcePresent == pc = "create" => Source # Absent

Inv ==
  /\ TypeOK
  /\ CommandKnown
  /\ RoomChecked
  /\ SourcePresent
  /\ BeforeKept
  /\ PartCopied
  /\ FilesWhole

-----------------------------------------------------------------------------
(* The storages. *)

MountInv == Mount!TypeOK /\ Mount!Agreement

LEMMA MountInit == Mount!Init => MountInv
  BY DEF Mount!Init, Mount!Initial, Mount!Unmounted, MountInv, Mount!TypeOK, Mount!Agreement,
         Mount!MountStatus, Mount!MountState, Mount!MountError

LEMMA OpenFailsInv ==
  ASSUME MountInv, NEW s \in Storage, Mount!OpenFails(s)
  PROVE  MountInv'
  <1> USE DEF MountInv, Mount!TypeOK, Mount!Agreement, Mount!MountStatus, Mount!MountState,
              Mount!MountError, Mount!Unmounted, Mount!Available
  <1>1. PICK failed \in {Mount!Available} \cup
                        {Mount!Unmounted(e) : e \in Mount!MountError \ {"Success"}} :
          status' = [status EXCEPT ![s] = failed] /\ table' = table
    BY DEF Mount!OpenFails
  <1>2. /\ failed \in Mount!MountStatus /\ failed.state # "mounted"
        /\ failed.last_error # "Success"
    OBVIOUS
  <1>3. s \notin table
    BY DEF Mount!OpenFails
  <1> HIDE DEF Mount!MountStatus, Mount!Unmounted, Mount!Available
  <1>4. QED BY <1>1, <1>2, <1>3

LEMMA MountNext == MountInv /\ [Mount!Next]_(Mount!vars) => MountInv'
  <1> SUFFICES ASSUME MountInv, [Mount!Next]_(Mount!vars) PROVE MountInv'
    OBVIOUS
  <1> USE DEF MountInv, Mount!TypeOK, Mount!Agreement, Mount!MountStatus, Mount!MountState,
              Mount!MountError, Mount!Unmounted, Mount!Available, Mount!Mounted
  <1>1. ASSUME NEW s \in Storage, Mount!Open(s) PROVE MountInv'
    BY <1>1 DEF Mount!Open
  <1>2. ASSUME NEW s \in Storage, Mount!Close(s) PROVE MountInv'
    BY <1>2 DEF Mount!Close
  <1>3. ASSUME NEW s \in Storage, Mount!Reset(s) PROVE MountInv'
    BY <1>3 DEF Mount!Reset
  <1>4. CASE UNCHANGED Mount!vars
    BY <1>4 DEF Mount!vars
  <1>5. QED
    <2> HIDE DEF MountInv
    <2>1. QED BY <1>1, <1>2, <1>3, <1>4, OpenFailsInv DEF Mount!Next

(* With atomic calls mount_status and the mount table agree at every       *)
(* moment. Together with the refinement (AlbumMountProofs) this is what a  *)
(* client of the AlbumManager may rely on.                                 *)
THEOREM StorageAgrees == Mount!Spec => []Mount!Agreement
  <1>1. MountInv => Mount!Agreement
    BY DEF MountInv
  <1>2. QED BY <1>1, MountInit, MountNext, PTL DEF Mount!Spec

USE TypeOfAssumption, FileAssumption, AskedAssumption, BoundsAssumption, AbsentAssumption

-----------------------------------------------------------------------------
(* Contents and counts. *)

(* A content is a sequence of at most Versions chunks. *)
LEMMA ContentSequence ==
  ASSUME NEW c \in Content
  PROVE  /\ Len(c) \in 0 .. Versions
         /\ DOMAIN c = 1 .. Len(c)
         /\ c \in [1 .. Len(c) -> 0 .. Versions]
  <1>1. PICK n \in 0 .. Versions : c \in [1 .. n -> 0 .. Versions]
    BY DEF Content
  <1>2. c \in Seq(0 .. Versions) /\ Len(c) = n
    BY <1>1
  <1>3. QED BY <1>1, <1>2

(* A function on 1 .. n to the chunks is a content of n chunks. *)
LEMMA SequenceContent ==
  ASSUME NEW n \in 0 .. Versions, NEW c \in [1 .. n -> 0 .. Versions]
  PROVE  c \in Content /\ Len(c) = n
  <1>1. c \in Content
    BY DEF Content
  <1>2. c \in Seq(0 .. Versions) /\ Len(c) = n
    OBVIOUS
  <1>3. QED BY <1>1, <1>2

LEMMA OriginalsContent == Originals \subseteq Content
  <1> SUFFICES ASSUME NEW v \in 0 .. Versions PROVE Whole(v) \in Content
    BY DEF Originals
  <1>1. Whole(v) \in [1 .. v -> 0 .. Versions]
    BY DEF Whole
  <1>2. QED BY <1>1, SequenceContent

(* Counts wrap, and so stay below Word. *)
LEMMA CountsWrap ==
  ASSUME NEW n \in 0 .. Word - 1
  PROVE  Incremented(n) \in 0 .. Word - 1 /\ Decremented(n) \in 0 .. Word - 1
  BY DEF Incremented, Decremented

(* The calls of AlbumStorage keep the types of status and mount table. *)
LEMMA MountTyped ==
  ASSUME Mount!TypeOK, Mount!Next \/ UNCHANGED mount
  PROVE  Mount!TypeOK'
  <1> USE DEF Mount!TypeOK, Mount!MountStatus, Mount!MountState, Mount!MountError,
              Mount!Unmounted, Mount!Available, Mount!Mounted
  <1>1. ASSUME NEW s \in Storage, Mount!Open(s) PROVE Mount!TypeOK'
    BY <1>1 DEF Mount!Open
  <1>2. ASSUME NEW s \in Storage, Mount!OpenFails(s) PROVE Mount!TypeOK'
    <2>1. PICK failed \in {Mount!Available} \cup
                          {Mount!Unmounted(e) : e \in Mount!MountError \ {"Success"}} :
            status' = [status EXCEPT ![s] = failed] /\ table' = table
      BY <1>2 DEF Mount!OpenFails
    <2>2. failed \in Mount!MountStatus
      OBVIOUS
    <2> HIDE DEF Mount!MountStatus, Mount!Unmounted, Mount!Available
    <2>3. QED BY <2>1, <2>2
  <1>3. ASSUME NEW s \in Storage, Mount!Close(s) PROVE Mount!TypeOK'
    BY <1>3 DEF Mount!Close
  <1>4. ASSUME NEW s \in Storage, Mount!Reset(s) PROVE Mount!TypeOK'
    BY <1>4 DEF Mount!Reset
  <1>5. CASE UNCHANGED mount
    BY <1>5 DEF mount
  <1>6. QED BY <1>1, <1>2, <1>3, <1>4, <1>5 DEF Mount!Next

(* What is known while a command runs. *)
LEMMA Running ==
  ASSUME TypeOK, pc # "idle"
  PROVE  /\ cmd \in Commands
         /\ cmd.op \in {"CopyFile", "DeleteFile", "RefreshCache"}
         /\ cmd.file \in File /\ cmd.src \in Storage /\ cmd.dst \in Storage
         /\ Source \in Content \cup {Absent} /\ Target \in Content \cup {Absent}
  BY DEF TypeOK, Commands, Source, Target

(* The end of a command that changes no file, or whose change is described *)
(* by FilesWhole: nothing else is to be shown of the invariant.            *)
LEMMA ReturnInv ==
  ASSUME Inv, NEW r \in {"Success", "Failure", "Crash"}, Return(r),
         Mount!TypeOK', FilesWhole',
         files' \in [Storage -> [File -> Content \cup {Absent}]],
         count' \in [Storage -> [Type -> 0 .. Word - 1]],
         spoiled' \subseteq Storage \X File
  PROVE  Inv'
  BY DEF Inv, TypeOK, Return, PC, CommandKnown, RoomChecked, SourcePresent, BeforeKept,
         PartCopied, Copying, Idle

(* A step that touches no file, and ends no copy in the middle. *)
LEMMA FilesUntouched ==
  ASSUME FilesWhole, UNCHANGED disk, Copying => Copying' /\ cmd' = cmd
  PROVE  FilesWhole'
  BY DEF FilesWhole, BeingCopied, disk

(* What assigning to the target does, and does not. *)
LEMMA Assigned ==
  ASSUME Inv, pc # "idle", NEW c \in Content \cup {Absent}, SetTarget(c)
  PROVE  /\ files' \in [Storage -> [File -> Content \cup {Absent}]]
         /\ files'[cmd.dst][cmd.file] = c
         /\ \A s \in Storage, f \in File :
              s # cmd.dst \/ f # cmd.file => files'[s][f] = files[s][f]
  BY Running DEF Inv, TypeOK, SetTarget

(* A command ends that has assigned to its target c, a whole content or    *)
(* one that is spoiled.                                                    *)
LEMMA AssignedInv ==
  ASSUME Inv, pc # "idle", NEW c \in Content \cup {Absent}, SetTarget(c),
         NEW r \in {"Success", "Failure"}, Return(r), UNCHANGED mount,
         count' \in [Storage -> [Type -> 0 .. Word - 1]],
         \/ /\ c \in Originals \cup {Absent}
            /\ spoiled' = spoiled \ {<< cmd.dst, cmd.file >>}
         \/ spoiled' = spoiled \cup {<< cmd.dst, cmd.file >>}
  PROVE  Inv'
  <1>1. /\ files' \in [Storage -> [File -> Content \cup {Absent}]]
        /\ files'[cmd.dst][cmd.file] = c
        /\ \A s \in Storage, f \in File :
             s # cmd.dst \/ f # cmd.file => files'[s][f] = files[s][f]
    BY Assigned
  <1>2. cmd.dst \in Storage /\ cmd.file \in File
    BY Running DEF Inv
  <1>3. spoiled' \subseteq Storage \X File
    BY <1>2 DEF Inv, TypeOK
  <1>4. FilesWhole'
    <2> SUFFICES ASSUME NEW s \in Storage, NEW f \in File, << s, f >> \notin spoiled'
                 PROVE  files'[s][f] \in Originals \cup {Absent}
      BY DEF FilesWhole
    <2>1. CASE s = cmd.dst /\ f = cmd.file
      BY <1>1, <2>1
    <2>2. CASE s # cmd.dst \/ f # cmd.file
      <3>1. << s, f >> \notin spoiled
        BY <2>2
      <3>2. QED BY <1>1, <2>2, <3>1 DEF Inv, FilesWhole, BeingCopied
    <2>3. QED BY <2>1, <2>2
  <1>5. Mount!TypeOK'
    BY MountTyped DEF Inv, TypeOK
  <1>6. QED BY <1>1, <1>3, <1>4, <1>5, ReturnInv

-----------------------------------------------------------------------------
(* Every action preserves the invariant. *)

LEMMA InitInv == Init => Inv
  <1> SUFFICES ASSUME Init PROVE Inv
    OBVIOUS
  <1>1. Mount!TypeOK
    BY DEF Init, Mount!Init, Mount!Initial, Mount!Unmounted, Mount!TypeOK, Mount!MountStatus,
           Mount!MountState, Mount!MountError
  <1>2. files \in [Storage -> [File -> Content \cup {Absent}]]
    BY OriginalsContent DEF Init
  <1>3. TypeOK
    BY <1>1, <1>2 DEF Init, TypeOK, PC
  <1>4. FilesWhole
    BY DEF Init, FilesWhole
  <1>5. QED
    BY <1>3, <1>4 DEF Init, Inv, CommandKnown, RoomChecked, SourcePresent, BeforeKept,
                      PartCopied, Copying

LEMMA StartInv == Inv /\ Start => Inv'
  <1> SUFFICES ASSUME Inv, Start PROVE Inv'
    OBVIOUS
  <1>1. PICK c \in Commands :
          /\ c.op = "CopyFile" \/ c.dst = c.src
          /\ IF c.op = "CopyFile" /\ c.src = c.dst
             THEN Return("Success")
             ELSE /\ cmd' = c
                  /\ pc' = "src"
                  /\ before' = files[c.dst][c.file]
                  /\ reply' = "None"
                  /\ UNCHANGED << offset, read_size >>
    BY DEF Start
  <1>2. pc = "idle" /\ UNCHANGED << mount, disk, count >>
    BY DEF Start
  <1>3. Mount!TypeOK'
    BY <1>2, MountTyped DEF Inv, TypeOK
  <1>4. FilesWhole'
    BY <1>2, FilesUntouched DEF Inv, Copying
  <1>5. CASE Return("Success")
    BY <1>2, <1>3, <1>4, <1>5, ReturnInv DEF Inv, TypeOK, disk
  <1>6. CASE ~ (c.op = "CopyFile" /\ c.src = c.dst)
    <2>1. c.file \in File /\ c.src \in Storage /\ c.dst \in Storage
      BY DEF Commands
    <2>2. files[c.dst][c.file] \in Content \cup {Absent}
      BY <2>1 DEF Inv, TypeOK
    <2>3. c # Idle
      BY DEF Commands, Idle
    <2>4. TypeOK'
      BY <1>1, <1>2, <1>3, <1>6, <2>2, <2>3 DEF Inv, TypeOK, disk, PC
    <2>5. CommandKnown' /\ BeforeKept'
      BY <1>1, <1>2, <1>6 DEF CommandKnown, BeforeKept, Target, disk
    <2>6. QED
      BY <1>1, <1>4, <1>6, <2>4, <2>5
         DEF Inv, RoomChecked, SourcePresent, PartCopied, Copying
  <1>7. QED BY <1>1, <1>5, <1>6

(* Mounting a storage either ends the command or takes it to label. *)
LEMMA EnsureInv ==
  ASSUME Inv, NEW s \in Storage, NEW label \in {"dst", "open", "delete", "scan"},
         Ensure(s, label), UNCHANGED << disk, count >>, pc \in {"src", "dst"},
         label \in {"dst", "open"} => cmd.op = "CopyFile",
         label = "delete" => cmd.op = "DeleteFile",
         label = "scan" => cmd.op = "RefreshCache"
  PROVE  Inv'
  <1>1. Mount!Next \/ UNCHANGED mount
    BY DEF Ensure, Mount!Next
  <1>2. Mount!TypeOK'
    BY <1>1, MountTyped DEF Inv, TypeOK
  <1>3. FilesWhole'
    BY FilesUntouched DEF Inv, Copying
  <1>4. CASE Return("Failure")
    BY <1>2, <1>3, <1>4, ReturnInv DEF Inv, TypeOK, disk
  <1>5. CASE pc' = label /\ UNCHANGED << work, reply >>
    <2>1. TypeOK'
      BY <1>2, <1>5 DEF Inv, TypeOK, disk, work, PC, Idle
    <2>2. CommandKnown' /\ BeforeKept'
      BY <1>5 DEF Inv, CommandKnown, BeforeKept, Target, disk, work
    <2>3. QED
      BY <1>3, <1>5, <2>1, <2>2
         DEF Inv, RoomChecked, SourcePresent, PartCopied, Copying
  <1>6. QED BY <1>4, <1>5 DEF Ensure

LEMMA EnsureSourceInv == Inv /\ EnsureSource => Inv'
  <1> SUFFICES ASSUME Inv, EnsureSource PROVE Inv'
    OBVIOUS
  <1>1. cmd.src \in Storage /\ cmd.op \in {"CopyFile", "DeleteFile", "RefreshCache"}
    BY Running DEF Inv, EnsureSource
  <1>2. CASE cmd.op = "CopyFile"
    BY <1>1, <1>2, EnsureInv DEF EnsureSource
  <1>3. CASE cmd.op = "DeleteFile"
    BY <1>1, <1>3, EnsureInv DEF EnsureSource
  <1>4. CASE cmd.op = "RefreshCache"
    BY <1>1, <1>4, EnsureInv DEF EnsureSource
  <1>5. QED BY <1>1, <1>2, <1>3, <1>4

LEMMA EnsureTargetInv == Inv /\ EnsureTarget => Inv'
  <1> SUFFICES ASSUME Inv, EnsureTarget PROVE Inv'
    OBVIOUS
  <1>1. cmd.dst \in Storage /\ cmd.op = "CopyFile"
    BY Running DEF Inv, EnsureTarget, CommandKnown
  <1>2. QED BY <1>1, EnsureInv DEF EnsureTarget

LEMMA OpenSourceInv == Inv /\ OpenSource => Inv'
  <1> SUFFICES ASSUME Inv, OpenSource PROVE Inv'
    OBVIOUS
  <1>1. pc = "open" /\ UNCHANGED << mount, disk, count >>
    BY DEF OpenSource
  <1>2. Mount!TypeOK'
    BY <1>1, MountTyped DEF Inv, TypeOK
  <1>3. FilesWhole'
    BY <1>1, FilesUntouched DEF Inv, Copying
  <1>4. CASE Return("Failure")
    BY <1>1, <1>2, <1>3, <1>4, ReturnInv DEF Inv, TypeOK, disk
  <1>5. CASE Source # Absent /\ HasRoom /\ pc' = "create" /\ UNCHANGED << work, reply >>
    <2>1. TypeOK'
      BY <1>1, <1>2, <1>5 DEF Inv, TypeOK, disk, work, PC, Idle
    <2>2. CommandKnown' /\ BeforeKept' /\ RoomChecked' /\ SourcePresent'
      BY <1>1, <1>5 DEF Inv, CommandKnown, BeforeKept, RoomChecked, SourcePresent, HasRoom,
                        Source, Target, disk, work
    <2>3. QED
      BY <1>3, <1>5, <2>1, <2>2 DEF Inv, PartCopied, Copying
  <1>6. QED BY <1>4, <1>5 DEF OpenSource

(* The resized target is a content of the size of the source. *)
LEMMA ResizedContent ==
  ASSUME Inv, pc = "create"
  PROVE  Resized \in Content /\ Len(Resized) = Len(Source)
  <1>1. Source \in Content /\ Target \in Content \cup {Absent}
    BY Running DEF Inv, SourcePresent
  <1>2. /\ Len(Source) \in 0 .. Versions
        /\ Target # Absent => /\ Len(Target) \in 0 .. Versions
                              /\ Target \in [1 .. Len(Target) -> 0 .. Versions]
    BY <1>1, ContentSequence
  <1>3. Resized \in [1 .. Len(Source) -> 0 .. Versions]
    BY <1>2 DEF Resized, Blank
  <1>4. QED BY <1>2, <1>3, SequenceContent

(* While a copy runs, assigning to the target leaves the source alone. *)
LEMMA SourceKept ==
  ASSUME Inv, pc \in {"create", "read", "write", "clean"}, NEW c \in Content, SetTarget(c),
         UNCHANGED cmd
  PROVE  /\ files' \in [Storage -> [File -> Content \cup {Absent}]]
         /\ Target' = c
         /\ Source' = Source
         /\ \A s \in Storage, f \in File :
              s # cmd.dst \/ f # cmd.file => files'[s][f] = files[s][f]
  <1>1. cmd.src # cmd.dst /\ cmd.src \in Storage /\ cmd.file \in File
    BY Running DEF Inv, CommandKnown
  <1>2. QED BY <1>1, Assigned DEF Source, Target

LEMMA CreateTargetInv == Inv /\ CreateTarget => Inv'
  <1> SUFFICES ASSUME Inv, CreateTarget PROVE Inv'
    OBVIOUS
  <1>1. pc = "create" /\ UNCHANGED << mount, count >>
    BY DEF CreateTarget
  <1>2. Mount!TypeOK'
    BY <1>1, MountTyped DEF Inv, TypeOK
  <1>3. Resized \in Content /\ Len(Resized) = Len(Source)
    BY <1>1, ResizedContent
  <1>4. CASE /\ SetTarget(Resized)
             /\ pc' = "read"
             /\ offset' = 0
             /\ UNCHANGED << spoiled, cmd, read_size, before, reply >>
    <2>1. /\ files' \in [Storage -> [File -> Content \cup {Absent}]]
          /\ Target' = Resized
          /\ Source' = Source
          /\ \A s \in Storage, f \in File :
               s # cmd.dst \/ f # cmd.file => files'[s][f] = files[s][f]
      BY <1>1, <1>3, <1>4, SourceKept
    <2>2. TypeOK'
      BY <1>1, <1>2, <1>4, <2>1 DEF Inv, TypeOK, PC, Idle
    <2>3. CommandKnown'
      BY <1>1, <1>4 DEF Inv, CommandKnown
    <2>4. Source \in Content /\ Source # Absent
      BY <1>1, Running DEF Inv, SourcePresent
    <2>5. Len(Source) \in Nat
      BY <2>4, ContentSequence
    <2>6. PartCopied'
      BY <1>3, <1>4, <2>1, <2>4, <2>5 DEF PartCopied
    <2>7. FilesWhole'
      BY <1>1, <1>4, <2>1 DEF Inv, FilesWhole, BeingCopied, Copying
    <2>8. QED
      BY <1>4, <2>2, <2>3, <2>6, <2>7 DEF Inv, RoomChecked, SourcePresent, BeforeKept
  <1>5. CASE Return("Failure") /\ UNCHANGED disk
    <2>1. FilesWhole'
      BY <1>1, <1>5, FilesUntouched DEF Inv, Copying
    <2>2. QED BY <1>1, <1>2, <1>5, <2>1, ReturnInv DEF Inv, TypeOK, disk
  <1>6. CASE /\ Return("Failure")
             /\ SetTarget(Resized)
             /\ spoiled' = spoiled \cup {<< cmd.dst, cmd.file >>}
    BY <1>1, <1>3, <1>6, AssignedInv DEF Inv, TypeOK
  <1>7. QED BY <1>4, <1>5, <1>6 DEF CreateTarget

LEMMA ReadChunkInv == Inv /\ ReadChunk => Inv'
  <1> SUFFICES ASSUME Inv, ReadChunk PROVE Inv'
    OBVIOUS
  <1>1. /\ pc = "read" /\ pc' \in {"write", "clean"}
        /\ read_size' \in 0 .. WorkMemorySize
        /\ pc' = "write" => offset + read_size' <= Len(Source)
        /\ UNCHANGED << mount, disk, count, cmd, offset, before, reply >>
    BY DEF ReadChunk, work, Inv, TypeOK
  <1>2. Mount!TypeOK'
    BY <1>1, MountTyped DEF Inv, TypeOK
  <1>3. TypeOK'
    BY <1>1, <1>2 DEF Inv, TypeOK, disk, PC, Idle
  <1>4. FilesWhole'
    BY <1>1, FilesUntouched DEF Inv, Copying
  <1>5. CommandKnown'
    BY <1>1 DEF Inv, CommandKnown
  <1>6. PartCopied'
    BY <1>1 DEF Inv, PartCopied, Copying, Source, Target, disk
  <1>7. QED BY <1>1, <1>3, <1>4, <1>5, <1>6 DEF Inv, RoomChecked, SourcePresent, BeforeKept

LEMMA WriteChunkInv == Inv /\ WriteChunk => Inv'
  <1> SUFFICES ASSUME Inv, WriteChunk PROVE Inv'
    OBVIOUS
  <1>1. pc = "write" /\ UNCHANGED << mount, count >>
    BY DEF WriteChunk
  <1>2. Mount!TypeOK'
    BY <1>1, MountTyped DEF Inv, TypeOK
  <1>3. CASE /\ SetTarget(Written)
             /\ offset' = Advanced
             /\ pc' = "read"
             /\ UNCHANGED << spoiled, cmd, read_size, before, reply >>
    <2>1. Source \in Content /\ Target \in Content
      BY <1>1, Running DEF Inv, PartCopied, Copying
    <2>2. /\ Len(Source) \in 0 .. Versions
          /\ Source \in [1 .. Len(Source) -> 0 .. Versions]
          /\ Target \in [1 .. Len(Target) -> 0 .. Versions]
      BY <2>1, ContentSequence
    <2>3. /\ Len(Target) = Len(Source)
          /\ offset \in Nat /\ read_size \in Nat
          /\ offset + read_size <= Len(Source)
          /\ \A i \in 1 .. offset : Target[i] = Source[i]
      BY <1>1 DEF Inv, TypeOK, PartCopied, Copying
    <2>4. Written \in [1 .. Len(Source) -> 0 .. Versions]
      BY <2>2, <2>3 DEF Written
    <2>5. Written \in Content /\ Len(Written) = Len(Source)
      BY <2>2, <2>4, SequenceContent
    <2>6. \A i \in 1 .. offset + read_size : Written[i] = Source[i]
      BY <2>2, <2>3 DEF Written
    <2>7. /\ files' \in [Storage -> [File -> Content \cup {Absent}]]
          /\ Target' = Written
          /\ Source' = Source
          /\ \A s \in Storage, f \in File :
               s # cmd.dst \/ f # cmd.file => files'[s][f] = files[s][f]
      BY <1>1, <1>3, <2>5, SourceKept
    <2>8. TypeOK'
      BY <1>1, <1>2, <1>3, <2>2, <2>3, <2>7 DEF Inv, TypeOK, PC, Idle, Advanced
    <2>9. CommandKnown'
      BY <1>1, <1>3 DEF Inv, CommandKnown
    <2>10. PartCopied'
      <3>1. Source # Absent /\ Written # Absent
        BY <2>1, <2>5
      <3>2. QED BY <1>3, <2>2, <2>3, <2>5, <2>6, <2>7, <3>1 DEF PartCopied, Advanced
    <2>11. FilesWhole'
      BY <1>1, <1>3, <2>7 DEF Inv, FilesWhole, BeingCopied, Copying
    <2>12. QED
      BY <1>3, <2>8, <2>9, <2>10, <2>11 DEF Inv, RoomChecked, SourcePresent, BeforeKept
  <1>4. CASE pc' = "clean" /\ UNCHANGED << disk, work, reply >>
    <2>1. TypeOK'
      BY <1>1, <1>2, <1>4 DEF Inv, TypeOK, disk, work, PC, Idle
    <2>2. FilesWhole'
      BY <1>1, <1>4, FilesUntouched DEF Inv, Copying, work
    <2>3. CommandKnown'
      BY <1>1, <1>4 DEF Inv, CommandKnown, work
    <2>4. PartCopied'
      BY <1>1, <1>4 DEF Inv, PartCopied, Copying, Source, Target, disk, work
    <2>5. QED
      BY <1>4, <2>1, <2>2, <2>3, <2>4 DEF Inv, RoomChecked, SourcePresent, BeforeKept
  <1>5. QED BY <1>3, <1>4 DEF WriteChunk

LEMMA CleanUpInv == Inv /\ CleanUp => Inv'
  <1> SUFFICES ASSUME Inv, CleanUp PROVE Inv'
    OBVIOUS
  <1>1. pc = "clean" /\ Return("Failure") /\ UNCHANGED << mount, count >>
    BY DEF CleanUp
  <1>2. CASE /\ SetTarget(Cleaned)
             /\ spoiled' = spoiled \ {<< cmd.dst, cmd.file >>}
    BY <1>1, <1>2, AssignedInv DEF Inv, TypeOK, Cleaned
  <1>3. CASE spoiled' = spoiled \cup {<< cmd.dst, cmd.file >>} /\ UNCHANGED files
    <2>1. cmd.dst \in Storage /\ cmd.file \in File
      BY <1>1, Running DEF Inv
    <2>2. FilesWhole'
      BY <1>1, <1>3 DEF Inv, FilesWhole, BeingCopied
    <2>3. Mount!TypeOK'
      BY <1>1, MountTyped DEF Inv, TypeOK
    <2>4. QED BY <1>1, <1>3, <2>1, <2>2, <2>3, ReturnInv DEF Inv, TypeOK
  <1>4. QED BY <1>2, <1>3 DEF CleanUp

(* At the end of CopyFile's loop the target is the source. *)
LEMMA CopyIsDone ==
  ASSUME Inv, pc = "read", ~ MoreToCopy
  PROVE  Target = Source
  <1>1. Source \in Content /\ Target \in Content
    BY Running DEF Inv, PartCopied, Copying
  <1>2. /\ Len(Source) \in 0 .. Versions
        /\ Source \in [1 .. Len(Source) -> 0 .. Versions]
        /\ Target \in [1 .. Len(Target) -> 0 .. Versions]
    BY <1>1, ContentSequence
  <1>3. /\ Len(Target) = Len(Source)
        /\ offset <= Len(Source)
        /\ \A i \in 1 .. offset : Target[i] = Source[i]
    BY DEF Inv, PartCopied, Copying
  <1>4. offset = Len(Source)
    <2>1. offset \in Nat
      BY DEF Inv, TypeOK
    <2>2. Len(Source) \in Nat
      BY <1>2
    <2>3. ~ (offset < Len(Source))
      BY DEF MoreToCopy
    <2>4. offset <= Len(Source)
      BY <1>3
    <2>5. QED BY <2>1, <2>2, <2>3, <2>4
  <1>5. QED BY <1>2, <1>3, <1>4

LEMMA FinishCopyInv == Inv /\ FinishCopy => Inv'
  <1> SUFFICES ASSUME Inv, FinishCopy PROVE Inv'
    OBVIOUS
  <1>1. /\ pc = "read" /\ ~ MoreToCopy
        /\ count' = [count EXCEPT ![cmd.dst][TypeOf[cmd.file]] = Incremented(@)]
        /\ Return("Success")
        /\ UNCHANGED mount
    BY DEF FinishCopy
  <1>2. /\ cmd.dst \in Storage /\ cmd.src \in Storage /\ cmd.file \in File
        /\ cmd.src # cmd.dst
        /\ Target \in Content
    BY <1>1, Running DEF Inv, CommandKnown, PartCopied, Copying
  <1>3. count' \in [Storage -> [Type -> 0 .. Word - 1]]
    <2>1. TypeOf[cmd.file] \in Type
      BY <1>2
    <2>2. count[cmd.dst][TypeOf[cmd.file]] \in 0 .. Word - 1
      BY <1>2, <2>1 DEF Inv, TypeOK
    <2>3. Incremented(count[cmd.dst][TypeOf[cmd.file]]) \in 0 .. Word - 1
      BY <2>2, CountsWrap
    <2>4. QED BY <1>1, <1>2, <2>1, <2>3 DEF Inv, TypeOK
  <1>4. CASE FlushDone
    <2>1. Target = Source
      BY <1>1, CopyIsDone
    <2>2. << cmd.src, cmd.file >> \notin spoiled => Source \in Originals \cup {Absent}
      BY <1>2 DEF Inv, FilesWhole, BeingCopied, Source
    <2>3. FilesWhole'
      BY <1>2, <1>4, <2>1, <2>2 DEF Inv, FilesWhole, BeingCopied, FlushDone, Target
    <2>4. spoiled' \subseteq Storage \X File /\ UNCHANGED files
      BY <1>2, <1>4 DEF Inv, TypeOK, FlushDone
    <2>5. Mount!TypeOK'
      BY <1>1, MountTyped DEF Inv, TypeOK
    <2>6. QED BY <1>1, <1>3, <2>3, <2>4, <2>5, ReturnInv DEF Inv, TypeOK
  <1>5. CASE FlushFails
    <2>1. PICK lost \in SUBSET DOMAIN Target :
            SetTarget([i \in DOMAIN Target |-> IF i \in lost THEN Blank ELSE Target[i]])
      BY <1>5 DEF FlushFails
    <2> DEFINE Left == [i \in DOMAIN Target |-> IF i \in lost THEN Blank ELSE Target[i]]
    <2>2. /\ Len(Target) \in 0 .. Versions
          /\ DOMAIN Target = 1 .. Len(Target)
          /\ Target \in [1 .. Len(Target) -> 0 .. Versions]
      BY <1>2, ContentSequence
    <2>3. Left \in [1 .. Len(Target) -> 0 .. Versions]
      BY <2>2 DEF Blank
    <2>4. Left \in Content
      BY <2>2, <2>3, SequenceContent
    <2>5. spoiled' = spoiled \cup {<< cmd.dst, cmd.file >>}
      BY <1>5 DEF FlushFails
    <2>6. SetTarget(Left)
      BY <2>1
    <2> HIDE DEF Left
    <2>7. QED BY <1>1, <1>3, <2>4, <2>5, <2>6, AssignedInv
  <1>6. QED BY <1>4, <1>5 DEF FinishCopy

LEMMA DeleteFileInv == Inv /\ DeleteFile => Inv'
  <1> SUFFICES ASSUME Inv, DeleteFile PROVE Inv'
    OBVIOUS
  <1>1. /\ pc = "delete"
        /\ count' = [count EXCEPT ![cmd.src][TypeOf[cmd.file]] = Decremented(@)]
        /\ Return("Success")
        /\ UNCHANGED mount
    BY DEF DeleteFile
  <1>2. cmd.src \in Storage /\ cmd.file \in File
    BY <1>1, Running DEF Inv
  <1>3. count' \in [Storage -> [Type -> 0 .. Word - 1]]
    <2>1. TypeOf[cmd.file] \in Type
      BY <1>2
    <2>2. count[cmd.src][TypeOf[cmd.file]] \in 0 .. Word - 1
      BY <1>2, <2>1 DEF Inv, TypeOK
    <2>3. Decremented(count[cmd.src][TypeOf[cmd.file]]) \in 0 .. Word - 1
      BY <2>2, CountsWrap
    <2>4. QED BY <1>1, <1>2, <2>1, <2>3 DEF Inv, TypeOK
  <1>4. CASE SetTarget(Absent) /\ spoiled' = spoiled \ {<< cmd.dst, cmd.file >>}
    BY <1>1, <1>3, <1>4, AssignedInv
  <1>5. CASE UNCHANGED disk
    <2>1. FilesWhole'
      BY <1>1, <1>5, FilesUntouched DEF Inv, Copying
    <2>2. Mount!TypeOK'
      BY <1>1, MountTyped DEF Inv, TypeOK
    <2>3. QED BY <1>1, <1>3, <1>5, <2>1, <2>2, ReturnInv DEF Inv, TypeOK, disk
  <1>6. QED BY <1>4, <1>5 DEF DeleteFile

LEMMA RefreshCacheInv == Inv /\ RefreshCache => Inv'
  <1> SUFFICES ASSUME Inv, RefreshCache PROVE Inv'
    OBVIOUS
  <1>1. pc = "scan" /\ Return("Success") /\ UNCHANGED << mount, disk >>
    BY DEF RefreshCache
  <1>2. PICK c \in [Type -> 0 .. Word - 1] : count' = [count EXCEPT ![cmd.src] = c]
    BY DEF RefreshCache
  <1>3. count' \in [Storage -> [Type -> 0 .. Word - 1]]
    BY <1>2 DEF Inv, TypeOK
  <1>4. FilesWhole'
    BY <1>1, FilesUntouched DEF Inv, Copying
  <1>5. Mount!TypeOK'
    BY <1>1, MountTyped DEF Inv, TypeOK
  <1>6. QED BY <1>1, <1>3, <1>4, <1>5, ReturnInv DEF Inv, TypeOK, disk

(* The invariant speaks of the mount status only in its types. *)
LEMMA FilesUnchangedInv ==
  ASSUME Inv, UNCHANGED << disk, count, work, pc, reply >>, Mount!TypeOK'
  PROVE  Inv'
  <1>1. UNCHANGED << files, spoiled, count, cmd, offset, read_size, before, pc, reply >>
    BY DEF disk, work
  <1>2. TypeOK'
    BY <1>1 DEF Inv, TypeOK
  <1>3. QED
    BY <1>1, <1>2
       DEF Inv, CommandKnown, RoomChecked, HasRoom, SourcePresent, BeforeKept, PartCopied,
           Copying, FilesWhole, BeingCopied, Source, Target

LEMMA OtherCommandInv == Inv /\ OtherCommand => Inv'
  <1> SUFFICES ASSUME Inv, OtherCommand PROVE Inv'
    OBVIOUS
  <1>1. Mount!Next /\ UNCHANGED << disk, count, work, pc, reply >>
    BY DEF OtherCommand, Mount!Next
  <1>2. Mount!TypeOK'
    BY <1>1, MountTyped DEF Inv, TypeOK
  <1>3. QED BY <1>1, <1>2, FilesUnchangedInv

LEMMA CrashInv == Inv /\ Crash => Inv'
  <1> SUFFICES ASSUME Inv, Crash PROVE Inv'
    OBVIOUS
  <1>1. /\ status' = Mount!Initial /\ table' = {}
        /\ count' = [s \in Storage |-> [ty \in Type |-> 0]]
        /\ spoiled' = IF Copying THEN spoiled \cup {<< cmd.dst, cmd.file >>} ELSE spoiled
        /\ Return("Crash")
        /\ UNCHANGED files
    BY DEF Crash, Copying
  <1>2. Mount!TypeOK'
    BY <1>1 DEF Mount!Initial, Mount!Unmounted, Mount!TypeOK, Mount!MountStatus,
                Mount!MountState, Mount!MountError
  <1>3. Copying => cmd.dst \in Storage /\ cmd.file \in File
    BY Running DEF Inv, Copying
  <1>4. FilesWhole'
    BY <1>1 DEF Inv, FilesWhole, BeingCopied
  <1>5. spoiled' \subseteq Storage \X File
    BY <1>1, <1>3 DEF Inv, TypeOK
  <1>6. count' \in [Storage -> [Type -> 0 .. Word - 1]]
    BY <1>1
  <1>7. QED BY <1>1, <1>2, <1>4, <1>5, <1>6, ReturnInv DEF Inv, TypeOK

LEMMA NextInv == Inv /\ [Next]_vars => Inv'
  <1> SUFFICES ASSUME Inv, [Next]_vars PROVE Inv'
    OBVIOUS
  <1>1. CASE Step
    BY <1>1, EnsureSourceInv, EnsureTargetInv, OpenSourceInv, CreateTargetInv, ReadChunkInv,
       WriteChunkInv, CleanUpInv, FinishCopyInv, DeleteFileInv, RefreshCacheInv DEF Step
  <1>2. CASE UNCHANGED vars
    <2>1. Mount!TypeOK'
      BY <1>2, MountTyped DEF Inv, TypeOK, vars
    <2>2. QED BY <1>2, <2>1, FilesUnchangedInv DEF vars
  <1>3. QED BY <1>1, <1>2, StartInv, OtherCommandInv, CrashInv DEF Next

(* The invariant holds throughout. *)
THEOREM Invariance == Spec => []Inv
  BY InitInv, NextInv, PTL DEF Spec

(* The files, the counts, the mount status and the command keep their types; *)
(* the counts because they wrap.                                             *)
THEOREM TypeCorrect == Spec => []TypeOK
  <1>1. Inv => TypeOK
    BY DEF Inv
  <1>2. QED BY <1>1, Invariance, PTL

(* Between commands a file is whole unless a crash, a clean-up or a flush  *)
(* spoiled it: FilesWhole, when no copy is under way.                      *)
THEOREM NoFragments == Spec => []NoFragmentAtRest
  <1>1. Inv => NoFragmentAtRest
    BY DEF Inv, FilesWhole, BeingCopied, Copying, NoFragmentAtRest
  <1>2. QED BY <1>1, Invariance, PTL

(* A copy that succeeds made the target equal to the source, unless its    *)
(* flush failed, which CopyFile does not look at.                          *)
THEOREM CopyFaithful == Spec => CopyIsFaithful
  <1>1. Inv /\ [Next]_vars =>
          [pc = "read" /\ pc' = "idle" /\ reply' = "Success" =>
             /\ Target = Source
             /\ files'[cmd.dst][cmd.file] = Source \/ FlushFails]_vars
    <2> SUFFICES ASSUME Inv, Next, pc = "read", pc' = "idle", reply' = "Success"
                 PROVE  /\ Target = Source
                        /\ files'[cmd.dst][cmd.file] = Source \/ FlushFails
      OBVIOUS
    <2>1. FinishCopy
      BY DEF Next, Step, Start, OtherCommand, Crash, Return, EnsureSource, EnsureTarget,
             OpenSource, CreateTarget, ReadChunk, WriteChunk, CleanUp, DeleteFile, RefreshCache
    <2>2. Target = Source
      BY <2>1, CopyIsDone DEF FinishCopy
    <2>3. FlushDone => files'[cmd.dst][cmd.file] = Source
      BY <2>2 DEF FlushDone, Target
    <2>4. QED BY <2>1, <2>2, <2>3 DEF FinishCopy
  <1>2. QED BY <1>1, Invariance, PTL DEF Spec, CopyIsFaithful

(* A copy that fails leaves the target as it was, or removes it, or marks  *)
(* it as spoiled.                                                          *)
THEOREM FailureKeepsOrDrops == Spec => FailedCopyKeepsOrDrops
  <1>1. Inv /\ [Next]_vars =>
          [cmd.op = "CopyFile" /\ pc' = "idle" /\ reply' = "Failure"
             /\ << cmd.dst, cmd.file >> \notin spoiled'
           => files'[cmd.dst][cmd.file] \in {before, Absent}]_vars
    <2> SUFFICES ASSUME Inv, Next, cmd.op = "CopyFile", pc' = "idle", reply' = "Failure",
                        << cmd.dst, cmd.file >> \notin spoiled'
                 PROVE  files'[cmd.dst][cmd.file] \in {before, Absent}
      OBVIOUS
    <2>1. pc # "idle"
      BY DEF Inv, TypeOK, Idle
    <2>2. cmd.dst \in Storage /\ cmd.file \in File
      BY <2>1, Running DEF Inv
    <2>3. CASE pc \in {"src", "dst", "open", "create"} /\ UNCHANGED files
      BY <2>3 DEF Inv, BeforeKept, Target
    <2>4. CASE pc = "create" /\ ~ UNCHANGED files
      <3>1. CreateTarget
        BY <2>4 DEF Next, Step, Start, OtherCommand, Crash, EnsureSource, EnsureTarget,
                    OpenSource, ReadChunk, WriteChunk, CleanUp, FinishCopy, DeleteFile,
                    RefreshCache
      <3>2. QED BY <2>4, <3>1 DEF CreateTarget, disk
    <2>5. CASE pc \in {"src", "dst", "open"} /\ ~ UNCHANGED files
      BY <2>5 DEF Next, Step, Start, OtherCommand, Crash, EnsureSource, EnsureTarget,
                  OpenSource, CreateTarget, ReadChunk, WriteChunk, CleanUp, FinishCopy,
                  DeleteFile, RefreshCache, disk
    <2>6. CASE pc = "clean"
      <3>1. CleanUp
        BY <2>6 DEF Next, Step, Start, OtherCommand, Crash, Return, EnsureSource, EnsureTarget,
                    OpenSource, CreateTarget, ReadChunk, WriteChunk, FinishCopy, DeleteFile,
                    RefreshCache
      <3>2. SetTarget(Absent)
        BY <3>1 DEF CleanUp, Cleaned
      <3>3. QED BY <2>1, <3>2, Assigned
    <2>7. CASE pc \in {"read", "write"}
      BY <2>7 DEF Next, Step, Start, OtherCommand, Crash, Return, EnsureSource, EnsureTarget,
                  OpenSource, CreateTarget, ReadChunk, WriteChunk, CleanUp, FinishCopy,
                  DeleteFile, RefreshCache
    <2>8. CASE pc \in {"delete", "scan"}
      BY <2>8 DEF Inv, CommandKnown
    <2>9. QED
      BY <2>1, <2>3, <2>4, <2>5, <2>6, <2>7, <2>8 DEF Inv, TypeOK, PC
  <1>2. QED BY <1>1, Invariance, PTL DEF Spec, FailedCopyKeepsOrDrops

-----------------------------------------------------------------------------
(* The limit. *)

LEMMA PresentFinite ==
  ASSUME NEW s, NEW ty
  PROVE  IsFiniteSet(Present(s, ty)) /\ IsFiniteSet(Present(s, ty)')
  BY FS_Subset DEF Present

(* Where no file appears, no more files are present. *)
LEMMA NoFileAppears ==
  ASSUME NEW s \in Storage, NEW ty \in Type,
         \A f \in File : files'[s][f] # Absent => files[s][f] # Absent
  PROVE  Cardinality(Present(s, ty)') <= Cardinality(Present(s, ty))
  <1>1. Present(s, ty)' \subseteq Present(s, ty)
    BY DEF Present
  <1>2. QED BY <1>1, PresentFinite, FS_Subset

(* Only CreateFile makes a file appear. *)
LEMMA OnlyCreateAdds ==
  ASSUME Inv, Next, ~ CreateTarget
  PROVE  \A s \in Storage, f \in File : files'[s][f] # Absent => files[s][f] # Absent
  <1> SUFFICES ASSUME NEW s \in Storage, NEW f \in File, files'[s][f] # Absent
               PROVE  files[s][f] # Absent
    OBVIOUS
  <1>1. CASE UNCHANGED files
    BY <1>1
  <1>2. CASE WriteChunk /\ ~ UNCHANGED files
    <2>1. pc = "write" /\ Target # Absent
      BY <1>2 DEF WriteChunk, Inv, PartCopied, Copying
    <2>2. SetTarget(Written)
      BY <1>2 DEF WriteChunk, disk
    <2>3. s # cmd.dst \/ f # cmd.file => files'[s][f] = files[s][f]
      BY <2>2 DEF SetTarget, Inv, TypeOK
    <2>4. QED BY <2>1, <2>3 DEF Target
  <1>3. CASE FinishCopy /\ ~ UNCHANGED files
    <2>1. pc = "read" /\ FlushFails
      BY <1>3 DEF FinishCopy, FlushDone
    <2>2. Target # Absent
      BY <2>1 DEF Inv, PartCopied, Copying
    <2>3. s # cmd.dst \/ f # cmd.file => files'[s][f] = files[s][f]
      BY <2>1 DEF FlushFails, SetTarget, Inv, TypeOK
    <2>4. QED BY <2>2, <2>3 DEF Target
  <1>4. CASE (CleanUp \/ DeleteFile) /\ ~ UNCHANGED files
    <2>1. SetTarget(Absent) /\ pc # "idle"
      BY <1>4 DEF CleanUp, DeleteFile, Cleaned, disk
    <2>2. /\ files'[cmd.dst][cmd.file] = Absent
          /\ s # cmd.dst \/ f # cmd.file => files'[s][f] = files[s][f]
      BY <2>1, Assigned
    <2>3. QED BY <2>2
  <1>5. WriteChunk \/ FinishCopy \/ CleanUp \/ DeleteFile \/ UNCHANGED files
    BY DEF Next, Step, Start, OtherCommand, Crash, EnsureSource, EnsureTarget, OpenSource,
           ReadChunk, RefreshCache, disk
  <1>6. QED BY <1>1, <1>2, <1>3, <1>4, <1>5

(* No step takes a storage over its limit while the cached count of its    *)
(* files is not behind: the check made when the source was opened still    *)
(* holds when the file appears, and one step adds one file.                *)
THEOREM LimitKept == Spec => LimitIsKept
  <1>1. Inv /\ [Next]_vars =>
          [\A s \in Storage, ty \in Type :
             LET now == Cardinality(Present(s, ty))
                 then == Cardinality(Present(s, ty)')
             IN then > now /\ then > FileMaxCount => count[s][ty] < now]_vars
    <2> SUFFICES ASSUME Inv, Next, NEW s \in Storage, NEW ty \in Type,
                        Cardinality(Present(s, ty)') > Cardinality(Present(s, ty)),
                        Cardinality(Present(s, ty)') > FileMaxCount
                 PROVE  count[s][ty] < Cardinality(Present(s, ty))
      OBVIOUS
    <2> DEFINE now == Cardinality(Present(s, ty))
               then == Cardinality(Present(s, ty)')
    <2>1. now \in Nat /\ then \in Nat
      BY PresentFinite, FS_CardinalityType
    <2>2. CreateTarget
      <3> SUFFICES ASSUME ~ CreateTarget PROVE FALSE
        OBVIOUS
      <3>1. then <= now
        BY OnlyCreateAdds, NoFileAppears
      <3>2. QED BY <2>1, <3>1
    <2>3. pc = "create" /\ HasRoom
      BY <2>2 DEF CreateTarget, Inv, RoomChecked
    <2>4. cmd.dst \in Storage /\ cmd.file \in File
      BY <2>3, Running DEF Inv
    <2>5. \A t \in Storage, f \in File :
            t # cmd.dst \/ f # cmd.file => files'[t][f] = files[t][f]
      BY <2>2, <2>4 DEF CreateTarget, SetTarget, disk, Inv, TypeOK
    <2>6. s = cmd.dst /\ ty = TypeOf[cmd.file]
      <3> SUFFICES ASSUME s # cmd.dst \/ ty # TypeOf[cmd.file] PROVE FALSE
        OBVIOUS
      <3>1. Present(s, ty)' = Present(s, ty)
        BY <2>5 DEF Present
      <3>2. QED BY <2>1, <3>1
    <2>7. then <= now + 1
      <3>1. Present(s, ty)' \subseteq Present(s, ty) \cup {cmd.file}
        BY <2>5 DEF Present
      <3>2. /\ IsFiniteSet(Present(s, ty) \cup {cmd.file})
            /\ Cardinality(Present(s, ty) \cup {cmd.file}) <= now + 1
        <4>1. IsFiniteSet(Present(s, ty))
          BY PresentFinite
        <4>2. IsFiniteSet(Present(s, ty) \cup {cmd.file})
          BY <4>1, FS_AddElement
        <4>3. Cardinality(Present(s, ty) \cup {cmd.file}) =
                IF cmd.file \in Present(s, ty) THEN Cardinality(Present(s, ty))
                                              ELSE Cardinality(Present(s, ty)) + 1
          BY <4>1, FS_AddElement
        <4>4. QED BY <2>1, <4>2, <4>3
      <3>3. then <= Cardinality(Present(s, ty) \cup {cmd.file})
        BY <3>1, <3>2, FS_Subset
      <3>4. Cardinality(Present(s, ty) \cup {cmd.file}) \in Nat
        BY <3>2, FS_CardinalityType
      <3>5. QED BY <2>1, <3>2, <3>3, <3>4
    <2>8. count[s][ty] \in Nat /\ count[s][ty] < FileMaxCount
      BY <2>3, <2>6 DEF HasRoom, Inv, TypeOK
    <2>9. QED BY <2>1, <2>7, <2>8
  <1>2. QED BY <1>1, Invariance, PTL DEF Spec, LimitIsKept

=============================================================================
