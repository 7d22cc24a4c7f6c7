----------------------- MODULE OverlayThumbnailHolder -----------------------
(***************************************************************************)
(* The overlay thumbnails: for each kind of thumbnail one buffer and the   *)
(* AlbumFileId it belongs to, written by the control thread               *)
(* (SetOverlay*ThumbnailData) and read by the album thread                 *)
(* (GetLastOverlay*Thumbnail). The mutex covers the accesses to file_id    *)
(* and status and the reader's memcpy, not the writer's.                   *)
(*                                                                         *)
(* The n-th call of SetOverlay*ThumbnailData for a kind brings file id n   *)
(* and an image whose chunks are all n; 0 is what Initialize leaves. A     *)
(* call with a buffer that is too short returns before it touches any of   *)
(* this and is left out.                                                   *)
(***************************************************************************)
EXTENDS Naturals

CONSTANTS
  Kind,                 \* the thumbnails: of the last screenshot, of the last movie
  Chunks,               \* a memcpy is this many steps
  MaxWrites             \* bound on the calls of SetOverlay*ThumbnailData per kind

ASSUME ChunksAssumption == Chunks \in Nat \ {0}
ASSUME MaxWritesAssumption == MaxWrites \in Nat

VARIABLES
  file_id,              \* Kind -> file_id of OverlayCacheData
  image,                \* Kind -> the buffer, by chunks
  status,               \* Kind -> OverlayStatus
  mutex,                \* the thread that holds the holder's mutex
  writer,               \* the control thread: [pc, kind, chunk]
  reader,               \* the album thread: [pc, kind, chunk]
  copy,                 \* what the reader returns: [file_id, image]
  started,              \* Kind -> how many writes have stored their file_id (history)
  low                   \* how many writes of its kind had ended when the
                        \* current or last read took the mutex (history)

vars == << file_id, image, status, mutex, writer, reader, copy, started, low >>

Chunk == 1 .. Chunks

WriterPC == {"idle", "get", "copy", "signal"}
ReaderPC == {"idle", "get", "copy", "done"}

Init ==
  /\ file_id = [k \in Kind |-> 0]
  /\ image = [k \in Kind |-> [c \in Chunk |-> 0]]
  /\ status = [k \in Kind |-> "Free"]
  /\ mutex = "none"
  /\ \E k \in Kind : /\ writer = [pc |-> "idle", kind |-> k, chunk |-> 1]
                     /\ reader = [pc |-> "idle", kind |-> k, chunk |-> 1]
  /\ copy = [file_id |-> 0, image |-> [c \in Chunk |-> 0]]
  /\ started = [k \in Kind |-> 0]
  /\ low = 0

(* What both calls wait for: the mutex, and on cond_var for the status.    *)
MayEnter(k) == mutex = "none" /\ status[k] # "Occupied"

(* The writes of kind k that have ended. *)
Ended(k) == IF writer.pc \in {"copy", "signal"} /\ writer.kind = k THEN started[k] - 1 ELSE started[k]

-----------------------------------------------------------------------------
(* SetOverlayScreenShotThumbnailData and SetOverlayMovieThumbnailData.     *)

SetThumbnailData ==
  /\ writer.pc = "idle"
  /\ \E k \in Kind :
       /\ started[k] < MaxWrites
       /\ writer' = [pc |-> "get", kind |-> k, chunk |-> 1]
  /\ UNCHANGED << file_id, image, status, mutex, reader, copy, started, low >>

(* GetOverlayBuffer stores the file id and leaves the status as it is. *)
GetOverlayBuffer ==
  LET k == writer.kind
  IN /\ writer.pc = "get"
     /\ MayEnter(k)
     /\ started' = [started EXCEPT ![k] = @ + 1]
     /\ file_id' = [file_id EXCEPT ![k] = started[k] + 1]
     /\ writer' = [writer EXCEPT !.pc = "copy"]
     /\ UNCHANGED << image, status, mutex, reader, copy, low >>

(* Fault: the last chunk is not copied. *)
LastChunkFault(c) == c + 1 >= Chunks

(* The memcpy ends with this chunk. *)
LastChunk(c) == c = Chunks

(* The memcpy into the buffer, with no lock. *)
CopyIn ==
  /\ writer.pc = "copy"
  /\ image' = [image EXCEPT ![writer.kind][writer.chunk] = started[writer.kind]]
  /\ writer' = IF LastChunk(writer.chunk)
               THEN [writer EXCEPT !.pc = "signal"]
               ELSE [writer EXCEPT !.chunk = @ + 1]
  /\ UNCHANGED << file_id, status, mutex, reader, copy, started, low >>

(* Fault: Signal leaves the buffer occupied. *)
SignalledFault == "Occupied"

(* The status Signal stores. *)
Signalled == "Free"

Signal ==
  /\ writer.pc = "signal"
  /\ mutex = "none"
  /\ status' = [status EXCEPT ![writer.kind] = Signalled]
  /\ writer' = [writer EXCEPT !.pc = "idle"]
  /\ UNCHANGED << file_id, image, mutex, reader, copy, started, low >>

-----------------------------------------------------------------------------
(* GetLastOverlayThumbnail.                                                *)

GetLastOverlayThumbnail ==
  /\ reader.pc \in {"idle", "done"}
  /\ \E k \in Kind : reader' = [pc |-> "get", kind |-> k, chunk |-> 1]
  /\ UNCHANGED << file_id, image, status, mutex, writer, copy, started, low >>

(* Fault: the reader does not keep the mutex while it copies. *)
HeldFault == "none"

(* The reader's scoped_lock lasts until it returns. *)
Held == "reader"

ReaderEnter ==
  /\ reader.pc = "get"
  /\ MayEnter(reader.kind)
  /\ mutex' = Held
  /\ reader' = [reader EXCEPT !.pc = "copy"]
  /\ low' = Ended(reader.kind)
  /\ UNCHANGED << file_id, image, status, writer, copy, started >>

(* The memcpy out of the buffer, under the mutex, then the file id. *)
CopyOut ==
  LET k == reader.kind
      c == reader.chunk
  IN /\ reader.pc = "copy"
     /\ c <= Chunks
     /\ copy' = [copy EXCEPT !.image[c] = image[k][c]]
     /\ reader' = [reader EXCEPT !.chunk = c + 1]
     /\ UNCHANGED << file_id, image, status, mutex, writer, started, low >>

ReaderReturn ==
  /\ reader.pc = "copy"
  /\ reader.chunk > Chunks
  /\ copy' = [copy EXCEPT !.file_id = file_id[reader.kind]]
  /\ mutex' = "none"
  /\ reader' = [reader EXCEPT !.pc = "done"]
  /\ UNCHANGED << file_id, image, status, writer, started, low >>

Next ==
  \/ SetThumbnailData \/ GetOverlayBuffer \/ CopyIn \/ Signal
  \/ GetLastOverlayThumbnail \/ ReaderEnter \/ CopyOut \/ ReaderReturn

Spec == Init /\ [][Next]_vars

(* A memcpy goes on, and a thread that waits for the mutex is not passed   *)
(* over for ever. No client has to call.                                   *)
Fairness ==
  /\ WF_vars(CopyIn) /\ WF_vars(CopyOut) /\ WF_vars(ReaderReturn)
  /\ SF_vars(GetOverlayBuffer) /\ SF_vars(Signal) /\ SF_vars(ReaderEnter)

FairSpec == Spec /\ Fairness

-----------------------------------------------------------------------------

TypeOK ==
  /\ file_id \in [Kind -> Nat]
  /\ image \in [Kind -> [Chunk -> Nat]]
  /\ status \in [Kind -> {"Free", "Occupied"}]
  /\ mutex \in {"none", "reader"}
  /\ writer \in [pc: WriterPC, kind: Kind, chunk: Chunk]
  /\ reader \in [pc: ReaderPC, kind: Kind, chunk: 1 .. Chunks + 1]
  /\ copy \in [file_id: Nat, image: [Chunk -> Nat]]
  /\ started \in [Kind -> Nat]
  /\ low \in Nat

(* What GetLastOverlayThumbnail returns is made of the last write that had *)
(* ended when it took the mutex and of at most the one write that was      *)
(* under way then; no part is older, and no part is newer than the file id *)
(* it comes with.                                                          *)
ReadIsRecent ==
  reader.pc = "done" =>
    /\ copy.file_id \in {low, low + 1}
    /\ \A c \in Chunk : copy.image[c] \in low .. copy.file_id

(* The holder at rest: between two calls of the control thread file_id and *)
(* every chunk of the image are those of the last call.                    *)
HolderAtRest ==
  \A k \in Kind :
    ~ (writer.pc \in {"copy", "signal"} /\ writer.kind = k) =>
      /\ file_id[k] = started[k]
      /\ \A c \in Chunk : image[k][c] = started[k]

(* A thumbnail is returned with the file id it was stored with: the wait   *)
(* for the occupation status in GetLastOverlayThumbnail keeps the reader   *)
(* away from a buffer that is being written.                               *)
ThumbnailIsWhole ==
  reader.pc = "done" => \A c \in Chunk : copy.image[c] = copy.file_id

(* Both calls return. *)
EveryCallReturns ==
  /\ writer.pc # "idle" ~> writer.pc = "idle"
  /\ reader.pc = "get" ~> reader.pc = "done"

=============================================================================
