-------------------- MODULE OverlayThumbnailHolderProofs --------------------
(* The overlay thumbnails for any kinds, sizes and numbers of writes.       *)
EXTENDS OverlayThumbnailHolder, TLAPS

(* The control thread is between GetOverlayBuffer and Signal for kind k. *)
Writing(k) == writer.pc \in {"copy", "signal"} /\ writer.kind = k

(* The chunk c of the image of kind k is not yet that of the write under way. *)
Behind(k, c) == Writing(k) /\ writer.pc = "copy" /\ c >= writer.chunk

(* file_id is that of the last write that took it, and so are the chunks   *)
(* its memcpy has reached; the others are those of the write before.       *)
Written ==
  \A k \in Kind :
    /\ file_id[k] = started[k]
    /\ Writing(k) => started[k] > 0
    /\ \A c \in Chunk :
         image[k][c] = IF Behind(k, c) THEN started[k] - 1 ELSE started[k]

(* The reader holds the mutex while it copies, and nobody else ever does.  *)
ReaderHolds == mutex = "reader" <=> reader.pc = "copy"

(* While the reader copies no write begins or ends, so that what it has    *)
(* copied is of the last write that had ended, or of the one under way.    *)
PartRead ==
  reader.pc = "copy" =>
    /\ low = Ended(reader.kind)
    /\ \A c \in Chunk : c < reader.chunk => copy.image[c] \in low .. started[reader.kind]

(* A memcpy begins with the first chunk. *)
StartsAtOne ==
  /\ writer.pc = "get" => writer.chunk = 1
  /\ reader.pc = "get" => reader.chunk = 1

Inv ==
  /\ TypeOK
  /\ StartsAtOne
  /\ Written
  /\ ReaderHolds
  /\ PartRead
  /\ ReadIsRecent

USE ChunksAssumption, MaxWritesAssumption DEF WriterPC, ReaderPC, Chunk

-----------------------------------------------------------------------------

LEMMA InitInv == Init => Inv
  <1> SUFFICES ASSUME Init PROVE Inv
    OBVIOUS
  <1>1. TypeOK
    BY DEF Init, TypeOK
  <1>2. Written
    <2>1. writer.pc = "idle"
      BY DEF Init
    <2>2. QED BY <2>1 DEF Init, Written, Writing, Behind
  <1>3. ReaderHolds /\ PartRead /\ ReadIsRecent
    BY DEF Init, ReaderHolds, PartRead, ReadIsRecent
  <1>4. QED BY <1>1, <1>2, <1>3 DEF Init, Inv, StartsAtOne

LEMMA SetThumbnailDataInv == Inv /\ SetThumbnailData => Inv'
  <1> SUFFICES ASSUME Inv, SetThumbnailData PROVE Inv'
    OBVIOUS
  <1>1. PICK k \in Kind : writer' = [pc |-> "get", kind |-> k, chunk |-> 1]
    BY DEF SetThumbnailData
  <1>2. /\ writer.pc = "idle"
        /\ UNCHANGED << file_id, image, status, mutex, reader, copy, started, low >>
    BY DEF SetThumbnailData
  <1>3. TypeOK'
    <2>1. writer' \in [pc: WriterPC, kind: Kind, chunk: Chunk]
      BY <1>1
    <2>2. QED BY <1>2, <2>1 DEF Inv, TypeOK
  <1>4. Written'
    <2>1. \A j \in Kind : ~ Writing(j) /\ ~ Writing(j)'
      BY <1>1, <1>2 DEF Writing
    <2>2. QED BY <1>2, <2>1 DEF Inv, Written, Behind
  <1>5. (ReaderHolds /\ PartRead /\ ReadIsRecent)'
    BY <1>1, <1>2 DEF Inv, ReaderHolds, PartRead, ReadIsRecent, Ended
  <1>6. QED BY <1>1, <1>2, <1>3, <1>4, <1>5 DEF Inv, StartsAtOne

LEMMA GetOverlayBufferInv == Inv /\ GetOverlayBuffer => Inv'
  <1> SUFFICES ASSUME Inv, GetOverlayBuffer PROVE Inv'
    OBVIOUS
  <1> DEFINE k == writer.kind
  <1>1. /\ writer.pc = "get" /\ mutex = "none"
        /\ started' = [started EXCEPT ![k] = @ + 1]
        /\ file_id' = [file_id EXCEPT ![k] = started[k] + 1]
        /\ writer' = [writer EXCEPT !.pc = "copy"]
        /\ UNCHANGED << image, status, mutex, reader, copy, low >>
    BY DEF GetOverlayBuffer, MayEnter
  <1>2. k \in Kind /\ started[k] \in Nat
    BY DEF Inv, TypeOK
  <1>3. TypeOK'
    <2>1. writer' \in [pc: WriterPC, kind: Kind, chunk: Chunk]
      BY <1>1 DEF Inv, TypeOK
    <2>2. file_id' \in [Kind -> Nat] /\ started' \in [Kind -> Nat]
      BY <1>1, <1>2 DEF Inv, TypeOK
    <2>3. QED BY <1>1, <2>1, <2>2 DEF Inv, TypeOK
  <1>4. writer.chunk = 1
    BY <1>1 DEF Inv, StartsAtOne
  <1>5. Written'
    <2> SUFFICES ASSUME NEW j \in Kind
                 PROVE  /\ file_id'[j] = started'[j]
                        /\ Writing(j)' => started'[j] > 0
                        /\ \A d \in Chunk : image'[j][d] = IF Behind(j, d)' THEN started'[j] - 1
                                                                          ELSE started'[j]
      BY DEF Written
    <2>1. writer'.pc = "copy" /\ writer'.kind = k /\ writer'.chunk = 1
      BY <1>1, <1>4 DEF Inv, TypeOK
    <2>2. Writing(j)' <=> j = k
      BY <2>1 DEF Writing
    <2>3. \A d \in Chunk : Behind(j, d)' <=> j = k
      BY <2>1, <2>2 DEF Behind
    <2>4. /\ file_id[j] = started[j]
          /\ \A d \in Chunk : image[j][d] = started[j]
      BY <1>1 DEF Inv, Written, Writing, Behind
    <2>5. /\ started'[j] = IF j = k THEN started[j] + 1 ELSE started[j]
          /\ file_id'[j] = IF j = k THEN started[j] + 1 ELSE file_id[j]
      BY <1>1, <1>2 DEF Inv, TypeOK
    <2>6. started[j] \in Nat
      BY DEF Inv, TypeOK
    <2>7. QED BY <1>1, <2>2, <2>3, <2>4, <2>5, <2>6
  <1>6. (ReaderHolds /\ PartRead /\ ReadIsRecent)'
    BY <1>1 DEF Inv, ReaderHolds, PartRead, ReadIsRecent
  <1>7. QED BY <1>1, <1>3, <1>5, <1>6 DEF Inv, StartsAtOne

LEMMA CopyInInv == Inv /\ CopyIn => Inv'
  <1> SUFFICES ASSUME Inv, CopyIn PROVE Inv'
    OBVIOUS
  <1> DEFINE k == writer.kind
             c == writer.chunk
  <1>1. /\ writer.pc = "copy"
        /\ image' = [image EXCEPT ![k][c] = started[k]]
        /\ writer' = IF c = Chunks THEN [writer EXCEPT !.pc = "signal"]
                                   ELSE [writer EXCEPT !.chunk = @ + 1]
        /\ UNCHANGED << file_id, status, mutex, reader, copy, started, low >>
    BY DEF CopyIn, LastChunk
  <1>2. k \in Kind /\ c \in Chunk /\ started[k] \in Nat
    BY DEF Inv, TypeOK
  <1>3. /\ writer'.kind = k
        /\ c = Chunks => writer'.pc = "signal" /\ writer'.chunk = c
        /\ c # Chunks => writer'.pc = "copy" /\ writer'.chunk = c + 1
    BY <1>1 DEF Inv, TypeOK
  <1>4. TypeOK'
    <2>1. writer' \in [pc: WriterPC, kind: Kind, chunk: Chunk]
      <3>1. writer \in [pc: WriterPC, kind: Kind, chunk: Chunk]
        BY DEF Inv, TypeOK
      <3>2. c # Chunks => c + 1 \in Chunk
        BY <1>2
      <3>3. CASE c = Chunks
        BY <1>1, <3>1, <3>3
      <3>4. CASE c # Chunks
        BY <1>1, <3>1, <3>2, <3>4
      <3>5. QED BY <3>3, <3>4
    <2>2. image' \in [Kind -> [Chunk -> Nat]]
      BY <1>1, <1>2 DEF Inv, TypeOK
    <2>3. QED BY <1>1, <2>1, <2>2 DEF Inv, TypeOK
  <1>5. Written'
    <2> SUFFICES ASSUME NEW j \in Kind
                 PROVE  /\ file_id'[j] = started'[j]
                        /\ Writing(j)' => started'[j] > 0
                        /\ \A d \in Chunk : image'[j][d] = IF Behind(j, d)' THEN started'[j] - 1
                                                                          ELSE started'[j]
      BY DEF Written
    <2>1. Writing(j)' <=> Writing(j)
      BY <1>1, <1>3 DEF Writing
    <2>2. ASSUME NEW d \in Chunk
          PROVE  image'[j][d] = IF Behind(j, d)' THEN started'[j] - 1 ELSE started'[j]
      <3>1. image[j][d] = IF Behind(j, d) THEN started[j] - 1 ELSE started[j]
        BY DEF Inv, Written
      <3>2. image'[j][d] = IF j = k /\ d = c THEN started[j] ELSE image[j][d]
        BY <1>1, <1>2 DEF Inv, TypeOK
      <3>3. Behind(j, d)' <=> Behind(j, d) /\ ~ (j = k /\ d = c)
        BY <1>1, <1>2, <1>3 DEF Behind, Writing
      <3>4. QED BY <1>1, <3>1, <3>2, <3>3
    <2>3. QED BY <1>1, <2>1, <2>2 DEF Inv, Written
  <1>6. (ReaderHolds /\ ReadIsRecent)'
    BY <1>1 DEF Inv, ReaderHolds, ReadIsRecent
  <1>7. PartRead'
    BY <1>1, <1>3 DEF Inv, PartRead, Ended
  <1>8. StartsAtOne'
    BY <1>1, <1>3 DEF Inv, StartsAtOne
  <1>9. QED BY <1>4, <1>5, <1>6, <1>7, <1>8 DEF Inv

LEMMA SignalInv == Inv /\ Signal => Inv'
  <1> SUFFICES ASSUME Inv, Signal PROVE Inv'
    OBVIOUS
  <1>1. /\ writer.pc = "signal" /\ mutex = "none"
        /\ status' = [status EXCEPT ![writer.kind] = "Free"]
        /\ writer' = [writer EXCEPT !.pc = "idle"]
        /\ UNCHANGED << file_id, image, mutex, reader, copy, started, low >>
    BY DEF Signal, Signalled
  <1>2. writer'.pc = "idle"
    BY <1>1 DEF Inv, TypeOK
  <1>3. TypeOK'
    BY <1>1 DEF Inv, TypeOK
  <1>4. Written'
    BY <1>1, <1>2 DEF Inv, Written, Writing, Behind
  <1>5. (ReaderHolds /\ PartRead /\ ReadIsRecent)'
    BY <1>1 DEF Inv, ReaderHolds, PartRead, ReadIsRecent
  <1>6. QED BY <1>1, <1>2, <1>3, <1>4, <1>5 DEF Inv, StartsAtOne

LEMMA GetLastOverlayThumbnailInv == Inv /\ GetLastOverlayThumbnail => Inv'
  <1> SUFFICES ASSUME Inv, GetLastOverlayThumbnail PROVE Inv'
    OBVIOUS
  <1>1. PICK k \in Kind : reader' = [pc |-> "get", kind |-> k, chunk |-> 1]
    BY DEF GetLastOverlayThumbnail
  <1>2. /\ reader.pc \in {"idle", "done"}
        /\ UNCHANGED << file_id, image, status, mutex, writer, copy, started, low >>
    BY DEF GetLastOverlayThumbnail
  <1>3. TypeOK'
    <2>1. reader' \in [pc: ReaderPC, kind: Kind, chunk: 1 .. Chunks + 1]
      BY <1>1
    <2>2. QED BY <1>2, <2>1 DEF Inv, TypeOK
  <1>4. Written'
    BY <1>2 DEF Inv, Written, Writing, Behind
  <1>5. (ReaderHolds /\ PartRead /\ ReadIsRecent)'
    BY <1>1, <1>2 DEF Inv, ReaderHolds, PartRead, ReadIsRecent
  <1>6. StartsAtOne'
    BY <1>1, <1>2 DEF Inv, StartsAtOne
  <1>7. QED BY <1>3, <1>4, <1>5, <1>6 DEF Inv

LEMMA ReaderEnterInv == Inv /\ ReaderEnter => Inv'
  <1> SUFFICES ASSUME Inv, ReaderEnter PROVE Inv'
    OBVIOUS
  <1>1. /\ reader.pc = "get"
        /\ mutex' = "reader"
        /\ reader' = [reader EXCEPT !.pc = "copy"]
        /\ low' = Ended(reader.kind)
        /\ UNCHANGED << file_id, image, status, writer, copy, started >>
    BY DEF ReaderEnter, Held
  <1>2. reader.kind \in Kind /\ started[reader.kind] \in Nat
    BY DEF Inv, TypeOK
  <1>3. Ended(reader.kind) \in Nat
    BY <1>2 DEF Inv, Written, Writing, Ended
  <1>4. /\ reader'.pc = "copy" /\ reader'.kind = reader.kind
        /\ reader'.chunk = 1
    BY <1>1 DEF Inv, TypeOK, StartsAtOne
  <1>5. TypeOK'
    BY <1>1, <1>3 DEF Inv, TypeOK
  <1>6. Written'
    BY <1>1 DEF Inv, Written, Writing, Behind
  <1>7. (ReaderHolds /\ PartRead /\ ReadIsRecent)'
    BY <1>1, <1>4 DEF ReaderHolds, PartRead, ReadIsRecent, Ended
  <1>8. StartsAtOne'
    BY <1>1, <1>4 DEF Inv, StartsAtOne
  <1>9. QED BY <1>5, <1>6, <1>7, <1>8 DEF Inv

(* Every chunk of the image is of the last write that has ended or of the  *)
(* one under way.                                                          *)
LEMMA ImageRecent ==
  ASSUME Inv, NEW k \in Kind, NEW c \in Chunk
  PROVE  /\ image[k][c] \in Ended(k) .. started[k]
         /\ started[k] \in {Ended(k), Ended(k) + 1}
  <1>1. started[k] \in Nat
    BY DEF Inv, TypeOK
  <1>2. image[k][c] = IF Behind(k, c) THEN started[k] - 1 ELSE started[k]
    BY DEF Inv, Written
  <1>3. Ended(k) = IF Writing(k) THEN started[k] - 1 ELSE started[k]
    BY DEF Ended, Writing
  <1>4. Behind(k, c) => Writing(k)
    BY DEF Behind
  <1>5. QED BY <1>1, <1>2, <1>3, <1>4

LEMMA CopyOutInv == Inv /\ CopyOut => Inv'
  <1> SUFFICES ASSUME Inv, CopyOut PROVE Inv'
    OBVIOUS
  <1> DEFINE k == reader.kind
             c == reader.chunk
  <1>1. /\ reader.pc = "copy" /\ c <= Chunks
        /\ copy' = [copy EXCEPT !.image[c] = image[k][c]]
        /\ reader' = [reader EXCEPT !.chunk = c + 1]
        /\ UNCHANGED << file_id, image, status, mutex, writer, started, low >>
    BY DEF CopyOut
  <1>2. k \in Kind /\ c \in Chunk
    BY <1>1 DEF Inv, TypeOK
  <1>3. reader'.pc = "copy" /\ reader'.kind = k /\ reader'.chunk = c + 1
    BY <1>1 DEF Inv, TypeOK
  <1>4. image[k][c] \in low .. started[k] /\ image[k][c] \in Nat
    <2>1. image[k][c] \in Ended(k) .. started[k]
      BY <1>2, ImageRecent
    <2>2. low = Ended(k)
      BY <1>1 DEF Inv, PartRead
    <2>3. image[k][c] \in Nat
      <3>1. image \in [Kind -> [Chunk -> Nat]]
        BY DEF Inv, TypeOK
      <3>2. QED BY <1>2, <3>1
    <2>4. QED BY <2>1, <2>2, <2>3
  <1>5. TypeOK'
    <2>1. reader' \in [pc: ReaderPC, kind: Kind, chunk: 1 .. Chunks + 1]
      <3>1. reader \in [pc: ReaderPC, kind: Kind, chunk: 1 .. Chunks + 1]
        BY DEF Inv, TypeOK
      <3>2. c + 1 \in 1 .. Chunks + 1
        BY <1>2
      <3>3. QED BY <1>1, <3>1, <3>2
    <2>2. copy' \in [file_id: Nat, image: [Chunk -> Nat]]
      BY <1>1, <1>2, <1>4 DEF Inv, TypeOK
    <2>3. QED BY <1>1, <2>1, <2>2 DEF Inv, TypeOK
  <1>6. Written'
    BY <1>1 DEF Inv, Written, Writing, Behind
  <1>7. PartRead'
    <2>1. \A d \in Chunk : copy'.image[d] = IF d = c THEN image[k][c] ELSE copy.image[d]
      BY <1>1, <1>2 DEF Inv, TypeOK
    <2>2. \A d \in Chunk : d < c => copy.image[d] \in low .. started[k]
      BY <1>1 DEF Inv, PartRead
    <2>3. \A d \in Chunk : d < c + 1 => d < c \/ d = c
      BY <1>2
    <2>4. \A d \in Chunk : d < c + 1 => copy'.image[d] \in low .. started[k]
      BY <1>4, <2>1, <2>2, <2>3
    <2>5. low = Ended(k)
      BY <1>1 DEF Inv, PartRead
    <2>6. QED BY <1>1, <1>3, <2>4, <2>5 DEF PartRead, Ended
  <1>8. (ReaderHolds /\ ReadIsRecent)'
    BY <1>1, <1>3 DEF Inv, ReaderHolds, ReadIsRecent
  <1>9. StartsAtOne'
    BY <1>1, <1>3 DEF Inv, StartsAtOne
  <1>10. QED BY <1>5, <1>6, <1>7, <1>8, <1>9 DEF Inv

LEMMA ReaderReturnInv == Inv /\ ReaderReturn => Inv'
  <1> SUFFICES ASSUME Inv, ReaderReturn PROVE Inv'
    OBVIOUS
  <1> DEFINE k == reader.kind
  <1>1. /\ reader.pc = "copy" /\ reader.chunk > Chunks
        /\ copy' = [copy EXCEPT !.file_id = file_id[k]]
        /\ mutex' = "none"
        /\ reader' = [reader EXCEPT !.pc = "done"]
        /\ UNCHANGED << file_id, image, status, writer, started, low >>
    BY DEF ReaderReturn
  <1>2. k \in Kind /\ reader.chunk \in Nat /\ 1 \in Chunk
    BY DEF Inv, TypeOK
  <1>3. reader'.pc = "done"
    BY <1>1 DEF Inv, TypeOK
  <1>4. copy'.file_id = started[k] /\ copy'.image = copy.image
    BY <1>1, <1>2 DEF Inv, TypeOK, Written
  <1>5. TypeOK'
    BY <1>1, <1>2 DEF Inv, TypeOK
  <1>6. Written'
    BY <1>1 DEF Inv, Written, Writing, Behind
  <1>7. (ReaderHolds /\ PartRead)'
    BY <1>1, <1>3 DEF ReaderHolds, PartRead
  <1>8. ReadIsRecent'
    <2>1. started[k] \in {low, low + 1}
      BY <1>1, <1>2, ImageRecent DEF Inv, PartRead
    <2>2. \A c \in Chunk : c < reader.chunk
      BY <1>1, <1>2
    <2>3. \A c \in Chunk : copy.image[c] \in low .. started[k]
      BY <1>1, <2>2 DEF Inv, PartRead
    <2>4. QED BY <1>1, <1>4, <2>1, <2>3 DEF ReadIsRecent
  <1>9. StartsAtOne'
    BY <1>1, <1>3 DEF Inv, StartsAtOne
  <1>10. QED BY <1>5, <1>6, <1>7, <1>8, <1>9 DEF Inv

LEMMA NextInv == Inv /\ [Next]_vars => Inv'
  <1>1. Inv /\ UNCHANGED vars => Inv'
    <2> SUFFICES ASSUME Inv, UNCHANGED vars PROVE Inv'
      OBVIOUS
    <2>1. TypeOK'
      BY DEF vars, Inv, TypeOK
    <2>2. Written'
      BY DEF vars, Inv, Written, Writing, Behind
    <2>3. (ReaderHolds /\ PartRead /\ ReadIsRecent /\ StartsAtOne)'
      BY DEF vars, Inv, ReaderHolds, PartRead, Ended, ReadIsRecent, StartsAtOne
    <2>4. QED BY <2>1, <2>2, <2>3 DEF Inv
  <1>2. QED
    BY <1>1, SetThumbnailDataInv, GetOverlayBufferInv, CopyInInv, SignalInv,
       GetLastOverlayThumbnailInv, ReaderEnterInv, CopyOutInv, ReaderReturnInv DEF Next

(* The invariant holds throughout. *)
THEOREM Invariance == Spec => []Inv
  BY InitInv, NextInv, PTL DEF Spec

(* The buffers, the mutex and the threads keep their types. *)
THEOREM TypeCorrect == Spec => []TypeOK
  <1>1. Inv => TypeOK
    BY DEF Inv
  <1>2. QED BY <1>1, Invariance, PTL

(* A thumbnail that is returned mixes at most the last write that had      *)
(* ended and the one under way when the reader took the mutex.             *)
THEOREM ReadRecent == Spec => []ReadIsRecent
  <1>1. Inv => ReadIsRecent
    BY DEF Inv
  <1>2. QED BY <1>1, Invariance, PTL

(* Between two calls of the control thread the buffer is that of the last. *)
THEOREM AtRest == Spec => []HolderAtRest
  <1>1. Inv => HolderAtRest
    BY DEF Inv, Written, Writing, Behind, HolderAtRest
  <1>2. QED BY <1>1, Invariance, PTL

=============================================================================
