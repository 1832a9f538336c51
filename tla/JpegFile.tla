------------------------------ MODULE JpegFile ------------------------------
(***************************************************************************)
(* JPEG files written by JPG_write, or found, and read by JPG_info and     *)
(* JPG_read, one after the other in one program.                           *)
(***************************************************************************)
EXTENDS JpegSource, SequencesExt

CONSTANTS
  Pictures,   \* records [bytes, kind]: what libjpeg makes of a picture
  Foreign,    \* the same, of files from elsewhere
  MarkEnd,    \* the place in a file of JPG_write where the mark is complete
  Rooms,      \* how many bytes a disk may take
  MaxFiles    \* bound on the files of one program

(* A byte has one of ByteValues values, and the mark has some bytes.       *)
ASSUME FileAssumption ==
  /\ \A p \in Pictures \cup Foreign :
       p.bytes \in Seq(0 .. ByteValues - 1) /\ p.kind \in {"argb", "plain", "short"}
  /\ Rooms \subseteq Nat /\ MaxFiles \in Nat
  /\ ByteValues \in Nat \ {0} /\ {FF, D9, APP13, APPn, SOS} \subseteq 0 .. ByteValues - 1
  /\ \A i, j \in 1 .. 5 :
       <<FF, D9, APP13, APPn, SOS>>[i] = <<FF, D9, APP13, APPn, SOS>>[j] => i = j
  /\ MARKER_CONST \in Seq(Nat) \ {<<>>}

-----------------------------------------------------------------------------
(* What a file means: its segments, by its bytes alone.                    *)

(* Byte i of file f, or of the end marks behind it.                        *)
ByteAt(f, i) == IF i <= Len(f) THEN f[i] ELSE <<FF, D9>>[((i - Len(f) - 1) % 2) + 1]

(* A marker's length in file f, and where a decoder goes on after it: past *)
(* a segment, and past one that the parser has looked at.                  *)
LengthAt(f, m) == ByteAt(f, m + 1) * ByteValues + ByteAt(f, m + 2)
PastSegment(f, m) == m + (IF LengthAt(f, m) > 2 THEN LengthAt(f, m) ELSE 2)
PastMarker(f, m) == m + (IF LengthAt(f, m) < 2 THEN 2 + Len(MARKER_CONST) ELSE LengthAt(f, m))

(* The places after the APP13 codes to which file f leads a decoder in its *)
(* header, which ends where the scan begins.                               *)
Markers(f) ==
  LET From[i \in Nat] ==
        IF i >= Len(f) THEN {}
        ELSE IF f[i + 1] # FF \/ i + 1 = Len(f) THEN From[i + 1]
        ELSE CASE f[i + 2] = FF    -> From[i + 1]
               [] f[i + 2] = D9    -> {}
               [] f[i + 2] = SOS   -> {}
               [] f[i + 2] = APP13 -> {i + 2} \cup From[PastMarker(f, i + 2)]
               [] f[i + 2] = APPn  -> From[PastSegment(f, i + 2)]
               [] OTHER            -> From[i + 2]
  IN  From[0]

MarkAt(f, m) == \A k \in 1 .. Len(MARKER_CONST) : ByteAt(f, m + 2 + k) = MARKER_CONST[k]
HasMark(f) == \E m \in Markers(f) : MarkAt(f, m)

(* The kind of a file is what its header has: "argb" the mark, which is    *)
(* complete at MarkEnd, and only a "short" one an APP13 segment without    *)
(* place for it.                                                           *)
OfKind(f, k) ==
  /\ HasMark(f) <=> k = "argb" /\ Len(f) >= MarkEnd
  /\ \A m \in Markers(f) : LengthAt(f, m) < 2 \/ LengthAt(f, m) >= 2 + Len(MARKER_CONST)

ASSUME KindAssumption ==
  /\ \A p \in Pictures : p.kind # "short" =>
       \A n \in 0 .. Len(p.bytes) : OfKind(SubSeq(p.bytes, 1, n), p.kind)
  /\ \A f \in Foreign : f.kind # "short" => OfKind(f.bytes, f.kind)

-----------------------------------------------------------------------------
VARIABLES
  kind,    \* of the file: "argb" (has the mark), "plain", or "short" (has an
           \* APP13 marker that is too short for it)
  files

vars == <<writeVars, readVars, kind, files>>

TypeOK ==
  /\ WriteTypeOK
  /\ ReadTypeOK
  /\ kind \in {"argb", "plain", "short"}
  /\ files \in 0 .. MaxFiles

Init ==
  /\ made = <<>> /\ emitted = 0 /\ out = <<>> /\ file = <<>> /\ room = 0 /\ wrote = "no"
  /\ pc = "idle" /\ pass = "read" /\ header = TRUE
  /\ fetched = 0 /\ buffer = <<>> /\ bytes_in_buffer = 0 /\ gimex_initial = TRUE /\ filled = 0
  /\ last = 0 /\ length = 0 /\ remaining = 0 /\ read_marker = <<>>
  /\ JPG_readgimexmarker = FALSE /\ gimex_marker = FALSE /\ sub_type = FALSE
  /\ kind = "plain"
  /\ files = 0

Between == pc \in {"idle", "failed"} /\ wrote # "writing"

(* JPG_write, from jpeg_create_compress on.                                *)
StartCompress(p) ==
  /\ Between
  /\ files < MaxFiles
  /\ made' = p.bytes
  /\ emitted' = 0
  /\ out' = <<>>
  /\ file' = <<>>
  /\ room' \in Rooms
  /\ wrote' = "writing"
  /\ kind' = p.kind
  /\ files' = files + 1
  /\ UNCHANGED readVars

FindFile(f) ==
  /\ Between
  /\ files < MaxFiles
  /\ file' = f.bytes
  /\ wrote' = "no"
  /\ kind' = f.kind
  /\ files' = files + 1
  /\ made' = <<>> /\ emitted' = 0 /\ out' = <<>> /\ room' = 0
  /\ UNCHANGED readVars

Compress ==
  /\ EmitByte \/ CompressFails \/ FinishCompress
  /\ UNCHANGED <<readVars, kind, files>>

(* JPG_info is called on the file.                                         *)
CallInfo ==
  /\ Between
  /\ files > 0
  /\ StreamSrc("info")
  /\ sub_type' = FALSE
  /\ UNCHANGED <<writeVars, kind, files>>

Decompress ==
  /\ Decode
  /\ UNCHANGED <<writeVars, kind, files>>

Next ==
  \/ \E p \in Pictures : StartCompress(p)
  \/ \E f \in Foreign : FindFile(f)
  \/ Compress
  \/ CallInfo
  \/ Decompress

Spec == Init /\ [][Next]_vars

(* A call runs to its end; nobody has to make one.                         *)
FairSpec == Spec /\ WF_vars(Compress) /\ WF_vars(Decompress)

-----------------------------------------------------------------------------
(* Properties.                                                             *)

(* JPG_write returns TRUE when the whole picture is on the disk and FALSE  *)
(* when a part of it is: gimex.h, "Was the data written successfully."     *)
WrittenWhole ==
  /\ wrote = "true" => file = made
  /\ wrote = "false" => IsStrictPrefix(file, made)

(* The source manager of jpeggimex.c implements the plain stream of bytes: *)
(* the decoder gets the bytes of the file one by one, however they fall    *)
(* into buffers, end marks past the end of the file, and a skip goes over  *)
(* exactly what was asked for.                                             *)
Stream == INSTANCE ByteStream WITH
  EndMark <- <<FF, D9>>,
  data <- file,
  pos <- filled - bytes_in_buffer + (IF pc = "skipping" THEN remaining ELSE 0),
  ahead <- IF pc = "skip" THEN remaining ELSE 0

ImplementsByteStream == Stream!Spec

Marked ==
  kind = "argb" /\ Len(file) >= MarkEnd

(* What JPG_info and JPG_read go by, a copy of the parser's flag taken     *)
(* where the scan begins, is set exactly when the file's header has the    *)
(* mark, wherever it falls into the buffers, whatever file came before,    *)
(* whatever the segments that are skipped contain, and whatever markers    *)
(* follow in the scan; and JPG_read, which reorders the channels by it,    *)
(* agrees with what JPG_info told the caller.                              *)
MarkRecognised ==
  pc = "ended" /\ kind # "short" =>
    /\ gimex_marker = Marked
    /\ pass = "read" => sub_type = Marked

(* JPG_info and JPG_read return on every file, cut off anywhere.           *)
ReadReturnsAtLast == (pc \notin {"idle", "failed"}) ~> (pc \in {"idle", "failed"})
=============================================================================
