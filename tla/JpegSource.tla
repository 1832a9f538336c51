----------------------------- MODULE JpegSource -----------------------------
(***************************************************************************)
(* libjpeg's source manager of jpeggimex.c and its parser of the marker    *)
(* that GIMEX writes into files with alpha, under JPG_info and JPG_read,   *)
(* each of which reads the whole file. The decoder between them is         *)
(* libjpeg: it reads bytes up to a marker, gives the APP13 markers to the  *)
(* parser, skips what another marker holds, and stops at the end mark.     *)
(* Its jpeg_read_header returns at the marker SOS, where the scan begins;  *)
(* the flag that the parser has set by then is what both calls go by.      *)
(***************************************************************************)
EXTENDS JpegDestination

CONSTANTS
  ByteValues,   \* number of values of a byte, 256 in the code
  FF, D9, APP13, APPn, SOS,   \* the bytes that make up markers
  MARKER_CONST  \* "GIMEXARGB"

VARIABLES
  pc,          \* what is done with the next byte; or "skip", "idle", "failed"
  pass,        \* "info" or "read"
  header,      \* jpeg_read_header has not returned
  fetched,     \* how much of the file has been read
  buffer,      \* gimex_buffer
  bytes_in_buffer,
  gimex_initial,
  filled,      \* how many bytes have been put into the buffer in this pass
  last,        \* the byte that was taken from it last
  length,      \* marker_length
  remaining,   \* marker_remaining, and what a skip has left to do
  read_marker,
  JPG_readgimexmarker,
  gimex_marker,   \* the copy of it that JPG_info and JPG_read take
  sub_type     \* what JPG_info found

readVars == <<pc, pass, header, fetched, buffer, bytes_in_buffer, gimex_initial, filled, last,
              length, remaining, read_marker, JPG_readgimexmarker, gimex_marker, sub_type>>

Taking == {"scan", "code", "markHi", "markLo", "mark", "otherHi", "otherLo"}

ReadTypeOK ==
  /\ pc \in Taking \cup {"skip", "skipping", "headless", "ended", "idle", "failed"}
  /\ pass \in {"info", "read"}
  /\ header \in BOOLEAN
  /\ fetched \in 0 .. Len(file)
  /\ buffer \in Seq(Nat) /\ Len(buffer) <= BufferLength
  /\ bytes_in_buffer \in 0 .. Len(buffer)
  /\ gimex_initial \in BOOLEAN
  /\ filled \in Nat
  /\ last \in 0 .. ByteValues - 1
  /\ length \in 0 .. ByteValues * ByteValues - 1
  /\ remaining \in Nat
  /\ read_marker \in Seq(Nat) /\ Len(read_marker) <= Len(MARKER_CONST)
  /\ JPG_readgimexmarker \in BOOLEAN
  /\ gimex_marker \in BOOLEAN
  /\ sub_type \in BOOLEAN

-----------------------------------------------------------------------------
(* The source manager.                                                     *)

(* A source that nothing has been read from.                               *)
NewSource ==
  /\ header' = TRUE
  /\ fetched' = 0
  /\ buffer' = <<>>
  /\ bytes_in_buffer' = 0
  /\ gimex_initial' = TRUE
  /\ filled' = 0
  /\ last' = 0
  /\ length' = 0
  /\ remaining' = 0
  /\ read_marker' = <<>>

(* Without setting the mark back.                                          *)
StreamSrcKeepsMark(which) ==
  /\ pass' = which
  /\ pc' = "scan"
  /\ NewSource
  /\ UNCHANGED <<JPG_readgimexmarker, gimex_marker>>

(* A gseek to the start, gimex_stream_src and gimex_init_source.           *)
StreamSrc(which) ==
  /\ pass' = which
  /\ pc' = "scan"
  /\ NewSource
  /\ JPG_readgimexmarker' = FALSE
  /\ UNCHANGED gimex_marker

(* The next bytes of the file.                                             *)
Chunk ==
  SubSeq(file, fetched + 1,
         IF fetched + BufferLength > Len(file) THEN Len(file) ELSE fetched + BufferLength)

(* An empty file has nothing to begin with.                                *)
InputEmpty == Chunk = <<>> /\ gimex_initial

(* What gimex_fill_input_buffer puts into the buffer.                      *)
Filled == IF Chunk = <<>> THEN <<FF, D9>> ELSE Chunk

(* The byte that next_input_byte points to, in a buffer that is filled     *)
(* when nothing is left in it.                                             *)
Buffer == IF bytes_in_buffer = 0 THEN Filled ELSE buffer
Available == IF bytes_in_buffer = 0 THEN Len(Filled) ELSE bytes_in_buffer
NextByte == Buffer[Len(Buffer) - Available + 1]

FillInputBuffer(left) ==
  /\ buffer' = Filled
  /\ bytes_in_buffer' = left
  /\ fetched' = fetched + Len(Chunk)
  /\ filled' = filled + Len(Filled)
  /\ gimex_initial' = FALSE

TakeByte(at) ==
  /\ pc = at
  /\ ~(bytes_in_buffer = 0 /\ InputEmpty)
  /\ last' = NextByte
  /\ IF bytes_in_buffer = 0 THEN FillInputBuffer(Len(Filled) - 1)
     ELSE /\ bytes_in_buffer' = bytes_in_buffer - 1
          /\ UNCHANGED <<buffer, fetched, filled, gimex_initial>>
  /\ UNCHANGED <<pass, sub_type>>

(* The error exit, of an empty file, of what libjpeg makes of the bytes,   *)
(* or of a file that ends before a scan: JPG_info returns 0, JPG_read      *)
(* FALSE.                                                                  *)
ErrorExit ==
  /\ \/ pc \in {"scan", "code"} /\ (bytes_in_buffer = 0 => InputEmpty)
     \/ pc = "headless"
  /\ pc' = "failed"
  /\ NewSource
  /\ UNCHANGED <<pass, JPG_readgimexmarker, gimex_marker, sub_type>>

-----------------------------------------------------------------------------
(* The decoder.                                                            *)

ScanByte ==
  /\ TakeByte("scan")
  /\ pc' = IF last' = FF THEN "code" ELSE "scan"
  /\ UNCHANGED <<header, gimex_marker, length, remaining, read_marker, JPG_readgimexmarker>>

(* The two calls copy the flag when jpeg_read_header returns, at the first *)
(* SOS. What an SOS holds is passed over like the scan behind it.          *)
CodeByte ==
  /\ TakeByte("code")
  /\ pc' = CASE last' = FF    -> "code"
             [] last' = D9    -> IF header THEN "headless" ELSE "ended"
             [] last' = APP13 -> "markHi"
             [] last' = APPn  -> "otherHi"
             [] OTHER         -> "scan"
  /\ IF last' = SOS /\ header
       THEN /\ header' = FALSE
            /\ gimex_marker' = JPG_readgimexmarker
       ELSE UNCHANGED <<header, gimex_marker>>
  /\ UNCHANGED <<length, remaining, read_marker, JPG_readgimexmarker>>

OtherHigh ==
  /\ TakeByte("otherHi")
  /\ pc' = "otherLo"
  /\ length' = last' * ByteValues
  /\ UNCHANGED <<header, gimex_marker, remaining, read_marker, JPG_readgimexmarker>>

OtherLow ==
  /\ TakeByte("otherLo")
  /\ pc' = "skip"
  /\ length' = length + last'
  /\ remaining' = IF length' > 2 THEN length' - 2 ELSE 0
  /\ UNCHANGED <<header, gimex_marker, read_marker, JPG_readgimexmarker>>

-----------------------------------------------------------------------------
(* JPG_markerparser and gimex_skip_input_data.                             *)

MarkHigh ==
  /\ TakeByte("markHi")
  /\ pc' = "markLo"
  /\ length' = last' * ByteValues
  /\ read_marker' = <<>>
  /\ UNCHANGED <<header, gimex_marker, remaining, JPG_readgimexmarker>>

(* A length that leaves no place for the mark: what is compared with it is *)
(* an array nobody has written to. (A length below 2, negative without the *)
(* two, passes for a large one.)                                           *)
MarkLow ==
  /\ TakeByte("markLo")
  /\ length' = length + last'
  /\ IF length' < 2 \/ length' - 2 >= Len(MARKER_CONST)
       THEN /\ pc' = "mark"
            /\ UNCHANGED <<remaining, JPG_readgimexmarker>>
       ELSE /\ pc' = "skip"
            /\ remaining' = length' - 2
            /\ JPG_readgimexmarker' \in {JPG_readgimexmarker, TRUE}
  /\ UNCHANGED <<read_marker, header, gimex_marker>>

(* The mark is over with the buffer.                                       *)
MarkByteOfBuffer ==
  /\ TakeByte("mark")
  /\ read_marker' = Append(read_marker, last')
  /\ IF Len(read_marker') = Len(MARKER_CONST) \/ bytes_in_buffer' = 0
       THEN /\ pc' = "skip"
            /\ remaining' = IF length > 2 + Len(read_marker') THEN length - 2 - Len(read_marker') ELSE 0
            /\ JPG_readgimexmarker' = (JPG_readgimexmarker \/ read_marker' = MARKER_CONST)
       ELSE UNCHANGED <<pc, remaining, JPG_readgimexmarker>>
  /\ UNCHANGED <<length, header, gimex_marker>>

MarkByte ==
  /\ TakeByte("mark")
  /\ read_marker' = Append(read_marker, last')
  /\ IF Len(read_marker') = Len(MARKER_CONST)
       THEN /\ pc' = "skip"
            /\ remaining' = IF length > 2 + Len(MARKER_CONST) THEN length - 2 - Len(MARKER_CONST) ELSE 0
            /\ JPG_readgimexmarker' = (JPG_readgimexmarker \/ read_marker' = MARKER_CONST)
       ELSE UNCHANGED <<pc, remaining, JPG_readgimexmarker>>
  /\ UNCHANGED <<length, header, gimex_marker>>

StartSkip ==
  /\ pc = "skip"
  /\ pc' = "skipping"
  /\ UNCHANGED <<header, gimex_marker, pass, fetched, buffer, bytes_in_buffer, gimex_initial,
                 filled, last, length, remaining, read_marker, JPG_readgimexmarker, sub_type>>

(* Forgetting what the buffer still had.                                   *)
SkipBufferForgets ==
  /\ pc = "skipping"
  /\ remaining > bytes_in_buffer
  /\ FillInputBuffer(Len(Filled))
  /\ UNCHANGED <<header, gimex_marker, pc, pass, last, length, remaining, read_marker,
                 JPG_readgimexmarker, sub_type>>

(* Without an end mark when the file has no more.                          *)
SkipBufferAtEnd ==
  /\ pc = "skipping"
  /\ remaining > bytes_in_buffer
  /\ remaining' = remaining - bytes_in_buffer
  /\ IF Chunk = <<>> THEN bytes_in_buffer' = 0 /\ UNCHANGED <<fetched, buffer, gimex_initial, filled>>
     ELSE FillInputBuffer(Len(Filled))
  /\ UNCHANGED <<header, gimex_marker, pc, pass, last, length, read_marker,
                 JPG_readgimexmarker, sub_type>>

(* One turn of the loop: what is in the buffer is not enough.              *)
SkipBuffer ==
  /\ pc = "skipping"
  /\ remaining > bytes_in_buffer
  /\ remaining' = remaining - bytes_in_buffer
  /\ FillInputBuffer(Len(Filled))
  /\ UNCHANGED <<header, gimex_marker, pc, pass, last, length, read_marker,
                 JPG_readgimexmarker, sub_type>>

SkipInBuffer ==
  /\ pc = "skipping"
  /\ remaining <= bytes_in_buffer
  /\ pc' = "scan"
  /\ bytes_in_buffer' = bytes_in_buffer - remaining
  /\ remaining' = 0
  /\ UNCHANGED <<header, gimex_marker, pass, fetched, buffer, gimex_initial, filled, last, length,
                 read_marker, JPG_readgimexmarker, sub_type>>

-----------------------------------------------------------------------------
(* The flag as it is when the scan has been read.                          *)
InfoReturnsFlag ==
  /\ pc = "ended"
  /\ pass = "info"
  /\ sub_type' = JPG_readgimexmarker
  /\ StreamSrc("read")

(* The end of JPG_info, of which the caller keeps the sub type, and the    *)
(* beginning of JPG_read.                                                  *)
InfoReturns ==
  /\ pc = "ended"
  /\ pass = "info"
  /\ sub_type' = gimex_marker
  /\ StreamSrc("read")

ReadReturns ==
  /\ pc = "ended"
  /\ pass = "read"
  /\ pc' = "idle"
  /\ NewSource
  /\ UNCHANGED <<pass, JPG_readgimexmarker, gimex_marker, sub_type>>

Decode ==
  \/ ErrorExit \/ ScanByte \/ CodeByte \/ OtherHigh \/ OtherLow
  \/ MarkHigh \/ MarkLow \/ MarkByte
  \/ StartSkip \/ SkipBuffer \/ SkipInBuffer
  \/ InfoReturns \/ ReadReturns
=============================================================================
