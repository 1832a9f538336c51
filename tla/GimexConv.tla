------------------------------ MODULE GimexConv ------------------------------
(***************************************************************************)
(* The converter gimexconv.c: its calls of GIMEX one after the other, most *)
(* of whose results it does not look at.                                   *)
(***************************************************************************)
EXTENDS GimexCodecs

CONSTANTS
  Sources   \* the files there are

ASSUME SourcesAssumption ==
  Sources \subseteq [ext : Extensions \cup {"none"}, format : Implemented \cup {"FSH", "other"},
                    kept : Kept, palette : Palettes, traits : SUBSET Traits]

VARIABLES
  stream,   \* "closed", "source" or "destination"
  status    \* how far the program got when it returned

vars == <<pc, dispatchVars, codecVars, stream, status>>

TypeOK ==
  /\ CodecTypeOK
  /\ source \in Sources
  /\ gCurrentGimex \in Codecs
  /\ asked \in Extensions \cup {"none"}
  /\ stream \in {"closed", "source", "destination"}
  /\ status \in {"", "no source", "no codec", "not recognised", "no destination", "done"}

Init ==
  /\ source \in Sources
  /\ gCurrentGimex = 0 /\ asked = "none"
  /\ pc = "start" /\ stream = "closed" /\ status = ""
  /\ instance = Unset /\ info = "unset" /\ buffer = "null"
  /\ blocks = {} /\ failing = MaxFailures
  /\ put = 0 /\ room = 0 /\ left = <<>> /\ retval = 0

Return(how) ==
  /\ Goto("exited")
  /\ status' = how

OpenSource ==
  /\ pc = "start"
  /\ \/ Goto("find") /\ stream' = "source" /\ UNCHANGED status
     \/ Return("no source") /\ UNCHANGED stream
  /\ UNCHANGED <<dispatchVars, codecVars>>

(* GIMEX_find, when an allocation may fail.                                *)
Find(ext) ==
  \/ GIMEX_find(ext, {}) /\ UNCHANGED failing
  \/ \E n \in DOMAIN Places : GIMEX_find(ext, {Places[n]}) /\ Galloc(FALSE)

(* A name without a point is not looked up.                                *)
FindSource ==
  /\ pc = "find"
  /\ IF source.ext = "none" THEN UNCHANGED <<dispatchVars, failing>> ELSE Find(source.ext)
  /\ IF gCurrentGimex' = 0 THEN Return("no codec") ELSE Goto("is") /\ UNCHANGED status
  /\ UNCHANGED <<source, instance, info, buffer, blocks, put, room, left, retval, stream>>

IsSource ==
  /\ pc = "is"
  /\ \E yes \in Answers :
       IF yes THEN Goto("open") /\ UNCHANGED status ELSE Return("not recognised")
  /\ UNCHANGED <<dispatchVars, codecVars, stream>>

OpenContext ==
  /\ pc = "open"
  /\ GIMEX_open(TRUE)
  /\ Goto("info")
  /\ UNCHANGED <<dispatchVars, source, info, buffer, put, room, left, retval, stream, status>>

CallInfo ==
  /\ pc = "info"
  /\ IF Usable
     THEN /\ GIMEX_info
          /\ Goto("buffer")
          /\ UNCHANGED <<dispatchVars, source, instance, buffer, put, room, left, retval>>
     ELSE Undefined
  /\ UNCHANGED <<stream, status>>

AllocateBuffer ==
  /\ pc = "buffer"
  /\ IF info = "null" THEN Undefined
     ELSE /\ \E succeeds \in BOOLEAN :
               /\ Galloc(succeeds)
               /\ buffer' = IF succeeds THEN "blank" ELSE "null"
               /\ blocks' = IF succeeds THEN blocks \cup {"buffer"} ELSE blocks
          /\ Goto("read")
          /\ UNCHANGED <<dispatchVars, source, instance, info, put, room, left, retval>>
  /\ UNCHANGED <<stream, status>>

(* What a codec does with a picture goes to or comes from the buffer.      *)
NoBuffer == Codec \in Implemented /\ info = "picture" /\ buffer = "null"

(* The rows reach outside of what is allocated for them; what comes of it  *)
(* may be harmless. A PNG of fewer than 8 bits has too small a buffer for  *)
(* every codec that writes it.                                             *)
Overrun ==
  /\ \/ pc = "read" /\ ReadOverruns
     \/ pc = "write" /\ Codec \in Implemented /\ Is("few")
  /\ Undefined
  /\ UNCHANGED <<stream, status>>

(* With the codec given up before the source is closed.                    *)
CallReadThenReset ==
  /\ pc = "read"
  /\ IF NoBuffer THEN Undefined
     ELSE /\ GIMEX_read
          /\ GIMEX_set(0) /\ UNCHANGED asked
          /\ Goto("close")
          /\ UNCHANGED <<source, instance, info, put, room, left, retval>>
  /\ UNCHANGED <<stream, status>>

CallRead ==
  /\ pc = "read"
  /\ IF NoBuffer THEN Undefined
     ELSE /\ GIMEX_read
          /\ Goto("close")
          /\ UNCHANGED <<dispatchVars, source, instance, info, put, room, left, retval>>
  /\ UNCHANGED <<stream, status>>

(* What main then sets in the information (not packed, no sub-type) makes  *)
(* every codec write its plain form.                                       *)
CloseSource ==
  /\ pc = "close"
  /\ GIMEX_close
  /\ stream' = "closed"
  /\ Goto("wfind")
  /\ UNCHANGED <<dispatchVars, source, info, buffer, failing, put, room, left, retval, status>>

(* Here only a name without a point ends the program: GIMEX_find returns 0 *)
(* for others it does not know, and the NULL codec writes nothing.         *)
FindDestination ==
  /\ pc = "wfind"
  /\ \/ /\ \E ext \in Extensions : Find(ext)
        /\ Goto("fopen")
        /\ UNCHANGED status
     \/ Return("no codec") /\ UNCHANGED <<dispatchVars, failing>>
  /\ UNCHANGED <<source, instance, info, buffer, blocks, put, room, left, retval, stream>>

OpenDestination ==
  /\ pc = "fopen"
  /\ \/ /\ stream' = "destination"
        /\ room' \in Rooms
        /\ Goto("wopen")
        /\ UNCHANGED <<blocks, status>>
     \/ /\ Return("no destination")
        /\ blocks' = blocks \ {"buffer", "info"}
        /\ UNCHANGED <<stream, room>>
  /\ UNCHANGED <<dispatchVars, source, instance, info, buffer, failing, put, left, retval>>

(* Not a second time for the same codec.                                   *)
WOpenOnce ==
  /\ pc = "wopen"
  /\ IF instance.codec = Codec THEN UNCHANGED <<failing, instance, blocks>> ELSE GIMEX_open(FALSE)
  /\ Goto("write")
  /\ UNCHANGED <<dispatchVars, source, info, buffer, put, room, left, retval, stream, status>>

WOpen ==
  /\ pc = "wopen"
  /\ GIMEX_open(FALSE)
  /\ Goto("write")
  /\ UNCHANGED <<dispatchVars, source, info, buffer, put, room, left, retval, stream, status>>

CallWrite ==
  /\ IF pc = "write" /\ (~Usable \/ NoBuffer) THEN Undefined ELSE GIMEX_write
  /\ UNCHANGED <<stream, status>>

(* FSH, IJL and NULL write nothing.                                        *)
WriteNothing ==
  /\ pc = "write"
  /\ Codec \notin Implemented
  /\ retval' = 0
  /\ Goto("wclose")
  /\ UNCHANGED <<dispatchVars, source, instance, info, buffer, blocks, failing, put, room, left,
                 stream, status>>

(* The rest of main: both closed, the buffer and the information freed.    *)
Finish ==
  /\ pc = "wclose"
  /\ stream' = "closed"
  /\ Return("done")
  /\ instance' = IF Codec \in Implemented THEN [instance EXCEPT !.alive = FALSE] ELSE instance
  /\ blocks' = blocks \ ({"buffer", "info"} \cup (IF Codec \in Implemented THEN {"instance"} ELSE {}))
  /\ UNCHANGED <<dispatchVars, source, info, buffer, failing, put, room, left, retval>>

Next ==
  \/ OpenSource \/ FindSource \/ IsSource \/ OpenContext \/ CallInfo
  \/ AllocateBuffer \/ CallRead \/ Overrun \/ CloseSource
  \/ FindDestination \/ OpenDestination \/ WOpen \/ CallWrite \/ WriteNothing \/ Finish

Spec == Init /\ [][Next]_vars

-----------------------------------------------------------------------------
(* Properties.                                                             *)

NothingFailed == failing = MaxFailures

(* How well codec j goes with an extension, from its GABOUT.               *)
Rank(j, ext) ==
  LET at == {i \in 1 .. GIMEX_EXTENSIONS : About(j).extensions[i] = ext}
  IN  IF j = 0 \/ at = {} THEN 0
      ELSE (IF 1 \in at THEN 2 ELSE 1) + (IF About(j).can_export THEN 2 ELSE 0)

(* In gfuncs.c no two codecs that write files know the same extension.     *)
ASSUME ExportersAssumption ==
  \A ext \in Extensions : \A j, k \in Codecs :
    Rank(j, ext) >= 3 /\ Rank(k, ext) >= 3 => About(j).name = About(k).name

(* After GIMEX_find the codec in use is one that no other suits better: it *)
(* knows the extension, writes files if any that know it does, and has it  *)
(* first among its own; the NULL codec when none knows it.                 *)
FindsBest ==
  asked # "none" /\ NothingFailed =>
    /\ \A j \in Codecs : Rank(j, asked) <= Rank(gCurrentGimex, asked)
    /\ Rank(gCurrentGimex, asked) = 0 => gCurrentGimex = 0

(* A whole file of the format its name says, of a codec that is            *)
(* implemented and of a kind that it can read: no packed bitmap, no bitmap *)
(* of 16 bits without masks, no PNG of fewer than 8 bits.                  *)
Sound ==
  /\ source.kept = "whole"
  /\ source.traits \subseteq {"alpha"}
  /\ \E j \in Codecs : /\ About(j).name = source.format /\ source.format \in Implemented
                       /\ Rank(j, source.ext) >= 3

(* There was room for all of the destination.                              *)
Roomy == put + room >= Due

(* gimexconv converts: when memory lasts and the source is sound, it is    *)
(* read completely, and the destination has a whole file of the format its *)
(* name says, if the disk has room for it and the format is implemented.   *)
Converts ==
  pc = "exited" /\ NothingFailed /\ Sound =>
    /\ status \in {"no source", "no codec", "no destination", "done"}
    /\ status = "no codec" => stream = "closed"
    /\ status \in {"no destination", "done"} => buffer = "picture"
    /\ status = "done" /\ Codec \in Implemented /\ Roomy => put = Due

(* Although most results are ignored, what this model counts as undefined  *)
(* (a pointer used that was not set, or was closed; the reads and writes   *)
(* outside a buffer of Overrun; and what PNG_write and JPG_write do with   *)
(* variables that are not set) happens only for want of memory, of the     *)
(* source's header, or of room for a PNG or JPEG, with a source of a kind  *)
(* that is read wrongly, or when a palette with alpha goes to a PNG. No    *)
(* codec gets a context that another made or that has been closed.         *)
UndefinedOnly ==
  pc = "undefined" =>
    \/ ~NothingFailed
    \/ source.kept \in {"stub", "header"} \/ source.format = "other"
    \/ ~(source.traits \subseteq {"alpha"})
    \/ stream = "destination" /\ Codec = "PNG" /\ AlphaPalette
    \/ stream = "destination" /\ Codec \in {"PNG", "JPG"} /\ ~Roomy

(* What was allocated on the way is freed, also when an allocation fails:  *)
(* all but BMP_write's line buffer, and what the error jumps of libpng and *)
(* of JPG_write pass by.                                                   *)
MemoryReturned ==
  /\ pc = "exited" /\ status # "no codec"
  /\ source.kept = "whole"
  /\ status = "done" /\ Codec \in {"PNG", "JPG"} => Roomy
  => blocks \subseteq (IF Codec = "BMP" THEN {"line_buffer"} ELSE {})

(* GIMEX_write returns whether the picture was written, gimex.h:           *)
(* "Was the data written successfully." One that is all there was.         *)
WriteReports ==
  pc = "wclose" /\ Codec \in Implemented /\ info = "picture" /\ put = Due => retval # 0
=============================================================================
