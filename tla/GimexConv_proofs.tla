-------------------------- MODULE GimexConv_proofs --------------------------
(***************************************************************************)
(* Proofs about gimexconv, for any table of codecs, any files, disks and   *)
(* number of rows, and allocations that fail wherever they like: which     *)
(* codec GIMEX_find comes to, what is undefined when the program goes on   *)
(* after a failed call, what it gives back, and what it has converted when *)
(* none has failed.                                                        *)
(***************************************************************************)
EXTENDS GimexConv, SequenceTheorems, Induction

(* Memory lasts and the source has a picture of a known format.            *)
Solid == NothingFailed /\ source.kept \in {"rows", "whole"} /\ source.format # "other"

PngSteps == {"png_info", "png_image", "png_end"}

(* What the next call needs: the codec is the source's while it is read,   *)
(* and the pointers that the last calls should have set are set.           *)
Ready ==
  /\ pc \in {"open", "info", "buffer", "read", "close"} => Headed
  /\ pc \in {"info", "write"} => Usable
  /\ pc \in {"buffer", "read", "close"} \cup Writing => info # "null"
  /\ pc \in {"read", "close"} \cup Writing => buffer # "null"

(* How far the destination is written; of a PNG how much there is, too.    *)
Progress ==
  /\ pc \in Writing \ {"wfind", "fopen"} => stream = "destination"
  /\ pc \in {"chunks", "rows"} => Codec \in {"TGA", "BMP"}
  /\ pc \in PngSteps => Codec = "PNG"
  /\ pc \in {"start", "wfind", "fopen", "wopen", "write", "png_info"} \cup Reading => put = 0
  /\ pc = "png_image" => put = 2
  /\ pc = "png_end" => put <= 4
  /\ pc = "png_end" /\ NothingFailed => put = 4 \/ put + room < 4

(* What the codec's open and its wopen make.                               *)
Opened ==
  IF Codec \notin Implemented THEN {} ELSE IF Codec = "PNG" THEN {"instance", "png"} ELSE {"instance"}

WOpened == IF Codec \in Implemented THEN {"instance"} ELSE {}

LineKept == IF Codec = "BMP" THEN {"line_buffer"} ELSE {}

(* The blocks at every step, of a source that is not cut off.              *)
Held ==
  /\ pc \in {"start", "find", "is", "open"} => blocks = {}
  /\ pc = "info" => blocks \subseteq Opened
  /\ pc \in {"buffer", "read", "close"} => blocks \subseteq Opened \cup {"info", "buffer"}
  /\ pc \in {"wfind", "fopen", "wopen"} => blocks \subseteq {"info", "buffer"}
  /\ pc = "write" => blocks \subseteq WOpened \cup {"info", "buffer"}
  /\ pc = "chunks" => blocks \subseteq WOpened \cup LineKept \cup {"info", "buffer"}
  /\ pc = "rows" => blocks \subseteq WOpened \cup {"info", "buffer", "line_buffer"}
  /\ pc = "png_info" /\ info = "zero" => blocks \subseteq WOpened \cup {"info", "buffer"}
  /\ pc \in {"png_info", "png_image"} \/ (pc = "png_end" /\ put = 4) =>
       blocks \subseteq WOpened \cup {"info", "buffer", "palette", "trans_pal"}
  /\ pc = "wclose" /\ (Codec \in {"PNG", "JPG"} => Roomy) =>
       blocks \subseteq WOpened \cup LineKept \cup {"info", "buffer"}
  /\ pc = "exited" /\ status # "no codec" /\ (status = "done" /\ Codec \in {"PNG", "JPG"} => Roomy) =>
       blocks \subseteq LineKept

IInv ==
  /\ TypeOK
  /\ Solid => Ready
  /\ Progress
  /\ source.kept = "whole" => Held
  /\ UndefinedOnly

-----------------------------------------------------------------------------
(* The parts of the state.                                                 *)

LEMMA SourceType ==
  source \in Sources =>
    /\ source.ext \in Extensions \cup {"none"} /\ source.kept \in Kept
    /\ source.format \in Implemented \cup {"FSH", "other"}
  BY SourcesAssumption

LEMMA SetType == ASSUME NEW j, GIMEX_set(j) PROVE gCurrentGimex' \in Codecs
<1>1. 0 \in Codecs
  BY TableAssumption, SMT DEF Codecs, GIMEX_max
<1> QED BY <1>1 DEF GIMEX_set

(* Of an allocation that fails it is known for good that one has failed.   *)
LEMMA GallocType ==
  ASSUME failing \in 0 .. MaxFailures, NEW succeeds \in BOOLEAN, Galloc(succeeds)
  PROVE  /\ failing' \in 0 .. MaxFailures
         /\ NothingFailed' => NothingFailed /\ succeeds
<1>1. MaxFailures \in Nat
  BY CodecsAssumption
<1>2. CASE succeeds
  BY <1>2 DEF Galloc, NothingFailed
<1>3. CASE ~succeeds
  <2>1. failing > 0 /\ failing' = failing - 1
    BY <1>3 DEF Galloc
  <2>2. failing' \in 0 .. MaxFailures /\ failing' # MaxFailures
    BY <1>1, <2>1, SMT
  <2> QED BY <2>2 DEF NothingFailed
<1> QED BY <1>2, <1>3

LEMMA FindType ==
  ASSUME failing \in 0 .. MaxFailures, NEW ext, Find(ext)
  PROVE  /\ gCurrentGimex' \in Codecs /\ asked' = ext
         /\ failing' \in 0 .. MaxFailures
         /\ NothingFailed' => NothingFailed
<1>1. CASE GIMEX_find(ext, {}) /\ UNCHANGED failing
  BY <1>1, SetType DEF GIMEX_find, NothingFailed
<1>2. CASE \E n \in DOMAIN Places : GIMEX_find(ext, {Places[n]}) /\ Galloc(FALSE)
  BY <1>2, SetType, GallocType DEF GIMEX_find
<1> QED BY <1>1, <1>2 DEF Find

LEMMA PartsType == Parts \in Seq({"header", "palette", "row"})
<1> DEFINE S == {"header", "palette", "row"}
           n == IF info = "picture" THEN Rows ELSE 0
           rows == [r \in 1 .. n |-> "row"]
           heads == IF WithPalette THEN <<"header", "palette">> ELSE <<"header">>
<1>1. n \in Nat
  BY CodecsAssumption
<1>2. rows \in Seq(S)
  <2> HIDE DEF n
  <2>1. \A r \in 1 .. n : rows[r] \in S
    OBVIOUS
  <2>2. rows \in [1 .. n -> S]
    BY <2>1
  <2> QED BY <1>1, <2>2
<1>3. heads \in Seq(S)
  <2>1. <<"header", "palette">> \in Seq(S)
    OBVIOUS
  <2>2. <<"header">> \in Seq(S)
    OBVIOUS
  <2> QED BY <2>1, <2>2
<1> HIDE DEF heads, rows
<1>4. heads \o rows \in Seq(S)
  BY <1>2, <1>3, ConcatProperties
<1> QED BY <1>4 DEF Parts, heads, rows

LEMMA CodecKept ==
  gCurrentGimex' = gCurrentGimex =>
    Codec' = Codec /\ Opened' = Opened /\ WOpened' = WOpened /\ LineKept' = LineKept
  BY DEF Codec, About, Opened, WOpened, LineKept

LEMMA GwriteType ==
  ASSUME put \in Nat, room \in Nat, Gwrite
  PROVE  /\ put' \in Nat /\ room' \in Nat /\ Taken \in 0 .. 2
         /\ put' + room' = put + room /\ put' = put + Taken
         /\ Taken # 2 => room' = 0 /\ put' < put + 2
  BY SMT DEF Gwrite, Taken

(* The values of the variables, by name.                                   *)
Steps    == {"start", "exited", "undefined"} \cup Reading \cup Writing
Streams  == {"closed", "source", "destination"}
Statuses == {"", "no source", "no codec", "not recognised", "no destination", "done"}
Contexts == [codec : Implemented \cup {"none"}, alive : BOOLEAN]
Findings == {"unset", "null", "zero", "picture"}
Buffers  == {"null", "blank", "part", "picture"}
Blocks   == {"instance", "png", "info", "buffer", "line_buffer", "rows", "row_data", "row_buff",
             "palette", "trans_pal"}
Pieces   == Seq({"header", "palette", "row"})

LEMMA TypeParts ==
  TypeOK =>
    /\ pc \in Steps /\ source \in Sources /\ gCurrentGimex \in Codecs
    /\ asked \in Extensions \cup {"none"} /\ stream \in Streams /\ status \in Statuses
    /\ instance \in Contexts /\ info \in Findings /\ buffer \in Buffers /\ blocks \subseteq Blocks
    /\ failing \in 0 .. MaxFailures /\ put \in Nat /\ room \in Nat /\ left \in Pieces
    /\ retval \in 0 .. 2
  BY DEF TypeOK, CodecTypeOK, Steps, Streams, Statuses, Contexts, Findings, Buffers, Blocks, Pieces

LEMMA TypesAfter ==
  ASSUME pc' \in Steps, source' \in Sources, gCurrentGimex' \in Codecs,
         asked' \in Extensions \cup {"none"}, stream' \in Streams, status' \in Statuses,
         instance' \in Contexts, info' \in Findings, buffer' \in Buffers, blocks' \subseteq Blocks,
         failing' \in 0 .. MaxFailures, put' \in Nat, room' \in Nat, left' \in Pieces,
         retval' \in 0 .. 2
  PROVE  TypeOK'
  BY DEF TypeOK, CodecTypeOK, Steps, Streams, Statuses, Contexts, Findings, Buffers, Blocks, Pieces

LEMMA ContextMade ==
  /\ Codec \in Implemented => [codec |-> Codec, alive |-> TRUE] \in Contexts
  /\ \A i \in Contexts : [i EXCEPT !.alive = FALSE] \in Contexts
  BY DEF Contexts

LEMMA InitIInv == Init => IInv
<1> SUFFICES ASSUME Init PROVE IInv
  OBVIOUS
<1>1. 0 \in Codecs /\ MaxFailures \in 0 .. MaxFailures
  BY TableAssumption, CodecsAssumption, SMT DEF Codecs, GIMEX_max
<1>2. <<>> \in Seq({"header", "palette", "row"})
  BY EmptySeq
<1>3. TypeOK
  <2>1. /\ pc = "start" /\ source \in Sources /\ gCurrentGimex = 0 /\ asked = "none"
        /\ stream = "closed" /\ status = "" /\ info = "unset" /\ buffer = "null" /\ blocks = {}
        /\ failing = MaxFailures /\ put = 0 /\ room = 0 /\ left = <<>> /\ retval = 0
    BY DEF Init
  <2>2. instance \in [codec : Implemented \cup {"none"}, alive : BOOLEAN]
    BY DEF Init, Unset
  <2>3. 0 \in Nat /\ 0 \in 0 .. 2
    BY SMT
  <2> QED BY <1>1, <1>2, <2>1, <2>2, <2>3 DEF TypeOK, CodecTypeOK
<1>4. Ready /\ Progress /\ Held /\ UndefinedOnly
  BY DEF Init, Ready, Progress, Held, UndefinedOnly, Reading, Writing, PngSteps
<1> QED BY <1>3, <1>4 DEF IInv

(* The source is none that is read wrongly.                                *)
Regular == source.traits \subseteq {"alpha"}

(* What is undefined is undefined for want of something, or of its kind.   *)
LEMMA UndefinedStep ==
  ASSUME IInv, Undefined, UNCHANGED <<stream, status>>, ~Solid \/ ~Regular
  PROVE  IInv'
<1>1. /\ pc' = "undefined"
      /\ UNCHANGED <<gCurrentGimex, asked, source, instance, info, buffer, blocks, failing,
                     put, room, left, retval>>
  BY DEF Undefined, dispatchVars, codecVars
<1>2. TypeOK'
  <2>1. pc' \in Steps
    BY <1>1 DEF Steps
  <2> QED BY <1>1, <2>1, TypeParts, TypesAfter DEF IInv
<1>3. Ready' /\ Progress' /\ Held'
  BY <1>1 DEF Ready, Progress, Held, Reading, Writing, PngSteps
<1>4. \/ ~NothingFailed \/ source.kept \in {"stub", "header"} \/ source.format = "other"
      \/ ~Regular
  <2>1. source.kept \in Kept
    BY SourceType, TypeParts DEF IInv
  <2> QED BY <2>1 DEF Solid, Kept
<1>5. UndefinedOnly'
  BY <1>1, <1>4 DEF UndefinedOnly, NothingFailed, Regular
<1> QED BY <1>2, <1>3, <1>5 DEF IInv

(* Once the source is read nothing takes away what the rest needs.         *)
LEMMA StillReady ==
  ASSUME IInv, pc \in {"close"} \cup Writing, pc' \in Writing \ {"write"},
         UNCHANGED <<source, info, buffer>>, NothingFailed' => NothingFailed
  PROVE  Solid' => Ready'
<1> SUFFICES ASSUME Solid' PROVE Ready'
  OBVIOUS
<1>1. Solid
  BY DEF Solid
<1>2. info # "null" /\ buffer # "null"
  BY <1>1 DEF IInv, Ready
<1> QED BY <1>2 DEF Ready, Reading, Writing

-----------------------------------------------------------------------------
(* Reading.                                                                *)

LEMMA OpenSourceStep == IInv /\ OpenSource => IInv'
<1> SUFFICES ASSUME IInv, OpenSource PROVE IInv'
  OBVIOUS
<1>1. /\ pc = "start" /\ blocks = blocks' /\ put' = put /\ source' = source /\ failing' = failing
      /\ \/ pc' = "find" /\ stream' = "source" /\ status' = status
         \/ pc' = "exited" /\ status' = "no source" /\ stream' = stream
      /\ UNCHANGED <<gCurrentGimex, asked, instance, info, buffer, room, left, retval>>
  BY DEF OpenSource, Return, Goto, dispatchVars, codecVars
<1>2. TypeOK'
  <2>1. pc' \in Steps
    BY <1>1 DEF Steps, Reading, Writing
  <2> QED BY <1>1, <2>1, TypeParts, TypesAfter DEF IInv, Streams, Statuses
<1>3. Solid' => Ready'
  BY <1>1 DEF Ready, Reading, Writing
<1>4. Progress'
  BY <1>1 DEF IInv, Progress, Reading, Writing, PngSteps
<1>5. source'.kept = "whole" => Held'
  BY <1>1 DEF IInv, Held
<1>6. UndefinedOnly'
  BY <1>1 DEF UndefinedOnly
<1> QED BY <1>2, <1>3, <1>4, <1>5, <1>6 DEF IInv

LEMMA FindSourceStep == IInv /\ FindSource => IInv'
<1> SUFFICES ASSUME IInv, FindSource PROVE IInv'
  OBVIOUS
<1>1. /\ pc = "find"
      /\ \/ pc' = "is" /\ status' = status
         \/ pc' = "exited" /\ status' = "no codec"
      /\ UNCHANGED <<source, instance, info, buffer, blocks, put, room, left, retval, stream>>
  BY DEF FindSource, Return, Goto
<1>2. source \in Sources /\ failing \in 0 .. MaxFailures
  BY DEF IInv, TypeOK, CodecTypeOK
<1>3. /\ gCurrentGimex' \in Codecs /\ asked' \in Extensions \cup {"none"}
      /\ failing' \in 0 .. MaxFailures
  <2>1. CASE source.ext = "none"
    BY <2>1 DEF IInv, TypeOK, CodecTypeOK, FindSource, dispatchVars
  <2>2. CASE source.ext # "none"
    <3>1. Find(source.ext)
      BY <2>2 DEF FindSource
    <3> QED BY <1>2, <2>2, <3>1, FindType, SourceType
  <2> QED BY <2>1, <2>2
<1>4. TypeOK'
  <2>1. pc' \in Steps
    BY <1>1 DEF Steps, Reading, Writing
  <2> QED BY <1>1, <1>3, <2>1, TypeParts, TypesAfter DEF IInv, Streams, Statuses
<1>5. Solid' => Ready'
  BY <1>1 DEF Ready, Reading, Writing
<1>6. Progress'
  BY <1>1 DEF IInv, Progress, Reading, Writing, PngSteps
<1>7. source'.kept = "whole" => Held'
  BY <1>1 DEF IInv, Held
<1>8. UndefinedOnly'
  BY <1>1 DEF UndefinedOnly
<1> QED BY <1>4, <1>5, <1>6, <1>7, <1>8 DEF IInv

(* The codec is the source's, if it has recognised it.                     *)
LEMMA IsSourceStep == IInv /\ IsSource => IInv'
<1> SUFFICES ASSUME IInv, IsSource PROVE IInv'
  OBVIOUS
<1>1. /\ pc = "is" /\ pc' \in {"open", "exited"}
      /\ \E yes \in Answers :
           IF yes THEN pc' = "open" /\ status' = status ELSE pc' = "exited" /\ status' = "not recognised"
      /\ UNCHANGED <<gCurrentGimex, asked, source, instance, info, buffer, blocks, failing,
                     put, room, left, retval, stream>>
  BY DEF IsSource, Return, Goto, dispatchVars, codecVars
<1>2. TypeOK'
  <2>1. pc' \in Steps
    BY <1>1 DEF Steps, Reading, Writing
  <2> QED BY <1>1, <2>1, TypeParts, TypesAfter DEF IInv, Streams, Statuses
<1>3. Solid' => Ready'
  <2> SUFFICES ASSUME Solid', pc' = "open" PROVE Headed'
    BY <1>1 DEF Ready, Reading, Writing
  <2>1. source.kept \in {"rows", "whole"} /\ source.format # "other"
    BY <1>1 DEF Solid
  <2>2. Answers = {Recognised}
    BY <2>1 DEF Answers
  <2>3. Recognised
    BY <1>1, <2>2
  <2>4. Genuine /\ Codec' = Codec
    BY <1>1, <2>3, CodecKept DEF Recognised
  <2> QED BY <1>1, <2>1, <2>4 DEF Headed, Genuine
<1>4. Progress'
  BY <1>1 DEF IInv, Progress, Reading, Writing, PngSteps
<1>5. source'.kept = "whole" => Held'
  BY <1>1 DEF IInv, Held
<1>6. UndefinedOnly'
  BY <1>1 DEF UndefinedOnly
<1> QED BY <1>2, <1>3, <1>4, <1>5, <1>6 DEF IInv

(* A codec that is implemented makes a context, of a sound source, unless  *)
(* memory is short.                                                        *)
LEMMA OpenContextStep == IInv /\ OpenContext => IInv'
<1> SUFFICES ASSUME IInv, OpenContext PROVE IInv'
  OBVIOUS
<1>1. /\ pc = "open" /\ pc' = "info" /\ GIMEX_open(TRUE)
      /\ UNCHANGED <<gCurrentGimex, asked, source, info, buffer, put, room, left, retval, stream, status>>
  BY DEF OpenContext, Goto, dispatchVars
<1>2. failing \in 0 .. MaxFailures
  BY DEF IInv, TypeOK, CodecTypeOK
<1>3. \/ /\ Codec \in Implemented /\ (Codec = "PNG" => Headed)
         /\ instance' = [codec |-> Codec, alive |-> TRUE] /\ failing' = failing
         /\ blocks' = blocks \cup {"instance"} \cup (IF Codec = "PNG" THEN {"png"} ELSE {})
      \/ /\ Codec \in Implemented /\ Galloc(FALSE)
         /\ instance' = instance /\ blocks' = blocks
      \/ /\ Codec \notin Implemented \/ ~Headed
         /\ instance' = instance /\ blocks' = blocks /\ failing' = failing
  BY <1>1 DEF GIMEX_open, Galloc
<1>4. failing' \in 0 .. MaxFailures /\ (NothingFailed' => failing' = failing)
  BY <1>2, <1>3, GallocType DEF NothingFailed
<1>5. TypeOK'
  <2>1. pc' \in Steps
    BY <1>1 DEF Steps, Reading, Writing
  <2>2. instance \in Contexts /\ blocks \subseteq Blocks
    BY TypeParts DEF IInv
  <2>3. instance' \in Contexts
    <3>1. instance' = instance \/ (Codec \in Implemented /\ instance' = [codec |-> Codec, alive |-> TRUE])
      BY <1>3
    <3> QED BY <2>2, <3>1, ContextMade
  <2>4. blocks' \subseteq Blocks
    BY <1>3, <2>2 DEF Blocks
  <2> QED BY <1>1, <1>4, <2>1, <2>3, <2>4, TypeParts, TypesAfter DEF IInv
<1>6. Codec' = Codec /\ Opened' = Opened
  BY <1>1, CodecKept
<1>7. Solid' => Ready'
  <2> SUFFICES ASSUME Solid' PROVE Ready'
    OBVIOUS
  <2>1. Solid
    BY <1>1, <1>4 DEF Solid, NothingFailed
  <2>2. Headed
    BY <1>1, <2>1 DEF IInv, Ready
  <2>3. ~Galloc(FALSE)
    BY <1>2, GallocType DEF Solid
  <2>4. Usable'
    <3>1. CASE Codec \notin Implemented
      BY <1>6, <3>1 DEF Usable
    <3>2. CASE Codec \in Implemented
      <4>1. instance' = [codec |-> Codec, alive |-> TRUE]
        BY <1>3, <2>2, <2>3, <3>2
      <4> QED BY <1>6, <4>1 DEF Usable
    <3> QED BY <3>1, <3>2
  <2>5. Headed'
    BY <1>1, <1>6, <2>2 DEF Headed, Genuine
  <2> QED BY <1>1, <2>4, <2>5 DEF Ready, Reading, Writing
<1>8. Progress'
  BY <1>1 DEF IInv, Progress, Reading, Writing, PngSteps
<1>9. source'.kept = "whole" => Held'
  <2> SUFFICES ASSUME source'.kept = "whole" PROVE Held'
    OBVIOUS
  <2>1. blocks = {}
    BY <1>1 DEF IInv, Held
  <2>2. blocks' \subseteq Opened
    BY <1>3, <2>1 DEF Opened
  <2> QED BY <1>1, <1>6, <2>2 DEF Held
<1>10. UndefinedOnly'
  BY <1>1 DEF UndefinedOnly
<1> QED BY <1>5, <1>7, <1>8, <1>9, <1>10 DEF IInv

(* A source with a picture gives information, unless memory is short.      *)
LEMMA CallInfoStep == IInv /\ CallInfo => IInv'
<1> SUFFICES ASSUME IInv, CallInfo PROVE IInv'
  OBVIOUS
<1>1. pc = "info" /\ UNCHANGED <<stream, status>>
  BY DEF CallInfo
<1>2. CASE ~Usable
  <2>1. ~Solid
    BY <1>1, <1>2 DEF IInv, Ready
  <2>2. Undefined
    BY <1>2 DEF CallInfo
  <2> QED BY <1>1, <2>1, <2>2, UndefinedStep
<1>3. CASE Usable
  <2>1. /\ pc' = "buffer" /\ GIMEX_info
        /\ UNCHANGED <<gCurrentGimex, asked, source, instance, buffer, put, room, left, retval>>
    BY <1>3 DEF CallInfo, Goto, dispatchVars
  <2>2. failing \in 0 .. MaxFailures
    BY TypeParts DEF IInv
  <2>3. /\ blocks' \in {blocks, blocks \cup {"info"}}
        /\ \/ info' \in Infos /\ failing' = failing
           \/ info' = "null" /\ Galloc(FALSE)
    BY <2>1 DEF GIMEX_info
  <2>4. failing' \in 0 .. MaxFailures /\ (NothingFailed' => NothingFailed /\ info' \in Infos)
    BY <2>2, <2>3, GallocType DEF NothingFailed
  <2>5. TypeOK'
    <3>1. pc' \in Steps
      BY <2>1 DEF Steps, Reading, Writing
    <3>2. info' \in Findings
      BY <2>3 DEF Infos, Findings
    <3>3. blocks' \subseteq Blocks
      BY <2>3, TypeParts DEF IInv, Blocks
    <3> QED BY <1>1, <2>1, <2>4, <3>1, <3>2, <3>3, TypeParts, TypesAfter DEF IInv
  <2>6. Codec' = Codec /\ Opened' = Opened
    BY <2>1, CodecKept
  <2>7. Solid' => Ready'
    <3> SUFFICES ASSUME Solid' PROVE Ready'
      OBVIOUS
    <3>1. Solid /\ info' \in Infos
      BY <2>1, <2>4 DEF Solid
    <3>2. Headed
      BY <1>1, <3>1 DEF IInv, Ready
    <3>3. Codec \in Implemented \cup {"FSH"}
      <4>1. source.format \in Implemented \cup {"FSH", "other"}
        BY SourceType, TypeParts DEF IInv
      <4> QED BY <3>1, <3>2, <4>1 DEF Headed, Genuine, Solid
    <3>4. Infos \subseteq {"zero", "picture"}
      BY <3>2, <3>3 DEF Infos, Implemented
    <3>5. Headed'
      BY <2>1, <2>6, <3>2 DEF Headed, Genuine
    <3> QED BY <2>1, <3>1, <3>4, <3>5 DEF Ready, Reading, Writing
  <2>8. Progress'
    BY <1>1, <2>1 DEF IInv, Progress, Reading, Writing, PngSteps
  <2>9. source'.kept = "whole" => Held'
    <3> SUFFICES ASSUME source'.kept = "whole" PROVE Held'
      OBVIOUS
    <3>1. blocks \subseteq Opened
      BY <1>1, <2>1 DEF IInv, Held
    <3>2. blocks' \subseteq Opened' \cup {"info", "buffer"}
      BY <2>3, <2>6, <3>1
    <3> QED BY <2>1, <3>2 DEF Held
  <2>10. UndefinedOnly'
    BY <2>1 DEF UndefinedOnly
  <2> QED BY <2>5, <2>7, <2>8, <2>9, <2>10 DEF IInv
<1> QED BY <1>2, <1>3

LEMMA AllocateBufferStep == IInv /\ AllocateBuffer => IInv'
<1> SUFFICES ASSUME IInv, AllocateBuffer PROVE IInv'
  OBVIOUS
<1>1. pc = "buffer" /\ UNCHANGED <<stream, status>>
  BY DEF AllocateBuffer
<1>2. CASE info = "null"
  <2>1. ~Solid
    BY <1>1, <1>2 DEF IInv, Ready
  <2>2. Undefined
    BY <1>2 DEF AllocateBuffer
  <2> QED BY <1>1, <2>1, <2>2, UndefinedStep
<1>3. CASE info # "null"
  <2>1. /\ pc' = "read"
        /\ UNCHANGED <<gCurrentGimex, asked, source, instance, info, put, room, left, retval>>
    BY <1>3 DEF AllocateBuffer, Goto, dispatchVars
  <2>2. PICK succeeds \in BOOLEAN :
          /\ Galloc(succeeds)
          /\ buffer' = IF succeeds THEN "blank" ELSE "null"
          /\ blocks' = IF succeeds THEN blocks \cup {"buffer"} ELSE blocks
    BY <1>3 DEF AllocateBuffer
  <2>3. failing' \in 0 .. MaxFailures /\ (NothingFailed' => NothingFailed /\ succeeds)
    <3>1. failing \in 0 .. MaxFailures
      BY TypeParts DEF IInv
    <3> QED BY <2>2, <3>1, GallocType
  <2>4. TypeOK'
    <3>1. pc' \in Steps
      BY <2>1 DEF Steps, Reading, Writing
    <3>2. buffer' \in Buffers
      BY <2>2 DEF Buffers
    <3>3. blocks' \subseteq Blocks
      BY <2>2, TypeParts DEF IInv, Blocks
    <3> QED BY <1>1, <2>1, <2>3, <3>1, <3>2, <3>3, TypeParts, TypesAfter DEF IInv
  <2>5. Codec' = Codec /\ Opened' = Opened
    BY <2>1, CodecKept
  <2>6. Solid' => Ready'
    <3> SUFFICES ASSUME Solid' PROVE Ready'
      OBVIOUS
    <3>1. Solid /\ buffer' # "null"
      BY <2>1, <2>2, <2>3 DEF Solid
    <3>2. Headed
      BY <1>1, <3>1 DEF IInv, Ready
    <3>3. Headed'
      BY <2>1, <2>5, <3>2 DEF Headed, Genuine
    <3> QED BY <1>3, <2>1, <3>1, <3>3 DEF Ready, Reading, Writing
  <2>7. Progress'
    BY <1>1, <2>1 DEF IInv, Progress, Reading, Writing, PngSteps
  <2>8. source'.kept = "whole" => Held'
    <3> SUFFICES ASSUME source'.kept = "whole" PROVE Held'
      OBVIOUS
    <3>1. blocks \subseteq Opened \cup {"info", "buffer"}
      BY <1>1, <2>1 DEF IInv, Held
    <3>2. blocks' \subseteq Opened' \cup {"info", "buffer"}
      BY <2>2, <2>5, <3>1
    <3> QED BY <2>1, <3>2 DEF Held
  <2>9. UndefinedOnly'
    BY <2>1 DEF UndefinedOnly
  <2> QED BY <2>4, <2>6, <2>7, <2>8, <2>9 DEF IInv
<1> QED BY <1>2, <1>3

(* PNG's read loses its rows only when the file is cut off.                *)
LEMMA CallReadStep == IInv /\ CallRead => IInv'
<1> SUFFICES ASSUME IInv, CallRead PROVE IInv'
  OBVIOUS
<1>1. pc = "read" /\ UNCHANGED <<stream, status>>
  BY DEF CallRead
<1>2. CASE NoBuffer
  <2>1. ~Solid
    BY <1>1, <1>2 DEF IInv, Ready, NoBuffer
  <2>2. Undefined
    BY <1>2 DEF CallRead
  <2> QED BY <1>1, <2>1, <2>2, UndefinedStep
<1>3. CASE ~NoBuffer
  <2>1. /\ pc' = "close" /\ GIMEX_read
        /\ UNCHANGED <<gCurrentGimex, asked, source, instance, info, put, room, left, retval>>
    BY <1>3 DEF CallRead, Goto, dispatchVars
  <2>2. /\ buffer' \in {buffer, "part", "picture"}
        /\ failing' = failing \/ Galloc(FALSE)
        /\ source.kept = "whole" => blocks' = blocks
        /\ blocks' \subseteq blocks \cup {"rows", "row_data"}
    <3>1. ReadInto \subseteq {"part", "picture"}
      BY DEF ReadInto
    <3> QED BY <2>1, <3>1 DEF GIMEX_read
  <2>3. failing' \in 0 .. MaxFailures /\ (NothingFailed' => NothingFailed)
    <3>1. failing \in 0 .. MaxFailures
      BY TypeParts DEF IInv
    <3> QED BY <2>2, <3>1, GallocType DEF NothingFailed
  <2>4. TypeOK'
    <3>1. pc' \in Steps
      BY <2>1 DEF Steps, Reading, Writing
    <3>2. buffer' \in Buffers
      BY <2>2, TypeParts DEF IInv, Buffers
    <3>3. blocks' \subseteq Blocks
      BY <2>2, TypeParts DEF IInv, Blocks
    <3> QED BY <1>1, <2>1, <2>3, <3>1, <3>2, <3>3, TypeParts, TypesAfter DEF IInv
  <2>5. Codec' = Codec /\ Opened' = Opened
    BY <2>1, CodecKept
  <2>6. Solid' => Ready'
    <3> SUFFICES ASSUME Solid' PROVE Ready'
      OBVIOUS
    <3>1. Solid
      BY <2>1, <2>3 DEF Solid
    <3>2. Headed /\ info # "null" /\ buffer # "null"
      BY <1>1, <3>1 DEF IInv, Ready
    <3>3. Headed' /\ buffer' # "null"
      BY <2>1, <2>2, <2>5, <3>2 DEF Headed, Genuine
    <3> QED BY <2>1, <3>2, <3>3 DEF Ready, Reading, Writing
  <2>7. Progress'
    BY <1>1, <2>1 DEF IInv, Progress, Reading, Writing, PngSteps
  <2>8. source'.kept = "whole" => Held'
    BY <1>1, <2>1, <2>2, <2>5 DEF IInv, Held
  <2>9. UndefinedOnly'
    BY <2>1 DEF UndefinedOnly
  <2> QED BY <2>4, <2>6, <2>7, <2>8, <2>9 DEF IInv
<1> QED BY <1>2, <1>3

(* Only a source of a kind that is read wrongly overruns its rows.         *)
LEMMA OverrunStep == IInv /\ Overrun => IInv'
<1> SUFFICES ASSUME IInv, Overrun PROVE IInv'
  OBVIOUS
<1>1. Undefined /\ UNCHANGED <<stream, status>>
  BY DEF Overrun
<1>2. ~Regular
  BY DEF Overrun, ReadOverruns, Is, Regular
<1> QED BY <1>1, <1>2, UndefinedStep

LEMMA CloseSourceStep == IInv /\ CloseSource => IInv'
<1> SUFFICES ASSUME IInv, CloseSource PROVE IInv'
  OBVIOUS
<1>1. /\ pc = "close" /\ pc' = "wfind" /\ stream' = "closed" /\ GIMEX_close
      /\ UNCHANGED <<gCurrentGimex, asked, source, info, buffer, failing, put, room, left, retval, status>>
  BY DEF CloseSource, Goto, dispatchVars
<1>2. /\ instance' \in {instance, [instance EXCEPT !.alive = FALSE]}
      /\ blocks' = blocks \ Opened
  BY <1>1 DEF GIMEX_close, Opened
<1>3. TypeOK'
  <2>1. pc' \in Steps /\ stream' \in Streams
    BY <1>1 DEF Steps, Reading, Writing, Streams
  <2>2. instance' \in Contexts /\ blocks' \subseteq Blocks
    BY <1>2, ContextMade, TypeParts DEF IInv
  <2> QED BY <1>1, <2>1, <2>2, TypeParts, TypesAfter DEF IInv
<1>4. Solid' => Ready'
  BY <1>1, StillReady DEF NothingFailed, Writing
<1>5. Progress'
  BY <1>1 DEF IInv, Progress, Reading, Writing, PngSteps
<1>6. source'.kept = "whole" => Held'
  BY <1>1, <1>2 DEF IInv, Held
<1>7. UndefinedOnly'
  BY <1>1 DEF UndefinedOnly
<1> QED BY <1>3, <1>4, <1>5, <1>6, <1>7 DEF IInv

-----------------------------------------------------------------------------
(* Writing.                                                                *)

LEMMA DueWhole == Codec' \in {"PNG", "JPG"} => (Roomy' <=> put' + room' >= 6)
<1>1. Codec' \in {"PNG", "JPG"} => Due' = 6
  BY SMT DEF Due
<1> QED BY <1>1 DEF Roomy

LEMMA FindDestinationStep == IInv /\ FindDestination => IInv'
<1> SUFFICES ASSUME IInv, FindDestination PROVE IInv'
  OBVIOUS
<1>1. /\ pc = "wfind"
      /\ UNCHANGED <<source, instance, info, buffer, blocks, put, room, left, retval, stream>>
      /\ \/ (\E ext \in Extensions : Find(ext)) /\ pc' = "fopen" /\ status' = status
         \/ pc' = "exited" /\ status' = "no codec" /\ UNCHANGED <<gCurrentGimex, asked, failing>>
  BY DEF FindDestination, Return, Goto, dispatchVars
<1>2. failing \in 0 .. MaxFailures
  BY TypeParts DEF IInv
<1>3. /\ gCurrentGimex' \in Codecs /\ asked' \in Extensions \cup {"none"}
      /\ failing' \in 0 .. MaxFailures /\ (NothingFailed' => NothingFailed)
  <2>1. CASE \E ext \in Extensions : Find(ext)
    <3>1. PICK ext \in Extensions : Find(ext)
      BY <2>1
    <3> QED BY <1>2, <3>1, FindType
  <2>2. CASE UNCHANGED <<gCurrentGimex, asked, failing>>
    BY <2>2, TypeParts DEF IInv, NothingFailed
  <2> QED BY <1>1, <2>1, <2>2
<1>4. TypeOK'
  <2>1. pc' \in Steps /\ status' \in Statuses
    BY <1>1, TypeParts DEF IInv, Steps, Reading, Writing, Statuses
  <2> QED BY <1>1, <1>3, <2>1, TypeParts, TypesAfter DEF IInv
<1>5. Solid' => Ready'
  <2>1. CASE pc' = "fopen"
    BY <1>1, <1>3, <2>1, StillReady DEF Writing
  <2>2. CASE pc' = "exited"
    BY <2>2 DEF Ready, Reading, Writing
  <2> QED BY <1>1, <2>1, <2>2
<1>6. Progress'
  BY <1>1 DEF IInv, Progress, Reading, Writing, PngSteps
<1>7. source'.kept = "whole" => Held'
  BY <1>1 DEF IInv, Held
<1>8. UndefinedOnly'
  BY <1>1 DEF UndefinedOnly
<1> QED BY <1>4, <1>5, <1>6, <1>7, <1>8 DEF IInv

LEMMA OpenDestinationStep == IInv /\ OpenDestination => IInv'
<1> SUFFICES ASSUME IInv, OpenDestination PROVE IInv'
  OBVIOUS
<1>1. /\ pc = "fopen"
      /\ \/ /\ stream' = "destination" /\ room' \in Rooms /\ pc' = "wopen"
            /\ blocks' = blocks /\ status' = status
         \/ /\ pc' = "exited" /\ status' = "no destination"
            /\ blocks' = blocks \ {"buffer", "info"}
            /\ stream' = stream /\ room' = room
      /\ UNCHANGED <<gCurrentGimex, asked, source, instance, info, buffer, failing, put, left, retval>>
  BY DEF OpenDestination, Return, Goto, dispatchVars
<1>2. TypeOK'
  <2>1. pc' \in Steps /\ status' \in Statuses /\ stream' \in Streams
    BY <1>1, TypeParts DEF IInv, Steps, Reading, Writing, Statuses, Streams
  <2>2. blocks' \subseteq Blocks /\ room' \in Nat
    BY <1>1, CodecsAssumption, TypeParts DEF IInv
  <2> QED BY <1>1, <2>1, <2>2, TypeParts, TypesAfter DEF IInv
<1>3. Solid' => Ready'
  <2>1. CASE pc' = "wopen"
    BY <1>1, <2>1, StillReady DEF Writing, NothingFailed
  <2>2. CASE pc' = "exited"
    BY <2>2 DEF Ready, Reading, Writing
  <2> QED BY <1>1, <2>1, <2>2
<1>4. Progress'
  BY <1>1 DEF IInv, Progress, Reading, Writing, PngSteps
<1>5. source'.kept = "whole" => Held'
  BY <1>1 DEF IInv, Held
<1>6. UndefinedOnly'
  BY <1>1 DEF UndefinedOnly
<1> QED BY <1>2, <1>3, <1>4, <1>5, <1>6 DEF IInv

(* The context is of the codec that writes, not of the one that read.      *)
LEMMA WOpenStep == IInv /\ WOpen => IInv'
<1> SUFFICES ASSUME IInv, WOpen PROVE IInv'
  OBVIOUS
<1>1. /\ pc = "wopen" /\ pc' = "write" /\ GIMEX_open(FALSE)
      /\ UNCHANGED <<gCurrentGimex, asked, source, info, buffer, put, room, left, retval, stream, status>>
  BY DEF WOpen, Goto, dispatchVars
<1>2. failing \in 0 .. MaxFailures
  BY TypeParts DEF IInv
<1>3. \/ /\ Codec \in Implemented /\ failing' = failing
         /\ instance' = [codec |-> Codec, alive |-> TRUE]
         /\ blocks' = blocks \cup {"instance"}
      \/ /\ Codec \in Implemented /\ Galloc(FALSE)
         /\ instance' = instance /\ blocks' = blocks
      \/ /\ Codec \notin Implemented
         /\ instance' = instance /\ blocks' = blocks /\ failing' = failing
  BY <1>1 DEF GIMEX_open, Galloc
<1>4. failing' \in 0 .. MaxFailures /\ (NothingFailed' => failing' = failing)
  BY <1>2, <1>3, GallocType DEF NothingFailed
<1>5. Codec' = Codec /\ WOpened' = WOpened
  BY <1>1, CodecKept
<1>6. TypeOK'
  <2>1. pc' \in Steps
    BY <1>1 DEF Steps, Reading, Writing
  <2>2. instance \in Contexts /\ blocks \subseteq Blocks
    BY TypeParts DEF IInv
  <2>3. instance' = instance \/ (Codec \in Implemented /\ instance' = [codec |-> Codec, alive |-> TRUE])
    BY <1>3
  <2>4. instance' \in Contexts
    BY <2>2, <2>3, ContextMade
  <2>5. blocks' \subseteq Blocks
    BY <1>3, <2>2 DEF Blocks
  <2> QED BY <1>1, <1>4, <2>1, <2>4, <2>5, TypeParts, TypesAfter DEF IInv
<1>7. Solid' => Ready'
  <2> SUFFICES ASSUME Solid' PROVE Ready'
    OBVIOUS
  <2>1. Solid /\ ~Galloc(FALSE)
    BY <1>1, <1>2, <1>4, GallocType DEF Solid, NothingFailed
  <2>2. info # "null" /\ buffer # "null"
    BY <1>1, <2>1 DEF IInv, Ready, Writing
  <2>3. Usable'
    <3>1. CASE Codec \notin Implemented
      BY <1>5, <3>1 DEF Usable
    <3>2. CASE Codec \in Implemented
      <4>1. instance' = [codec |-> Codec, alive |-> TRUE]
        BY <1>3, <2>1, <3>2
      <4> QED BY <1>5, <4>1 DEF Usable
    <3> QED BY <3>1, <3>2
  <2> QED BY <1>1, <2>2, <2>3 DEF Ready, Reading, Writing
<1>8. Progress'
  BY <1>1 DEF IInv, Progress, Reading, Writing, PngSteps
<1>9. source'.kept = "whole" => Held'
  <2> SUFFICES ASSUME source'.kept = "whole" PROVE Held'
    OBVIOUS
  <2>1. blocks \subseteq {"info", "buffer"}
    BY <1>1 DEF IInv, Held
  <2>2. blocks' \subseteq WOpened' \cup {"info", "buffer"}
    BY <1>3, <1>5, <2>1 DEF WOpened
  <2> QED BY <1>1, <2>2 DEF Held
<1>10. UndefinedOnly'
  BY <1>1 DEF UndefinedOnly
<1> QED BY <1>6, <1>7, <1>8, <1>9, <1>10 DEF IInv

LEMMA JpgStep == IInv /\ JPG_write /\ UNCHANGED <<stream, status>> => IInv'
<1> SUFFICES ASSUME IInv, JPG_write, UNCHANGED <<stream, status>> PROVE IInv'
  OBVIOUS
<1>1. /\ pc = "write" /\ pc' \in {"wclose", "undefined"} /\ Codec = "JPG" /\ retval' \in {0, 1}
      /\ \/ /\ put' = (IF room >= Due THEN Due ELSE room) /\ room' = room - put'
            /\ failing' = failing
            /\ \/ pc' = "wclose" /\ blocks' = blocks
               \/ put' # Due /\ blocks' \in {blocks, blocks \cup {"row_buff"}}
         \/ /\ UNCHANGED <<put, room, blocks>> /\ (failing' = failing \/ Galloc(FALSE))
            /\ pc' = "wclose"
      /\ UNCHANGED <<gCurrentGimex, asked, source, instance, info, buffer, left>>
  BY DEF JPG_write, Goto, dispatchVars
<1>2. failing \in 0 .. MaxFailures /\ put \in Nat /\ room \in Nat
  BY TypeParts DEF IInv
<1>3. failing' \in 0 .. MaxFailures /\ (NothingFailed' => NothingFailed)
  BY <1>1, <1>2, GallocType DEF NothingFailed
<1>4. /\ put' \in Nat /\ room' \in Nat
      /\ \/ pc' = "wclose" /\ blocks' = blocks
         \/ blocks' \in {blocks, blocks \cup {"row_buff"}} /\ ~(put' + room' >= 6)
  <2>1. Due = 6
    BY <1>1, SMT DEF Due
  <2>2. CASE /\ put' = (IF room >= 6 THEN 6 ELSE room) /\ room' = room - put'
             /\ \/ pc' = "wclose" /\ blocks' = blocks
                \/ put' # 6 /\ blocks' \in {blocks, blocks \cup {"row_buff"}}
    <3>1. put' \in Nat /\ room' \in Nat /\ (put' # 6 => ~(put' + room' >= 6))
      BY <1>2, <2>2, SMT
    <3> QED BY <2>2, <3>1
  <2>3. CASE UNCHANGED <<put, room, blocks>> /\ pc' = "wclose"
    BY <1>2, <2>3
  <2> QED BY <1>1, <2>1, <2>2, <2>3
<1>5. TypeOK'
  <2>1. pc' \in Steps /\ retval' \in 0 .. 2
    BY <1>1, SMT DEF Steps, Reading, Writing
  <2>2. blocks' \subseteq Blocks
    BY <1>4, TypeParts DEF IInv, Blocks
  <2> QED BY <1>1, <1>3, <1>4, <2>1, <2>2, TypeParts, TypesAfter DEF IInv
<1>6. Solid' => Ready'
  <2>1. CASE pc' = "undefined"
    BY <2>1 DEF Ready, Reading, Writing
  <2>2. CASE pc' = "wclose"
    BY <1>1, <1>3, <2>2, StillReady DEF Writing
  <2> QED BY <1>1, <2>1, <2>2
<1>7. Codec' = "JPG" /\ WOpened' = WOpened /\ stream' = "destination"
  BY <1>1, CodecKept DEF IInv, Progress, Writing
<1>8. Progress'
  BY <1>1, <1>7 DEF Progress, Reading, Writing, PngSteps
<1>9. source'.kept = "whole" => Held'
  <2> SUFFICES ASSUME source'.kept = "whole" PROVE Held'
    OBVIOUS
  <2>1. blocks \subseteq WOpened \cup {"info", "buffer"}
    BY <1>1 DEF IInv, Held
  <2>2. CASE pc' = "undefined"
    BY <2>2 DEF Held
  <2>3. CASE pc' = "wclose"
    <3>1. Roomy' => blocks' = blocks
      BY <1>4, <1>7, DueWhole
    <3>2. Roomy' => blocks' \subseteq WOpened' \cup LineKept' \cup {"info", "buffer"}
      BY <1>7, <2>1, <3>1
    <3> QED BY <1>7, <2>3, <3>2 DEF Held
  <2> QED BY <1>1, <2>2, <2>3
<1>10. UndefinedOnly'
  <2>1. pc' = "undefined" => ~Roomy'
    BY <1>4, <1>7, DueWhole
  <2> QED BY <1>7, <2>1 DEF UndefinedOnly
<1> QED BY <1>5, <1>6, <1>8, <1>9, <1>10 DEF IInv

LEMMA StartRowsStep == IInv /\ StartRows /\ UNCHANGED <<stream, status>> => IInv'
<1> SUFFICES ASSUME IInv, StartRows, UNCHANGED <<stream, status>> PROVE IInv'
  OBVIOUS
<1>1. /\ pc = "write" /\ pc' = "chunks" /\ Codec \in {"TGA", "BMP"} /\ left' = Parts /\ retval' = 0
      /\ \/ /\ Codec = "BMP"
            /\ \E succeeds \in BOOLEAN :
                 Galloc(succeeds) /\ blocks' \in {blocks, blocks \cup {"line_buffer"}}
         \/ UNCHANGED <<failing, blocks>>
      /\ UNCHANGED <<gCurrentGimex, asked, source, instance, info, buffer, put, room>>
  BY DEF StartRows, Goto, dispatchVars
<1>2. failing \in 0 .. MaxFailures /\ blocks \subseteq Blocks
  BY TypeParts DEF IInv
<1>3. failing' \in 0 .. MaxFailures /\ (NothingFailed' => NothingFailed)
  BY <1>1, <1>2, GallocType DEF NothingFailed
<1>4. TypeOK'
  <2>1. pc' \in Steps /\ left' \in Pieces
    BY <1>1, PartsType DEF Steps, Reading, Writing, Pieces
  <2>2. blocks' \subseteq Blocks
    BY <1>1, <1>2 DEF Blocks
  <2>3. retval' \in 0 .. 2
    BY <1>1, SMT
  <2> QED BY <1>1, <1>3, <2>1, <2>2, <2>3, TypeParts, TypesAfter DEF IInv
<1>5. Solid' => Ready'
  BY <1>1, <1>3, StillReady DEF Writing
<1>6. Codec' = Codec /\ WOpened' = WOpened /\ LineKept' = LineKept
  BY <1>1, CodecKept
<1>7. Progress'
  BY <1>1, <1>6 DEF IInv, Progress, Reading, Writing, PngSteps
<1>8. source'.kept = "whole" => Held'
  <2> SUFFICES ASSUME source'.kept = "whole" PROVE Held'
    OBVIOUS
  <2>1. blocks \subseteq WOpened \cup {"info", "buffer"}
    BY <1>1 DEF IInv, Held
  <2>2. blocks' \subseteq WOpened' \cup LineKept' \cup {"info", "buffer"}
    BY <1>1, <1>6, <2>1 DEF LineKept
  <2> QED BY <1>1, <2>2 DEF Held
<1>9. UndefinedOnly'
  BY <1>1 DEF UndefinedOnly
<1> QED BY <1>4, <1>5, <1>7, <1>8, <1>9 DEF IInv

(* A gwrite of the header, the palette or a row.                           *)
LEMMA PieceStep ==
  ASSUME IInv, pc \in {"chunks", "rows"}, left # <<>>, left' = Tail(left),
         (Gwrite /\ retval' = Taken) \/ UNCHANGED <<put, room, retval>>,
         UNCHANGED <<pc, gCurrentGimex, asked, source, instance, info, buffer, blocks, failing,
                     stream, status>>
  PROVE  IInv'
<1>1. put \in Nat /\ room \in Nat /\ retval \in 0 .. 2 /\ left \in Pieces
  BY TypeParts DEF IInv
<1>2. put' \in Nat /\ room' \in Nat /\ retval' \in 0 .. 2
  BY <1>1, GwriteType
<1>3. left' \in Pieces
  BY <1>1, HeadTailProperties DEF Pieces
<1>4. TypeOK'
  BY <1>2, <1>3, TypeParts, TypesAfter DEF IInv
<1>5. Solid' => Ready'
  BY StillReady DEF Writing, NothingFailed
<1>6. Codec' = Codec /\ WOpened' = WOpened /\ LineKept' = LineKept
  BY CodecKept
<1>7. Progress'
  BY <1>6 DEF IInv, Progress, Reading, Writing, PngSteps
<1>8. source'.kept = "whole" => Held'
  BY <1>6 DEF IInv, Held
<1>9. UndefinedOnly'
  BY DEF UndefinedOnly
<1> QED BY <1>4, <1>5, <1>7, <1>8, <1>9 DEF IInv

LEMMA WriteHeadStep == IInv /\ WriteHead /\ UNCHANGED <<stream, status>> => IInv'
  BY PieceStep DEF WriteHead, dispatchVars

LEMMA WriteRowStep == IInv /\ WriteRow /\ UNCHANGED <<stream, status>> => IInv'
  BY PieceStep DEF WriteRow, dispatchVars

LEMMA LineBufferStep == IInv /\ LineBuffer /\ UNCHANGED <<stream, status>> => IInv'
<1> SUFFICES ASSUME IInv, LineBuffer, UNCHANGED <<stream, status>> PROVE IInv'
  OBVIOUS
<1>1. /\ pc = "chunks" /\ left' \in {left, <<>>} /\ retval' \in {retval, 0}
      /\ \/ pc' = "rows" /\ blocks' \in {blocks, blocks \cup {"line_buffer"}}
         \/ pc' = "wclose" /\ blocks' = blocks
      /\ failing' = failing \/ Galloc(FALSE)
      /\ UNCHANGED <<gCurrentGimex, asked, source, instance, info, buffer, put, room>>
  BY DEF LineBuffer, Goto, dispatchVars
<1>2. failing \in 0 .. MaxFailures /\ blocks \subseteq Blocks
  BY TypeParts DEF IInv
<1>3. failing' \in 0 .. MaxFailures /\ (NothingFailed' => NothingFailed)
  BY <1>1, <1>2, GallocType DEF NothingFailed
<1>4. TypeOK'
  <2>1. pc' \in Steps
    BY <1>1 DEF Steps, Reading, Writing
  <2>2. left' \in Pieces
    BY <1>1, EmptySeq, TypeParts DEF IInv, Pieces
  <2>3. blocks' \subseteq Blocks
    BY <1>1, <1>2 DEF Blocks
  <2>4. retval' \in 0 .. 2
    <3>1. 0 \in 0 .. 2
      BY SMT
    <3> QED BY <1>1, <3>1, TypeParts DEF IInv
  <2> QED BY <1>1, <1>3, <2>1, <2>2, <2>3, <2>4, TypeParts, TypesAfter DEF IInv
<1>5. Solid' => Ready'
  BY <1>1, <1>3, StillReady DEF Writing
<1>6. Codec' = Codec /\ WOpened' = WOpened /\ LineKept' = LineKept
  BY <1>1, CodecKept
<1>7. Progress'
  BY <1>1, <1>6 DEF IInv, Progress, Reading, Writing, PngSteps
<1>8. source'.kept = "whole" => Held'
  <2> SUFFICES ASSUME source'.kept = "whole" PROVE Held'
    OBVIOUS
  <2>1. blocks \subseteq WOpened \cup LineKept \cup {"info", "buffer"}
    BY <1>1 DEF IInv, Held
  <2>2. CASE pc' = "rows"
    <3>1. blocks' \subseteq WOpened' \cup {"info", "buffer", "line_buffer"}
      BY <1>1, <1>6, <2>1, <2>2 DEF LineKept
    <3> QED BY <2>2, <3>1 DEF Held
  <2>3. CASE pc' = "wclose"
    BY <1>1, <1>6, <2>1, <2>3 DEF Held
  <2> QED BY <1>1, <2>2, <2>3
<1>9. UndefinedOnly'
  BY <1>1 DEF UndefinedOnly
<1> QED BY <1>4, <1>5, <1>7, <1>8, <1>9 DEF IInv

LEMMA RowsWrittenStep == IInv /\ RowsWritten /\ UNCHANGED <<stream, status>> => IInv'
<1> SUFFICES ASSUME IInv, RowsWritten, UNCHANGED <<stream, status>> PROVE IInv'
  OBVIOUS
<1>1. /\ pc = "rows" /\ pc' = "wclose" /\ retval' \in {retval, 0}
      /\ blocks' = IF Codec = "TGA" THEN blocks \ {"line_buffer"} ELSE blocks
      /\ UNCHANGED <<gCurrentGimex, asked, source, instance, info, buffer, failing, put, room, left>>
  BY DEF RowsWritten, Goto, dispatchVars
<1>2. TypeOK'
  <2>1. pc' \in Steps
    BY <1>1 DEF Steps, Reading, Writing
  <2>2. blocks' \subseteq Blocks
    BY <1>1, TypeParts DEF IInv
  <2>3. 0 \in 0 .. 2
    BY SMT
  <2> QED BY <1>1, <2>1, <2>2, <2>3, TypeParts, TypesAfter DEF IInv
<1>3. Solid' => Ready'
  BY <1>1, StillReady DEF Writing, NothingFailed
<1>4. Codec' = Codec /\ WOpened' = WOpened /\ LineKept' = LineKept
  BY <1>1, CodecKept
<1>5. Progress'
  BY <1>1 DEF IInv, Progress, Reading, Writing, PngSteps
<1>6. source'.kept = "whole" => Held'
  <2> SUFFICES ASSUME source'.kept = "whole" PROVE Held'
    OBVIOUS
  <2>1. blocks \subseteq WOpened \cup {"info", "buffer", "line_buffer"} /\ Codec \in {"TGA", "BMP"}
    BY <1>1 DEF IInv, Held, Progress
  <2>2. blocks' \subseteq WOpened' \cup LineKept' \cup {"info", "buffer"}
    BY <1>1, <1>4, <2>1 DEF LineKept
  <2> QED BY <1>1, <2>2 DEF Held
<1>7. UndefinedOnly'
  BY <1>1 DEF UndefinedOnly
<1> QED BY <1>2, <1>3, <1>5, <1>6, <1>7 DEF IInv

-----------------------------------------------------------------------------
(* Writing a PNG: its parts have two bytes each, and what is behind the    *)
(* first one that does not fit is never written.                           *)

LEMMA PngWriteStep == IInv /\ PNG_write /\ UNCHANGED <<stream, status>> => IInv'
<1> SUFFICES ASSUME IInv, PNG_write, UNCHANGED <<stream, status>> PROVE IInv'
  OBVIOUS
<1>1. /\ pc = "write" /\ Codec = "PNG" /\ retval' = 0
      /\ \/ /\ pc' = "png_info" /\ failing' = failing
            /\ \/ blocks' = blocks
               \/ info = "picture" /\ blocks' \in {blocks \cup {"palette"}, blocks \cup {"palette", "trans_pal"}}
         \/ pc' \in {"wclose", "undefined"} /\ Galloc(FALSE) /\ blocks' = blocks
         \/ pc' = "undefined" /\ AlphaPalette /\ failing' = failing /\ blocks' = blocks
      /\ UNCHANGED <<gCurrentGimex, asked, source, instance, info, buffer, put, room, left>>
  <2> DEFINE pal == IF info = "picture" /\ source.palette = "colors" THEN {"palette"} ELSE {}
             trans == IF AlphaPalette /\ source.palette = "colors" THEN {"trans_pal"} ELSE {}
  <2>1. \/ pal = {} /\ trans = {}
        \/ info = "picture" /\ pal = {"palette"} /\ trans \in {{}, {"trans_pal"}}
    BY DEF AlphaPalette
  <2>2. \/ blocks \cup pal \cup trans = blocks
        \/ info = "picture" /\ blocks \cup pal \cup trans
                                \in {blocks \cup {"palette"}, blocks \cup {"palette", "trans_pal"}}
    <3> HIDE DEF pal, trans
    <3> QED BY <2>1
  <2> HIDE DEF pal, trans
  <2>3. /\ pc = "write" /\ Codec = "PNG" /\ retval' = 0
        /\ \/ /\ pc' = "png_info" /\ failing' = failing
              /\ blocks' = blocks \cup pal \cup trans
           \/ pc' = "undefined" /\ AlphaPalette /\ failing' = failing /\ blocks' = blocks
           \/ pc' \in {"wclose", "undefined"} /\ Galloc(FALSE) /\ blocks' = blocks
        /\ UNCHANGED <<gCurrentGimex, asked, source, instance, info, buffer, put, room, left>>
    BY DEF PNG_write, Goto, dispatchVars, pal, trans
  <2> QED BY <2>2, <2>3
<1>2. failing \in 0 .. MaxFailures /\ blocks \subseteq Blocks
  BY TypeParts DEF IInv
<1>3. /\ failing' \in 0 .. MaxFailures /\ (NothingFailed' => NothingFailed)
      /\ pc' = "undefined" => ~NothingFailed' \/ AlphaPalette
  BY <1>1, <1>2, GallocType DEF NothingFailed
<1>4. TypeOK'
  <2>1. pc' \in Steps
    BY <1>1 DEF Steps, Reading, Writing
  <2>2. blocks' \subseteq Blocks
    BY <1>1, <1>2 DEF Blocks
  <2>3. retval' \in 0 .. 2
    BY <1>1, SMT
  <2> QED BY <1>1, <1>3, <2>1, <2>2, <2>3, TypeParts, TypesAfter DEF IInv
<1>5. Solid' => Ready'
  <2>1. CASE pc' = "undefined"
    BY <2>1 DEF Ready, Reading, Writing
  <2>2. CASE pc' \in {"png_info", "wclose"}
    BY <1>1, <1>3, <2>2, StillReady DEF Writing
  <2> QED BY <1>1, <2>1, <2>2
<1>6. Codec' = Codec /\ WOpened' = WOpened /\ LineKept' = LineKept
  BY <1>1, CodecKept
<1>7. Progress'
  BY <1>1, <1>6 DEF IInv, Progress, Reading, Writing, PngSteps
<1>8. source'.kept = "whole" => Held'
  <2> SUFFICES ASSUME source'.kept = "whole" PROVE Held'
    OBVIOUS
  <2>1. blocks \subseteq WOpened \cup {"info", "buffer"}
    BY <1>1 DEF IInv, Held
  <2>2. CASE pc' = "png_info"
    <3>1. blocks' \subseteq WOpened' \cup {"info", "buffer", "palette", "trans_pal"}
      BY <1>1, <1>6, <2>1, <2>2
    <3>2. info' = "zero" => blocks' \subseteq WOpened' \cup {"info", "buffer"}
      BY <1>1, <1>6, <2>1, <2>2
    <3> QED BY <2>2, <3>1, <3>2 DEF Held
  <2>3. CASE pc' \in {"wclose", "undefined"}
    <3>1. blocks' \subseteq WOpened' \cup LineKept' \cup {"info", "buffer"}
      BY <1>1, <1>6, <2>1, <2>3
    <3> QED BY <2>3, <3>1 DEF Held
  <2> QED BY <1>1, <2>2, <2>3
<1>9. UndefinedOnly'
  <2>1. AlphaPalette' <=> AlphaPalette
    BY <1>1 DEF AlphaPalette, Is
  <2>2. stream' = "destination"
    BY <1>1 DEF IInv, Progress, Writing
  <2> QED BY <1>1, <1>3, <1>6, <2>1, <2>2 DEF UndefinedOnly
<1> QED BY <1>4, <1>5, <1>7, <1>8, <1>9 DEF IInv

LEMMA ShortWrite ==
  \A p, q, r \in Nat :
    r = 0 /\ q < p + 2 =>
      /\ p \in {0, 4} => ~(q + r >= 6)
      /\ p = 2 => q <= 4 /\ q # 4 /\ q + r < 4
  BY SMT

LEMMA PngInfoStep == IInv /\ PngInfo /\ UNCHANGED <<stream, status>> => IInv'
<1> SUFFICES ASSUME IInv, PngInfo, UNCHANGED <<stream, status>> PROVE IInv'
  OBVIOUS
<1>1. /\ pc = "png_info" /\ blocks' = blocks
      /\ \/ info = "zero" /\ UNCHANGED <<put, room>> /\ pc' = "wclose"
         \/ info # "zero" /\ Gwrite /\ Taken = 2 /\ pc' = "png_image"
         \/ info # "zero" /\ Gwrite /\ Taken # 2 /\ pc' = "wclose"
      /\ UNCHANGED <<gCurrentGimex, asked, source, instance, info, buffer, failing, left, retval>>
  BY DEF PngInfo, BackInPngWrite, Goto, dispatchVars
<1>2. put \in Nat /\ room \in Nat /\ put = 0 /\ Codec = "PNG" /\ stream = "destination"
  BY <1>1, TypeParts DEF IInv, Progress, PngSteps, Writing
<1>3. /\ put' \in Nat /\ room' \in Nat
      /\ pc' = "png_image" => put' = 2
      /\ pc' = "wclose" => info = "zero" \/ ~(put' + room' >= 6)
  <2>1. CASE UNCHANGED <<put, room>> /\ info = "zero" /\ pc' = "wclose"
    BY <1>2, <2>1
  <2>2. CASE Gwrite /\ Taken = 2 /\ pc' = "png_image"
    BY <1>2, <2>2, GwriteType, SMT
  <2>3. CASE Gwrite /\ Taken # 2 /\ pc' = "wclose"
    <3>1. put \in Nat /\ put = 0 /\ put' \in Nat /\ room' \in Nat /\ room' = 0 /\ put' < put + 2
      BY <1>2, <2>3, GwriteType
    <3>2. ~(put' + room' >= 6) /\ room' \in Nat
      BY <3>1, ShortWrite
    <3> QED BY <2>3, <3>1, <3>2
  <2> QED BY <1>1, <2>1, <2>2, <2>3
<1>4. TypeOK'
  <2>1. pc' \in Steps
    BY <1>1 DEF Steps, Reading, Writing
  <2> QED BY <1>1, <1>3, <2>1, TypeParts, TypesAfter DEF IInv
<1>5. Solid' => Ready'
  BY <1>1, StillReady DEF Writing, NothingFailed
<1>6. Codec' = Codec /\ WOpened' = WOpened /\ LineKept' = LineKept
  BY <1>1, CodecKept
<1>7. Progress'
  BY <1>1, <1>2, <1>3, <1>6 DEF Progress, Reading, Writing, PngSteps
<1>8. source'.kept = "whole" => Held'
  <2> SUFFICES ASSUME source'.kept = "whole" PROVE Held'
    OBVIOUS
  <2>1. /\ blocks \subseteq WOpened \cup {"info", "buffer", "palette", "trans_pal"}
        /\ info = "zero" => blocks \subseteq WOpened \cup {"info", "buffer"}
    BY <1>1 DEF IInv, Held
  <2>2. CASE pc' = "png_image"
    BY <1>1, <1>6, <2>1, <2>2 DEF Held
  <2>3. CASE pc' = "wclose"
    <3>1. Roomy' => info = "zero"
      BY <1>2, <1>3, <1>6, <2>3, DueWhole
    <3>2. Codec' = "PNG" /\ (Roomy' => blocks' \subseteq WOpened' \cup {"info", "buffer"})
      BY <1>1, <1>2, <1>6, <2>1, <3>1
    <3> QED BY <2>3, <3>2 DEF Held
  <2> QED BY <1>1, <2>2, <2>3
<1>9. UndefinedOnly'
  BY <1>1 DEF UndefinedOnly
<1> QED BY <1>4, <1>5, <1>7, <1>8, <1>9 DEF IInv

LEMMA PngImageStep == IInv /\ PNG_write_gimex /\ UNCHANGED <<stream, status>> => IInv'
<1> SUFFICES ASSUME IInv, PNG_write_gimex, UNCHANGED <<stream, status>> PROVE IInv'
  OBVIOUS
<1>1. /\ pc = "png_image"
      /\ \/ /\ pc' = "png_end" /\ Gwrite /\ failing' = failing
            /\ blocks' = IF Taken = 2 THEN blocks ELSE blocks \cup {"rows", "row_buff"}
         \/ pc' = "png_end" /\ Galloc(FALSE) /\ UNCHANGED <<put, room, blocks>>
         \/ pc' = "undefined" /\ AlphaPalette /\ UNCHANGED <<put, room, blocks, failing>>
      /\ UNCHANGED <<gCurrentGimex, asked, source, instance, info, buffer, left, retval>>
  BY DEF PNG_write_gimex, Goto, dispatchVars
<1>2. /\ put \in Nat /\ room \in Nat /\ put = 2 /\ Codec = "PNG" /\ stream = "destination"
      /\ failing \in 0 .. MaxFailures /\ blocks \subseteq Blocks
  BY <1>1, TypeParts DEF IInv, Progress, PngSteps, Writing
<1>3. failing' \in 0 .. MaxFailures /\ (NothingFailed' => NothingFailed)
  BY <1>1, <1>2, GallocType DEF NothingFailed
<1>4. /\ put' \in Nat /\ room' \in Nat /\ put' <= 4
      /\ put' = 4 => blocks' = blocks
      /\ pc' = "png_end" /\ NothingFailed' => put' = 4 \/ put' + room' < 4
  <2>1. CASE Gwrite /\ Taken = 2 /\ blocks' = blocks
    BY <1>2, <2>1, GwriteType, SMT
  <2>2. CASE Gwrite /\ Taken # 2
    <3>1. put \in Nat /\ put = 2 /\ put' \in Nat /\ room' \in Nat /\ room' = 0 /\ put' < put + 2
      BY <1>2, <2>2, GwriteType
    <3>2. room' \in Nat /\ put' <= 4 /\ put' # 4 /\ put' + room' < 4
      BY <3>1, ShortWrite
    <3> QED BY <3>1, <3>2
  <2>3. CASE Galloc(FALSE) /\ UNCHANGED <<put, room, blocks>>
    <3>1. ~NothingFailed'
      BY <1>2, <2>3, GallocType
    <3> QED BY <1>2, <2>3, <3>1, SMT
  <2>4. CASE pc' = "undefined" /\ UNCHANGED <<put, room, blocks>>
    BY <1>2, <2>4, SMT
  <2> QED BY <1>1, <2>1, <2>2, <2>3, <2>4
<1>5. TypeOK'
  <2>1. pc' \in Steps
    BY <1>1 DEF Steps, Reading, Writing
  <2>2. blocks' \subseteq Blocks
    BY <1>1, <1>2 DEF Blocks
  <2> QED BY <1>1, <1>3, <1>4, <2>1, <2>2, TypeParts, TypesAfter DEF IInv
<1>6. Solid' => Ready'
  <2>1. CASE pc' = "undefined"
    BY <2>1 DEF Ready, Reading, Writing
  <2>2. CASE pc' = "png_end"
    BY <1>1, <1>3, <2>2, StillReady DEF Writing
  <2> QED BY <1>1, <2>1, <2>2
<1>7. Codec' = Codec /\ WOpened' = WOpened
  BY <1>1, CodecKept
<1>8. Progress'
  BY <1>1, <1>2, <1>4, <1>7 DEF Progress, Reading, Writing, PngSteps
<1>9. source'.kept = "whole" => Held'
  BY <1>1, <1>4, <1>7 DEF IInv, Held
<1>10. UndefinedOnly'
  <2>1. AlphaPalette' <=> AlphaPalette
    BY <1>1 DEF AlphaPalette, Is
  <2> QED BY <1>1, <1>2, <1>7, <2>1 DEF UndefinedOnly
<1> QED BY <1>5, <1>6, <1>8, <1>9, <1>10 DEF IInv

LEMMA PngEndStep == IInv /\ PngEnd /\ UNCHANGED <<stream, status>> => IInv'
<1> SUFFICES ASSUME IInv, PngEnd, UNCHANGED <<stream, status>> PROVE IInv'
  OBVIOUS
<1>1. /\ pc = "png_end" /\ Gwrite
      /\ UNCHANGED <<gCurrentGimex, asked, source, instance, info, buffer, failing, left, retval>>
  BY DEF PngEnd, dispatchVars
<1>2. /\ put \in Nat /\ room \in Nat /\ put <= 4 /\ Codec = "PNG" /\ stream = "destination"
      /\ NothingFailed => put = 4 \/ put + room < 4
  BY <1>1, TypeParts DEF IInv, Progress, PngSteps, Writing
<1>3. \/ pc' = "wclose" /\ put = 4 /\ blocks' = blocks \ {"palette", "trans_pal"}
      \/ pc' = "undefined" /\ blocks' = blocks /\ (put # 4 \/ Taken # 2)
  <2>1. Due = 6
    BY <1>2, SMT DEF Due
  <2>2. put = Due - 2 <=> put = 4
    BY <1>2, <2>1, SMT
  <2> QED BY <2>2 DEF PngEnd, Goto
<1>4. /\ put' \in Nat /\ room' \in Nat /\ put' + room' = put + room
      /\ Taken # 2 => room' = 0 /\ put' < put + 2
  BY <1>1, <1>2, GwriteType
<1>5. TypeOK'
  <2>1. pc' \in Steps
    BY <1>3 DEF Steps, Reading, Writing
  <2>2. blocks' \subseteq Blocks
    BY <1>3, TypeParts DEF IInv
  <2> QED BY <1>1, <1>4, <2>1, <2>2, TypeParts, TypesAfter DEF IInv
<1>6. Solid' => Ready'
  <2>1. CASE pc' = "undefined"
    BY <2>1 DEF Ready, Reading, Writing
  <2>2. CASE pc' = "wclose"
    BY <1>1, <2>2, StillReady DEF Writing, NothingFailed
  <2> QED BY <1>3, <2>1, <2>2
<1>7. Codec' = "PNG" /\ WOpened' = WOpened
  BY <1>1, <1>2, CodecKept
<1>8. Progress'
  BY <1>2, <1>3 DEF Progress, Reading, Writing, PngSteps
<1>9. source'.kept = "whole" => Held'
  <2> SUFFICES ASSUME source'.kept = "whole" PROVE Held'
    OBVIOUS
  <2>1. CASE pc' = "undefined"
    BY <2>1 DEF Held
  <2>2. CASE pc' = "wclose"
    <3>1. put = 4 /\ blocks' = blocks \ {"palette", "trans_pal"}
      BY <1>3, <2>2
    <3>2. blocks \subseteq WOpened \cup {"info", "buffer", "palette", "trans_pal"}
      BY <1>1, <3>1 DEF IInv, Held
    <3>3. blocks' \subseteq WOpened' \cup LineKept' \cup {"info", "buffer"}
      BY <1>7, <3>1, <3>2
    <3> QED BY <2>2, <3>3 DEF Held
  <2> QED BY <1>3, <2>1, <2>2
<1>10. UndefinedOnly'
  <2> SUFFICES ASSUME pc' = "undefined", NothingFailed'
               PROVE  stream' = "destination" /\ Codec' = "PNG" /\ ~Roomy'
    BY DEF UndefinedOnly
  <2>1. NothingFailed /\ (put # 4 \/ Taken # 2)
    BY <1>1, <1>3 DEF NothingFailed
  <2>2. CASE put + room < 4
    <3>1. put \in Nat /\ room \in Nat /\ put' + room' = put + room
      BY <1>2, <1>4
    <3>2. ~(put' + room' >= 6)
      BY <2>2, <3>1, SMT
    <3> QED BY <1>2, <1>7, <3>2, DueWhole
  <2>3. CASE put = 4 /\ Taken # 2
    <3>1. put \in Nat /\ put = 4 /\ put' \in Nat /\ room' \in Nat /\ room' = 0 /\ put' < put + 2
      BY <1>2, <1>4, <2>3
    <3>2. ~(put' + room' >= 6)
      BY <3>1, ShortWrite
    <3> QED BY <1>2, <1>7, <3>2, DueWhole
  <2> QED BY <1>2, <2>1, <2>2, <2>3
<1> QED BY <1>5, <1>6, <1>8, <1>9, <1>10 DEF IInv

LEMMA CallWriteStep == IInv /\ CallWrite => IInv'
<1> SUFFICES ASSUME IInv, CallWrite PROVE IInv'
  OBVIOUS
<1>1. UNCHANGED <<stream, status>>
  BY DEF CallWrite
<1>2. CASE pc = "write" /\ (~Usable \/ NoBuffer)
  <2>1. ~Solid
    BY <1>2 DEF IInv, Ready, NoBuffer, Writing
  <2>2. Undefined
    BY <1>2 DEF CallWrite
  <2> QED BY <1>1, <2>1, <2>2, UndefinedStep
<1>3. CASE ~(pc = "write" /\ (~Usable \/ NoBuffer))
  <2>1. GIMEX_write
    BY <1>3 DEF CallWrite
  <2> QED BY <1>1, <2>1, JpgStep, StartRowsStep, WriteHeadStep, LineBufferStep, WriteRowStep,
             RowsWrittenStep, PngWriteStep, PngInfoStep, PngImageStep, PngEndStep DEF GIMEX_write
<1> QED BY <1>2, <1>3

LEMMA WriteNothingStep == IInv /\ WriteNothing => IInv'
<1> SUFFICES ASSUME IInv, WriteNothing PROVE IInv'
  OBVIOUS
<1>1. /\ pc = "write" /\ pc' = "wclose" /\ retval' = 0
      /\ UNCHANGED <<gCurrentGimex, asked, source, instance, info, buffer, blocks, failing,
                     put, room, left, stream, status>>
  BY DEF WriteNothing, Goto, dispatchVars
<1>2. TypeOK'
  <2>1. pc' \in Steps /\ retval' \in 0 .. 2
    BY <1>1, SMT DEF Steps, Reading, Writing
  <2> QED BY <1>1, <2>1, TypeParts, TypesAfter DEF IInv
<1>3. Solid' => Ready'
  BY <1>1, StillReady DEF Writing, NothingFailed
<1>4. Progress'
  BY <1>1 DEF IInv, Progress, Reading, Writing, PngSteps
<1>5. source'.kept = "whole" => Held'
  <2>1. WOpened' = WOpened
    BY <1>1, CodecKept
  <2> QED BY <1>1, <2>1 DEF IInv, Held
<1>6. UndefinedOnly'
  BY <1>1 DEF UndefinedOnly
<1> QED BY <1>2, <1>3, <1>4, <1>5, <1>6 DEF IInv

(* What is left of the blocks is freed at the end.                         *)
LEMMA FinishStep == IInv /\ Finish => IInv'
<1> SUFFICES ASSUME IInv, Finish PROVE IInv'
  OBVIOUS
<1>1. /\ pc = "wclose" /\ pc' = "exited" /\ status' = "done" /\ stream' = "closed"
      /\ instance' \in {instance, [instance EXCEPT !.alive = FALSE]}
      /\ blocks' = blocks \ ({"buffer", "info"} \cup WOpened)
      /\ UNCHANGED <<gCurrentGimex, asked, source, info, buffer, failing, put, room, left, retval>>
  BY DEF Finish, Return, Goto, WOpened, dispatchVars
<1>2. TypeOK'
  <2>1. pc' \in Steps /\ stream' \in Streams /\ status' \in Statuses
    BY <1>1 DEF Steps, Streams, Statuses
  <2>2. instance' \in Contexts /\ blocks' \subseteq Blocks
    BY <1>1, ContextMade, TypeParts DEF IInv
  <2> QED BY <1>1, <2>1, <2>2, TypeParts, TypesAfter DEF IInv
<1>3. Solid' => Ready'
  BY <1>1 DEF Ready, Reading, Writing
<1>4. Progress'
  BY <1>1 DEF Progress, Reading, Writing, PngSteps
<1>5. source'.kept = "whole" => Held'
  <2> SUFFICES ASSUME source'.kept = "whole", Codec' \in {"PNG", "JPG"} => Roomy'
               PROVE  blocks' \subseteq LineKept'
    BY <1>1 DEF Held
  <2>1. Codec' = Codec /\ LineKept' = LineKept
    BY <1>1, CodecKept
  <2>2. Roomy' <=> Roomy
    <3>1. Due' = Due
      BY <1>1, <2>1 DEF Due, Parts, WithPalette
    <3> QED BY <1>1, <3>1 DEF Roomy
  <2>3. blocks \subseteq WOpened \cup LineKept \cup {"info", "buffer"}
    BY <1>1, <2>1, <2>2 DEF IInv, Held
  <2> QED BY <1>1, <2>1, <2>3
<1>6. UndefinedOnly'
  BY <1>1 DEF UndefinedOnly
<1> QED BY <1>2, <1>3, <1>4, <1>5, <1>6 DEF IInv

LEMMA NextIInv == IInv /\ [Next]_vars => IInv'
<1> SUFFICES ASSUME IInv, [Next]_vars PROVE IInv'
  OBVIOUS
<1>1. CASE UNCHANGED vars
  <2>1. UNCHANGED <<pc, gCurrentGimex, asked, source, instance, info, buffer, blocks, failing,
                    put, room, left, retval, stream, status>>
    BY <1>1 DEF vars, dispatchVars, codecVars
  <2>2. TypeOK'
    BY <2>1, TypeParts, TypesAfter DEF IInv
  <2>3. /\ Codec' = Codec /\ Opened' = Opened /\ WOpened' = WOpened /\ LineKept' = LineKept
        /\ (Solid' <=> Solid) /\ (NothingFailed' <=> NothingFailed)
    BY <2>1, CodecKept DEF Solid, NothingFailed
  <2>4. Due' = Due
    BY <2>1, <2>3 DEF Due, Parts, WithPalette
  <2>5. Roomy' <=> Roomy
    BY <2>1, <2>4 DEF Roomy
  <2>6. Ready => Ready'
    BY <2>1, <2>3 DEF Ready, Headed, Genuine, Usable
  <2>7. Progress'
    BY <2>1, <2>3 DEF IInv, Progress
  <2>8. Held => Held'
    BY <2>1, <2>3, <2>5 DEF Held
  <2>9. UndefinedOnly'
    BY <2>1, <2>3, <2>5 DEF IInv, UndefinedOnly, AlphaPalette, Is
  <2> QED BY <2>1, <2>2, <2>3, <2>6, <2>7, <2>8, <2>9 DEF IInv
<1>2. CASE Next
  BY <1>2, OpenSourceStep, FindSourceStep, IsSourceStep, OpenContextStep, CallInfoStep,
     AllocateBufferStep, CallReadStep, OverrunStep, CloseSourceStep, FindDestinationStep,
     OpenDestinationStep, WOpenStep, CallWriteStep, WriteNothingStep, FinishStep DEF Next
<1> QED BY <1>1, <1>2

-----------------------------------------------------------------------------
(* The search for a codec.                                                 *)

Nothing == [score |-> 0, codec |-> 0]

Better(ext, lost, best, p) ==
  IF best.score < 4 /\ p \notin lost /\ MatchScore(ext, p) > best.score
  THEN [score |-> MatchScore(ext, p), codec |-> p.j]
  ELSE best

(* The fold over places that it is, and the sets of places that it is over.*)
Folds(ext, lost, it, n) ==
  it = [s \in SUBSET (1 .. n) |->
          IF s = {} THEN Nothing
          ELSE Better(ext, lost, it[s \ {Max(s)}], Places[Max(s)])]

LEMMA FoldExists ==
  ASSUME NEW ext, NEW lost
  PROVE  \A n \in Nat : \E it : Folds(ext, lost, it, n)
<1> DEFINE Step(it, s) == IF s = {} THEN Nothing
                          ELSE Better(ext, lost, it[s \ {Max(s)}], Places[Max(s)])
           P == {n \in Nat : \E it : Folds(ext, lost, it, n)}
<1>1. 0 \in P
  <2> DEFINE it == [s \in SUBSET (1 .. 0) |-> Nothing]
  <2>1. \A s \in SUBSET (1 .. 0) : s = {}
    OBVIOUS
  <2>2. Folds(ext, lost, it, 0)
    BY <2>1 DEF Folds
  <2> QED BY <2>2
<1>2. ASSUME NEW n \in Nat, n \in P PROVE n + 1 \in P
  <2>1. PICK it : Folds(ext, lost, it, n)
    BY <1>2
  <2>2. \A s \in SUBSET (1 .. n) : it[s] = Step(it, s)
    BY <2>1 DEF Folds
  <2> DEFINE new == [s \in SUBSET (1 .. n + 1) |->
                       IF n + 1 \in s THEN Better(ext, lost, it[s \ {n + 1}], Places[n + 1]) ELSE it[s]]
  <2>3. \A s \in SUBSET (1 .. n) : s \in SUBSET (1 .. n + 1) /\ n + 1 \notin s
    OBVIOUS
  <2>4. \A s \in SUBSET (1 .. n) : new[s] = it[s]
    BY <2>3
  <2>5. ASSUME NEW s \in SUBSET (1 .. n + 1)
        PROVE  new[s] = Step(new, s)
    <3>1. CASE n + 1 \in s
      <4>1. Max(s) = n + 1 /\ s # {}
        BY <3>1, MaxOf
      <4>2. s \ {n + 1} \in SUBSET (1 .. n)
        OBVIOUS
      <4>3. new[s \ {n + 1}] = it[s \ {n + 1}]
        BY <2>4, <4>2
      <4>4. new[s] = Better(ext, lost, it[s \ {n + 1}], Places[n + 1])
        BY <3>1
      <4> HIDE DEF new
      <4> QED BY <4>1, <4>3, <4>4
    <3>2. CASE n + 1 \notin s
      <4>1. s \in SUBSET (1 .. n)
        <5>1. \A x \in s : x \in 1 .. n + 1 /\ x # n + 1
          BY <3>2
        <5>2. \A x \in 1 .. n + 1 : x # n + 1 => x \in 1 .. n
          OBVIOUS
        <5> QED BY <5>1, <5>2, Zenon
      <4>2. new[s] = it[s] /\ new[s \ {Max(s)}] = it[s \ {Max(s)}]
        <5>1. s \ {Max(s)} \in SUBSET (1 .. n)
          BY <4>1, Zenon
        <5> QED BY <2>4, <4>1, <5>1
      <4> HIDE DEF new
      <4> QED BY <2>2, <4>1, <4>2
    <3> QED BY <3>1, <3>2
  <2>6. new = [s \in SUBSET (1 .. n + 1) |-> new[s]]
    OBVIOUS
  <2> HIDE DEF new
  <2>7. Folds(ext, lost, new, n + 1)
    BY <2>5, <2>6, Zenon DEF Folds
  <2> QED BY <2>7
<1> HIDE DEF P
<1>3. \A n \in Nat : n \in P
  BY <1>1, <1>2, SetInduction
<1> QED BY <1>3 DEF P

(* The places are looked at one after the other.                           *)
LEMMA LocatedRuns ==
  ASSUME NEW ext, NEW lost, NEW n \in Nat, DOMAIN Places = 1 .. n
  PROVE  \E f : /\ f[0] = Nothing
                /\ \A i \in 1 .. n : f[i] = Better(ext, lost, f[i - 1], Places[i])
                /\ Located(ext, lost) = f[n].codec
<1> DEFINE it == CHOOSE it : Folds(ext, lost, it, n)
           f == [i \in 0 .. n |-> it[1 .. i]]
<1>1. Located(ext, lost) = it[1 .. n].codec
  BY DEF Located, FoldLeft, MapThenFoldSet, Folds, Better, Nothing
<1>2. Folds(ext, lost, it, n)
  BY FoldExists
<1> HIDE DEF it
<1>3. f[0] = Nothing
  <2>1. 1 .. 0 = {} /\ {} \in SUBSET (1 .. n) /\ 0 \in 0 .. n
    OBVIOUS
  <2> QED BY <1>2, <2>1 DEF Folds
<1>4. ASSUME NEW i \in 1 .. n PROVE f[i] = Better(ext, lost, f[i - 1], Places[i])
  <2>1. i - 1 \in Nat /\ (i - 1) + 1 = i /\ i \in 1 .. i /\ 1 .. i \in SUBSET (1 .. n)
    OBVIOUS
  <2>2. Max(1 .. i) = i
    BY <2>1, MaxOf
  <2>3. (1 .. i) \ {i} = 1 .. i - 1 /\ 1 .. i # {}
    OBVIOUS
  <2>4. it[1 .. i] = Better(ext, lost, it[1 .. i - 1], Places[i])
    BY <1>2, <2>1, <2>2, <2>3 DEF Folds
  <2>5. i \in 0 .. n /\ i - 1 \in 0 .. n
    OBVIOUS
  <2> QED BY <2>4, <2>5
<1>5. f[n] = it[1 .. n]
  OBVIOUS
<1> HIDE DEF f
<1> QED BY <1>1, <1>3, <1>4, <1>5

(* Every extension of every codec but the first has its place.             *)
LEMMA PlacesOf ==
  /\ GIMEX_max \in Nat \ {0} /\ GIMEX_EXTENSIONS \in Nat
  /\ GIMEX_EXTENSIONS * (GIMEX_max - 1) \in Nat
  /\ DOMAIN Places = 1 .. GIMEX_EXTENSIONS * (GIMEX_max - 1)
  /\ \A n \in DOMAIN Places : Places[n].i \in 1 .. GIMEX_EXTENSIONS /\ Places[n].j \in 1 .. GIMEX_max - 1
  /\ \A i \in 1 .. GIMEX_EXTENSIONS, j \in 1 .. GIMEX_max - 1 :
       \E n \in DOMAIN Places : Places[n].i = i /\ Places[n].j = j
<1> DEFINE m == GIMEX_max - 1
           e == GIMEX_EXTENSIONS
<1>1. GIMEX_max \in Nat \ {0} /\ e \in Nat /\ m \in Nat /\ 0 * m = 0
  BY TableAssumption DEF GIMEX_max, GIMEX_EXTENSIONS
<1>2. DOMAIN Places = 1 .. e * m
  BY DEF Places
<1>3. ASSUME NEW n \in 1 .. e * m
      PROVE  Places[n] = [i |-> ((n - 1) \div m) + 1, j |-> ((n - 1) % m) + 1]
  BY DEF Places
<1> HIDE DEF m, e
<1>4. e * m \in Nat
  BY <1>1
<1>5. ASSUME NEW n \in 1 .. e * m
      PROVE  Places[n].i \in 1 .. e /\ Places[n].j \in 1 .. m
  <2> DEFINE d == (n - 1) \div m
             r == (n - 1) % m
  <2>1. m # 0
    <3>1. e * 0 = 0
      BY <1>1
    <3> QED BY <3>1
  <2>2. n - 1 \in Nat /\ n - 1 < e * m
    BY <1>4
  <2>3. d \in Nat /\ r = (n - 1) - m * d /\ r \in 0 .. m - 1
    BY <1>1, <2>1, <2>2, Division
  <2> HIDE DEF d, r
  <2>4. d < e
    <3> SUFFICES ASSUME e <= d PROVE FALSE
      BY <1>1, <2>3
    <3>1. e * m <= d * m /\ d * m = m * d /\ m * d \in Nat
      BY <1>1, <2>3
    <3> QED BY <1>4, <2>2, <2>3, <3>1
  <2>5. d + 1 \in 1 .. e /\ r + 1 \in 1 .. m
    BY <1>1, <2>3, <2>4
  <2>6. Places[n] = [i |-> d + 1, j |-> r + 1]
    BY <1>3 DEF d, r
  <2> QED BY <2>5, <2>6
<1>6. ASSUME NEW i \in 1 .. e, NEW j \in 1 .. m
      PROVE  \E n \in 1 .. e * m : Places[n].i = i /\ Places[n].j = j
  <2> DEFINE n == (i - 1) * m + (j - 1) + 1
  <2>1. i - 1 \in Nat /\ j - 1 \in 0 .. m - 1 /\ (i - 1) * m \in Nat /\ (i - 1) * m + m = i * m
    BY <1>1
  <2>2. n - 1 = (i - 1) * m + (j - 1)
    BY <2>1
  <2>3. i * m <= e * m
    BY <1>1
  <2>4. n \in 1 .. e * m
    BY <1>1, <1>4, <2>1, <2>3
  <2>5. (n - 1) \div m = i - 1 /\ (n - 1) % m = j - 1
    BY <1>1, <2>1, <2>2, DivisionOf
  <2> HIDE DEF n
  <2>6. Places[n] = [i |-> ((n - 1) \div m) + 1, j |-> ((n - 1) % m) + 1]
    BY <1>3, <2>4
  <2>7. Places[n] = [i |-> (i - 1) + 1, j |-> (j - 1) + 1]
    BY <2>5, <2>6, Zenon
  <2>8. (i - 1) + 1 = i /\ (j - 1) + 1 = j
    OBVIOUS
  <2>9. Places[n].i = i /\ Places[n].j = j
    BY <2>7, <2>8
  <2> QED BY <2>4, <2>9
<1>7. \A n \in DOMAIN Places : Places[n].i \in 1 .. e /\ Places[n].j \in 1 .. m
  BY <1>2, <1>5, Zenon
<1>8. \A i \in 1 .. e, j \in 1 .. m : \E n \in DOMAIN Places : Places[n].i = i /\ Places[n].j = j
  <2> TAKE i \in 1 .. e, j \in 1 .. m
  <2>1. \E n \in 1 .. e * m : Places[n].i = i /\ Places[n].j = j
    BY <1>6
  <2> QED BY <1>2, <2>1, Zenon
<1>9. GIMEX_max \in Nat \ {0} /\ e \in Nat /\ e * m \in Nat
  BY <1>1, <1>4
<1> USE DEF m, e
<1> QED BY <1>2, <1>7, <1>8, <1>9, Zenon

(* How well a codec goes with an extension is how well its best extension  *)
(* matches.                                                                *)
LEMMA RankIs ==
  ASSUME NEW ext, NEW j \in 1 .. GIMEX_max - 1
  PROVE  /\ Rank(j, ext) \in Nat
         /\ \A n \in DOMAIN Places : Places[n].j = j => MatchScore(ext, Places[n]) <= Rank(j, ext)
         /\ Rank(j, ext) # 0 =>
              \E n \in DOMAIN Places : Places[n].j = j /\ MatchScore(ext, Places[n]) = Rank(j, ext)
<1> DEFINE at == {i \in 1 .. GIMEX_EXTENSIONS : About(j).extensions[i] = ext}
           more == IF About(j).can_export THEN 2 ELSE 0
<1>1. j # 0 /\ more \in Nat
  BY PlacesOf
<1>2. Rank(j, ext) = IF at = {} THEN 0 ELSE (IF 1 \in at THEN 2 ELSE 1) + more
  BY <1>1 DEF Rank
<1>3. ASSUME NEW n \in DOMAIN Places, Places[n].j = j
      PROVE  /\ Places[n].i \in at =>
                  MatchScore(ext, Places[n]) = (IF Places[n].i = 1 THEN 2 ELSE 1) + more
             /\ Places[n].i \notin at => MatchScore(ext, Places[n]) = 0
  <2>1. Places[n].i \in 1 .. GIMEX_EXTENSIONS
    BY PlacesOf
  <2> QED BY <1>3, <2>1 DEF MatchScore
<1>4. at \subseteq 1 .. GIMEX_EXTENSIONS
  OBVIOUS
<1> HIDE DEF at, more
<1>5. Rank(j, ext) \in Nat
  BY <1>1, <1>2
<1>6. ASSUME NEW n \in DOMAIN Places, Places[n].j = j
      PROVE  MatchScore(ext, Places[n]) <= Rank(j, ext)
  <2>1. CASE Places[n].i \in at
    BY <1>1, <1>2, <1>3, <1>6, <2>1
  <2>2. CASE Places[n].i \notin at
    BY <1>3, <1>5, <1>6, <2>2
  <2> QED BY <2>1, <2>2
<1>7. ASSUME Rank(j, ext) # 0
      PROVE  \E n \in DOMAIN Places : Places[n].j = j /\ MatchScore(ext, Places[n]) = Rank(j, ext)
  <2>1. at # {}
    BY <1>2, <1>7
  <2>2. PICK i \in at : 1 \in at => i = 1
    BY <2>1
  <2>3. PICK n \in DOMAIN Places : Places[n].i = i /\ Places[n].j = j
    BY <1>4, PlacesOf
  <2>4. MatchScore(ext, Places[n]) = (IF i = 1 THEN 2 ELSE 1) + more
    BY <1>3, <2>3
  <2>5. i = 1 <=> 1 \in at
    BY <2>2
  <2> QED BY <1>2, <2>1, <2>3, <2>4, <2>5
<1> QED BY <1>5, <1>6, <1>7

(* What GIMEX_find comes to when nothing fails.                            *)
Suits(j, ext) ==
  /\ \A k \in Codecs : Rank(k, ext) <= Rank(j, ext)
  /\ Rank(j, ext) = 0 => j = 0

LEMMA LocatedSuits ==
  ASSUME NEW ext
  PROVE  Located(ext, {}) \in Codecs /\ Suits(Located(ext, {}), ext)
<1> DEFINE last == GIMEX_EXTENSIONS * (GIMEX_max - 1)
           Score(n) == MatchScore(ext, Places[n])
<1>1. last \in Nat /\ DOMAIN Places = 1 .. last /\ GIMEX_max \in Nat \ {0}
  BY PlacesOf
<1> HIDE DEF last
<1>2. PICK f : /\ f[0] = Nothing
               /\ \A i \in 1 .. last : f[i] = Better(ext, {}, f[i - 1], Places[i])
               /\ Located(ext, {}) = f[last].codec
  BY <1>1, LocatedRuns
<1>3. \A n \in 1 .. last : Score(n) \in 0 .. 4
  BY DEF MatchScore
<1> DEFINE Best(n) ==
      /\ f[n].score \in 0 .. 4
      /\ \A k \in 1 .. n : Score(k) <= f[n].score
      /\ f[n].score = 0 => f[n].codec = 0
      /\ f[n].score # 0 => \E k \in 1 .. n : f[n].codec = Places[k].j /\ Score(k) = f[n].score
           P == {n \in Nat : n <= last => Best(n)}
<1> HIDE DEF Score
<1>4. 0 \in P
  BY <1>2 DEF Nothing
<1>5. ASSUME NEW n \in Nat, n \in P PROVE n + 1 \in P
  <2> SUFFICES ASSUME n + 1 <= last PROVE Best(n + 1)
    OBVIOUS
  <2>1. n <= last /\ n + 1 \in 1 .. last /\ (n + 1) - 1 = n
    BY <1>1
  <2>2. Best(n)
    BY <1>5, <2>1
  <2>3. f[n + 1] = IF f[n].score < 4 /\ Score(n + 1) > f[n].score
                   THEN [score |-> Score(n + 1), codec |-> Places[n + 1].j] ELSE f[n]
    BY <1>2, <2>1 DEF Better, Score
  <2>4. Score(n + 1) \in 0 .. 4
    BY <1>3, <2>1
  <2>5. \A k \in 1 .. n + 1 : k = n + 1 \/ k \in 1 .. n
    OBVIOUS
  <2>6. \A k \in 1 .. n : k \in 1 .. n + 1 /\ k \in 1 .. last
    BY <1>1, <2>1
  <2>7. n + 1 \in 1 .. n + 1
    OBVIOUS
  <2>8. CASE f[n].score < 4 /\ Score(n + 1) > f[n].score
    <3>1. f[n + 1].score = Score(n + 1) /\ f[n + 1].codec = Places[n + 1].j
      BY <2>3, <2>8
    <3>2. \A k \in 1 .. n + 1 : Score(k) <= f[n + 1].score
      BY <1>3, <2>2, <2>4, <2>5, <2>6, <2>8, <3>1
    <3>3. f[n + 1].score # 0 /\ f[n + 1].score \in 0 .. 4
      BY <2>2, <2>4, <2>8, <3>1
    <3> QED BY <2>7, <3>1, <3>2, <3>3
  <2>9. CASE ~(f[n].score < 4 /\ Score(n + 1) > f[n].score)
    <3>1. f[n + 1] = f[n]
      BY <2>3, <2>9
    <3>2. Score(n + 1) <= f[n].score
      BY <2>2, <2>4, <2>9
    <3>3. \A k \in 1 .. n + 1 : Score(k) <= f[n + 1].score
      BY <2>2, <2>5, <3>1, <3>2
    <3> QED BY <2>2, <2>6, <3>1, <3>3
  <2> QED BY <2>8, <2>9
<1> HIDE DEF P
<1>6. \A n \in Nat : n \in P
  BY <1>4, <1>5, SetInduction
<1>7. Best(last)
  BY <1>1, <1>6 DEF P
<1> DEFINE c == f[last].codec
           most == f[last].score
<1>8. \A k \in Codecs : k = 0 \/ k \in 1 .. GIMEX_max - 1
  BY <1>1 DEF Codecs
<1>9. \A k \in 1 .. GIMEX_max - 1 : k \in Codecs
  BY <1>1 DEF Codecs
<1>10. 0 \in Codecs /\ Rank(0, ext) = 0
  BY <1>1 DEF Codecs, Rank
<1>11. \A k \in Codecs : Rank(k, ext) \in Nat /\ Rank(k, ext) <= most
  <2> TAKE k \in Codecs
  <2>1. CASE k = 0
    BY <1>7, <1>10, <2>1
  <2>2. CASE k \in 1 .. GIMEX_max - 1
    <3>1. /\ Rank(k, ext) \in Nat
          /\ Rank(k, ext) # 0 => \E n \in 1 .. last : Score(n) = Rank(k, ext)
      BY <1>1, <2>2, RankIs DEF Score
    <3> QED BY <1>7, <3>1
  <2> QED BY <1>8, <2>1, <2>2
<1>12. c \in Codecs /\ most <= Rank(c, ext) /\ (most = 0 => c = 0)
  <2>1. CASE most = 0
    BY <1>7, <1>10, <2>1
  <2>2. CASE most # 0
    <3>1. PICK n \in 1 .. last : c = Places[n].j /\ Score(n) = most
      BY <1>7, <2>2
    <3>2. Places[n].j \in 1 .. GIMEX_max - 1
      BY <1>1, PlacesOf
    <3>3. Score(n) <= Rank(c, ext)
      BY <1>1, <3>1, <3>2, RankIs DEF Score
    <3> QED BY <1>9, <2>2, <3>1, <3>2, <3>3
  <2> QED BY <2>1, <2>2
<1>13. most \in 0 .. 4
  BY <1>7
<1>14. Located(ext, {}) = c
  BY <1>2
<1> HIDE DEF c, most
<1>15. \A k \in Codecs : Rank(k, ext) <= Rank(c, ext)
  BY <1>11, <1>12, <1>13
<1>16. Rank(c, ext) = 0 => c = 0
  BY <1>11, <1>12, <1>13
<1> QED BY <1>12, <1>14, <1>15, <1>16 DEF Suits

(* What is found when no allocation has failed.                            *)
LEMMA FoundSuits ==
  ASSUME IInv, NEW ext, Find(ext), NothingFailed'
  PROVE  gCurrentGimex' \in Codecs /\ Suits(gCurrentGimex', ext) /\ asked' = ext
<1>1. failing \in 0 .. MaxFailures
  BY TypeParts DEF IInv
<1>2. ~Galloc(FALSE)
  BY <1>1, GallocType
<1>3. GIMEX_find(ext, {})
  BY <1>2 DEF Find
<1>4. gCurrentGimex' = Located(ext, {}) /\ asked' = ext
  BY <1>3, LocatedSuits DEF GIMEX_find, GIMEX_set
<1> QED BY <1>4, LocatedSuits

(* Only a search sets the codec, what has failed has failed for good, and  *)
(* the source stays as it is.                                              *)
LEMMA SearchOnly ==
  ASSUME IInv, Next
  PROVE  /\ NothingFailed' => NothingFailed
         /\ source' = source
         /\ (UNCHANGED <<gCurrentGimex, asked>>) \/ (\E ext : Find(ext))
<1>1. failing \in 0 .. MaxFailures
  BY TypeParts DEF IInv
<1>2. SUFFICES /\ source' = source
               /\ failing' = failing \/ (\E succeeds \in BOOLEAN : Galloc(succeeds))
               /\ (UNCHANGED <<gCurrentGimex, asked>>) \/ (\E ext : Find(ext))
  BY <1>1, GallocType DEF NothingFailed
<1>3. ASSUME NEW ext, Find(ext)
      PROVE  failing' = failing \/ (\E succeeds \in BOOLEAN : Galloc(succeeds))
  BY <1>3 DEF Find
<1>4. CASE OpenSource \/ IsSource \/ CloseSource \/ OpenDestination \/ WriteNothing \/ Finish
  BY <1>4 DEF OpenSource, IsSource, CloseSource, OpenDestination, WriteNothing, Finish,
              dispatchVars, codecVars
<1>5. CASE FindSource
  BY <1>3, <1>5 DEF FindSource, dispatchVars
<1>6. CASE FindDestination
  BY <1>3, <1>6 DEF FindDestination, dispatchVars
<1>7. CASE OpenContext \/ WOpen
  BY <1>7 DEF OpenContext, WOpen, GIMEX_open, dispatchVars
<1>8. CASE CallInfo
  BY <1>8 DEF CallInfo, GIMEX_info, Undefined, dispatchVars, codecVars
<1>9. CASE AllocateBuffer
  BY <1>9 DEF AllocateBuffer, Undefined, dispatchVars, codecVars
<1>10. CASE CallRead \/ Overrun
  BY <1>10 DEF CallRead, Overrun, GIMEX_read, Undefined, dispatchVars, codecVars
<1>11. CASE CallWrite
  <2>1. CASE pc = "write" /\ (~Usable \/ NoBuffer)
    BY <1>11, <2>1 DEF CallWrite, Undefined, dispatchVars, codecVars
  <2>2. CASE GIMEX_write
    <3>1. CASE JPG_write
      BY <3>1 DEF JPG_write, dispatchVars
    <3>2. CASE StartRows \/ LineBuffer
      BY <3>2 DEF StartRows, LineBuffer, dispatchVars
    <3>3. CASE WriteHead \/ WriteRow \/ RowsWritten
      BY <3>3 DEF WriteHead, WriteRow, RowsWritten, dispatchVars
    <3>4. CASE PNG_write
      BY <3>4 DEF PNG_write, dispatchVars
    <3>5. CASE PngInfo \/ PNG_write_gimex \/ PngEnd
      BY <3>5 DEF PngInfo, PNG_write_gimex, PngEnd, dispatchVars
    <3> QED BY <2>2, <3>1, <3>2, <3>3, <3>4, <3>5 DEF GIMEX_write
  <2> QED BY <1>11, <2>1, <2>2 DEF CallWrite
<1> QED BY <1>4, <1>5, <1>6, <1>7, <1>8, <1>9, <1>10, <1>11 DEF Next

-----------------------------------------------------------------------------
(* Converting a sound source: the codec is the source's until it is closed *)
(* and what is written and what is left to write are all that is due, if   *)
(* there is room for it.                                                   *)

InTime ==
  /\ pc \in Reading \ {"find"} => Codec = source.format
  /\ pc \in {"buffer", "read", "close"} \cup Writing => info = "picture"
  /\ pc \in {"close"} \cup Writing => buffer = "picture"
  /\ pc = "wfind" => stream = "closed"

InPieces ==
  /\ pc \in {"chunks", "rows"} /\ Roomy => put + 2 * Len(left) = Due
  /\ pc = "chunks" /\ Codec = "BMP" => "line_buffer" \in blocks
  /\ pc = "chunks" /\ Roomy /\ left # <<>> /\ Head(left) = "palette" => retval = 2
  /\ pc = "wclose" /\ Codec \in Implemented /\ Roomy => put = Due

OnCourse == InTime /\ InPieces /\ Converts

LEMMA DueKept ==
  gCurrentGimex' = gCurrentGimex /\ source' = source /\ info' = info => Codec' = Codec /\ Due' = Due
  BY DEF Codec, About, Due, Parts, WithPalette

LEMMA DueType == Due \in Nat /\ Len(Parts) \in Nat
<1>1. Len(Parts) \in Nat
  BY PartsType
<1> HIDE DEF Parts
<1>2. 2 * 3 \in Nat /\ 2 * Len(Parts) \in Nat
  BY <1>1
<1> QED BY <1>1, <1>2 DEF Due

(* The codec of a sound source's name is the codec of the source.          *)
LEMMA SoundCodec ==
  ASSUME Sound, source \in Sources, NEW c \in Codecs, Suits(c, source.ext)
  PROVE  c # 0 /\ source.ext # "none" /\ About(c).name = source.format
<1>1. PICK j \in Codecs : /\ About(j).name = source.format
                          /\ Rank(j, source.ext) >= 3
  BY DEF Sound
<1>2. \A k \in Codecs : Rank(k, source.ext) \in Nat
  <2> TAKE k \in Codecs
  <2>1. k = 0 \/ k \in 1 .. GIMEX_max - 1
    BY PlacesOf DEF Codecs
  <2>2. Rank(0, source.ext) = 0
    BY DEF Rank
  <2> QED BY <2>1, <2>2, RankIs
<1>3. Rank(c, source.ext) >= 3 /\ c # 0
  <2>1. Rank(j, source.ext) <= Rank(c, source.ext)
    BY DEF Suits
  <2>2. Rank(c, source.ext) >= 3
    BY <1>1, <1>2, <2>1
  <2>3. Rank(0, source.ext) = 0
    BY DEF Rank
  <2> QED BY <2>2, <2>3
<1>4. source.ext # "none"
  <2> SUFFICES ASSUME source.ext = "none" PROVE FALSE
    OBVIOUS
  <2>1. c + 1 \in DOMAIN gFunctions
    <3>1. c + 1 \in 1 .. Len(gFunctions)
      BY PlacesOf DEF Codecs, GIMEX_max
    <3> QED BY <3>1, TableAssumption
  <2>2. \A i \in 1 .. GIMEX_EXTENSIONS : About(c).extensions[i] # "none"
    BY <2>1, TableAssumption DEF About, GIMEX_EXTENSIONS
  <2>3. Rank(c, "none") = 0
    BY <2>2 DEF Rank
  <2> QED BY <1>3, <2>3
<1>5. source.ext \in Extensions
  BY <1>4, SourceType
<1> QED BY <1>1, <1>3, <1>4, <1>5, ExportersAssumption

LEMMA CourseToRead ==
  ASSUME IInv, NothingFailed, NothingFailed', Sound, OnCourse,
         OpenSource \/ FindSource \/ IsSource \/ OpenContext
  PROVE  OnCourse'
<1>1. source \in Sources /\ gCurrentGimex \in Codecs /\ source' = source /\ source.kept = "whole"
      /\ source.format \in Implemented
  BY TypeParts DEF IInv, Sound, OpenSource, FindSource, IsSource, OpenContext, codecVars
<1>2. CASE OpenSource
  BY <1>2 DEF OpenSource, Return, Goto, dispatchVars, codecVars, OnCourse, InTime, InPieces, Converts,
              Reading, Writing
<1>3. CASE FindSource
  <2>1. gCurrentGimex' # 0 /\ Codec' = source.format
    <3>1. source.ext # "none"
      <4>1. 0 \in Codecs
        BY PlacesOf DEF Codecs
      <4>2. Suits(Located(source.ext, {}), source.ext) /\ Located(source.ext, {}) \in Codecs
        BY LocatedSuits
      <4> QED BY <1>1, <4>2, SoundCodec
    <3>2. Find(source.ext)
      BY <1>3, <3>1 DEF FindSource
    <3>3. gCurrentGimex' \in Codecs /\ Suits(gCurrentGimex', source.ext)
      BY <3>2, FoundSuits
    <3>4. gCurrentGimex' # 0 /\ About(gCurrentGimex').name = source.format
      BY <1>1, <3>3, SoundCodec
    <3> QED BY <3>4 DEF Codec, About
  <2>2. pc' = "is"
    BY <1>3, <2>1 DEF FindSource, Goto
  <2> QED BY <1>1, <2>1, <2>2 DEF OnCourse, InTime, InPieces, Converts, Reading, Writing
<1>4. CASE IsSource
  <2>1. pc = "is" /\ Codec = source.format
    BY <1>4 DEF IsSource, OnCourse, InTime, Reading
  <2>2. Recognised /\ Answers = {Recognised}
    BY <1>1, <2>1 DEF Recognised, Genuine, Answers, Implemented
  <2>3. Answers = {TRUE}
    BY <2>2
  <2>4. pc' = "open" /\ gCurrentGimex' = gCurrentGimex
    BY <1>4, <2>3 DEF IsSource, Goto, dispatchVars
  <2>5. Codec' = Codec
    BY <2>4, CodecKept
  <2> QED BY <1>1, <2>1, <2>4, <2>5 DEF OnCourse, InTime, InPieces, Converts, Reading, Writing
<1>5. CASE OpenContext
  <2>1. pc = "open" /\ pc' = "info" /\ gCurrentGimex' = gCurrentGimex
    BY <1>5 DEF OpenContext, Goto, dispatchVars
  <2>2. Codec = source.format /\ Codec' = Codec
    BY <2>1, CodecKept DEF OnCourse, InTime, Reading
  <2> QED BY <1>1, <2>1, <2>2 DEF OnCourse, InTime, InPieces, Converts, Reading, Writing
<1> QED BY <1>2, <1>3, <1>4, <1>5

LEMMA CourseRead ==
  ASSUME IInv, NothingFailed, NothingFailed', Sound, OnCourse,
         CallInfo \/ AllocateBuffer \/ CallRead \/ CloseSource
  PROVE  OnCourse'
<1>1. /\ failing \in 0 .. MaxFailures /\ source.kept = "whole" /\ source.format \in Implemented
      /\ ~Is("few") /\ ~Is("packed") /\ ~Is("fifteen")
  BY TypeParts DEF IInv, Sound, Is
<1>2. ~Galloc(FALSE)
  BY <1>1, GallocType
<1>3. Solid
  BY <1>1 DEF Solid, Implemented
<1>4. CASE CallInfo
  <2>1. pc = "info" /\ Codec = source.format
    BY <1>4 DEF CallInfo, OnCourse, InTime, Reading
  <2>2. Usable
    BY <1>3, <2>1 DEF IInv, Ready
  <2>3. /\ pc' = "buffer" /\ info' \in Infos
        /\ gCurrentGimex' = gCurrentGimex /\ source' = source
    BY <1>2, <1>4, <2>2 DEF CallInfo, GIMEX_info, Goto, dispatchVars
  <2>4. Infos = {"picture"}
    BY <1>1, <2>1 DEF Infos, Headed, Genuine, Implemented
  <2>5. Codec' = Codec
    BY <2>3, CodecKept
  <2> QED BY <2>1, <2>3, <2>4, <2>5 DEF OnCourse, InTime, InPieces, Converts, Reading, Writing
<1>5. CASE AllocateBuffer
  <2>1. pc = "buffer" /\ Codec = source.format /\ info = "picture"
    BY <1>5 DEF AllocateBuffer, OnCourse, InTime, Reading
  <2>2. pc' = "read" /\ gCurrentGimex' = gCurrentGimex /\ source' = source /\ info' = info
    BY <1>5, <2>1 DEF AllocateBuffer, Goto, dispatchVars
  <2>3. Codec' = Codec
    BY <2>2, CodecKept
  <2> QED BY <2>1, <2>2, <2>3 DEF OnCourse, InTime, InPieces, Converts, Reading, Writing
<1>6. CASE CallRead
  <2>1. pc = "read" /\ Codec = source.format /\ info = "picture"
    BY <1>6 DEF CallRead, OnCourse, InTime, Reading
  <2>2. ~NoBuffer
    BY <1>3, <2>1 DEF IInv, Ready, NoBuffer
  <2>3. /\ pc' = "close" /\ GIMEX_read
        /\ gCurrentGimex' = gCurrentGimex /\ source' = source /\ info' = info
    BY <1>6, <2>2 DEF CallRead, Goto, dispatchVars
  <2>4. buffer' = "picture"
    <3>1. ReadInto = {"picture"}
      BY <1>1, <2>1 DEF ReadInto, Genuine
    <3> QED BY <1>1, <1>2, <2>1, <2>3, <3>1 DEF GIMEX_read
  <2>5. Codec' = Codec
    BY <2>3, CodecKept
  <2> QED BY <2>1, <2>3, <2>4, <2>5 DEF OnCourse, InTime, InPieces, Converts, Reading, Writing
<1>7. CASE CloseSource
  BY <1>7 DEF CloseSource, Goto, OnCourse, InTime, InPieces, Converts, Reading, Writing
<1> QED BY <1>4, <1>5, <1>6, <1>7

LEMMA CourseToWrite ==
  ASSUME IInv, NothingFailed, NothingFailed', Sound, OnCourse,
         FindDestination \/ OpenDestination \/ WOpen \/ WriteNothing
  PROVE  OnCourse'
<1>1. CASE FindDestination
  <2>1. /\ pc = "wfind" /\ pc' \in {"fopen", "exited"} /\ UNCHANGED <<info, buffer, stream>>
        /\ pc' = "exited" => status' = "no codec"
    BY <1>1 DEF FindDestination, Return, Goto
  <2> QED BY <2>1 DEF OnCourse, InTime, InPieces, Converts, Reading, Writing
<1>2. CASE OpenDestination
  <2>1. /\ pc = "fopen" /\ pc' \in {"wopen", "exited"} /\ UNCHANGED <<info, buffer>>
        /\ pc' = "exited" => status' = "no destination"
    BY <1>2 DEF OpenDestination, Return, Goto
  <2> QED BY <2>1 DEF OnCourse, InTime, InPieces, Converts, Reading, Writing
<1>3. CASE WOpen
  BY <1>3 DEF WOpen, Goto, OnCourse, InTime, InPieces, Converts, Reading, Writing
<1>4. CASE WriteNothing
  <2>1. pc = "write" /\ pc' = "wclose" /\ Codec \notin Implemented /\ gCurrentGimex' = gCurrentGimex
        /\ UNCHANGED <<info, buffer>>
    BY <1>4 DEF WriteNothing, Goto, dispatchVars
  <2>2. Codec' = Codec
    BY <2>1, CodecKept
  <2> QED BY <2>1, <2>2 DEF OnCourse, InTime, InPieces, Converts, Reading, Writing
<1> QED BY <1>1, <1>2, <1>3, <1>4

LEMMA CourseJpg ==
  ASSUME IInv, NothingFailed, NothingFailed', Sound, OnCourse, JPG_write
  PROVE  OnCourse'
<1>1. failing \in 0 .. MaxFailures /\ put \in Nat /\ room \in Nat
  BY TypeParts DEF IInv
<1>2. ~Galloc(FALSE)
  BY <1>1, GallocType
<1>3. pc = "write" /\ info = "picture" /\ buffer = "picture" /\ put = 0
  BY DEF JPG_write, IInv, Progress, OnCourse, InTime, Writing
<1>4. /\ pc' \in {"wclose", "undefined"} /\ gCurrentGimex' = gCurrentGimex
      /\ UNCHANGED <<source, info, buffer>>
      /\ put' = (IF room >= Due THEN Due ELSE room) /\ room' = room - put'
  BY <1>2, <1>3 DEF JPG_write, Goto, dispatchVars
<1>5. Due' = Due /\ Due \in Nat
  BY <1>4, DueKept, DueType
<1>6. Roomy' => put' = Due'
  <2>1. put' + room' = room
    BY <1>1, <1>4, <1>5
  <2> QED BY <1>1, <1>4, <1>5, <2>1 DEF Roomy
<1> QED BY <1>3, <1>4, <1>6 DEF OnCourse, InTime, InPieces, Converts, Reading, Writing

(* A piece that there is room for is written whole.                        *)
LEMMA PieceDue ==
  ASSUME put \in Nat, room \in Nat, left \in Pieces, left # <<>>,
         left' = Tail(left), Gwrite, Due' = Due, Roomy => put + 2 * Len(left) = Due
  PROVE  Roomy' => Roomy /\ put' + 2 * Len(left') = Due' /\ Taken = 2
<1>1. Len(left) \in Nat /\ Len(left) > 0 /\ Len(left') = Len(left) - 1
  BY DEF Pieces
<1>2. Due \in Nat /\ put' + room' = put + room /\ put' = put + Taken
  BY GwriteType, DueType
<1>3. Roomy' <=> Roomy
  BY <1>2 DEF Roomy
<1>4. ASSUME Roomy PROVE put' + 2 * Len(left') = Due' /\ Taken = 2
  <2>1. put + room >= Due /\ put + 2 * Len(left) = Due
    BY <1>4 DEF Roomy
  <2>2. Taken = 2
    BY <1>1, <1>2, <2>1 DEF Taken
  <2> QED BY <1>1, <1>2, <2>1, <2>2
<1> QED BY <1>3, <1>4

LEMMA CourseRows ==
  ASSUME IInv, NothingFailed, NothingFailed', Sound, OnCourse,
         StartRows \/ WriteHead \/ LineBuffer \/ WriteRow \/ RowsWritten
  PROVE  OnCourse'
<1>1. /\ failing \in 0 .. MaxFailures /\ put \in Nat /\ room \in Nat /\ left \in Pieces
      /\ Due \in Nat /\ Len(Parts) \in Nat
  BY TypeParts, DueType DEF IInv
<1>2. ~Galloc(FALSE)
  BY <1>1, GallocType
<1>3. gCurrentGimex' = gCurrentGimex /\ UNCHANGED <<source, info, buffer>>
  BY DEF StartRows, WriteHead, LineBuffer, WriteRow, RowsWritten, dispatchVars
<1>4. Due' = Due /\ Codec' = Codec
  BY <1>3, DueKept
<1>5. pc \in Writing /\ info = "picture" /\ buffer = "picture"
  <2>1. pc \in {"write", "chunks", "rows"}
    BY DEF StartRows, WriteHead, LineBuffer, WriteRow, RowsWritten
  <2> QED BY <2>1 DEF OnCourse, InTime, Writing
<1>6. ASSUME pc' \in Writing \ {"wfind"} PROVE InTime' /\ Converts'
  BY <1>3, <1>5, <1>6 DEF InTime, Converts, Reading, Writing
<1>7. CASE StartRows
  <2>1. /\ pc = "write" /\ pc' = "chunks" /\ left' = Parts /\ put' = put
        /\ Codec \in {"TGA", "BMP"} /\ put = 0
    BY <1>7 DEF StartRows, Goto, IInv, Progress
  <2>2. Codec = "BMP" => "line_buffer" \in blocks'
    BY <1>2, <1>7 DEF StartRows
  <2>3. Due = 2 * Len(Parts)
    BY <2>1 DEF Due
  <2>4. put' + 2 * Len(left') = Due'
    BY <1>1, <1>4, <2>1, <2>3
  <2>5. Parts # <<>> => Head(Parts) # "palette"
    <3> DEFINE rows == [r \in 1 .. (IF info = "picture" THEN Rows ELSE 0) |-> "row"]
    <3>1. rows \in Seq({"row"})
      BY CodecsAssumption
    <3> HIDE DEF rows
    <3>2. Head(<<"header", "palette">> \o rows) = "header" /\ Head(<<"header">> \o rows) = "header"
      BY <3>1
    <3> QED BY <3>2 DEF Parts, rows
  <2> QED BY <1>4, <1>6, <2>1, <2>2, <2>4, <2>5 DEF OnCourse, InPieces, Writing
<1>8. CASE WriteHead
  <2>1. pc = "chunks" /\ pc' = "chunks" /\ left # <<>> /\ left' = Tail(left) /\ blocks' = blocks
    BY <1>8 DEF WriteHead
  <2>2. InPieces
    BY DEF OnCourse
  <2>3. CASE Gwrite /\ retval' = Taken
    <3>1. Roomy' => put' + 2 * Len(left') = Due' /\ retval' = 2
      BY <1>1, <1>4, <2>1, <2>2, <2>3, PieceDue DEF InPieces
    <3> QED BY <1>4, <1>6, <2>1, <2>2, <3>1 DEF OnCourse, InPieces, Writing
  <2>4. CASE Codec = "TGA" /\ Head(left) = "palette" /\ retval = 0 /\ UNCHANGED <<put, room, retval>>
    <3>1. ~Roomy /\ ~Roomy'
      BY <1>4, <2>1, <2>2, <2>4 DEF InPieces, Roomy
    <3> QED BY <1>4, <1>6, <2>1, <2>2, <2>4, <3>1 DEF OnCourse, InPieces, Writing
  <2> QED BY <1>8, <2>3, <2>4 DEF WriteHead
<1>9. CASE LineBuffer
  <2>1. /\ pc = "chunks" /\ pc' = "rows" /\ UNCHANGED <<left, put, room>>
    BY <1>2, <1>9 DEF LineBuffer, Goto, OnCourse, InPieces
  <2>2. Roomy' <=> Roomy
    BY <1>4, <2>1 DEF Roomy
  <2> QED BY <1>4, <1>6, <2>1, <2>2 DEF OnCourse, InPieces, Writing
<1>10. CASE WriteRow
  <2>1. pc = "rows" /\ pc' = "rows" /\ left # <<>> /\ left' = Tail(left) /\ Gwrite
    BY <1>10 DEF WriteRow
  <2>2. Roomy' => put' + 2 * Len(left') = Due'
    BY <1>1, <1>4, <2>1, PieceDue DEF OnCourse, InPieces
  <2> QED BY <1>6, <2>1, <2>2 DEF OnCourse, InPieces, Writing
<1>11. CASE RowsWritten
  <2>1. pc = "rows" /\ pc' = "wclose" /\ left = <<>> /\ UNCHANGED <<put, room>>
    BY <1>11 DEF RowsWritten, Goto
  <2>2. Roomy' => put' = Due'
    BY <1>1, <1>4, <2>1 DEF OnCourse, InPieces, Roomy
  <2> QED BY <1>6, <2>1, <2>2 DEF OnCourse, InPieces, Writing
<1> QED BY <1>7, <1>8, <1>9, <1>10, <1>11

LEMMA CoursePng ==
  ASSUME IInv, NothingFailed, NothingFailed', Sound, OnCourse,
         PNG_write \/ PngInfo \/ PNG_write_gimex \/ PngEnd
  PROVE  OnCourse'
<1>1. failing \in 0 .. MaxFailures /\ put \in Nat /\ room \in Nat
  BY TypeParts DEF IInv
<1>2. ~Galloc(FALSE)
  BY <1>1, GallocType
<1>3. gCurrentGimex' = gCurrentGimex /\ UNCHANGED <<source, info, buffer>>
  BY DEF PNG_write, PngInfo, PNG_write_gimex, PngEnd, dispatchVars
<1>4. /\ pc \in {"write", "png_info", "png_image", "png_end"} /\ Codec = "PNG"
      /\ pc' \in {"png_info", "png_image", "png_end", "wclose", "undefined"}
  BY DEF PNG_write, PngInfo, PNG_write_gimex, PngEnd, BackInPngWrite, Goto, IInv, Progress, PngSteps
<1>5. info = "picture" /\ buffer = "picture"
  BY <1>4 DEF OnCourse, InTime, Writing
<1>6. InTime' /\ Converts'
  BY <1>3, <1>4, <1>5 DEF InTime, Converts, Reading, Writing
<1>7. Codec' = "PNG" /\ Due' = 6
  BY <1>3, <1>4, DueKept DEF Due
<1>8. ASSUME pc' = "wclose", Roomy' PROVE put' = Due'
  <2>1. put' + room' >= 6
    BY <1>7, <1>8 DEF Roomy
  <2>2. CASE PngInfo
    <3>1. pc = "png_info" /\ put = 0 /\ Gwrite /\ Taken # 2
      BY <1>5, <1>8, <2>2 DEF PngInfo, Goto, IInv, Progress, PngSteps, Reading
    <3>2. put' \in Nat /\ room' \in Nat /\ room' = 0 /\ put' < put + 2
      BY <1>1, <3>1, GwriteType
    <3>3. put = 0 /\ ~(put' + room' >= 6)
      BY <1>1, <3>1, <3>2, ShortWrite
    <3> QED BY <2>1, <3>3
  <2>3. CASE PngEnd
    <3>1. put = Due - 2 /\ Taken = 2 /\ Gwrite
      BY <1>8, <2>3 DEF PngEnd, Goto
    <3>2. Due = 6
      BY <1>4 DEF Due
    <3> QED BY <1>1, <1>7, <3>1, <3>2, GwriteType
  <2>4. CASE PNG_write \/ PNG_write_gimex
    BY <1>2, <1>8, <2>4 DEF PNG_write, PNG_write_gimex, Goto
  <2> QED BY <2>2, <2>3, <2>4
<1>9. InPieces'
  BY <1>4, <1>8 DEF InPieces
<1> QED BY <1>6, <1>9 DEF OnCourse

LEMMA CourseDone ==
  ASSUME IInv, NothingFailed, NothingFailed', Sound, OnCourse, Finish
  PROVE  OnCourse'
<1>1. /\ pc = "wclose" /\ pc' = "exited" /\ status' = "done" /\ gCurrentGimex' = gCurrentGimex
      /\ UNCHANGED <<source, info, buffer, put, room>>
  BY DEF Finish, Return, Goto, dispatchVars
<1>2. Codec' = Codec /\ Due' = Due
  BY <1>1, DueKept
<1>3. buffer = "picture" /\ (Codec \in Implemented /\ Roomy => put = Due)
  BY <1>1 DEF OnCourse, InTime, InPieces, Writing
<1>4. Roomy' <=> Roomy
  BY <1>1, <1>2 DEF Roomy
<1> QED BY <1>1, <1>2, <1>3, <1>4 DEF OnCourse, InTime, InPieces, Converts, Reading, Writing

LEMMA CourseNext ==
  ASSUME IInv, NothingFailed, NothingFailed', Sound, OnCourse, Next
  PROVE  OnCourse'
<1>1. ~Overrun
  BY DEF Overrun, ReadOverruns, Is, Sound
<1>2. CASE CallWrite
  <2>1. CASE pc = "write" /\ (~Usable \/ NoBuffer)
    <3>1. Solid
      BY DEF Solid, Sound, Implemented
    <3>2. Usable /\ ~NoBuffer
      BY <2>1, <3>1 DEF IInv, Ready, NoBuffer, Writing
    <3> QED BY <2>1, <3>2
  <2>2. CASE GIMEX_write
    BY <2>2, CourseJpg, CourseRows, CoursePng DEF GIMEX_write
  <2> QED BY <1>2, <2>1, <2>2 DEF CallWrite
<1> QED BY <1>1, <1>2, CourseToRead, CourseRead, CourseToWrite, CourseDone DEF Next

-----------------------------------------------------------------------------
(* The variables keep their types: gimexconv never writes more than the    *)
(* disk takes, and frees only what it has made.                            *)
THEOREM TypeCorrect == Spec => []TypeOK
<1>1. IInv => TypeOK
  BY DEF IInv
<1> QED BY <1>1, InitIInv, NextIInv, PTL DEF Spec

(* main ignores most of what GIMEX returns; what the model counts as       *)
(* undefined has one of UndefinedOnly's causes all the same, and no codec  *)
(* gets another's context.                                                 *)
THEOREM UndefinedCauses == Spec => []UndefinedOnly
<1>1. IInv => UndefinedOnly
  BY DEF IInv
<1> QED BY <1>1, InitIInv, NextIInv, PTL DEF Spec

(* Of a file that is not cut off everything that main, GIMEX and the       *)
(* codecs allocate is freed, but for BMP_write's line buffer, and what a   *)
(* PNG or JPEG leaves behind on a disk that is full.                       *)
THEOREM MemoryComesBack == Spec => []MemoryReturned
<1>1. IInv => MemoryReturned
  BY DEF IInv, Held, MemoryReturned, LineKept
<1> QED BY <1>1, InitIInv, NextIInv, PTL DEF Spec

(* GIMEX_find comes to the codec that suits the extension best, whatever   *)
(* the table and in whichever order it looks.                              *)
THEOREM BestFound == Spec => []FindsBest
<1>1. Init => FindsBest
  BY DEF Init, FindsBest
<1>2. IInv /\ FindsBest /\ [Next]_vars => FindsBest'
  <2> SUFFICES ASSUME IInv, FindsBest, [Next]_vars PROVE FindsBest'
    OBVIOUS
  <2>1. CASE UNCHANGED vars
    BY <2>1 DEF vars, dispatchVars, codecVars, FindsBest, NothingFailed
  <2>2. CASE Next
    <3>1. CASE UNCHANGED <<gCurrentGimex, asked>>
      BY <2>2, <3>1, SearchOnly DEF FindsBest
    <3>2. CASE \E ext : Find(ext)
      BY <3>2, FoundSuits DEF FindsBest, Suits
    <3> QED BY <2>2, <3>1, <3>2, SearchOnly
  <2> QED BY <2>1, <2>2
<1> QED BY <1>1, <1>2, InitIInv, NextIInv, PTL DEF Spec

(* When memory lasts, a whole file of the format its name says is read, if *)
(* it is of a kind that the codecs read, and the destination gets all that *)
(* is due, though main looks at hardly any of its calls' results.          *)
THEOREM ConversionComplete == Spec => []Converts
<1> DEFINE Course == NothingFailed /\ Sound => OnCourse
<1>1. Init => Course
  BY DEF Init, OnCourse, InTime, InPieces, Converts, Reading, Writing
<1>2. IInv /\ Course /\ [Next]_vars => Course'
  <2> SUFFICES ASSUME IInv, Course, [Next]_vars, (NothingFailed /\ Sound)' PROVE OnCourse'
    OBVIOUS
  <2>1. CASE UNCHANGED vars
    <3>1. UNCHANGED <<pc, gCurrentGimex, source, info, buffer, blocks, failing, put, room, left,
                      retval, stream, status>>
      BY <2>1 DEF vars, dispatchVars, codecVars
    <3>2. OnCourse /\ Codec' = Codec /\ Due' = Due
      BY <3>1, DueKept DEF NothingFailed, Sound
    <3>3. (Roomy' <=> Roomy) /\ (NothingFailed' <=> NothingFailed) /\ (Sound' <=> Sound)
      BY <3>1, <3>2 DEF Roomy, NothingFailed, Sound
    <3> QED BY <3>1, <3>2, <3>3 DEF OnCourse, InTime, InPieces, Converts
  <2>2. CASE Next
    <3>1. NothingFailed
      BY <2>2, SearchOnly
    <3>2. source' = source
      BY <2>2, SearchOnly
    <3>3. Sound
      BY <3>2 DEF Sound
    <3> QED BY <2>2, <3>1, <3>3, CourseNext
  <2> QED BY <2>1, <2>2
<1>3. Course => Converts
  BY DEF OnCourse, Converts
<1> QED BY <1>1, <1>2, <1>3, InitIInv, NextIInv, PTL DEF Spec
=============================================================================
