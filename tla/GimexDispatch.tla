---------------------------- MODULE GimexDispatch ----------------------------
(***************************************************************************)
(* gimex.c: the table of codecs, which of them the GIMEX functions call,   *)
(* and the search for the codec of a file name's extension.                *)
(***************************************************************************)
EXTENDS Naturals, SequencesExt

CONSTANTS
  gFunctions,  \* the codecs' GABOUT as records [name, can_export, extensions],
               \* codec 0 first; all have the same number of extensions
  Extensions   \* what may follow the first point of a file name, in lower case

ASSUME TableAssumption ==
  /\ Len(gFunctions) \in Nat \ {0} /\ DOMAIN gFunctions = 1 .. Len(gFunctions)
  /\ Len(gFunctions[1].extensions) \in Nat
  /\ \A i, j \in DOMAIN gFunctions :
       Len(gFunctions[i].extensions) = Len(gFunctions[j].extensions)
  /\ \A j \in DOMAIN gFunctions : \A i \in 1 .. Len(gFunctions[1].extensions) :
       gFunctions[j].extensions[i] # "none"

VARIABLES
  gCurrentGimex,
  asked         \* the extension GIMEX_find was called with last, or "none"

dispatchVars == <<gCurrentGimex, asked>>

GIMEX_max == Len(gFunctions)
GIMEX_EXTENSIONS == Len(gFunctions[1].extensions)
Codecs == 0 .. GIMEX_max - 1
About(j) == gFunctions[j + 1]

GIMEX_set(j) == gCurrentGimex' = IF j \in Codecs THEN j ELSE 0

(* The codec whose functions are called.                                   *)
Codec == About(gCurrentGimex).name

(* The order in which GIMEX_find looks at extension i of codec j.          *)
Places ==
  [n \in 1 .. GIMEX_EXTENSIONS * (GIMEX_max - 1) |->
     [i |-> ((n - 1) \div (GIMEX_max - 1)) + 1, j |-> ((n - 1) % (GIMEX_max - 1)) + 1]]

MatchScore(ext, p) ==
  IF About(p.j).extensions[p.i] = ext
  THEN (IF p.i = 1 THEN 2 ELSE 1) + (IF About(p.j).can_export THEN 2 ELSE 0)
  ELSE 0

(* What the loops come to when GIMEX_about fails at the places lost.       *)
Located(ext, lost) ==
  LET Consider(best, p) ==
        IF best.score < 4 /\ p \notin lost /\ MatchScore(ext, p) > best.score
        THEN [score |-> MatchScore(ext, p), codec |-> p.j]
        ELSE best
  IN  FoldLeft(Consider, [score |-> 0, codec |-> 0], Places).codec

(* The codec that was looked at last stays.                                *)
GIMEX_findLast(ext, lost) ==
  /\ GIMEX_set(IF \E n \in DOMAIN Places : MatchScore(ext, Places[n]) = 4 THEN Located(ext, lost)
               ELSE GIMEX_max - 1)
  /\ asked' = ext

(* GIMEX_find sets what it returns.                                        *)
GIMEX_find(ext, lost) ==
  /\ GIMEX_set(Located(ext, lost))
  /\ asked' = ext
=============================================================================
