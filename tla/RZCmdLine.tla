----------------------------- MODULE RZCmdLine -----------------------------
(***************************************************************************)
(* cRZCmdLine (src/framework/rz/rzcmdline.cpp): a command line is kept as  *)
(* its text and as its arguments, and one is made from the other: the      *)
(* arguments by splitting the text, the text by joining the arguments.     *)
(* A string is a sequence of characters.                                   *)
(***************************************************************************)
EXTENDS Integers, FiniteSets, SequencesExt

CONSTANTS
  Char,          \* characters
  Texts,         \* a command line may be made from
  ArgLists,      \* a command line may be made from
  Inserted,      \* arguments that may be inserted
  MaxArgs,       \* bound on the arguments there are when one is inserted
  SwitchNames,   \* asked for by name, not empty and without a marker
  Small          \* of a capital letter, the small one

VARIABLES
  mArguments,
  mzCmdLineText,
  undefined       \* an element past the end of the arguments was erased

cmdVars == <<mArguments, mzCmdLineText, undefined>>

White == {" ", "\t", "\n"}
Quote == "\""
Markers == {"/", "-", "\\"}

(* A marker is no letter, and no name begins with one.                     *)
ASSUME CmdAssumption ==
  /\ White \cup {Quote} \cup Markers \subseteq Char
  /\ Texts \subseteq Seq(Char) /\ ArgLists \subseteq Seq(Seq(Char))
  /\ Inserted \subseteq Seq(Char) /\ MaxArgs \in Nat
  /\ SwitchNames \subseteq Seq(Char) \ {<<>>}
  /\ \A name \in SwitchNames : name[1] \notin Markers
  /\ Small \in [DOMAIN Small -> Char]
  /\ \A c \in DOMAIN Small : c \notin Markers /\ Small[c] \notin Markers

-----------------------------------------------------------------------------
(* The text split into arguments.                                          *)

IsWhite(c) == c \in White

IsPrinted(c) == c \notin White

Trim(s) ==
  IF SelectInSeq(s, IsPrinted) = 0 THEN <<>>
  ELSE SubSeq(s, SelectInSeq(s, IsPrinted), SelectLastInSeq(s, IsPrinted))

(* Quotes around an argument, or one quote alone, are taken off.           *)
Unquoted(token) ==
  IF token # <<>> /\ Head(token) = Quote /\ Last(token) = Quote
    THEN SubSeq(token, 2, Len(token) - 1) ELSE token

(* Every white character outside quotes ends an argument.                  *)
ScanEach(scan, c) ==
  LET toggled == IF c = Quote THEN ~scan.in_quotes ELSE scan.in_quotes
  IN  IF IsWhite(c) /\ ~scan.in_quotes
        THEN [scan EXCEPT !.array = Append(@, Unquoted(scan.sub_str)), !.sub_str = <<>>]
        ELSE [scan EXCEPT !.sub_str = Append(@, c), !.in_quotes = toggled]

(* One character: white space outside quotes ends an argument, and more of *)
(* it is skipped; every quote opens or closes.                             *)
Scan(scan, c) ==
  LET toggled == IF c = Quote THEN ~scan.in_quotes ELSE scan.in_quotes
  IN  IF IsWhite(c) /\ scan.skips THEN scan
      ELSE IF IsWhite(c) /\ ~scan.in_quotes
        THEN [scan EXCEPT !.array = Append(@, Unquoted(scan.sub_str)), !.skips = TRUE]
        ELSE [scan EXCEPT !.sub_str = IF scan.skips THEN <<c>> ELSE Append(@, c),
                          !.in_quotes = toggled, !.skips = FALSE]

Split(text) ==
  LET start == [array |-> <<>>, sub_str |-> <<>>, in_quotes |-> FALSE, skips |-> FALSE]
      end   == FoldLeft(Scan, start, Trim(text))
  IN  Append(end.array, Unquoted(end.sub_str))

Whites(arg) == Cardinality({i \in 1 .. Len(arg) : IsWhite(arg[i])})

(* The quotes are opened and not closed.                                   *)
JoinedOpen(arg) ==
  LET opened == [i \in 1 .. Whites(arg) |-> Quote]
  IN  opened \o arg

(* The arguments joined into a text: one with white space is put in quotes,*)
(* but a quote is opened for every white character.                        *)
Joined(arg) ==
  LET opened == [i \in 1 .. Whites(arg) |-> Quote]
  IN  opened \o arg \o (IF opened = <<>> THEN <<>> ELSE <<Quote>>)

Join(args) ==
  FlattenSeq([i \in 1 .. Len(args) |->
                Joined(args[i]) \o (IF i < Len(args) THEN <<" ">> ELSE <<>>)])

-----------------------------------------------------------------------------
(* The two constructors.                                                   *)
CmdInit ==
  /\ \/ mzCmdLineText \in Texts /\ mArguments = Split(mzCmdLineText)
     \/ mArguments \in ArgLists /\ mzCmdLineText = Join(mArguments)
  /\ undefined = FALSE

(* An index is counted from 0; one outside the arguments is the end, or    *)
(* the beginning if it is negative.                                        *)
InsertArgument(arg, index) ==
  LET at == IF index < 0 THEN 0 ELSE IF index < Len(mArguments) THEN index ELSE Len(mArguments)
  IN  /\ ~undefined /\ Len(mArguments) < MaxArgs
      /\ mArguments' = InsertAt(mArguments, at + 1, arg)
      /\ mzCmdLineText' = Join(mArguments')
      /\ UNCHANGED undefined

(* An index outside the arguments, a negative one too, is cut to their     *)
(* number and the element past the end is erased: what is left is not      *)
(* defined, in practice the arguments without their last one; where there  *)
(* was none the program is lost, and the model goes no further.            *)
EraseArgument(index) ==
  LET inside == 0 <= index /\ index < Len(mArguments)
  IN  /\ ~undefined
      /\ undefined' = ~inside
      /\ mArguments' = IF inside THEN RemoveAt(mArguments, index + 1)
                       ELSE SubSeq(mArguments, 1, Len(mArguments) - 1)
      /\ mzCmdLineText' = Join(mArguments')

CmdNext ==
  \/ \E arg \in Inserted, index \in -1 .. MaxArgs : InsertArgument(arg, index)
  \/ \E index \in -1 .. MaxArgs : EraseArgument(index)

-----------------------------------------------------------------------------
(* What may be asked; an index is counted from 0, and -1 is none.          *)

ToLower(c) == IF c \in DOMAIN Small THEN Small[c] ELSE c

MakeLower(s) == [i \in 1 .. Len(s) |-> ToLower(s[i])]

FirstIndex(holds, from) ==
  LET found == {i \in from .. Len(mArguments) - 1 : holds[i + 1]}
  IN  IF found = {} THEN -1 ELSE CHOOSE i \in found : \A j \in found : i <= j

Find(text, case_sensitive) ==
  FirstIndex([i \in 1 .. Len(mArguments) |->
     IF case_sensitive THEN mArguments[i] = text
                       ELSE MakeLower(mArguments[i]) = MakeLower(text)], 0)

(* Where a string is first found in another, counted from 0.               *)
FoundAt(s, sub) ==
  LET places == {i \in 0 .. Len(s) - Len(sub) : SubSeq(s, i + 1, i + Len(sub)) = sub}
  IN  IF places = {} THEN -1 ELSE CHOOSE i \in places : \A j \in places : i <= j

(* The text is made lower when the case counts, and the arguments when it  *)
(* does not.                                                               *)
FindSubString(text, case_sensitive) ==
  FirstIndex([i \in 1 .. Len(mArguments) |->
     /\ mArguments[i] # <<>>
     /\ IF case_sensitive THEN FoundAt(mArguments[i], MakeLower(text)) >= 0
                          ELSE FoundAt(MakeLower(mArguments[i]), text) >= 0], 0)

IsMarked(arg) == arg # <<>> /\ Head(arg) \in Markers

FromStart(start_index) == IF start_index < 0 THEN 0 ELSE start_index

(* A switch of one letter, alone.                                          *)
GetIndexOfSwitch(letter, start_index) ==
  FirstIndex([i \in 1 .. Len(mArguments) |->
     /\ Len(mArguments[i]) = 2
     /\ IsMarked(mArguments[i])
     /\ ToLower(mArguments[i][2]) = ToLower(letter)], FromStart(start_index))

(* A switch of one letter with its value.                                  *)
IsSwitchPresent(letter) ==
  \E i \in 1 .. Len(mArguments) :
    /\ Len(mArguments[i]) > 2
    /\ IsMarked(mArguments[i])
    /\ ToLower(mArguments[i][2]) = ToLower(letter)

(* An argument that is longer than the name is found as well.              *)
GetIndexOfPrefix(name, start_index) ==
  FirstIndex([i \in 1 .. Len(mArguments) |->
     /\ IsMarked(mArguments[i])
     /\ FoundAt(MakeLower(mArguments[i]), MakeLower(name)) = 1], FromStart(start_index))

GetIndexOfLongSwitch(name, start_index) ==
  FirstIndex([i \in 1 .. Len(mArguments) |->
     /\ IsMarked(mArguments[i])
     /\ Len(mArguments[i]) = Len(name) + 1
     /\ FoundAt(MakeLower(mArguments[i]), MakeLower(name)) = 1], FromStart(start_index))

(* A long switch with a value after a colon: the name is compared with the *)
(* argument from its first character on, which is the marker.              *)
HasValue(arg, name) ==
  /\ name # <<>>
  /\ IsMarked(arg)
  /\ Len(arg) >= Len(name) + 3
  /\ arg[Len(name) + 2] = ":"
  /\ SubSeq(MakeLower(arg), 1, Len(name)) = name

IsLongSwitchPresent(name) ==
  \/ GetIndexOfLongSwitch(name, 0) >= 0
  \/ \E i \in 1 .. Len(mArguments) : HasValue(mArguments[i], name)

-----------------------------------------------------------------------------
(* Properties.                                                             *)
CmdTypeOK ==
  /\ mArguments \in Seq(Seq(Char))
  /\ mzCmdLineText \in Seq(Char)
  /\ undefined \in BOOLEAN

(* White space in an argument is written in quotes, and so may be one      *)
(* character of it: two leave the quotes closed too early or never.        *)
Plain(arg) ==
  /\ arg # <<>> /\ Quote \notin ToSet(arg)
  /\ Whites(arg) <= 1

(* Text and arguments say the same after every change: one is made from    *)
(* the other.  A text made of arguments without quotes of their own is     *)
(* split into them again exactly if there is one at least, none is empty   *)
(* (but one alone may be) and none has more than one white character:      *)
(* rzcmdline.cpp:387 "If the argument contains spaces we need to surround  *)
(* it with quotes" is done for one space only.                             *)
TextSplitsBack ==
  /\ mArguments = Split(mzCmdLineText) \/ mzCmdLineText = Join(mArguments)
  /\ (\A i \in 1 .. Len(mArguments) : Quote \notin ToSet(mArguments[i])) =>
       (Split(Join(mArguments)) = mArguments <=>
          \/ mArguments = <<<<>>>>
          \/ mArguments # <<>> /\ \A i \in 1 .. Len(mArguments) : Plain(mArguments[i]))

(* The places of a text where an argument begins and ends: white space     *)
(* counts where an even number of quotes is before it.                     *)
Outside(text, i) ==
  IsWhite(text[i]) /\ Cardinality({j \in 1 .. i : text[j] = Quote}) % 2 = 0

Pieces(text) ==
  {p \in (1 .. Len(text)) \X (1 .. Len(text)) :
     /\ p[1] <= p[2]
     /\ \A i \in p[1] .. p[2] : ~Outside(text, i)
     /\ p[1] = 1 \/ Outside(text, p[1] - 1)
     /\ p[2] = Len(text) \/ Outside(text, p[2] + 1)}

(* A text is split into the longest pieces without white space outside of  *)
(* quotes, in their order, each without the quotes around it.              *)
SplitsAtWhite ==
  LET text    == Trim(mzCmdLineText)
      args    == Split(mzCmdLineText)
      turn(p) == Cardinality({q \in Pieces(text) : q[1] <= p[1]})
  IN  text # <<>> =>
        /\ Len(args) = Cardinality(Pieces(text))
        /\ \A p \in Pieces(text) : args[turn(p)] = Unquoted(SubSeq(text, p[1], p[2]))

(* What is asked of a command line: a long switch is found where an        *)
(* argument is a marker and its name in any case, from the place asked for *)
(* on, and is never found with a value ("-name:value"), though             *)
(* rzcmdline.h:100 says "param cIGZString reference to hold the switch     *)
(* option"; the two ways to ask for a letter share no argument: a switch   *)
(* found with its index is not reported present by itself; and an argument *)
(* that Find finds is found as a part of one by FindSubString, but with a  *)
(* capital letter it is not, whether the case counts or not.               *)
SwitchAnswers ==
  /\ \A name \in SwitchNames, start \in -1 .. MaxArgs :
       GetIndexOfLongSwitch(name, start) =
         FirstIndex([i \in 1 .. Len(mArguments) |->
            \E mark \in Markers : MakeLower(mArguments[i]) = MakeLower(<<mark>> \o name)],
            FromStart(start))
  /\ \A name \in SwitchNames : IsLongSwitchPresent(name) <=> GetIndexOfLongSwitch(name, 0) >= 0
  /\ \A name \in SwitchNames :
       Len(name) = 1 /\ Len(mArguments) = 1 =>
         ~(IsSwitchPresent(name[1]) /\ GetIndexOfSwitch(name[1], 0) >= 0)
  /\ \A name \in SwitchNames, case_sensitive \in BOOLEAN :
       LET whole == Find(name, TRUE)
           part  == FindSubString(name, case_sensitive)
       IN  /\ whole >= 0 => Find(name, FALSE) \in 0 .. whole
           /\ whole >= 0 /\ name = MakeLower(name) => part \in 0 .. whole
           /\ whole = 0 /\ name # MakeLower(name) /\ Len(mArguments) = 1 => part = -1
=============================================================================
