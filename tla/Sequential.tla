---------------------------- MODULE Sequential -----------------------------
(***************************************************************************)
(* The parts of the code that run on one thread and share nothing with     *)
(* each other, one at a time: the part that is chosen goes through its own *)
(* steps and the others rest.                                              *)
(***************************************************************************)
EXTENDS RZCmdLine, RZRandom, RZDate, ProxyDll, GimexPictures

CONSTANTS
  FirstDays,    \* Julian days that dates begin with
  FirstHours,   \* that times begin with
  MaxMessage    \* bound on the data hashed outside the proxy library

VARIABLE part

Parts == {"command line", "random", "date", "time", "hash", "proxy", "picture"}

vars == <<part, cmdVars, randomVars, dateVars, shaVars, dllVars, picVars>>

CmdRests == mArguments = <<>> /\ mzCmdLineText = <<>> /\ undefined = FALSE

RandomRests ==
  /\ mnIntegerSeed = 0 /\ mTwister = [i \in 0 .. TWIST_SIZE - 1 |-> 0] /\ before = mTwister
  /\ mpNext = 0 /\ mnRemaining = TWIST_SIZE /\ drawn = Draws /\ word = 0

(* The times are set to summer time or not, in every zone.                 *)
DateInit ==
  /\ mnJulianDate \in IF part = "date" THEN FirstDays ELSE {Jday(1, 1, 2000)}
  /\ IF part = "time"
       THEN mnTime \in FirstHours /\ _timezone \in TimeZones /\ _daylight \in BOOLEAN
       ELSE mnTime = (CHOOSE t \in FirstHours : TRUE) /\ _timezone = 0 /\ _daylight = FALSE

ShaRests ==
  /\ engine = Fresh([i \in 1 .. Block |-> 0]) /\ m_computed = FALSE /\ m_finalDigest = <<>>
  /\ message = <<>> /\ dropped = 0 /\ cut = FALSE

DllRests ==
  /\ dllStep = "attach" /\ file = (CHOOSE g \in Games : TRUE) /\ at = 0 /\ payload = "unknown"
  /\ layout = (CHOOSE l \in Layouts : TRUE) /\ memory = layout.memory
  /\ s_oldProtect1 = "none" /\ s_oldProtect2 = "none" /\ hooked = {} /\ failed = FALSE
  /\ intact = TRUE

PicRests ==
  /\ picStep = "file" /\ stored = <<>>
  /\ info = <<>> /\ pixels = <<>> /\ whole = TRUE /\ earlier = <<>> /\ writes = 0

Init ==
  /\ part \in Parts
  /\ IF part = "command line" THEN CmdInit ELSE CmdRests
  /\ IF part = "random" THEN RandomInit ELSE RandomRests
  /\ DateInit
  /\ IF part = "hash" THEN ShaInit ELSE ShaRests
  /\ IF part = "proxy" THEN DllInit ELSE DllRests
  /\ IF part = "picture" THEN PicInit ELSE PicRests

Next ==
  /\ \/ /\ part = "command line" /\ CmdNext
        /\ UNCHANGED <<randomVars, dateVars, shaVars, dllVars, picVars>>
     \/ /\ part = "random" /\ RandomNext
        /\ UNCHANGED <<cmdVars, dateVars, shaVars, dllVars, picVars>>
     \/ /\ part = "date" /\ NextDay
        /\ UNCHANGED <<cmdVars, randomVars, shaVars, dllVars, picVars>>
     \/ /\ part = "time" /\ NextHour
        /\ UNCHANGED <<cmdVars, randomVars, shaVars, dllVars, picVars>>
     \/ /\ part = "hash"
        /\ ShaNext /\ Len(message') <= MaxMessage
        /\ UNCHANGED <<cmdVars, randomVars, dateVars, dllVars, picVars>>
     \/ /\ part = "proxy" /\ DllNext
        /\ UNCHANGED <<cmdVars, randomVars, dateVars, picVars>>
     \/ /\ part = "picture" /\ PicNext
        /\ UNCHANGED <<cmdVars, randomVars, dateVars, shaVars, dllVars>>
  /\ UNCHANGED part

Spec == Init /\ [][Next]_vars

TypeOK ==
  /\ part \in Parts
  /\ CmdTypeOK /\ RandomTypeOK /\ DateTypeOK /\ ShaTypeOK /\ DllTypeOK /\ PicTypeOK
=============================================================================
