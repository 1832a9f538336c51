------------------------------ MODULE ProxyDll ------------------------------
(***************************************************************************)
(* The proxy library at the attach of the process (src/hookproxy): it      *)
(* loads the library it stands for, finds the payload for this game by the *)
(* hash of the game's file, and lets the payload write its hooks into the  *)
(* game's code between StartHooks and StopHooks.  Memory is in pages.      *)
(***************************************************************************)
EXTENDS SHAEngine

CONSTANTS
  Games,      \* the contents the game's file may have
  Payloads,   \* of the games that have one, its name
  ReadSize,   \* bytes of the buffer of Get_Hash
  Sites,      \* of a payload, the pages it hooks in code of the game
  Layouts     \* of images: base, code, codeSize, data, dataSize, and memory,
              \* the protection of every page of the process

Protections == {"none", "read", "execute", "open"}

(* The games that have a payload are files of some bytes.                  *)
ASSUME DllAssumption ==
  /\ ReadSize \in Nat /\ 0 < ReadSize
  /\ Games \subseteq Seq(Bytes)
  /\ DOMAIN Payloads \subseteq Seq(Bytes) /\ <<>> \notin DOMAIN Payloads
  /\ \A g \in DOMAIN Payloads : Payloads[g] \in DOMAIN Sites
  /\ "unknown" \notin DOMAIN Sites

VARIABLES
  dllStep,
  file, at,                     \* the game's file, and how much of it is read
  payload,
  layout, memory,               \* the image, and the protection of every page
  s_oldProtect1, s_oldProtect2,
  hooked,                       \* sites that have been written
  failed,                       \* history: a call of the system failed
  intact                        \* history: the digest was compared as it was computed

dllVars == <<dllStep, file, at, payload, layout, memory,
             s_oldProtect1, s_oldProtect2, hooked, failed, intact>>

DllTypeOK ==
  /\ dllStep \in {"attach", "open", "read", "choose", "load", "startCode", "startData",
                  "hook", "stopCode", "stopData", "done", "exited"}
  /\ file \in Games /\ at \in Nat
  /\ payload \in {"unknown"} \cup DOMAIN Sites
  /\ layout \in Layouts
  /\ memory \in [DOMAIN layout.memory -> Protections]
  /\ s_oldProtect1 \in Protections /\ s_oldProtect2 \in Protections
  /\ hooked \in SUBSET DOMAIN memory
  /\ failed \in BOOLEAN /\ intact \in BOOLEAN

DllInit ==
  /\ dllStep = "attach"
  /\ file \in Games /\ at = 0
  /\ payload = "unknown"
  /\ layout \in Layouts /\ memory = layout.memory
  /\ s_oldProtect1 = "none" /\ s_oldProtect2 = "none"
  /\ hooked = {}
  /\ failed = FALSE /\ intact = TRUE

Goto(from, to) == dllStep = from /\ dllStep' = to

(* A call of the system that may fail.                                     *)
Try(from, to, otherwise) ==
  \/ Goto(from, to) /\ UNCHANGED failed
  \/ Goto(from, otherwise) /\ failed' = TRUE

UnchangedImage == UNCHANGED <<layout, memory, s_oldProtect1, s_oldProtect2, hooked, intact>>

(* Load_Forwarded_Functions ends the process if there is nothing to stand  *)
(* for.                                                                    *)
Load_Forwarded_Functions ==
  /\ Try("attach", "open", "exited")
  /\ UNCHANGED <<file, at, payload, shaVars>> /\ UnchangedImage

(* So does Get_Path if the game has no path; a file that cannot be opened  *)
(* is read as one without bytes.                                           *)
Get_Path ==
  /\ \/ Try("open", "read", "exited") /\ UNCHANGED at
     \/ Goto("open", "read") /\ at' = Len(file) /\ failed' = TRUE
  /\ UNCHANGED <<file, payload, shaVars>> /\ UnchangedImage

(* A turn of the loop of Get_Hash: it ends with the first short read, of   *)
(* no bytes at all if the file ends with the buffer.                       *)
Get_Hash ==
  LET n == FirstOf(ReadSize, Len(file) - at)
  IN  /\ Goto("read", IF n = ReadSize THEN "read" ELSE "choose")
      /\ Hash(SubSeq(file, at + 1, at + n))
      /\ at' = at + n
      /\ UNCHANGED <<file, payload, failed>> /\ UnchangedImage

(* The names the table of Get_Payload_Name has for a digest.               *)
NamesOf(digest) == {Payloads[g] : g \in {h \in DOMAIN Payloads : Padded(h) = digest}}

(* The digest is text inside the engine of Get_Hash, which is gone when    *)
(* Get_Payload_Name compares it: it is as it was, or the memory holds      *)
(* anything, and any name of the table, or none, may be found.             *)
Get_Payload_Name ==
  /\ dllStep = "choose"
  /\ Result
  /\ \/ /\ intact' = TRUE
        /\ payload' \in IF NamesOf(m_finalDigest') = {} THEN {"unknown"}
                                                      ELSE NamesOf(m_finalDigest')
     \/ /\ intact' = FALSE
        /\ payload' \in {"unknown"} \cup {Payloads[g] : g \in DOMAIN Payloads}
  /\ dllStep' = IF payload' = "unknown" THEN "done" ELSE "load"
  /\ UNCHANGED <<file, at, failed, layout, memory, s_oldProtect1, s_oldProtect2, hooked>>

(* The payload or its SetupHooks may be missing.                           *)
Load_Setup_Hooks ==
  /\ Try("load", "startCode", "done")
  /\ UNCHANGED <<file, at, payload, shaVars>> /\ UnchangedImage

-----------------------------------------------------------------------------
Pages(first, size) == first .. first + size - 1

(* GetModuleSectionInfo adds the base of the image to the code's address   *)
(* and leaves the data's as the file has it, relative to the base.         *)
CodeRange(image) == Pages(image.base + image.code, image.codeSize)

DataRange(image) == Pages(image.data, image.dataSize)

First(range) == CHOOSE p \in range : \A q \in range : p <= q

(* Of an image the code, and nothing else, can be executed; that is where  *)
(* the sites of every payload are.                                         *)
ASSUME LayoutAssumption ==
  \A image \in Layouts :
    /\ image.base \in Nat /\ image.code \in Nat /\ image.codeSize \in Nat /\ 0 < image.codeSize
    /\ image.data \in Nat /\ image.dataSize \in Nat /\ 0 < image.dataSize
    /\ CodeRange(image) \subseteq DOMAIN image.memory
    /\ image.memory \in [DOMAIN image.memory -> Protections]
    /\ \A p \in DOMAIN image.memory : image.memory[p] = "execute" <=> p \in CodeRange(image)
    /\ \A name \in DOMAIN Sites : Sites[name] \subseteq CodeRange(image)

(* VirtualProtectEx protects all of the range, or none if part of it is no *)
(* memory of the process, and returns what the first page had.             *)
Mapped(range) == \A p \in range : p \in DOMAIN memory /\ memory[p] # "none"

Protect(range, protection) ==
  memory' = [p \in DOMAIN memory |-> IF p \in range THEN protection ELSE memory[p]]

Unprotected == UNCHANGED memory

(* StartHooks: the first call may fail, and the second is made all the     *)
(* same; hooking goes on only if none has failed.                          *)
StartCode ==
  /\ dllStep = "startCode"
  /\ \/ /\ Mapped(CodeRange(layout))
        /\ Protect(CodeRange(layout), "open")
        /\ s_oldProtect1' = memory[First(CodeRange(layout))]
        /\ dllStep' = "startData"
        /\ UNCHANGED failed
     \/ /\ Unprotected              \* the call fails
        /\ dllStep' = "startData"
        /\ failed' = TRUE
        /\ UNCHANGED s_oldProtect1
     \/ /\ Unprotected              \* there is no section information
        /\ dllStep' = "done"
        /\ failed' = TRUE
        /\ UNCHANGED s_oldProtect1
  /\ UNCHANGED <<file, at, payload, layout, s_oldProtect2, hooked, intact, shaVars>>

(* Only the last call decides.                                             *)
StartDataAlone ==
  /\ dllStep = "startData"
  /\ \/ /\ Mapped(DataRange(layout))
        /\ Protect(DataRange(layout), "open")
        /\ s_oldProtect2' = memory[First(DataRange(layout))]
        /\ dllStep' = "hook"
        /\ UNCHANGED failed
     \/ /\ Unprotected
        /\ dllStep' = "done"
        /\ failed' = (failed \/ Mapped(DataRange(layout)))
        /\ UNCHANGED s_oldProtect2
  /\ UNCHANGED <<file, at, payload, layout, s_oldProtect1, hooked, intact, shaVars>>

StartData ==
  /\ dllStep = "startData"
  /\ \/ /\ Mapped(DataRange(layout))
        /\ Protect(DataRange(layout), "open")
        /\ s_oldProtect2' = memory[First(DataRange(layout))]
        /\ dllStep' = IF failed THEN "done" ELSE "hook"
        /\ UNCHANGED failed
     \/ /\ Unprotected
        /\ dllStep' = "done"
        /\ failed' = (failed \/ Mapped(DataRange(layout)))
        /\ UNCHANGED s_oldProtect2
  /\ UNCHANGED <<file, at, payload, layout, s_oldProtect1, hooked, intact, shaVars>>

(* The payload writes the jumps of all its sites; a write to a page that   *)
(* is not open fails, which nobody notices.                                *)
Setup_Hooks ==
  /\ Goto("hook", "stopCode")
  /\ hooked' = {p \in Sites[payload] : memory[p] = "open"}
  /\ UNCHANGED <<file, at, payload, layout, memory, s_oldProtect1, s_oldProtect2, failed, intact, shaVars>>

(* StopHooks protects the same ranges with what StartHooks saved; nobody   *)
(* looks at what it returns.                                               *)
StopCode ==
  /\ dllStep = "stopCode"
  /\ \/ Protect(CodeRange(layout), s_oldProtect1) /\ dllStep' = "stopData" /\ UNCHANGED failed
     \/ Unprotected /\ dllStep' \in {"stopData", "done"} /\ failed' = TRUE
  /\ UNCHANGED <<file, at, payload, layout, s_oldProtect1, s_oldProtect2, hooked, intact, shaVars>>

(* The range gets what the code had.                                       *)
StopDataAsCode ==
  /\ dllStep = "stopData" /\ dllStep' = "done"
  /\ \/ Protect(DataRange(layout), s_oldProtect1) /\ UNCHANGED failed
     \/ Unprotected /\ failed' = TRUE
  /\ UNCHANGED <<file, at, payload, layout, s_oldProtect1, s_oldProtect2, hooked, intact, shaVars>>

StopData ==
  /\ dllStep = "stopData" /\ dllStep' = "done"
  /\ \/ Protect(DataRange(layout), s_oldProtect2) /\ UNCHANGED failed
     \/ Unprotected /\ failed' = TRUE
  /\ UNCHANGED <<file, at, payload, layout, s_oldProtect1, s_oldProtect2, hooked, intact, shaVars>>

DllNext ==
  \/ Load_Forwarded_Functions \/ Get_Path \/ Get_Hash \/ Get_Payload_Name \/ Load_Setup_Hooks
  \/ StartCode \/ StartData \/ Setup_Hooks \/ StopCode \/ StopData

DllSpec == ShaInit /\ DllInit /\ [][DllNext]_<<dllVars, shaVars>>

-----------------------------------------------------------------------------
(* A game is hooked at every site of one payload, or it runs as it was: no *)
(* partly hooked game, whatever call fails and whatever the memory of the  *)
(* digest holds.  The payload is the game's own if the digest was still    *)
(* there when it was compared.                                             *)
HooksOfThisGame ==
  dllStep = "done" /\ hooked # {} =>
    /\ payload # "unknown" /\ hooked = Sites[payload]
    /\ intact => file \in DOMAIN Payloads /\ payload = Payloads[file]

(* The range that is taken for the data is one of memory of one protection *)
(* and apart from the code.                                                *)
DataApart ==
  /\ DataRange(layout) \cap CodeRange(layout) = {}
  /\ \A p \in DataRange(layout) :
       p \in DOMAIN layout.memory /\ layout.memory[p] # "none"
         /\ layout.memory[p] = layout.memory[First(DataRange(layout))]

(* When no call failed the game's memory is protected at the end as it was *)
(* at first - exactly if the range taken for the data is apart from the    *)
(* code: that range has lost the base of the image.  Where it meets the    *)
(* code, writable code or code that cannot run is left; where it meets no  *)
(* memory, nothing is hooked and the code is left writable.                *)
PutBack ==
  dllStep = "done" /\ ~failed =>
    (memory = layout.memory <=> payload = "unknown" \/ DataApart)
=============================================================================
