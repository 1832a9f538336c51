-------------------------- MODULE RZCOMDllDirector --------------------------
(***************************************************************************)
(* The directors of one GZCOM library (rzcomdlldirector.cpp): each has a   *)
(* COM, an array of child directors and a map from class IDs to factories. *)
(* The library's director, Root, is what the game loads, initialises, asks *)
(* for class objects and unloads; the others are reached through it.       *)
(***************************************************************************)
EXTENDS Naturals, Sequences, SequencesExt

CONSTANTS
  Directors,
  Root,
  Coms,         \* a COM, with its framework, and the library path given with it
  NoCom,        \* the null pointer
  ClassIDs,
  Interfaces,
  Factories,    \* records [type, class, serves]: FactorFunctionType, the class it
                \* makes and the interfaces that class, or a type 2 function, serves
  NoDirector,
  MaxChildren,  \* bound on the length of a child array
  MaxRefs       \* bound on the references held to one director

ASSUME DirectorAssumption ==
  /\ Root \in Directors
  /\ NoDirector \notin Directors
  /\ NoCom \notin Coms
  /\ MaxChildren \in Nat
  /\ MaxRefs \in Nat

VARIABLES
  mpCOM,                \* mpCOM, mpFrameWork and msLibraryPath, set together
  mChildDirectorArray,
  mClassObjectMap,      \* the classes of each director, with their factories
  mnRefCount,
  hooked                \* the plugin director is among the framework's hooks

directorVars == <<mpCOM, mChildDirectorArray, mClassObjectMap, mnRefCount, hooked>>

DirectorTypeOK ==
  /\ mpCOM \in [Directors -> Coms \cup {NoCom}]
  /\ \A d \in Directors :
       /\ mChildDirectorArray[d] \in Seq(Directors)
       /\ Len(mChildDirectorArray[d]) <= MaxChildren
       /\ DOMAIN mClassObjectMap[d] \subseteq ClassIDs
       /\ \A c \in DOMAIN mClassObjectMap[d] : mClassObjectMap[d][c] \in Factories
  /\ mnRefCount \in [Directors -> 0 .. MaxRefs]
  /\ hooked \in BOOLEAN

Unloaded ==
  /\ mpCOM = [d \in Directors |-> NoCom]
  /\ mChildDirectorArray = [d \in Directors |-> <<>>]
  /\ mClassObjectMap = [d \in Directors |-> <<>>]
  /\ mnRefCount = [d \in Directors |-> 0]
  /\ hooked = FALSE

(* The order in which the recursions of this class reach the directors     *)
(* below d, and d itself last; a director in two arrays comes twice.       *)
Visits ==
  LET visits[d \in Directors] ==
        FlattenSeq([i \in DOMAIN mChildDirectorArray[d] |->
                      visits[mChildDirectorArray[d][i]]]) \o <<d>>
  IN  visits

Below(d) == Range(Visits[d])

-----------------------------------------------------------------------------
(* Registration.                                                           *)

(* InitializeCOM, called on d with a COM or with the null pointer, which   *)
(* changes nothing.                                                        *)
Initialized(coms, d, com) ==
  IF com = NoCom THEN coms
  ELSE [e \in Directors |-> IF e \in Below(d) THEN com ELSE coms[e]]

(* The call of the game on a director that it has loaded, or of a director *)
(* on another.                                                             *)
InitializeCOM(d, com) ==
  /\ mpCOM' = Initialized(mpCOM, d, com)
  /\ UNCHANGED <<mChildDirectorArray, mClassObjectMap, mnRefCount, hooked>>

(* The new child without the initialisation.                               *)
AddDirectorOnly(p, c) ==
  /\ p \notin Below(c)
  /\ Len(mChildDirectorArray[p]) + Len(Visits[c]) <= MaxChildren
  /\ mChildDirectorArray' = [mChildDirectorArray EXCEPT ![p] = @ \o Visits[c]]
  /\ UNCHANGED <<mpCOM, mClassObjectMap, mnRefCount, hooked>>

(* p adds c, after everything below c. The caller keeps the nesting        *)
(* acyclic: the recursions of this class have no other end.                *)
AddDirector(p, c) ==
  /\ p \notin Below(c)
  /\ Len(mChildDirectorArray[p]) + Len(Visits[c]) <= MaxChildren
  /\ mpCOM' = Initialized(mpCOM, c, mpCOM[p])
  /\ mChildDirectorArray' = [mChildDirectorArray EXCEPT ![p] = @ \o Visits[c]]
  /\ UNCHANGED <<mClassObjectMap, mnRefCount, hooked>>

(* insert leaves an entry that is there as it is.                          *)
AddCls(d, cls, f) ==
  /\ mClassObjectMap' =
       [mClassObjectMap EXCEPT ![d] =
          [c \in DOMAIN @ \cup {cls} |-> IF c \in DOMAIN @ THEN @[c] ELSE f]]
  /\ UNCHANGED <<mpCOM, mChildDirectorArray, mnRefCount, hooked>>

(* PluginDLLDirector's OnStart, after InitializeCOM.                       *)
OnStart ==
  /\ mpCOM[Root] # NoCom
  /\ hooked' = TRUE
  /\ UNCHANGED <<mpCOM, mChildDirectorArray, mClassObjectMap, mnRefCount>>

-----------------------------------------------------------------------------
(* Lookup.                                                                 *)

Registers(d, cls) == cls \in DOMAIN mClassObjectMap[d]

Serves(d, cls, iid) ==
  /\ Registers(d, cls)
  /\ iid \in mClassObjectMap[d][cls].serves

(* The first factory of the class decides.                                 *)
ProviderIndexOfFirst(d, cls, iid) ==
  LET visits == Visits[d]
      found == {i \in DOMAIN visits : Registers(visits[i], cls)}
      first == CHOOSE i \in found : \A j \in found : i <= j
  IN  IF found # {} /\ Serves(visits[first], cls, iid) THEN first ELSE 0

(* GetClassObject: the place, in the order of the visits, of the director  *)
(* whose factory makes the object, or 0. A factory that does not serve the *)
(* interface hands on to the directors that come later.                    *)
ProviderIndex(d, cls, iid) ==
  LET visits == Visits[d]
      found == {i \in DOMAIN visits : Serves(visits[i], cls, iid)}
  IN  IF found = {} THEN 0 ELSE CHOOSE i \in found : \A j \in found : i <= j

Provider(d, cls, iid) ==
  LET i == ProviderIndex(d, cls, iid)
  IN  IF i = 0 THEN NoDirector ELSE Visits[d][i]

(* The type 1 factories that GetClassObject calls in vain: each makes an   *)
(* object whose QueryInterface refuses.                                    *)
InVain(d, cls, iid) ==
  LET i      == ProviderIndex(d, cls, iid)
      visits == Visits[d]
      before == Range(SubSeq(visits, 1, IF i = 0 THEN Len(visits) ELSE i - 1))
  IN  {f \in {mClassObjectMap[e][cls] : e \in {v \in before : Registers(v, cls)}} : f.type = 1}

-----------------------------------------------------------------------------
(* References to directors, and unloading.                                 *)

(* A QueryInterface that counts and an AddRef after it.                    *)
AddRefTwice(d) ==
  /\ mnRefCount[d] < MaxRefs
  /\ mnRefCount' = [mnRefCount EXCEPT ![d] = @ + 2]
  /\ UNCHANGED <<mpCOM, mChildDirectorArray, mClassObjectMap, hooked>>

(* AddRef, or a QueryInterface for one of the three interfaces.            *)
AddRef(d) ==
  /\ mnRefCount[d] < MaxRefs
  /\ mnRefCount' = [mnRefCount EXCEPT ![d] = @ + 1]
  /\ UNCHANGED <<mpCOM, mChildDirectorArray, mClassObjectMap, hooked>>

(* The test off by one.                                                    *)
RemoveRefAboveOne(d) ==
  /\ mnRefCount' = [mnRefCount EXCEPT ![d] = IF @ > 1 THEN @ - 1 ELSE @]
  /\ UNCHANGED <<mpCOM, mChildDirectorArray, mClassObjectMap, hooked>>

(* Release; a director is not deleted, and its count stays at zero.        *)
RemoveRef(d) ==
  /\ mnRefCount' = [mnRefCount EXCEPT ![d] = IF @ > 0 THEN @ - 1 ELSE 0]
  /\ UNCHANGED <<mpCOM, mChildDirectorArray, mClassObjectMap, hooked>>

(* A director that is referenced answers TRUE at once.                     *)
CanUnloadNow ==
  LET can[d \in Directors] ==
        mnRefCount[d] = 0 =>
          \A i \in DOMAIN mChildDirectorArray[d] : can[mChildDirectorArray[d][i]]
  IN  can
=============================================================================
