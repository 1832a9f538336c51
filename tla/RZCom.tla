------------------------------- MODULE RZCom -------------------------------
(***************************************************************************)
(* A GZCOM library in use: the game loads it, initialises its director,    *)
(* asks it for class objects, holds references to directors and objects,   *)
(* and unloads it. The directors are RZCOMDllDirector's, the objects       *)
(* RZRefCount's; GetClassObject is where they meet.                        *)
(***************************************************************************)
EXTENDS RZCOMDllDirector, RZRefCount

CONSTANTS
  GameCounts   \* the game itself counts what it holds of a library before it
               \* unloads it, and does not go by CanUnloadNow alone

(* The library's factories make objects whose counting RZRefCount has.     *)
ASSUME FactoryAssumption == \A f \in Factories : f.class \in Classes

VARIABLES
  loaded,    \* the library is mapped
  dirHeld    \* the references to each director that the game holds

vars == <<directorVars, objectVars, loaded, dirHeld>>

TypeOK ==
  /\ DirectorTypeOK
  /\ ObjectTypeOK
  /\ loaded \in BOOLEAN
  /\ dirHeld \in [Directors -> 0 .. MaxRefs]

Init ==
  /\ Unloaded
  /\ ObjectInit
  /\ loaded = TRUE
  /\ dirHeld = [d \in Directors |-> 0]

-----------------------------------------------------------------------------

(* The directors' constructors and later code register classes and child   *)
(* directors; the game initialises and starts the library's director.      *)
Register ==
  /\ loaded
  /\ \/ \E p, c \in Directors : AddDirector(p, c)
     \/ \E d \in Directors, cls \in ClassIDs, f \in Factories : AddCls(d, cls, f)
     \/ \E com \in Coms : InitializeCOM(Root, com)
     \/ OnStart
  /\ UNCHANGED <<objectVars, loaded, dirHeld>>

(* What is held of a library may outlive it, and be held of the next one.  *)
HoldDirector(d) ==
  /\ loaded
  /\ dirHeld[d] < MaxRefs
  /\ AddRef(d)
  /\ dirHeld' = [dirHeld EXCEPT ![d] = @ + 1]
  /\ UNCHANGED <<objectVars, loaded>>

DropDirector(d) ==
  /\ loaded
  /\ dirHeld[d] > 0
  /\ RemoveRef(d)
  /\ dirHeld' = [dirHeld EXCEPT ![d] = @ - 1]
  /\ UNCHANGED <<objectVars, loaded>>

(* The game asks Root. The objects made in vain are gone again, o is the   *)
(* block of the object that is made, w of one of those made in vain.       *)
GetClassObject(cls, iid, o, w) ==
  /\ loaded
  /\ mpCOM[Root] # NoCom
  /\ ~Alive(o) /\ ~Alive(w)
  /\ LET p    == Provider(Root, cls, iid)
         left == {Refused(f.class) : f \in InVain(Root, cls, iid)}
     IN  /\ left # {} => o # w
         /\ \E x \in IF left = {} THEN {Absent} ELSE left :
              IF p = NoDirector
                THEN /\ objs' = [objs EXCEPT ![w] = x]
                     /\ UNCHANGED owned
                ELSE LET class == mClassObjectMap[p][cls].class
                     IN  /\ objs' = [objs EXCEPT ![w] = x, ![o] = Queried(New(class))]
                         /\ owned' = [owned EXCEPT ![o] = QueryGives(class)]
  /\ UNCHANGED <<directorVars, ptr, loaded, dirHeld>>

UseObjects ==
  /\ loaded
  /\ ClientNext
  /\ UNCHANGED <<directorVars, loaded, dirHeld>>

(* FreeUnusedLibraries. OnUnload returns true and does nothing.            *)
Unload ==
  /\ loaded
  /\ CanUnloadNow[Root]
  /\ GameCounts => /\ \A d \in Directors : dirHeld[d] = 0
                   /\ \A o \in Objects : ~Alive(o)
  /\ loaded' = FALSE
  /\ UNCHANGED <<directorVars, objectVars, dirHeld>>

(* AddLibrary: the constructors set everything but the framework's list of *)
(* hooks, which no unload has touched.                                     *)
Load ==
  /\ ~loaded
  /\ loaded' = TRUE
  /\ mpCOM' = [d \in Directors |-> NoCom]
  /\ mChildDirectorArray' = [d \in Directors |-> <<>>]
  /\ mClassObjectMap' = [d \in Directors |-> <<>>]
  /\ mnRefCount' = [d \in Directors |-> 0]
  /\ UNCHANGED <<hooked, objectVars, dirHeld>>

Next ==
  \/ Register
  \/ \E d \in Directors : HoldDirector(d) \/ DropDirector(d)
  \/ \E cls \in ClassIDs, iid \in Interfaces, o, w \in Objects :
       GetClassObject(cls, iid, o, w)
  \/ UseObjects
  \/ Unload
  \/ Load

Spec == Init /\ [][Next]_vars

-----------------------------------------------------------------------------
(* Properties.                                                             *)

(* Whatever the order of initialisations and registrations, a director     *)
(* that the library's director leads to has its COM, and no other has one: *)
(* igzcomdirector.h, "should initialize any child directors as well".      *)
ComReachesChildren ==
  \A d \in Directors : mpCOM[d] = IF d \in Below(Root) THEN mpCOM[Root] ELSE NoCom

Children(d) == Range(mChildDirectorArray[d])

(* Reachable by the arrays alone, without the order of any recursion.      *)
Under(d) ==
  CHOOSE S \in SUBSET Directors :
    /\ d \in S
    /\ \A e \in S : Children(e) \subseteq S
    /\ \A T \in SUBSET S :
         d \in T /\ (\A e \in T : Children(e) \subseteq T) => T = S

(* GetClassObject finds a class when any director under the one asked      *)
(* serves it, and a director's own factory makes the object only when no   *)
(* director under it can.                                                  *)
LookupComplete ==
  \A d \in Directors, cls \in ClassIDs, iid \in Interfaces :
    LET p == Provider(d, cls, iid)
        able == {e \in Under(d) : Serves(e, cls, iid)}
    IN  IF able = {} THEN p = NoDirector
        ELSE p \in able /\ able \cap Under(p) = {p}

(* The count of a director is what the game holds of it, so while the      *)
(* library is loaded nothing it hands out is forgotten.                    *)
DirectorsCounted == loaded => mnRefCount = dirHeld

(* igzcomdirector.h on CanUnloadNow: "Signals to the game if it is safe    *)
(* for the director to unload". Unloading is safe when nothing of the      *)
(* library is referenced any more.                                         *)
UnloadSafe ==
  ~loaded => \A d \in Directors : dirHeld[d] = 0
=============================================================================
