----------------------------- MODULE RZRefCount -----------------------------
(***************************************************************************)
(* The reference counts of the COM objects of this code: cRZString's and   *)
(* cRZCmdLine's AddRef, Release and QueryInterface (rzstring.cpp,          *)
(* rzcmdline.cpp), under clients that own counted references and wrappers  *)
(* (rzautorefcount.h, rzsysservptr.h).                                     *)
(*                                                                         *)
(* A client releases what it owns, once. From cRZCmdLine's QueryInterface, *)
(* which adds no reference, it owns nothing until it calls AddRef.         *)
(***************************************************************************)
EXTENDS Naturals, FiniteSets, Functions

CONSTANTS
  Objects,    \* the memory blocks objects live in
  Wrappers,   \* the cRZAutoRefCount and cRZSysServPtr variables
  NoObject,   \* the null pointer
  Width,      \* number of values of the reference count (2^32 in the code)
  MaxOwned    \* bound on the references clients own of one object

ASSUME ObjectAssumption ==
  /\ NoObject \notin Objects
  /\ Width \in Nat \ {0, 1}

(* A count has a value for every number of references there can be.        *)
ASSUME ReferenceAssumption ==
  /\ IsFiniteSet(Wrappers)
  /\ MaxOwned \in Nat \ {0}
  /\ MaxOwned + Cardinality(Wrappers) < Width

Classes == {"string", "cmdline"}

VARIABLES
  objs,    \* what is in each memory block: an object's class and count
  owned,   \* the references to each object that clients own, outside wrappers
  ptr      \* mpObject or mpService of each wrapper

objectVars == <<objs, owned, ptr>>

Absent == [class |-> "absent", count |-> 0]

ObjectTypeOK ==
  /\ objs \in [Objects -> [class : Classes \cup {"absent"}, count : 0 .. Width - 1]]
  /\ owned \in [Objects -> 0 .. MaxOwned]
  /\ ptr \in [Wrappers -> Objects \cup {NoObject}]

ObjectInit ==
  /\ objs = [o \in Objects |-> Absent]
  /\ owned = [o \in Objects |-> 0]
  /\ ptr = [w \in Wrappers |-> NoObject]

Alive(o) == objs[o].class # "absent"

-----------------------------------------------------------------------------
(* What the methods do to the object in a block.                           *)

New(class) == [class |-> class, count |-> 0]

AddedRef(x) == [x EXCEPT !.count = (@ + 1) % Width]

(* cRZString takes one off and deletes at zero; cRZCmdLine deletes at one  *)
(* or less before it would take one off.                                   *)
Released(x) ==
  IF x.class = "string"
    THEN LET n == (x.count + Width - 1) % Width
         IN  IF n = 0 THEN Absent ELSE [x EXCEPT !.count = n]
    ELSE IF x.count <= 1 THEN Absent ELSE [x EXCEPT !.count = @ - 1]

(* A QueryInterface of either class that counts.                           *)
QueriedBoth(x) == AddedRef(x)

(* A QueryInterface that succeeds.                                         *)
Queried(x) == IF x.class = "string" THEN AddedRef(x) ELSE x

QueryGives(class) == IF class = "string" THEN 1 ELSE 0

(* GetClassObject on an object just made whose QueryInterface refuses.     *)
Refused(class) == Released(AddedRef(New(class)))

-----------------------------------------------------------------------------
(* The clients.                                                            *)

AddRefObject(o) ==
  /\ Alive(o)
  /\ owned[o] < MaxOwned
  /\ owned[o] > 0 \/ (objs[o].class = "cmdline" /\ objs[o].count = 0)
  /\ objs' = [objs EXCEPT ![o] = AddedRef(@)]
  /\ owned' = [owned EXCEPT ![o] = @ + 1]
  /\ UNCHANGED ptr

QueryInterface(o) ==
  /\ owned[o] > 0
  /\ owned[o] + QueryGives(objs[o].class) <= MaxOwned
  /\ objs' = [objs EXCEPT ![o] = Queried(@)]
  /\ owned' = [owned EXCEPT ![o] = @ + QueryGives(objs[o].class)]
  /\ UNCHANGED ptr

ReleaseObject(o) ==
  /\ owned[o] > 0
  /\ objs' = [objs EXCEPT ![o] = Released(@)]
  /\ owned' = [owned EXCEPT ![o] = @ - 1]
  /\ UNCHANGED ptr

(* cRZAutoRefCount of a pointer and cRZSysServPtr(): the wrapper takes a   *)
(* reference over that its maker owned.                                    *)
Wrap(w, o) ==
  /\ ptr[w] = NoObject
  /\ owned[o] > 0
  /\ owned' = [owned EXCEPT ![o] = @ - 1]
  /\ ptr' = [ptr EXCEPT ![w] = o]
  /\ UNCHANGED objs

(* The pointers a client can have: of its own references, or out of a      *)
(* wrapper.                                                                *)
Pointers == {o \in Objects : owned[o] > 0 \/ o \in Range(ptr)} \cup {NoObject}

(* The blocks after the wrapper's old object is released and the new one   *)
(* is given a reference.                                                   *)
Swapped(old, new) ==
  LET dropped == IF old = NoObject THEN objs
                 ELSE [objs EXCEPT ![old] = Released(@)]
  IN  IF new = NoObject THEN dropped
      ELSE [dropped EXCEPT ![new] = AddedRef(@)]

(* The wrapper assigned to itself releases first all the same.             *)
AssignAlways(w, o) ==
  /\ objs' = Swapped(ptr[w], o)
  /\ ptr' = [ptr EXCEPT ![w] = o]
  /\ UNCHANGED owned

(* cRZAutoRefCount's operator= of a pointer, which does nothing for the    *)
(* pointer it already has.                                                 *)
Assign(w, o) ==
  /\ objs' = IF ptr[w] = o THEN objs ELSE Swapped(ptr[w], o)
  /\ ptr' = [ptr EXCEPT ![w] = o]
  /\ UNCHANGED owned

(* The wrapper's destructor.                                               *)
DestroyWrapper(w) ==
  /\ ptr[w] # NoObject
  /\ objs' = [objs EXCEPT ![ptr[w]] = Released(@)]
  /\ ptr' = [ptr EXCEPT ![w] = NoObject]
  /\ UNCHANGED owned

ClientNext ==
  \/ \E o \in Objects : AddRefObject(o) \/ QueryInterface(o) \/ ReleaseObject(o)
  \/ \E w \in Wrappers :
       \/ DestroyWrapper(w)
       \/ \E o \in Objects : Wrap(w, o)
       \/ \E o \in Pointers : Assign(w, o)

-----------------------------------------------------------------------------
(* Properties.                                                             *)

References(o) == owned[o] + Cardinality({w \in Wrappers : ptr[w] = o})

(* The count of every object is the number of references to it, over any   *)
(* mix of raw references and wrappers: igzunknown.h, "implement            *)
(* refcounting as specified".                                              *)
CountsReferences == \A o \in Objects : objs[o].count = References(o)

(* No block is freed while a reference or a wrapper points to it, and none *)
(* stays when nothing does. A cRZCmdLine nobody called AddRef on is the    *)
(* exception: it belongs to the client that got it.                        *)
FreedExactly ==
  \A o \in Objects :
    /\ References(o) > 0 => Alive(o)
    /\ Alive(o) => References(o) > 0 \/ objs[o] = New("cmdline")
=============================================================================
