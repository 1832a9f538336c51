------------------------------ MODULE MCRZCom ------------------------------
(* Instances of RZCom: a library of three directors, one class with two    *)
(* factories that serve different interfaces, and two blocks for objects.  *)
EXTENDS RZCom, TLC

CONSTANTS root, a, b, com, cls, iid1, iid2, o1, o2, w1

ThreeDirectors == {root, a, b}

(* The directors below root, and the blocks, are interchangeable.          *)
Symmetry == Permutations({a, b}) \cup Permutations({o1, o2})

(* A type 1 factory for a string and a type 2 function for a command line, *)
(* which also serves the interface the string refuses.                     *)
TwoFactories == {[type |-> 1, class |-> "string", serves |-> {iid1}],
                 [type |-> 2, class |-> "cmdline", serves |-> {iid2}]}
=============================================================================
