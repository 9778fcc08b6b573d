---------------------------- MODULE MCCallbackSlot ----------------------------
(***************************************************************************)
(* Small instances of CallbackSlot for TLC.                                *)
(***************************************************************************)
EXTENDS CallbackSlot, TLC

\* The threads of each kind and the closures are interchangeable.
Symmetry ==
    Permutations(Users) \cup Permutations(Dispatchers) \cup Permutations(Closures)
=============================================================================
