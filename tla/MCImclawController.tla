------------------------- MODULE MCImclawController -------------------------
(* Model-checking instance of ImclawController.  Chats are interchangeable, *)
(* which the safety run over several of them uses.                         *)
EXTENDS ControllerRefinement, TLC

ChatSymmetry == Permutations(Chats)
=============================================================================
