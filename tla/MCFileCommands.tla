--------------------------- MODULE MCFileCommands ---------------------------
(* An instance of FileCommands for TLC: sessions, workers and names are     *)
(* interchangeable, each among its own kind.                                *)
EXTENDS FileCommands, TLC

Symmetry == Permutations(Sessions) \cup Permutations(Workers) \cup Permutations(Names)
=============================================================================
