--------------------------- MODULE MCClientFiles ----------------------------
(* Two files, one of them an APK, whose names share a progress bar.         *)
EXTENDS ClientFiles, TLC

CONSTANTS f1, f2

MCBarOf == [f \in {f1, f2} |-> "bar"]
Calls   == Permutations(Loads) \cup Permutations(Uploads) \cup Permutations(Batches)
=============================================================================
