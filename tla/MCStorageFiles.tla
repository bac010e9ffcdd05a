--------------------------- MODULE MCStorageFiles ---------------------------
(* Threads on the files of one key.                                        *)
EXTENDS StorageFiles, TLC

CONSTANTS t1, t2, v, w
OneThread == {t1}
TwoThreads == {t1, t2}
OneValue == {v}
TwoValues == {v, w}
ThreadSymmetry == Permutations(TwoThreads)
=============================================================================
