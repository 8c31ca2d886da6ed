---------------------------- MODULE MCMemoryStore ----------------------------
(* Small instances of MemoryStore.                                          *)
EXTENDS MemoryStore, TLC

MCSymmetry == Permutations(Process) \cup Permutations(Topic)

=============================================================================
