----------------------------- MODULE MCModeCommit -----------------------------
(* Small instances of ModeCommit for TLC: two online profiles and one for    *)
(* offline viewing.                                                          *)
EXTENDS ModeCommit, TLC

CONSTANTS on1, on2, off1

Modes == (on1 :> "online") @@ (on2 :> "online") @@ (off1 :> "offline")

ModeSymmetry == Permutations(SaveThread) \cup Permutations(Site) \cup Permutations({on1, on2})

=============================================================================
