---------------------------- MODULE MCMachineConn ----------------------------
EXTENDS MachineConn, TLC

\* That many ids are never in use at once.
MCDoorIDs == 1..8

CallerSymmetry == Permutations(Callers)
=============================================================================
