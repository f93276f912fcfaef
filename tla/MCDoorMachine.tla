--------------------------- MODULE MCDoorMachine ---------------------------
(***************************************************************************)
(* The two automata of the gateway that a machine feeds and that do not    *)
(* trust it: the door automaton, which meets every input in every order,   *)
(* and the terminal emulator, which meets every control sequence.  They    *)
(* share no state, so a behaviour is of one of them.                       *)
(***************************************************************************)
EXTENDS DoorMachine, Terminal, TLC

VARIABLE fed

mcVars == <<fed, vars, vt>>

MCInit ==
  /\ Init /\ fed \in {"door", "terminal"}
  /\ IF fed = "door" THEN vt = NewVT(1, 1) ELSE TerminalInit

MCNext ==
  \/ fed = "door" /\ Next /\ UNCHANGED <<fed, vt>>
  \/ fed = "terminal" /\ TerminalNext /\ UNCHANGED <<fed, vars>>

MCSpec == MCInit /\ [][MCNext]_mcVars

\* One column and three rows: blocks of output with a blank row between them.
\* Two columns and one row: wraps, wide runes and tabs.
MCSizes == {<<1, 3>>, <<2, 1>>}

\* The least number, the default, and the greatest.
MCNumbers == {-16, 0, 15}

Symmetry == Permutations(DoorIDs)
=============================================================================
