----------------------------- MODULE MCJournal -----------------------------
(***************************************************************************)
(* Who writes to the journal: two commands of one person, watched under    *)
(* different names; or one sftp session, with its lines; or the requests   *)
(* that watch a session, each of which needs a line first.  And, on a      *)
(* machine, the server and the watchdogs that write its journal of doors.  *)
(* The four share no state the properties look at, so a behaviour is of    *)
(* one of them.                                                            *)
(***************************************************************************)
EXTENDS Journal, Sftp, LiveTail, DoorJournal

VARIABLE who  \* whose behaviour it is

mcVars == <<who, vars, sftpVars, liveVars, sinkVars>>

MCInit ==
  /\ Init /\ SftpInit /\ LiveTailInit /\ DoorJournalInit
  /\ who \in {"commands", "sftp", "watchers", "machine"}
  /\ who # "watchers" => \A a \in Asks : asker[a] = OwnMachine

MCNext ==
  \/ who = "commands" /\ Next /\ UNCHANGED <<who, sftpVars, liveVars, sinkVars>>
  \/ who = "sftp" /\ SftpNext /\ UNCHANGED <<who, vars, liveVars, sinkVars>>
  \/ who = "watchers" /\ LiveTailNext /\ UNCHANGED <<who, vars, sftpVars, sinkVars>>
  \/ who = "machine" /\ DoorJournalNext /\ UNCHANGED <<who, vars, sftpVars, liveVars>>

MCSpec == MCInit /\ [][MCNext]_mcVars

MCKeyOf == [c \in Cmds |-> <<"alice", c>>]

Symmetry == Permutations(Cmds)
=============================================================================
