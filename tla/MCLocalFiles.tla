----------------------------- MODULE MCLocalFiles -----------------------------
(***************************************************************************)
(* Small instances of ClientSetup and Updates for TLC: what kirolb does to  *)
(* the files of the machine it runs on, its clients' configuration and its *)
(* own executable.  A behaviour is about one of the two.                   *)
(***************************************************************************)
EXTENDS ClientSetup, Updates, TLC

VARIABLE subject

FilesInit ==
    /\ subject \in {"clients", "executable"}
    /\ Init /\ UpdatesInit
    /\ subject = "clients" => platform = "unix"
    /\ subject = "executable" => \A t \in Targets : Found(t) = Absent

FilesNext ==
    /\ UNCHANGED subject
    /\ \/ subject = "clients" /\ Next /\ UNCHANGED uvars
       \/ subject = "executable" /\ UpdatesNext /\ UNCHANGED vars

FilesSpec == FilesInit /\ [][FilesNext]_<<vars, uvars, subject>>

Symmetry == Permutations(Versions) \cup Permutations(Askers)
===============================================================================
