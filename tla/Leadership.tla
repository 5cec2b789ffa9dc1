------------------------------ MODULE Leadership ------------------------------
(***************************************************************************)
(* What the election promises to the clients of the store: the master view *)
(* they read from etcd names one master or none and changes only through   *)
(* none; masters serve one at a time, each term with a fresh service.      *)
(* LeaderElection implements this specification; ClientFailover builds on  *)
(* it.                                                                     *)
(***************************************************************************)
CONSTANTS
  Master,      \* addresses of the masters
  NoMaster

ASSUME NoMasterAssumption == NoMaster \notin Master

VARIABLES
  view,        \* the master in the master view key, NoMaster if it is absent
  leader       \* the master that serves, NoMaster if none does

leadershipVars == <<view, leader>>

LeadershipTypeOK ==
  /\ view \in Master \cup {NoMaster}
  /\ leader \in Master \cup {NoMaster}

LeadershipInit ==
  /\ view = NoMaster
  /\ leader = NoMaster

\* The master view key is created; the master before may still serve.
Elect(m) ==
  /\ view = NoMaster
  /\ view' = m
  /\ UNCHANGED leader

\* The master view key is deleted.
Depose ==
  /\ view # NoMaster
  /\ view' = NoMaster
  /\ UNCHANGED leader

\* A master starts to serve, with its view or after it has lost it.
Begin(m) ==
  /\ leader = NoMaster
  /\ leader' = m
  /\ UNCHANGED view

\* The master that serves stops.
Retire ==
  /\ leader # NoMaster
  /\ leader' = NoMaster
  /\ UNCHANGED view

LeadershipNext ==
  \/ Depose
  \/ Retire
  \/ \E m \in Master : Elect(m) \/ Begin(m)

LeadershipSpec == LeadershipInit /\ [][LeadershipNext]_leadershipVars
=============================================================================
