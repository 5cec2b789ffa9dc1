---------------------------- MODULE LeaderElection ----------------------------
(***************************************************************************)
(* Leader election of the masters over etcd (ha_helper.cpp,                *)
(* etcd_helper.cpp, etcd_wrapper.go): MasterServiceSupervisor::Start runs  *)
(* ElectLeader, waits, serves while the keep-alive thread holds the lease  *)
(* of the master view key, and starts over.                                *)
(*                                                                         *)
(* Time is discrete and every clock keeps the time that is left.  The      *)
(* lease lives in etcd and runs from the moment etcd grants or renews it;   *)
(* a master counts from the moment the answer reaches it.  A call to etcd   *)
(* is given up after CallTimeout; the answer to a keep-alive may take any   *)
(* time.  The keep-alive channel of the etcd client closes when no answer   *)
(* came for LeaseTTL, or for FirstTTL if none came yet, and its deadlines    *)
(* are looked at every now and then only: the server stops up to StopLag    *)
(* after them.                                                              *)
(***************************************************************************)
EXTENDS Integers

CONSTANTS
  Master,      \* addresses of the masters
  LeaseTTL,    \* ETCD_MASTER_VIEW_LEASE_TTL
  FirstTTL,    \* deadline of a keep-alive channel before its first answer
  CallTimeout, \* context.WithTimeout of the calls to etcd
  StopLag,     \* longest time from the deadline to the end of server.stop()
  NoKey        \* the master view key does not exist

ASSUME LeaseAssumption == LeaseTTL \in Nat \ {0}
ASSUME ClockAssumption ==
  /\ FirstTTL \in Nat
  /\ FirstTTL >= LeaseTTL
  /\ CallTimeout \in Nat
  /\ StopLag \in Nat
ASSUME NoKeyAssumption ==
  /\ NoKey \notin Master
  /\ NoKey \notin [owner : Master, left : 0 .. LeaseTTL, kept : BOOLEAN]

VARIABLES
  key,         \* the master view key, with the time left of its lease
  pc,          \* where each supervisor is
  lease,       \* time left of the lease granted before the key is created
  keeper,      \* the keep-leader thread
  deadline,    \* time until the server is stopped, unless an answer comes
  answers,     \* the masters to which the answer to a keep-alive is on its way
  wait,        \* time left of the create call, or of the sleep before the service
  late         \* history: the masters whose last answer came late

electionVars == <<key, pc, lease, keeper, deadline, answers, wait, late>>

ViewKey == [owner : Master, left : 0 .. LeaseTTL, kept : BOOLEAN]

\* get, watch (not yet registered with etcd), watching, grant, create and created
\* (the answer is on its way) are in ElectLeader; down is a process that has
\* crashed or returned -1.
Electing == {"get", "watch", "watching", "grant", "create", "created"}
Pc == Electing \cup {"wait", "serving", "stopped", "down"}

\* Types of the election's state: no answer makes a master count on more than a
\* TTL from its arrival, and no call outlasts its timeout.
ElectionTypeOK ==
  /\ key \in ViewKey \cup {NoKey}
  /\ pc \in [Master -> Pc]
  /\ lease \in [Master -> 0 .. LeaseTTL]
  /\ keeper \in [Master -> {"none", "running", "ended", "stopped"}]
  /\ deadline \in [Master -> 0 .. FirstTTL + StopLag]
  /\ answers \in SUBSET Master
  /\ wait \in [Master -> (0 .. LeaseTTL) \cup (0 .. CallTimeout)]
  /\ late \in SUBSET Master

ElectionInit ==
  /\ key = NoKey
  /\ pc = [m \in Master |-> "get"]
  /\ lease = [m \in Master |-> 0]
  /\ keeper = [m \in Master |-> "none"]
  /\ deadline = [m \in Master |-> 0]
  /\ answers = {}
  /\ wait = [m \in Master |-> 0]
  /\ late = {}

\* The lease of m's current term is alive in etcd.
Holds(m) == key # NoKey /\ key.owner = m /\ key.kept

Serving(m) == pc[m] = "serving"

\* The term of m is over: the key, if it is still there, is kept by nobody.
Drop(m) == IF Holds(m) THEN [key EXCEPT !.kept = FALSE] ELSE key

\* The end of m's term, and of whatever it was waiting for: nobody keeps the key
\* alive any more and no clock of m runs.
EndTerm(m) ==
  /\ key' = Drop(m)
  /\ keeper' = [keeper EXCEPT ![m] = "none"]
  /\ deadline' = [deadline EXCEPT ![m] = 0]
  /\ answers' = answers \ {m}
  /\ lease' = [lease EXCEPT ![m] = 0]
  /\ wait' = [wait EXCEPT ![m] = 0]
  /\ late' = late \ {m}

\* The time etcd still gives m.
LeftOf(m) == IF Holds(m) THEN key.left ELSE 0

\* An answer reaches m, which goes on for ttl from now.  It comes late if m may
\* then outlast what is left of its lease by LeaseTTL or more, the time for which
\* the next leader sleeps.
CountFrom(m, ttl) ==
  /\ deadline' = [deadline EXCEPT ![m] = ttl + StopLag]
  /\ late' = IF ttl + StopLag >= LeaseTTL + LeftOf(m) THEN late \cup {m} ELSE late \ {m}

-----------------------------------------------------------------------------
(* ElectLeader.                                                            *)

\* EtcdHelper::Get.
GetLeader(m) ==
  /\ pc[m] = "get"
  /\ pc' = [pc EXCEPT ![m] = IF key = NoKey THEN "grant" ELSE "watch"]
  /\ UNCHANGED <<key, lease, keeper, deadline, answers, wait, late>>

\* WatchUntilDeleted: the watch starts at etcd's current revision, whatever
\* happened since the Get.
StartWatch(m) ==
  /\ pc[m] = "watch"
  /\ pc' = [pc EXCEPT ![m] = "watching"]
  /\ UNCHANGED <<key, lease, keeper, deadline, answers, wait, late>>

GrantLease(m) ==
  /\ pc[m] = "grant"
  /\ pc' = [pc EXCEPT ![m] = "create"]
  /\ lease' = [lease EXCEPT ![m] = LeaseTTL]
  /\ UNCHANGED <<key, keeper, deadline, answers, wait, late>>

\* CreateWithLease puts the key, as long as the lease is alive; the answer is on
\* its way.
CreateWithLease(m) ==
  /\ pc[m] = "create"
  /\ key = NoKey
  /\ lease[m] > 0
  /\ key' = [owner |-> m, left |-> lease[m], kept |-> TRUE]
  /\ pc' = [pc EXCEPT ![m] = "created"]
  /\ lease' = [lease EXCEPT ![m] = 0]
  /\ wait' = [wait EXCEPT ![m] = CallTimeout]
  /\ UNCHANGED <<keeper, deadline, answers, late>>

\* ElectLeader returns.  Start launches the keep-leader thread and goes to sleep
\* for LeaseTTL, whatever has become of the lease meanwhile.
Elected(m) ==
  /\ pc[m] = "created"
  /\ pc' = [pc EXCEPT ![m] = "wait"]
  /\ keeper' = [keeper EXCEPT ![m] = "running"]
  /\ CountFrom(m, FirstTTL)
  /\ wait' = [wait EXCEPT ![m] = LeaseTTL]
  /\ UNCHANGED <<key, lease, answers>>

\* Mutant: after a refused transaction the key is watched without a Get.
CreateRefusedWatches(m) ==
  /\ pc[m] = "create"
  /\ key # NoKey \/ lease[m] = 0
  /\ pc' = [pc EXCEPT ![m] = "watch"]
  /\ lease' = [lease EXCEPT ![m] = 0]
  /\ UNCHANGED <<key, keeper, deadline, answers, wait, late>>

\* The transaction fails because the key exists, or the lease is gone.
CreateRefused(m) ==
  /\ pc[m] = "create"
  /\ key # NoKey \/ lease[m] = 0
  /\ pc' = [pc EXCEPT ![m] = "get"]
  /\ lease' = [lease EXCEPT ![m] = 0]
  /\ UNCHANGED <<key, keeper, deadline, answers, wait, late>>

\* Any etcd call fails or times out, a watch channel that closes included: sleep
\* a second and start over.  A key that was created is kept alive by nobody.
EtcdError(m) ==
  /\ pc[m] \in Electing \ {"get"}
  /\ pc' = [pc EXCEPT ![m] = "get"]
  /\ EndTerm(m)

-----------------------------------------------------------------------------
(* Start.                                                                  *)

\* Mutant: the service starts right after the election.
StartServerAtOnce(m) ==
  /\ pc[m] = "wait"
  /\ keeper[m] = "running"
  /\ pc' = [pc EXCEPT ![m] = "serving"]
  /\ UNCHANGED <<key, keeper, answers, lease, deadline, wait, late>>

\* async_start: refused when the keep-leader thread has already stopped the
\* server, and then the process ends.
StartServer(m) ==
  /\ pc[m] = "wait"
  /\ wait[m] = 0
  /\ IF keeper[m] = "stopped"
       THEN /\ pc' = [pc EXCEPT ![m] = "down"]
            /\ EndTerm(m)
       ELSE /\ pc' = [pc EXCEPT ![m] = "serving"]
            /\ UNCHANGED <<key, lease, keeper, deadline, answers, wait, late>>

\* The server stops on an error of its own.
ServerFails(m) ==
  /\ Serving(m)
  /\ pc' = [pc EXCEPT ![m] = "stopped"]
  /\ UNCHANGED <<key, lease, keeper, deadline, answers, wait, late>>

\* CancelKeepAlive, the keep-leader thread is joined and the loop starts over.
CancelKeepAlive(m) ==
  /\ pc[m] = "stopped"
  /\ pc' = [pc EXCEPT ![m] = "get"]
  /\ EndTerm(m)

-----------------------------------------------------------------------------
(* KeepLeader.                                                             *)

\* etcd renews the lease; the answer is on its way.
Renew(m) ==
  /\ keeper[m] = "running"
  /\ Holds(m)
  /\ m \notin answers
  /\ key' = [key EXCEPT !.left = LeaseTTL]
  /\ answers' = answers \cup {m}
  /\ UNCHANGED <<pc, lease, keeper, deadline, wait, late>>

\* Mutant: each answer prolongs the session by the TTL.
RenewedAdds(m) ==
  /\ keeper[m] = "running"
  /\ m \in answers
  /\ deadline' = [deadline EXCEPT ![m] = @ + LeaseTTL]
  /\ answers' = answers \ {m}
  /\ UNCHANGED <<key, pc, lease, keeper, wait, late>>

\* The answer arrives and the client counts from now.
Renewed(m) ==
  /\ keeper[m] = "running"
  /\ m \in answers
  /\ CountFrom(m, LeaseTTL)
  /\ answers' = answers \ {m}
  /\ UNCHANGED <<key, pc, lease, keeper, wait>>

RenewalLost(m) ==
  /\ m \in answers
  /\ answers' = answers \ {m}
  /\ UNCHANGED <<key, pc, lease, keeper, deadline, wait, late>>

\* KeepLeader returns: the channel closed at its deadline or soon after, or etcd
\* answered that the lease does not exist.
KeepAliveEnds(m) ==
  /\ keeper[m] = "running"
  /\ deadline[m] <= StopLag \/ ~Holds(m)
  /\ keeper' = [keeper EXCEPT ![m] = "ended"]
  /\ UNCHANGED <<key, pc, lease, deadline, answers, wait, late>>

\* Mutant: server.stop() has no effect on a server that has started.
StopServerIdle(m) ==
  /\ keeper[m] = "ended"
  /\ keeper' = [keeper EXCEPT ![m] = "stopped"]
  /\ UNCHANGED <<key, pc, lease, deadline, answers, wait, late>>

\* The keep-leader thread calls server.stop().
StopServer(m) ==
  /\ keeper[m] = "ended"
  /\ keeper' = [keeper EXCEPT ![m] = "stopped"]
  /\ pc' = IF Serving(m) THEN [pc EXCEPT ![m] = "stopped"] ELSE pc
  /\ UNCHANGED <<key, lease, deadline, answers, wait, late>>

-----------------------------------------------------------------------------
(* etcd, processes and time.                                               *)

\* The lease of the key runs out, at its end or later: etcd deletes the key
\* and tells those who watch it.
KeyExpires ==
  /\ key # NoKey
  /\ key.left = 0
  /\ key' = NoKey
  /\ pc' = [m \in Master |-> IF pc[m] = "watching" THEN "grant" ELSE pc[m]]
  /\ UNCHANGED <<lease, keeper, deadline, answers, wait, late>>

Crash(m) ==
  /\ pc[m] # "down"
  /\ pc' = [pc EXCEPT ![m] = "down"]
  /\ EndTerm(m)

Restart(m) ==
  /\ pc[m] = "down"
  /\ pc' = [pc EXCEPT ![m] = "get"]
  /\ UNCHANGED <<key, lease, keeper, deadline, answers, wait, late>>

Earlier(n) == IF n > 0 THEN n - 1 ELSE 0

\* Nothing of m is overdue: its server is stopped within StopLag of the deadline
\* of its keep-alive channel, and its create call ends at the timeout.
OnTime(m) ==
  /\ keeper[m] # "ended"
  /\ keeper[m] = "running" => deadline[m] > 0
  /\ pc[m] = "created" => wait[m] > 0

Tick ==
  /\ \A m \in Master : OnTime(m)
  /\ key' = IF key = NoKey THEN key ELSE [key EXCEPT !.left = Earlier(@)]
  /\ lease' = [m \in Master |-> Earlier(lease[m])]
  /\ deadline' = [m \in Master |-> Earlier(deadline[m])]
  /\ wait' = [m \in Master |-> Earlier(wait[m])]
  /\ UNCHANGED <<pc, keeper, answers, late>>

MasterStep(m) ==
  \/ GetLeader(m) \/ StartWatch(m) \/ GrantLease(m)
  \/ CreateWithLease(m) \/ CreateRefused(m) \/ Elected(m)
  \/ EtcdError(m) \/ ServerFails(m) \/ CancelKeepAlive(m)
  \/ Renew(m) \/ Renewed(m) \/ RenewalLost(m) \/ KeepAliveEnds(m)
  \/ StopServer(m) \/ Crash(m) \/ Restart(m)

ElectionStep ==
  \/ KeyExpires
  \/ Tick
  \/ \E m \in Master : MasterStep(m)

ElectionNext == ElectionStep \/ \E m \in Master : StartServer(m)

ElectionSpec == ElectionInit /\ [][ElectionNext]_electionVars

\* A supervisor goes on unless it crashes, and an etcd call that is retried
\* every second goes through eventually.
ElectionFairness ==
  /\ WF_electionVars(KeyExpires)
  /\ WF_electionVars(Tick)
  /\ \A m \in Master :
       /\ WF_electionVars(GetLeader(m))
       /\ WF_electionVars(StartWatch(m))
       /\ SF_electionVars(GrantLease(m))
       /\ SF_electionVars(CreateWithLease(m))
       /\ WF_electionVars(CreateRefused(m))
       /\ WF_electionVars(Elected(m))
       /\ WF_electionVars(StartServer(m))
       /\ WF_electionVars(CancelKeepAlive(m))
       /\ WF_electionVars(Renewed(m))
       /\ WF_electionVars(KeepAliveEnds(m))
       /\ WF_electionVars(StopServer(m))

FairElectionSpec == ElectionSpec /\ ElectionFairness
-----------------------------------------------------------------------------

\* At most one master serves clients: "To prevent potential split-brain, wait long
\* enough for the old leader to retire" (ha_helper.cpp, Start).
AtMostOneServing ==
  \A m, n \in Master : Serving(m) /\ Serving(n) => m = n

\* Two masters serve at the same time only if the last answer one of them counts
\* from came late: the sleep of LeaseTTL before the service starts outlasts every
\* other leader that has not yet noticed that its lease is gone, whatever
\* crashes, lost answers and expired leases there were before.
OneServesUnlessLate ==
  \A m, n \in Master :
    Serving(m) /\ Serving(n) => m = n \/ m \in late \/ n \in late

\* The election as the clients see it, and the mapping to it.
ViewOf == IF key = NoKey THEN NoKey ELSE key.owner
LeaderOf ==
  IF \E m \in Master : Serving(m) THEN CHOOSE m \in Master : Serving(m) ELSE NoKey

Abstract == INSTANCE Leadership
  WITH NoMaster <- NoKey, view <- ViewOf, leader <- LeaderOf

\* As long as no answer came late the masters implement Leadership: every step of
\* a supervisor, its keep-leader thread and etcd is one of its steps or none.  A
\* master starts to serve only when no other one does, and the master view never
\* changes from one master to another directly.
LeadershipUnlessLate ==
  /\ Abstract!LeadershipInit
  /\ [][late \cup late' = {} =>
          Abstract!LeadershipNext \/ UNCHANGED <<ViewOf, LeaderOf>>]_electionVars

\* While the master view key is absent, a supervisor that has seen so (it is
\* past the Get or the watch of ElectLeader) gets the key created, by itself
\* or by another one, unless it crashes.
ContenderElects ==
  \A m \in Master :
    key = NoKey /\ pc[m] \in {"get", "grant", "create"}
      ~> key # NoKey \/ pc[m] = "down"

\* "If the current leader fails or becomes partitioned from the network, the
\* remaining master nodes automatically perform a new leader election"
\* (mooncake-store.md): while the key is absent, any supervisor that runs gets
\* the key created, unless it crashes.
FailoverElects ==
  \A m \in Master :
    key = NoKey /\ pc[m] # "down" ~> key # NoKey \/ pc[m] = "down"
=============================================================================
