---------------------------- MODULE ClientFailover ----------------------------
(***************************************************************************)
(* A client and its segments through a change of masters (client.cpp,      *)
(* master_client.cpp): MountSegment and UnmountSegment of the application, *)
(* the ping thread with its remount thread, and the part of each master's  *)
(* service that they talk to (MasterService models the whole of it).       *)
(*                                                                         *)
(* An RPC goes to the master the client is connected to when it starts.    *)
(* It runs there if the master serves, and its answer may get lost; of a   *)
(* ReMountSegment the caller may also have timed out before it runs.       *)
(***************************************************************************)
EXTENDS Leadership, Naturals

CONSTANTS
  Seg,           \* ids of the segments; each MountSegment takes a new one
  MaxPingFail,   \* max_ping_fail_count
  MaxFaults,     \* lost calls and answers, and expiries of the client
  NoSeg

ASSUME ClientAssumption ==
  /\ MaxPingFail \in Nat \ {0}
  /\ MaxFaults \in Nat
  /\ NoSeg \notin Seg

VARIABLES
  svc,        \* what each master's service knows of the client
  conn,       \* client_addr_param_: the master the client is connected to
  fails,      \* ping_fail_count
  segs,       \* mounted_segments_
  used,       \* ids that MountSegment has generated
  gone,       \* segments whose UnmountSegment has returned OK
  doubtful,   \* segments whose UnmountSegment has failed
  lock,       \* holder of mounted_segments_mutex_
  app,        \* the call of the application
  remount,    \* remount_segment_future
  late,       \* the ReMountSegments whose caller has timed out
  faults

clientVars ==
  <<conn, fails, segs, used, gone, doubtful, lock, app, remount, late, faults>>
haVars == <<leadershipVars, svc, clientVars>>

FreshService == [ok |-> FALSE, mounted |-> {}]
IdleApp == [op |-> "idle", seg |-> NoSeg, to |-> NoMaster]
RemountIn(st) == [st |-> st, segs |-> {}, to |-> NoMaster]

\* Types of the client's state and of the masters' view of it.
HATypeOK ==
  /\ LeadershipTypeOK
  /\ svc \in [Master -> [ok : BOOLEAN, mounted : SUBSET Seg]]
  /\ conn \in Master
  /\ fails \in 0 .. MaxPingFail
  /\ segs \in SUBSET Seg /\ used \in SUBSET Seg
  /\ gone \in SUBSET Seg /\ doubtful \in SUBSET Seg
  /\ lock \in {"free", "app", "remount"}
  /\ app \in [op : {"idle", "mount", "unmount"}, seg : Seg \cup {NoSeg},
              to : Master \cup {NoMaster}]
  /\ remount \in [st : {"none", "waiting", "rpc", "ready"}, segs : SUBSET Seg,
                  to : Master \cup {NoMaster}]
  /\ late \in SUBSET [segs : SUBSET Seg, to : Master, ran : BOOLEAN]
  /\ faults \in 0 .. MaxFaults

\* ConnectToMaster has connected the client to some master.
HAInit ==
  /\ LeadershipInit
  /\ svc = [m \in Master |-> FreshService]
  /\ conn \in Master
  /\ fails = 0
  /\ segs = {} /\ used = {} /\ gone = {} /\ doubtful = {}
  /\ lock = "free"
  /\ app = IdleApp
  /\ remount = RemountIn("none")
  /\ late = {}
  /\ faults = 0

Fault == faults < MaxFaults /\ faults' = faults + 1

-----------------------------------------------------------------------------
(* The masters' side of the RPCs.                                          *)

MountAt(m, s) == [svc EXCEPT ![m].mounted = @ \cup {s}]
UnmountAt(m, s) == [svc EXCEPT ![m].mounted = @ \ {s}]

\* Mutant: a client some of whose segments are mounted is taken for remounted.
ReMountIfNone(m, S) ==
  IF svc[m].ok THEN svc
  ELSE [svc EXCEPT ![m] =
          [ok |-> TRUE, mounted |-> IF @.mounted = {} THEN S ELSE @.mounted]]

\* MasterService::ReMountSegment does nothing for a client that is OK.
ReMountAt(m, S) ==
  IF svc[m].ok THEN svc
  ELSE [svc EXCEPT ![m] = [ok |-> TRUE, mounted |-> @.mounted \cup S]]

\* The master's client monitor has heard no ping for the client's TTL.
ClientExpires(m) ==
  /\ leader = m
  /\ svc' = [svc EXCEPT ![m] = FreshService]
  /\ Fault
  /\ UNCHANGED <<leadershipVars, conn, fails, segs, used, gone, doubtful, lock,
                 app, remount, late>>

\* A new term starts with a new WrappedMasterService.
StartService(m) ==
  /\ Begin(m)
  /\ UNCHANGED <<svc, clientVars>>

\* The server stops and takes its service and the requests to it along.
StopService ==
  /\ Retire
  /\ svc' = [svc EXCEPT ![leader] = FreshService]
  /\ late' = {r \in late : r.to # leader}
  /\ UNCHANGED <<conn, fails, segs, used, gone, doubtful, lock, app, remount,
                 faults>>

-----------------------------------------------------------------------------
(* The application's calls hold mounted_segments_mutex_ until they return. *)

MountSegment(s) ==
  /\ lock = "free"
  /\ s \notin used
  /\ lock' = "app"
  /\ used' = used \cup {s}
  /\ app' = [op |-> "mount", seg |-> s, to |-> conn]
  /\ UNCHANGED <<leadershipVars, svc, conn, fails, segs, gone, doubtful, remount,
                 late, faults>>

UnmountSegment(s) ==
  /\ lock = "free"
  /\ s \in segs
  /\ lock' = "app"
  /\ app' = [op |-> "unmount", seg |-> s, to |-> conn]
  /\ UNCHANGED <<leadershipVars, svc, conn, fails, segs, used, gone, doubtful,
                 remount, late, faults>>

\* What the call does at the master it was sent to.
Served ==
  IF app.op = "mount" THEN MountAt(app.to, app.seg) ELSE UnmountAt(app.to, app.seg)

\* The call ran and its answer arrived.
CallReturns ==
  /\ app.op # "idle"
  /\ leader = app.to
  /\ svc' = Served
  /\ segs' = IF app.op = "mount" THEN segs \cup {app.seg} ELSE segs \ {app.seg}
  /\ gone' = IF app.op = "mount" THEN gone ELSE gone \cup {app.seg}
  /\ lock' = "free"
  /\ app' = IdleApp
  /\ UNCHANGED <<leadershipVars, conn, fails, used, doubtful, remount, late, faults>>

\* The call failed: no master serves there, or the call or its answer is lost.
CallFails ==
  /\ app.op # "idle"
  /\ \/ leader # app.to /\ UNCHANGED <<svc, faults>>
     \/ leader = app.to /\ Fault /\ svc' \in {svc, Served}
  /\ doubtful' = doubtful \cup {app.seg}
  /\ lock' = "free"
  /\ app' = IdleApp
  /\ UNCHANGED <<leadershipVars, conn, fails, segs, used, gone, remount, late>>

-----------------------------------------------------------------------------
(* PingThreadMain.                                                         *)

\* The remount thread, joined when its future is ready.
Joined == IF remount.st = "ready" THEN RemountIn("none") ELSE remount

PingOk ==
  /\ leader = conn
  /\ fails' = 0
  /\ remount' = IF ~svc[conn].ok /\ Joined.st = "none"
                  THEN RemountIn("waiting") ELSE Joined
  /\ UNCHANGED <<leadershipVars, svc, conn, segs, used, gone, doubtful, lock, app,
                 late, faults>>

\* Mutant: the master view is asked for once only.
PingFailsOnce ==
  /\ leader # conn
  /\ UNCHANGED faults
  /\ remount' = Joined
  /\ fails' = IF fails < MaxPingFail THEN fails + 1 ELSE fails
  /\ conn' = IF fails + 1 = MaxPingFail /\ view # NoMaster THEN view ELSE conn
  /\ UNCHANGED <<leadershipVars, svc, segs, used, gone, doubtful, lock, app, late>>

\* A ping fails; after MaxPingFail of them the thread asks etcd for the master
\* view and connects to it, and starts to count anew if that master serves.
PingFails ==
  /\ \/ leader # conn /\ UNCHANGED faults
     \/ leader = conn /\ Fault
  /\ remount' = Joined
  /\ IF fails + 1 < MaxPingFail
       THEN fails' = fails + 1 /\ UNCHANGED conn
       ELSE /\ conn' = IF view = NoMaster THEN conn ELSE view
            /\ fails' = IF view # NoMaster /\ leader = conn' THEN 0 ELSE MaxPingFail
  /\ UNCHANGED <<leadershipVars, svc, segs, used, gone, doubtful, lock, app, late>>

\* Mutant: the segments are read before the mutex is held, and it is not.
UnlockedRemountStarts ==
  /\ remount.st = "waiting"
  /\ remount' = [st |-> "rpc", segs |-> segs, to |-> conn]
  /\ UNCHANGED <<leadershipVars, svc, conn, fails, segs, used, gone, doubtful, app,
                 late, faults, lock>>

\* The remount thread takes the mutex and collects the segments.
RemountStarts ==
  /\ remount.st = "waiting"
  /\ lock = "free"
  /\ lock' = "remount"
  /\ remount' = [st |-> "rpc", segs |-> segs, to |-> conn]
  /\ UNCHANGED <<leadershipVars, svc, conn, fails, segs, used, gone, doubtful, app,
                 late, faults>>

\* The ReMountSegment RPC ends and the thread releases the mutex.
RemountEnds ==
  /\ remount.st = "rpc"
  /\ \/ /\ leader = remount.to
        /\ svc' = ReMountAt(remount.to, remount.segs)
        /\ UNCHANGED <<late, faults>>
     \/ /\ leader # remount.to
        /\ UNCHANGED <<svc, late, faults>>
     \/ /\ leader = remount.to
        /\ Fault
        /\ UNCHANGED svc
        /\ late' \in {late, late \cup
             {[segs |-> remount.segs, to |-> remount.to, ran |-> FALSE]}}
  /\ remount' = RemountIn("ready")
  /\ lock' = IF lock = "remount" THEN "free" ELSE lock
  /\ UNCHANGED <<leadershipVars, conn, fails, segs, used, gone, doubtful, app>>

\* A ReMountSegment whose caller has timed out runs after all.
LateRemount ==
  /\ \E r \in late :
       /\ leader = r.to
       /\ svc' = ReMountAt(r.to, r.segs)
       /\ ~r.ran
       /\ late' = (late \ {r}) \cup {[r EXCEPT !.ran = TRUE]}
  /\ UNCHANGED <<leadershipVars, conn, fails, segs, used, gone, doubtful, lock,
                 app, remount, faults>>

\* The master view changes.
ViewStep ==
  /\ Depose \/ \E m \in Master : Elect(m)
  /\ UNCHANGED <<svc, clientVars>>

ClientStep ==
  \/ \E s \in Seg : MountSegment(s) \/ UnmountSegment(s)
  \/ CallReturns \/ CallFails
  \/ PingOk \/ PingFails
  \/ RemountStarts \/ RemountEnds
  \/ LateRemount

HANext ==
  \/ ViewStep
  \/ StopService
  \/ \E m \in Master : StartService(m) \/ ClientExpires(m)
  \/ ClientStep

HASpec == HAInit /\ [][HANext]_haVars

\* The ping and the remount threads run, and so does every call.
ClientFairness ==
  /\ WF_haVars(CallReturns \/ CallFails)
  /\ WF_haVars(PingOk \/ PingFails)
  /\ SF_haVars(RemountStarts)
  /\ WF_haVars(RemountEnds)

FairHASpec == HASpec /\ ClientFairness

-----------------------------------------------------------------------------

\* The segments that a late ReMountSegment has mounted in the present terms.
Straggled == {r \in late : r.ran}

\* A segment that the application has unmounted is mounted at no master that
\* serves: the remount thread holds mounted_segments_mutex_ until its RPC has
\* ended ("a segment is unmounted successfully first, and then remounted
\* again", the comment in PingThreadMain).  The one way around the mutex is a
\* ReMountSegment that ran after its caller had timed out.
UnmountedStaysUnmounted ==
  leader # NoMaster =>
    gone \cap svc[leader].mounted \subseteq UNION {r.segs : r \in Straggled}

\* A master that answers OK to the client's pings has all of its segments: no
\* order of mounts, remounts, reconnections and changes of masters makes a
\* master take the client for mounted while it lacks a segment, as long as no
\* ReMountSegment runs late.  The types of the state hold as well.
OkMeansMounted ==
  /\ HATypeOK
  /\ leader # NoMaster /\ svc[leader].ok /\ Straggled = {} =>
       segs \ doubtful \subseteq svc[leader].mounted

\* "When a client node recovers or reconnects, it can automatically rejoin the
\* cluster" (mooncake-store.md): once one master serves for good, the client
\* finds it and the master has the segments that the client holds.
ClientRejoins ==
  \A m \in Master :
    <>[](leader = m /\ view = m /\ Straggled = {})
      => <>[](conn = m /\ segs \ doubtful \subseteq svc[m].mounted)
=============================================================================
