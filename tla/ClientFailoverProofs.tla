------------------------ MODULE ClientFailoverProofs ------------------------
(***************************************************************************)
(* Safety of ClientFailover for every set of masters and segments and any  *)
(* number of faults.  The mutex of the client keeps what a remount carries *)
(* equal to the segments the client has; the masters that do not serve     *)
(* know nothing; and a ReMountSegment that is late is late at the leader.  *)
(***************************************************************************)
EXTENDS ClientFailover, TLAPS

\* A master that does not serve has no service.
OthersFresh == \A m \in Master : m # leader => svc[m] = FreshService

\* Requests that are late are at the master that serves; they end with its term.
LateAtLeader == \A r \in late : r.to = leader

\* mounted_segments_mutex_: the calls of the application and the remount exclude
\* each other, and what the remount carries is what the client has.
LockInv ==
  /\ lock = "app" <=> app.op # "idle"
  /\ lock = "remount" <=> remount.st = "rpc"
  /\ app.op # "idle" => app.seg \in Seg /\ app.to \in Master
  /\ remount.st = "rpc" => remount.segs = segs /\ remount.to \in Master

\* Ids are new: no segment is both mounted and unmounted, and a mount under way
\* is of a segment that is neither.
SegsInv ==
  /\ segs \cap gone = {}
  /\ segs \cup gone \subseteq used
  /\ app.op = "mount" => app.seg \in used /\ app.seg \notin segs \cup gone
  /\ app.op = "unmount" => app.seg \in segs

HAInv ==
  /\ HATypeOK
  /\ OthersFresh
  /\ LateAtLeader
  /\ LockInv
  /\ SegsInv
  /\ UnmountedStaysUnmounted
  /\ OkMeansMounted

\* A client without segments satisfies it.
LEMMA HAInitially == HAInit => HAInv
<1> SUFFICES ASSUME HAInit PROVE HAInv
  OBVIOUS
<1> USE DEF HAInit, LeadershipInit, FreshService, IdleApp, RemountIn
<1>1. HATypeOK
  BY ClientAssumption DEF HATypeOK, LeadershipTypeOK
<1>2. OthersFresh /\ LateAtLeader /\ LockInv /\ SegsInv
  BY DEF OthersFresh, LateAtLeader, LockInv, SegsInv
<1>3. UnmountedStaysUnmounted /\ OkMeansMounted
  BY <1>1 DEF UnmountedStaysUnmounted, OkMeansMounted
<1> QED BY <1>1, <1>2, <1>3 DEF HAInv

-----------------------------------------------------------------------------
(* The types.                                                               *)

\* What the masters do keeps their services well typed.
LEMMA ServiceTypes ==
  ASSUME HATypeOK, NEW m \in Master
  PROVE  /\ \A s \in Seg : /\ MountAt(m, s) \in [Master -> [ok : BOOLEAN, mounted : SUBSET Seg]]
                           /\ UnmountAt(m, s) \in [Master -> [ok : BOOLEAN, mounted : SUBSET Seg]]
         /\ \A S \in SUBSET Seg :
              ReMountAt(m, S) \in [Master -> [ok : BOOLEAN, mounted : SUBSET Seg]]
         /\ [svc EXCEPT ![m] = FreshService] \in [Master -> [ok : BOOLEAN, mounted : SUBSET Seg]]
<1>1. svc \in [Master -> [ok : BOOLEAN, mounted : SUBSET Seg]]
  BY DEF HATypeOK
<1>2. \A T \in SUBSET Seg : \A b \in BOOLEAN : [ok |-> b, mounted |-> T] \in [ok : BOOLEAN, mounted : SUBSET Seg]
  OBVIOUS
<1>3. ASSUME NEW s \in Seg
      PROVE  /\ MountAt(m, s) \in [Master -> [ok : BOOLEAN, mounted : SUBSET Seg]]
             /\ UnmountAt(m, s) \in [Master -> [ok : BOOLEAN, mounted : SUBSET Seg]]
  BY <1>1 DEF MountAt, UnmountAt
<1>4. ASSUME NEW S \in SUBSET Seg
      PROVE  ReMountAt(m, S) \in [Master -> [ok : BOOLEAN, mounted : SUBSET Seg]]
  BY <1>1 DEF ReMountAt
<1>5. [svc EXCEPT ![m] = FreshService] \in [Master -> [ok : BOOLEAN, mounted : SUBSET Seg]]
  BY <1>1 DEF FreshService
<1> QED BY <1>3, <1>4, <1>5

\* Every step keeps the types.
LEMMA HATypes == HATypeOK /\ LockInv /\ [HANext]_haVars => HATypeOK'
<1> SUFFICES ASSUME HATypeOK, LockInv, [HANext]_haVars PROVE HATypeOK'
  OBVIOUS
<1> USE DEF HATypeOK, LeadershipTypeOK
<1>1. CASE ViewStep
  BY <1>1 DEF ViewStep, Depose, Elect, clientVars
<1>2. CASE StopService
  <2>1. leader \in Master
    BY <1>2 DEF StopService, Retire
  <2> QED BY <1>2, <2>1, ServiceTypes DEF StopService, Retire
<1>3. ASSUME NEW m \in Master, StartService(m) PROVE HATypeOK'
  BY <1>3 DEF StartService, Begin, clientVars
<1>4. ASSUME NEW m \in Master, ClientExpires(m) PROVE HATypeOK'
  BY <1>4, ServiceTypes, ClientAssumption DEF ClientExpires, Fault, leadershipVars
<1>5. ASSUME NEW s \in Seg, MountSegment(s) PROVE HATypeOK'
  BY <1>5 DEF MountSegment, leadershipVars
<1>6. ASSUME NEW s \in Seg, UnmountSegment(s) PROVE HATypeOK'
  BY <1>6 DEF UnmountSegment, leadershipVars
<1>7. ASSUME app.op # "idle" PROVE Served \in [Master -> [ok : BOOLEAN, mounted : SUBSET Seg]]
  BY <1>7, ServiceTypes DEF Served, LockInv
<1>8. CASE CallReturns
  <2>1. svc' \in [Master -> [ok : BOOLEAN, mounted : SUBSET Seg]]
    BY <1>7, <1>8 DEF CallReturns
  <2>2. segs' \in SUBSET Seg /\ gone' \in SUBSET Seg
    BY <1>8 DEF CallReturns, LockInv
  <2> QED BY <1>8, <2>1, <2>2 DEF CallReturns, leadershipVars, IdleApp
<1>9. CASE CallFails
  <2>1. svc' \in [Master -> [ok : BOOLEAN, mounted : SUBSET Seg]]
    BY <1>7, <1>9 DEF CallFails
  <2>2. faults' \in 0 .. MaxFaults
    BY <1>9, ClientAssumption DEF CallFails, Fault
  <2>3. doubtful' \in SUBSET Seg
    BY <1>9 DEF CallFails, LockInv
  <2> QED BY <1>9, <2>1, <2>2, <2>3 DEF CallFails, leadershipVars, IdleApp
<1>10. Joined \in [st : {"none", "waiting", "rpc", "ready"}, segs : SUBSET Seg,
                   to : Master \cup {NoMaster}]
  BY DEF Joined, RemountIn
<1>11. CASE PingOk
  BY <1>10, <1>11, ClientAssumption DEF PingOk, RemountIn, leadershipVars
<1>12. CASE PingFails
  <2>1. faults' \in 0 .. MaxFaults
    BY <1>12, ClientAssumption DEF PingFails, Fault
  <2>2. fails' \in 0 .. MaxPingFail /\ conn' \in Master
    BY <1>12, ClientAssumption DEF PingFails
  <2> QED BY <1>10, <1>12, <2>1, <2>2 DEF PingFails, leadershipVars
<1>13. CASE RemountStarts
  BY <1>13 DEF RemountStarts, leadershipVars
<1>14. CASE RemountEnds
  <2>1. svc' \in [Master -> [ok : BOOLEAN, mounted : SUBSET Seg]]
    BY <1>14, ServiceTypes DEF RemountEnds, LockInv
  <2>2. faults' \in 0 .. MaxFaults
    BY <1>14, ClientAssumption DEF RemountEnds, Fault
  <2>3. late' \in SUBSET [segs : SUBSET Seg, to : Master, ran : BOOLEAN]
    <3>1. remount.segs \in SUBSET Seg /\ remount.to \in Master
      BY <1>14 DEF RemountEnds, LockInv
    <3>2. [segs |-> remount.segs, to |-> remount.to, ran |-> FALSE]
            \in [segs : SUBSET Seg, to : Master, ran : BOOLEAN]
      BY <3>1
    <3>3. late' = late \/ late' = late \cup {[segs |-> remount.segs, to |-> remount.to, ran |-> FALSE]}
      BY <1>14 DEF RemountEnds
    <3> QED BY <3>2, <3>3
  <2> QED BY <1>14, <2>1, <2>2, <2>3 DEF RemountEnds, RemountIn, leadershipVars
<1>15. CASE LateRemount
  <2>1. PICK r \in late : /\ svc' = ReMountAt(r.to, r.segs)
                          /\ late' = (late \ {r}) \cup {[r EXCEPT !.ran = TRUE]}
    BY <1>15 DEF LateRemount
  <2>2. r \in [segs : SUBSET Seg, to : Master, ran : BOOLEAN]
    OBVIOUS
  <2>3. svc' \in [Master -> [ok : BOOLEAN, mounted : SUBSET Seg]]
    BY <2>1, <2>2, ServiceTypes
  <2>4. late' \in SUBSET [segs : SUBSET Seg, to : Master, ran : BOOLEAN]
    BY <2>1, <2>2
  <2> QED BY <1>15, <2>3, <2>4 DEF LateRemount, leadershipVars
<1>16. CASE UNCHANGED haVars
  BY <1>16 DEF haVars, clientVars, leadershipVars
<1> QED
  BY <1>1, <1>2, <1>3, <1>4, <1>5, <1>6, <1>8, <1>9, <1>11, <1>12, <1>13, <1>14, <1>15, <1>16
     DEF HANext, ClientStep

-----------------------------------------------------------------------------
(* The steps.                                                               *)

\* What an RPC changes at the master it runs at.
LEMMA ServedAt ==
  ASSUME HATypeOK, NEW m \in Master
  PROVE  /\ \A s \in Seg : /\ MountAt(m, s)[m].mounted = svc[m].mounted \cup {s}
                           /\ MountAt(m, s)[m].ok = svc[m].ok
                           /\ UnmountAt(m, s)[m].mounted = svc[m].mounted \ {s}
                           /\ UnmountAt(m, s)[m].ok = svc[m].ok
         /\ \A S \in SUBSET Seg :
              /\ ReMountAt(m, S)[m].mounted = IF svc[m].ok THEN svc[m].mounted
                                                          ELSE svc[m].mounted \cup S
              /\ ReMountAt(m, S)[m].ok
         /\ \A n \in Master \ {m} :
              /\ \A s \in Seg : MountAt(m, s)[n] = svc[n] /\ UnmountAt(m, s)[n] = svc[n]
              /\ \A S \in SUBSET Seg : ReMountAt(m, S)[n] = svc[n]
<1>1. svc \in [Master -> [ok : BOOLEAN, mounted : SUBSET Seg]]
  BY DEF HATypeOK
<1>2. ASSUME NEW s \in Seg
      PROVE  /\ MountAt(m, s)[m].mounted = svc[m].mounted \cup {s}
             /\ MountAt(m, s)[m].ok = svc[m].ok
             /\ UnmountAt(m, s)[m].mounted = svc[m].mounted \ {s}
             /\ UnmountAt(m, s)[m].ok = svc[m].ok
             /\ \A n \in Master \ {m} : MountAt(m, s)[n] = svc[n] /\ UnmountAt(m, s)[n] = svc[n]
  BY <1>1 DEF MountAt, UnmountAt
<1>3. ASSUME NEW S \in SUBSET Seg
      PROVE  /\ ReMountAt(m, S)[m].mounted = IF svc[m].ok THEN svc[m].mounted
                                                         ELSE svc[m].mounted \cup S
             /\ ReMountAt(m, S)[m].ok
             /\ \A n \in Master \ {m} : ReMountAt(m, S)[n] = svc[n]
  BY <1>1 DEF ReMountAt
<1> QED BY <1>2, <1>3

\* A step that changes nothing but the connection, the pings and the faults.
LEMMA HAFrame ==
  ASSUME HAInv, HATypeOK',
         UNCHANGED <<leader, svc, segs, used, gone, doubtful, lock, app, late>>,
         remount'.st = "rpc" <=> remount.st = "rpc",
         remount.st = "rpc" => remount' = remount
  PROVE  HAInv'
<1>1. OthersFresh' /\ LateAtLeader' /\ SegsInv'
  BY DEF HAInv, OthersFresh, LateAtLeader, SegsInv
<1>2. LockInv'
  BY DEF HAInv, LockInv
<1>3. UnmountedStaysUnmounted' /\ OkMeansMounted'
  BY DEF HAInv, UnmountedStaysUnmounted, OkMeansMounted, Straggled
<1> QED BY <1>1, <1>2, <1>3 DEF HAInv

\* The masters' own steps: a term begins and ends with a service that knows
\* nothing of the client, and so does the life of an expired client.
LEMMA MasterSteps ==
  ASSUME HAInv, HATypeOK',
         ViewStep \/ StopService \/ \E m \in Master : StartService(m) \/ ClientExpires(m)
  PROVE  HAInv'
<1> USE DEF FreshService
<1>1. CASE ViewStep
  BY <1>1, HAFrame DEF ViewStep, Depose, Elect, clientVars
<1>2. CASE StopService
  <2>1. leader' = NoMaster /\ late' = {}
    BY <1>2 DEF StopService, Retire, HAInv, LateAtLeader
  <2>2. OthersFresh'
    BY <1>2, <2>1 DEF StopService, Retire, HAInv, OthersFresh, HATypeOK, LeadershipTypeOK
  <2>3. LockInv' /\ SegsInv' /\ LateAtLeader'
    BY <1>2, <2>1 DEF StopService, HAInv, LockInv, SegsInv, LateAtLeader
  <2>4. UnmountedStaysUnmounted' /\ OkMeansMounted'
    BY <2>1 DEF UnmountedStaysUnmounted, OkMeansMounted
  <2> QED BY <2>2, <2>3, <2>4 DEF HAInv
<1>3. ASSUME NEW m \in Master, StartService(m) PROVE HAInv'
  <2>1. leader = NoMaster /\ leader' = m /\ UNCHANGED <<svc, clientVars>>
    BY <1>3 DEF StartService, Begin
  <2>2. svc[m] = FreshService /\ m # NoMaster /\ late = {}
    BY <2>1, NoMasterAssumption DEF HAInv, OthersFresh, LateAtLeader, HATypeOK
  <2>3. OthersFresh' /\ LockInv' /\ SegsInv' /\ LateAtLeader'
    BY <2>1, <2>2, NoMasterAssumption
       DEF HAInv, OthersFresh, LockInv, SegsInv, LateAtLeader, clientVars
  <2>4. UnmountedStaysUnmounted' /\ OkMeansMounted'
    BY <2>1, <2>2 DEF UnmountedStaysUnmounted, OkMeansMounted
  <2> QED BY <2>3, <2>4 DEF HAInv
<1>4. ASSUME NEW m \in Master, ClientExpires(m) PROVE HAInv'
  <2>1. /\ leader = m /\ leader' = m
        /\ svc' = [svc EXCEPT ![m] = FreshService]
        /\ UNCHANGED <<segs, used, gone, doubtful, lock, app, remount, late>>
    BY <1>4 DEF ClientExpires, leadershipVars
  <2>2. svc'[m] = FreshService /\ \A n \in Master \ {m} : svc'[n] = svc[n]
    BY <2>1 DEF HAInv, HATypeOK
  <2>3. OthersFresh' /\ LockInv' /\ SegsInv' /\ LateAtLeader'
    BY <2>1, <2>2 DEF HAInv, OthersFresh, LockInv, SegsInv, LateAtLeader
  <2>4. UnmountedStaysUnmounted' /\ OkMeansMounted'
    BY <2>1, <2>2 DEF UnmountedStaysUnmounted, OkMeansMounted
  <2> QED BY <2>3, <2>4 DEF HAInv
<1> QED BY <1>1, <1>2, <1>3, <1>4

\* The application's calls.
LEMMA CallSteps ==
  ASSUME HAInv, HATypeOK',
         \/ \E s \in Seg : MountSegment(s) \/ UnmountSegment(s)
         \/ CallReturns \/ CallFails
  PROVE  HAInv'
<1>0. HATypeOK /\ LockInv /\ SegsInv
  BY DEF HAInv
<1>1. ASSUME NEW s \in Seg, MountSegment(s) PROVE HAInv'
  <2>1. UNCHANGED <<leader, svc, segs, gone, doubtful, remount, late>>
    BY <1>1 DEF MountSegment, leadershipVars
  <2>2. OthersFresh' /\ LateAtLeader' /\ UnmountedStaysUnmounted' /\ OkMeansMounted'
    BY <2>1 DEF HAInv, OthersFresh, LateAtLeader, UnmountedStaysUnmounted, OkMeansMounted, Straggled
  <2>3. LockInv' /\ SegsInv'
    BY <1>0, <1>1 DEF MountSegment, LockInv, SegsInv, HATypeOK
  <2> QED BY <2>2, <2>3 DEF HAInv
<1>2. ASSUME NEW s \in Seg, UnmountSegment(s) PROVE HAInv'
  <2>1. UNCHANGED <<leader, svc, segs, gone, doubtful, remount, late>>
    BY <1>2 DEF UnmountSegment, leadershipVars
  <2>2. OthersFresh' /\ LateAtLeader' /\ UnmountedStaysUnmounted' /\ OkMeansMounted'
    BY <2>1 DEF HAInv, OthersFresh, LateAtLeader, UnmountedStaysUnmounted, OkMeansMounted, Straggled
  <2>3. LockInv' /\ SegsInv'
    BY <1>0, <1>2 DEF UnmountSegment, LockInv, SegsInv, HATypeOK
  <2> QED BY <2>2, <2>3 DEF HAInv
<1>3. ASSUME app.op # "idle", leader = app.to
      PROVE  /\ leader \in Master /\ app.seg \in Seg
             /\ \A m \in Master \ {leader} : Served[m] = svc[m]
             /\ Served[leader].ok = svc[leader].ok
             /\ Served[leader].mounted = IF app.op = "mount" THEN svc[leader].mounted \cup {app.seg}
                                         ELSE svc[leader].mounted \ {app.seg}
  <2>1. leader \in Master /\ app.seg \in Seg
    BY <1>0, <1>3 DEF LockInv
  <2>2. /\ MountAt(leader, app.seg)[leader].mounted = svc[leader].mounted \cup {app.seg}
        /\ MountAt(leader, app.seg)[leader].ok = svc[leader].ok
        /\ \A m \in Master \ {leader} : MountAt(leader, app.seg)[m] = svc[m]
    BY <1>0, <2>1, ServedAt
  <2>3. /\ UnmountAt(leader, app.seg)[leader].mounted = svc[leader].mounted \ {app.seg}
        /\ UnmountAt(leader, app.seg)[leader].ok = svc[leader].ok
        /\ \A m \in Master \ {leader} : UnmountAt(leader, app.seg)[m] = svc[m]
    BY <1>0, <2>1, ServedAt
  <2>4. CASE app.op = "mount"
    <3>1. Served = MountAt(leader, app.seg)
      BY <1>3, <2>4 DEF Served
    <3> QED BY <2>1, <2>2, <2>4, <3>1
  <2>5. CASE app.op # "mount"
    <3>1. Served = UnmountAt(leader, app.seg)
      BY <1>3, <2>5 DEF Served
    <3> QED BY <2>1, <2>3, <2>5, <3>1
  <2> QED BY <2>4, <2>5
<1>4. CASE CallReturns
  <2>1. /\ app.op # "idle" /\ leader = app.to /\ svc' = Served
        /\ UNCHANGED <<leader, used, doubtful, remount, late>>
        /\ lock' = "free" /\ app' = IdleApp
        /\ segs' = IF app.op = "mount" THEN segs \cup {app.seg} ELSE segs \ {app.seg}
        /\ gone' = IF app.op = "mount" THEN gone ELSE gone \cup {app.seg}
    BY <1>4 DEF CallReturns, leadershipVars
  <2>2. OthersFresh' /\ LateAtLeader'
    BY <1>3, <2>1 DEF HAInv, OthersFresh, LateAtLeader
  <2>3. LockInv' /\ SegsInv'
    BY <1>0, <2>1 DEF LockInv, SegsInv, HATypeOK, IdleApp
  <2>4. UnmountedStaysUnmounted'
    BY <1>0, <1>3, <2>1 DEF HAInv, UnmountedStaysUnmounted, SegsInv, Straggled
  <2>5. OkMeansMounted'
    BY <1>3, <2>1 DEF HAInv, OkMeansMounted, Straggled
  <2> QED BY <2>2, <2>3, <2>4, <2>5 DEF HAInv
<1>5. CASE CallFails
  <2>1. /\ app.op # "idle"
        /\ svc' = svc \/ (leader = app.to /\ svc' = Served)
        /\ UNCHANGED <<leader, segs, gone, used, remount, late>>
        /\ lock' = "free" /\ app' = IdleApp /\ doubtful' = doubtful \cup {app.seg}
    BY <1>5 DEF CallFails, leadershipVars
  <2>2. OthersFresh' /\ LateAtLeader'
    BY <1>3, <2>1 DEF HAInv, OthersFresh, LateAtLeader
  <2>3. LockInv' /\ SegsInv'
    BY <1>0, <2>1 DEF LockInv, SegsInv, HATypeOK, IdleApp
  <2>4. UnmountedStaysUnmounted'
    BY <1>0, <1>3, <2>1 DEF HAInv, UnmountedStaysUnmounted, SegsInv, Straggled
  <2>5. OkMeansMounted'
    BY <1>3, <2>1 DEF HAInv, OkMeansMounted, Straggled
  <2> QED BY <2>2, <2>3, <2>4, <2>5 DEF HAInv
<1> QED BY <1>1, <1>2, <1>4, <1>5

\* The ping thread and the remount thread.
LEMMA PingSteps ==
  ASSUME HAInv, HATypeOK',
         PingOk \/ PingFails \/ RemountStarts \/ RemountEnds \/ LateRemount
  PROVE  HAInv'
<1>0. HATypeOK /\ LockInv /\ SegsInv
  BY DEF HAInv
<1>1. CASE PingOk \/ PingFails
  <2>1. /\ Joined.st = "rpc" <=> remount.st = "rpc"
        /\ remount.st = "rpc" => Joined = remount
    BY DEF Joined, RemountIn
  <2>2. UNCHANGED <<leader, svc, segs, used, gone, doubtful, lock, app, late>>
    BY <1>1 DEF PingOk, PingFails, leadershipVars
  <2>3. remount' = Joined \/ (Joined.st = "none" /\ remount'.st = "waiting")
    BY <1>1 DEF PingOk, PingFails, RemountIn
  <2> QED BY <2>1, <2>2, <2>3, HAFrame
<1>2. CASE RemountStarts
  <2>1. /\ UNCHANGED <<leader, svc, segs, used, gone, doubtful, app, late>>
        /\ lock = "free" /\ lock' = "remount"
        /\ remount' = [st |-> "rpc", segs |-> segs, to |-> conn]
    BY <1>2 DEF RemountStarts, leadershipVars
  <2>2. OthersFresh' /\ LateAtLeader' /\ SegsInv' /\ UnmountedStaysUnmounted' /\ OkMeansMounted'
    BY <2>1 DEF HAInv, OthersFresh, LateAtLeader, SegsInv, UnmountedStaysUnmounted,
       OkMeansMounted, Straggled
  <2>3. LockInv'
    BY <1>0, <2>1 DEF LockInv, HATypeOK
  <2> QED BY <2>2, <2>3 DEF HAInv
<1>3. CASE RemountEnds
  <2>1. /\ remount.st = "rpc" /\ remount'.st = "ready" /\ lock' = "free"
        /\ UNCHANGED <<leader, segs, used, gone, doubtful, app>>
    BY <1>0, <1>3 DEF RemountEnds, RemountIn, LockInv, leadershipVars
  <2>2. remount.to \in Master /\ remount.segs = segs /\ segs \in SUBSET Seg
    BY <1>0, <2>1 DEF LockInv, HATypeOK
  <2>3. svc' = svc \/ (leader = remount.to /\ svc' = ReMountAt(leader, segs))
    BY <1>3, <2>2 DEF RemountEnds
  <2>4. \A r \in late' : r \in late \/ (r.to = leader /\ ~r.ran)
    BY <1>3 DEF RemountEnds
  <2>5. late \subseteq late'
    BY <1>3 DEF RemountEnds
  <2>6. Straggled' = Straggled
    BY <2>4, <2>5 DEF Straggled
  <2>7. ASSUME leader = remount.to
         PROVE  /\ leader \in Master /\ ReMountAt(leader, segs)[leader].ok
                /\ ReMountAt(leader, segs)[leader].mounted
                     = IF svc[leader].ok THEN svc[leader].mounted ELSE svc[leader].mounted \cup segs
                /\ \A n \in Master \ {leader} : ReMountAt(leader, segs)[n] = svc[n]
    <3>1. leader \in Master /\ segs \in SUBSET Seg
      BY <2>2, <2>7
    <3>2. /\ ReMountAt(leader, segs)[leader].ok
          /\ ReMountAt(leader, segs)[leader].mounted
               = IF svc[leader].ok THEN svc[leader].mounted ELSE svc[leader].mounted \cup segs
      BY <1>0, <3>1, ServedAt
    <3>3. \A n \in Master \ {leader} : ReMountAt(leader, segs)[n] = svc[n]
      BY <1>0, <3>1, ServedAt
    <3> QED BY <3>1, <3>2, <3>3
  <2>8. OthersFresh' /\ LateAtLeader'
    BY <2>1, <2>3, <2>4, <2>7 DEF HAInv, OthersFresh, LateAtLeader
  <2>9. LockInv' /\ SegsInv'
    BY <1>0, <2>1 DEF LockInv, SegsInv
  <2>10. UnmountedStaysUnmounted'
    <3>1. leader # NoMaster => svc'[leader].mounted \subseteq svc[leader].mounted \cup segs
      BY <2>3, <2>7
    <3> QED BY <1>0, <2>1, <2>6, <3>1 DEF HAInv, UnmountedStaysUnmounted, SegsInv
  <2>11. OkMeansMounted'
    <3>1. svc' = svc => OkMeansMounted'
      BY <2>1, <2>6 DEF HAInv, OkMeansMounted
    <3>2. ASSUME leader = remount.to, svc' = ReMountAt(leader, segs) PROVE OkMeansMounted'
      BY <2>1, <2>6, <2>7, <3>2 DEF HAInv, OkMeansMounted
    <3> QED BY <2>3, <3>1, <3>2
  <2> QED BY <2>8, <2>9, <2>10, <2>11 DEF HAInv
<1>4. CASE LateRemount
  <2>1. PICK r \in late : /\ leader = r.to
                          /\ svc' = ReMountAt(r.to, r.segs)
                          /\ late' = (late \ {r}) \cup {[r EXCEPT !.ran = TRUE]}
    BY <1>4 DEF LateRemount
  <2>2. UNCHANGED <<leader, segs, used, gone, doubtful, lock, app, remount>>
    BY <1>4 DEF LateRemount, leadershipVars
  <2>3. r \in [segs : SUBSET Seg, to : Master, ran : BOOLEAN]
    BY <1>0 DEF HATypeOK
  <2> DEFINE q == [r EXCEPT !.ran = TRUE]
  <2>4. q.segs = r.segs /\ q.to = r.to /\ q.ran
    BY <2>3
  <2>5. q \in Straggled' /\ \A x \in Straggled : \E y \in Straggled' : y.segs = x.segs
    BY <2>1, <2>4 DEF Straggled
  <2> HIDE DEF q
  <2>6. OthersFresh' /\ LateAtLeader'
    BY <1>0, <2>1, <2>2, <2>3, <2>4, ServedAt DEF HAInv, OthersFresh, LateAtLeader, q
  <2>7. LockInv' /\ SegsInv'
    BY <2>2 DEF HAInv, LockInv, SegsInv
  <2>8. UnmountedStaysUnmounted'
    <3>1. svc'[leader].mounted \subseteq svc[leader].mounted \cup r.segs
      <4>1. r.segs \in SUBSET Seg /\ leader \in Master
        BY <2>1, <2>3
      <4>2. ReMountAt(leader, r.segs)[leader].mounted
              = IF svc[leader].ok THEN svc[leader].mounted ELSE svc[leader].mounted \cup r.segs
        BY <1>0, <4>1, ServedAt
      <4> QED BY <2>1, <4>2
    <3>2. ASSUME NEW e, e \in UNION {x.segs : x \in Straggled}
          PROVE  e \in UNION {x.segs : x \in Straggled'}
      <4>1. PICK x \in Straggled : e \in x.segs
        BY <3>2
      <4>2. PICK y \in Straggled' : y.segs = x.segs
        BY <2>5
      <4> QED BY <4>1, <4>2
    <3>3. ASSUME NEW e \in r.segs PROVE e \in UNION {x.segs : x \in Straggled'}
      BY <2>4, <2>5
    <3>4. SUFFICES ASSUME leader # NoMaster, NEW e \in gone, e \in svc'[leader].mounted
                   PROVE  e \in UNION {x.segs : x \in Straggled'}
      BY <2>2 DEF UnmountedStaysUnmounted
    <3>5. e \in svc[leader].mounted => e \in UNION {x.segs : x \in Straggled}
      BY <3>4 DEF HAInv, UnmountedStaysUnmounted
    <3> HIDE DEF Straggled
    <3> QED BY ONLY <3>1, <3>2, <3>3, <3>4, <3>5
  <2>9. OkMeansMounted'
    BY <2>5 DEF OkMeansMounted
  <2> QED BY <2>6, <2>7, <2>8, <2>9 DEF HAInv
<1> QED BY <1>1, <1>2, <1>3, <1>4

\* Every step keeps the invariant.
LEMMA HAStep == HAInv /\ [HANext]_haVars => HAInv'
<1> SUFFICES ASSUME HAInv, [HANext]_haVars PROVE HAInv'
  OBVIOUS
<1>1. HATypeOK'
  BY HATypes DEF HAInv
<1>2. CASE UNCHANGED haVars
  BY <1>1, <1>2, HAFrame DEF haVars, clientVars, leadershipVars
<1> QED BY <1>1, <1>2, MasterSteps, CallSteps, PingSteps DEF HANext, ClientStep

\* A segment whose UnmountSegment returned OK comes back at no master that serves,
\* except through a ReMountSegment that ran after its caller had timed out: the
\* remount thread holds mounted_segments_mutex_ from collecting the segments
\* until its RPC has ended.
THEOREM UnmountLasts == HASpec => []UnmountedStaysUnmounted
<1>1. HAInv => UnmountedStaysUnmounted
  BY DEF HAInv
<1> QED BY <1>1, HAInitially, HAStep, PTL DEF HASpec

\* A master that answers OK to the pings has every segment of the client whose
\* calls did not fail, through any number of terms, expiries and reconnections.
THEOREM OkClientMounted == HASpec => []OkMeansMounted
<1>1. HAInv => OkMeansMounted
  BY DEF HAInv
<1> QED BY <1>1, HAInitially, HAStep, PTL DEF HASpec
=============================================================================
