------------------------- MODULE LeaderElectionProofs -------------------------
(***************************************************************************)
(* For any number of masters, any lease time and any timeouts: two masters *)
(* serve at the same time only if an answer of etcd came late, and between *)
(* late answers the election implements Leadership.                        *)
(*                                                                         *)
(* The argument is about clocks.  A master whose keep-alive runs has a live *)
(* session.  If its last answer was not late, its channel closes less than  *)
(* LeaseTTL after its lease would end (SessionBounded), so from the moment  *)
(* the key is gone less than LeaseTTL is left of the session.  The next     *)
(* leader sleeps for LeaseTTL before it serves: of two live sessions one is *)
(* over before the sleep of the other (SessionsOrdered).  A master that     *)
(* counts from a late answer escapes this, until a prompt one makes up for  *)
(* it; by then its lease was alive all the time, and the sessions before it *)
(* have run down as they should (HolderLast).                               *)
(***************************************************************************)
EXTENDS LeaderElection, TLAPS

\* The keep-alive of m has not yet stopped its server.
Live(m) == keeper[m] \in {"running", "ended"}

\* A session whose last answer was not late.
Prompt(m) == Live(m) /\ m \notin late

\* Who elects, or is down, has no keep-leader thread, and the others have one.
NoSession ==
  \A m \in Master : pc[m] \in Electing \cup {"down"} <=> keeper[m] = "none"

\* Who serves has slept for as long as it had to and has a session.
ServingLive == \A m \in Master : pc[m] = "serving" => Live(m) /\ wait[m] = 0

\* A session outlasts its lease by less than LeaseTTL.
SessionBounded ==
  \A m \in Master : Prompt(m) => deadline[m] < LeaseTTL + LeftOf(m)

\* The other sessions end before the master that has the lease serves.
HolderLast ==
  \A m, n \in Master :
    m # n /\ Live(m) /\ Holds(m) /\ Prompt(n) => deadline[n] < wait[m]

\* Of two sessions one has lost its lease and ends before the other serves.
SessionsOrdered ==
  \A m, n \in Master : m # n /\ Prompt(m) /\ Prompt(n) =>
    \/ ~Holds(m) /\ deadline[m] < wait[n]
    \/ ~Holds(n) /\ deadline[n] < wait[m]

ElectionInv ==
  /\ ElectionTypeOK
  /\ NoSession
  /\ ServingLive
  /\ SessionBounded
  /\ HolderLast
  /\ SessionsOrdered

-----------------------------------------------------------------------------

\* The masters start without key, session or service.
LEMMA InitInv == ElectionInit => ElectionInv
  BY LeaseAssumption, ClockAssumption
  DEF ElectionInit, ElectionInv, ElectionTypeOK, NoSession, ServingLive, SessionBounded,
      HolderLast, SessionsOrdered, Live, Prompt, Holds, ViewKey, Pc, Electing

\* Dropping the key of m changes nothing but whether it is kept.
LEMMA DropFacts ==
  ASSUME NEW m \in Master, ElectionTypeOK
  PROVE  /\ Drop(m) \in ViewKey \cup {NoKey}
         /\ Drop(m) = NoKey <=> key = NoKey
         /\ key # NoKey => /\ Drop(m).owner = key.owner
                           /\ Drop(m).left = key.left
                           /\ Drop(m).kept <=> key.kept /\ key.owner # m
<1>1. CASE ~Holds(m)
  BY <1>1, NoKeyAssumption DEF ElectionTypeOK, Drop, Holds, ViewKey
<1>2. CASE Holds(m)
  <2>1. key \in [owner : Master, left : 0 .. LeaseTTL, kept : BOOLEAN]
    BY <1>2 DEF Holds, ElectionTypeOK, ViewKey
  <2>2. Drop(m) = [key EXCEPT !.kept = FALSE]
    BY <1>2 DEF Drop
  <2>3. Drop(m) \in ViewKey /\ Drop(m).owner = key.owner /\ Drop(m).left = key.left
          /\ Drop(m).kept = FALSE
    BY <2>1, <2>2 DEF ViewKey
  <2>4. QED
    BY <1>2, <2>3, NoKeyAssumption DEF Holds, ViewKey
<1>3. QED
  BY <1>1, <1>2

\* The end of a term (EndTerm): m has no session, the others keep theirs.
LEMMA TermEnds ==
  ASSUME NEW m \in Master, ElectionInv, EndTerm(m),
         NEW to \in {"get", "down"}, pc' = [pc EXCEPT ![m] = to]
  PROVE  ElectionInv'
<1>1. /\ key' \in ViewKey \cup {NoKey}
      /\ \A n \in Master : n # m => (Holds(n)' <=> Holds(n))
      /\ ~Holds(m)'
      /\ key # NoKey => key'.left = key.left
  BY DropFacts DEF ElectionInv, EndTerm, Holds
<1>2. \A n \in Master : n # m => LeftOf(n)' = LeftOf(n)
  BY <1>1 DEF LeftOf, Holds
<1>3. ElectionTypeOK' /\ NoSession' /\ ServingLive'
  BY <1>1, LeaseAssumption, ClockAssumption
  DEF EndTerm, ElectionInv, ElectionTypeOK, NoSession, ServingLive, Live, Pc, Electing
<1>4. SessionBounded' /\ HolderLast' /\ SessionsOrdered'
  BY <1>1, <1>2
  DEF EndTerm, ElectionInv, ElectionTypeOK, SessionBounded, HolderLast, SessionsOrdered, Live,
      Prompt
<1>5. QED
  BY <1>3, <1>4 DEF ElectionInv

\* The key is created (CreateWithLease): nobody else holds it, and its creator has no
\* session yet.
LEMMA CreateInv ==
  ASSUME NEW m \in Master, ElectionInv, CreateWithLease(m)
  PROVE  ElectionInv'
<1>1. key' \in ViewKey /\ key' # NoKey /\ key'.owner = m
  <2>1. key' = [owner |-> m, left |-> lease[m], kept |-> TRUE] /\ lease[m] \in 0 .. LeaseTTL
    BY DEF CreateWithLease, ElectionInv, ElectionTypeOK
  <2>2. key' \in ViewKey
    BY <2>1 DEF ViewKey
  <2>3. key'.owner = m
    BY <2>1
  <2>4. QED
    BY <2>2, <2>3, NoKeyAssumption DEF ViewKey
<1>2. \A n \in Master : n # m => ~Holds(n)' /\ LeftOf(n)' = 0
  BY <1>1 DEF Holds, LeftOf
<1>3. \A n \in Master : ~Holds(n) /\ LeftOf(n) = 0
  BY DEF CreateWithLease, Holds, LeftOf
<1>4. ~Live(m) /\ ~Live(m)'
  BY DEF CreateWithLease, ElectionInv, NoSession, Live, Electing
<1>5. ElectionTypeOK' /\ NoSession' /\ ServingLive'
  BY <1>1, LeaseAssumption, ClockAssumption
  DEF CreateWithLease, ElectionInv, ElectionTypeOK, NoSession, ServingLive, Live, Pc, Electing
<1>6. SessionBounded' /\ HolderLast' /\ SessionsOrdered'
  BY <1>2, <1>3, <1>4
  DEF CreateWithLease, ElectionInv, ElectionTypeOK, SessionBounded, HolderLast,
      SessionsOrdered, Live, Prompt
<1>7. QED
  BY <1>5, <1>6 DEF ElectionInv

\* An answer that is not late finds the lease of m alive.
LEMMA PromptHolds ==
  ASSUME NEW m \in Master, ElectionTypeOK, NEW ttl \in {LeaseTTL, FirstTTL},
         CountFrom(m, ttl)
  PROVE  /\ m \notin late' => Holds(m) /\ ttl + StopLag < LeaseTTL + LeftOf(m)
         /\ deadline'[m] = ttl + StopLag
         /\ \A n \in Master : n # m => /\ deadline'[n] = deadline[n]
                                       /\ n \in late' <=> n \in late
         /\ deadline' \in [Master -> 0 .. FirstTTL + StopLag]
         /\ late' \in SUBSET Master
<1>1. ttl \in Nat /\ StopLag \in Nat /\ LeaseTTL \in Nat /\ ttl >= LeaseTTL /\ ttl <= FirstTTL
  BY LeaseAssumption, ClockAssumption
<1>2. LeftOf(m) \in 0 .. LeaseTTL /\ (~Holds(m) => LeftOf(m) = 0)
  BY LeaseAssumption DEF LeftOf, Holds, ElectionTypeOK, ViewKey
<1>3. m \notin late' => ttl + StopLag < LeaseTTL + LeftOf(m)
  BY <1>1, <1>2 DEF CountFrom
<1>4. m \notin late' => Holds(m)
  BY <1>1, <1>2, <1>3
<1>5. deadline \in [Master -> 0 .. FirstTTL + StopLag] /\ late \in SUBSET Master
  BY DEF ElectionTypeOK
<1>6. ttl + StopLag \in 0 .. FirstTTL + StopLag
  BY <1>1, ClockAssumption
<1>7. QED
  BY <1>3, <1>4, <1>5, <1>6 DEF CountFrom

\* Nobody else holds the lease that m holds.
LEMMA OneHolds ==
  ASSUME NEW m, NEW n, m # n, Holds(m)
  PROVE  ~Holds(n) /\ LeftOf(n) = 0
  BY DEF Holds, LeftOf

\* A new leader starts its sleep (Elected): if it holds the lease, every session there
\* still is ends within less than LeaseTTL; if not, its answer was late.
LEMMA ElectedInv ==
  ASSUME NEW m \in Master, ElectionInv, Elected(m)
  PROVE  ElectionInv'
<1>0. ElectionTypeOK /\ SessionBounded /\ HolderLast /\ SessionsOrdered
  BY DEF ElectionInv
<1>1. CountFrom(m, FirstTTL)
  BY DEF Elected
<1>2. \A n \in Master : (Holds(n)' <=> Holds(n)) /\ LeftOf(n)' = LeftOf(n)
  BY DEF Elected, Holds, LeftOf
<1>3. /\ m \notin late' => Holds(m) /\ FirstTTL + StopLag < LeaseTTL + LeftOf(m)
      /\ deadline'[m] = FirstTTL + StopLag
      /\ \A n \in Master : n # m => /\ deadline'[n] = deadline[n]
                                    /\ n \in late' <=> n \in late
      /\ deadline' \in [Master -> 0 .. FirstTTL + StopLag]
      /\ late' \in SUBSET Master
  BY <1>0, <1>1, PromptHolds
<1>4. ElectionTypeOK' /\ NoSession' /\ ServingLive'
  <2>1. /\ pc' \in [Master -> Pc] /\ keeper' \in [Master -> {"none", "running", "ended", "stopped"}]
        /\ wait' \in [Master -> (0 .. LeaseTTL) \cup (0 .. CallTimeout)]
    BY <1>0, LeaseAssumption DEF Elected, ElectionTypeOK, Pc
  <2>2. ElectionTypeOK'
    BY <1>0, <1>3, <2>1 DEF Elected, ElectionTypeOK
  <2>3. NoSession'
    BY <1>0 DEF Elected, ElectionInv, ElectionTypeOK, NoSession, Electing
  <2>4. ServingLive'
    BY <1>0 DEF Elected, ElectionInv, ElectionTypeOK, ServingLive, Live
  <2>5. QED
    BY <2>2, <2>3, <2>4
<1>5. /\ wait'[m] = LeaseTTL /\ Live(m)'
      /\ \A n \in Master : n # m => wait'[n] = wait[n] /\ (Live(n)' <=> Live(n))
  BY <1>0 DEF Elected, ElectionTypeOK, Live
<1>6. \A n \in Master : n # m => (Prompt(n)' <=> Prompt(n))
  BY <1>3, <1>5 DEF Prompt
<1>7. SessionBounded'
  BY <1>0, <1>2, <1>3, <1>6 DEF SessionBounded, Prompt
<1>8. \A n \in Master : n # m /\ Holds(m) /\ Prompt(n) => ~Holds(n) /\ deadline[n] < LeaseTTL
  BY <1>0, OneHolds, LeaseAssumption DEF SessionBounded
<1>9. HolderLast'
  <2> SUFFICES ASSUME NEW a \in Master, NEW b \in Master, a # b, Live(a)', Holds(a)', Prompt(b)'
               PROVE  deadline'[b] < wait'[a]
    BY DEF HolderLast
  <2>1. CASE a = m
    BY <1>2, <1>3, <1>5, <1>6, <1>8, <2>1
  <2>2. CASE a # m /\ b # m
    BY <1>0, <1>2, <1>3, <1>5, <1>6, <2>2 DEF HolderLast
  <2>3. CASE b = m
    <3>1. Holds(m) /\ Holds(a)
      BY <1>2, <1>3, <2>3 DEF Prompt
    <3>2. QED
      BY <2>3, <3>1, OneHolds
  <2>4. QED
    BY <2>1, <2>2, <2>3
<1>10. SessionsOrdered'
  <2> SUFFICES ASSUME NEW a \in Master, NEW b \in Master, a # b, Prompt(a)', Prompt(b)'
               PROVE  \/ ~Holds(a)' /\ deadline'[a] < wait'[b]
                      \/ ~Holds(b)' /\ deadline'[b] < wait'[a]
    BY DEF SessionsOrdered
  <2>1. ASSUME NEW n \in Master, n # m, Prompt(n)', Prompt(m)'
        PROVE  ~Holds(n)' /\ deadline'[n] < wait'[m]
    BY <1>2, <1>3, <1>5, <1>6, <1>8, <2>1 DEF Prompt
  <2>2. CASE a # m /\ b # m
    BY <1>0, <1>2, <1>3, <1>5, <1>6, <2>2 DEF SessionsOrdered
  <2>3. QED
    BY <2>1, <2>2
<1>11. QED
  BY <1>4, <1>7, <1>9, <1>10 DEF ElectionInv

\* The answer to a keep-alive arrives (Renewed).
LEMMA RenewedInv ==
  ASSUME NEW m \in Master, ElectionInv, Renewed(m)
  PROVE  ElectionInv'
<1>0. ElectionTypeOK /\ SessionBounded /\ HolderLast /\ SessionsOrdered
  BY DEF ElectionInv
<1>1. CountFrom(m, LeaseTTL)
  BY DEF Renewed
<1>2. \A n \in Master : (Holds(n)' <=> Holds(n)) /\ LeftOf(n)' = LeftOf(n)
  BY DEF Renewed, Holds, LeftOf
<1>3. /\ m \notin late' => Holds(m) /\ LeaseTTL + StopLag < LeaseTTL + LeftOf(m)
      /\ deadline'[m] = LeaseTTL + StopLag
      /\ \A n \in Master : n # m => /\ deadline'[n] = deadline[n]
                                    /\ n \in late' <=> n \in late
      /\ deadline' \in [Master -> 0 .. FirstTTL + StopLag]
      /\ late' \in SUBSET Master
  BY <1>0, <1>1, PromptHolds
<1>4. ElectionTypeOK' /\ NoSession' /\ ServingLive'
  BY <1>3 DEF Renewed, ElectionInv, ElectionTypeOK, NoSession, ServingLive, Live
<1>5. /\ \A n \in Master : wait'[n] = wait[n] /\ (Live(n)' <=> Live(n))
      /\ Live(m)
  BY DEF Renewed, Live
<1>6. \A n \in Master : n # m => (Prompt(n)' <=> Prompt(n))
  BY <1>3, <1>5 DEF Prompt
<1>7. SessionBounded'
  BY <1>0, <1>2, <1>3, <1>6 DEF SessionBounded, Prompt
<1>8. HolderLast'
  <2> SUFFICES ASSUME NEW a \in Master, NEW b \in Master, a # b, Live(a)', Holds(a)', Prompt(b)'
               PROVE  deadline'[b] < wait'[a]
    BY DEF HolderLast
  <2>1. CASE b # m
    BY <1>0, <1>2, <1>3, <1>5, <1>6, <2>1 DEF HolderLast
  <2>2. CASE b = m
    <3>1. Holds(m) /\ Holds(a)
      BY <1>2, <1>3, <2>2 DEF Prompt
    <3>2. QED
      BY <2>2, <3>1, OneHolds
  <2>3. QED
    BY <2>1, <2>2
<1>9. SessionsOrdered'
  <2> SUFFICES ASSUME NEW a \in Master, NEW b \in Master, a # b, Prompt(a)', Prompt(b)'
               PROVE  \/ ~Holds(a)' /\ deadline'[a] < wait'[b]
                      \/ ~Holds(b)' /\ deadline'[b] < wait'[a]
    BY DEF SessionsOrdered
  <2>1. ASSUME NEW n \in Master, n # m, Prompt(n)', Prompt(m)'
        PROVE  ~Holds(n)' /\ deadline'[n] < wait'[m]
    <3>1. Holds(m) /\ Prompt(n) /\ Live(m)
      BY <1>3, <1>5, <1>6, <2>1 DEF Prompt
    <3>2. ~Holds(n) /\ deadline[n] < wait[m]
      BY <1>0, <2>1, <3>1, OneHolds DEF HolderLast
    <3>3. QED
      BY <1>2, <1>3, <1>5, <2>1, <3>2
  <2>2. CASE a # m /\ b # m
    BY <1>0, <1>2, <1>3, <1>5, <1>6, <2>2 DEF SessionsOrdered
  <2>3. QED
    BY <2>1, <2>2
<1>10. QED
  BY <1>4, <1>7, <1>8, <1>9 DEF ElectionInv

\* Time takes as much from a session as from the sleep of the next leader.
LEMMA TickInv == ElectionInv /\ Tick => ElectionInv'
<1> SUFFICES ASSUME ElectionInv, Tick PROVE ElectionInv'
  OBVIOUS
<1> USE LeaseAssumption, ClockAssumption, NoKeyAssumption
<1>0. ElectionTypeOK /\ SessionBounded /\ HolderLast /\ SessionsOrdered
  BY DEF ElectionInv
<1>1. \A n \in 0 .. (FirstTTL + StopLag + LeaseTTL + CallTimeout) : Earlier(n) \in 0 .. n
  BY DEF Earlier
<1>2. /\ key' \in ViewKey \cup {NoKey}
      /\ key' = NoKey <=> key = NoKey
      /\ key # NoKey => key'.owner = key.owner /\ key'.kept = key.kept
                          /\ key'.left = Earlier(key.left) /\ key.left \in 0 .. LeaseTTL
  <2>1. CASE key = NoKey
    BY <1>0, <2>1 DEF Tick, ElectionTypeOK
  <2>2. CASE key # NoKey
    <3>1. key \in [owner : Master, left : 0 .. LeaseTTL, kept : BOOLEAN]
      BY <1>0, <2>2 DEF ElectionTypeOK, ViewKey
    <3>2. key' = [key EXCEPT !.left = Earlier(key.left)] /\ Earlier(key.left) \in 0 .. LeaseTTL
      BY <2>2, <3>1 DEF Tick, Earlier
    <3>3. key' \in ViewKey /\ key'.owner = key.owner /\ key'.kept = key.kept
            /\ key'.left = Earlier(key.left)
      BY <3>1, <3>2 DEF ViewKey
    <3>4. QED
      BY <2>2, <3>1, <3>3 DEF ViewKey
  <2>3. QED
    BY <2>1, <2>2
<1>3. \A n \in Master : /\ Holds(n)' <=> Holds(n)
                        /\ LeftOf(n) \in Nat /\ LeftOf(n)' = Earlier(LeftOf(n))
  BY <1>2 DEF Holds, LeftOf, Earlier
<1>4. \A n \in Master : /\ deadline[n] \in Nat /\ deadline'[n] = Earlier(deadline[n])
                        /\ wait[n] \in Nat /\ wait'[n] = Earlier(wait[n])
                        /\ Live(n) => deadline[n] > 0
                        /\ Live(n)' <=> Live(n)
                        /\ Prompt(n)' <=> Prompt(n)
  BY <1>0 DEF Tick, OnTime, ElectionTypeOK, Live, Prompt
<1>5. ElectionTypeOK'
  BY <1>0, <1>2 DEF Tick, Earlier, ElectionTypeOK
<1>6. NoSession' /\ ServingLive'
  BY <1>4 DEF Tick, Earlier, ElectionInv, NoSession, ServingLive
<1>7. SessionBounded'
  BY <1>0, <1>3, <1>4 DEF Earlier, SessionBounded, Prompt
<1>8. HolderLast'
  BY <1>0, <1>3, <1>4 DEF Earlier, HolderLast, Prompt
<1>9. SessionsOrdered'
  BY <1>0, <1>3, <1>4 DEF Earlier, SessionsOrdered, Prompt
<1>10. QED
  BY <1>5, <1>6, <1>7, <1>8, <1>9 DEF ElectionInv

\* A lease that runs out leaves its session less than LeaseTTL.
LEMMA KeyExpiresInv == ElectionInv /\ KeyExpires => ElectionInv'
  BY LeaseAssumption, ClockAssumption, NoKeyAssumption
  DEF KeyExpires, ElectionInv, ElectionTypeOK, NoSession, ServingLive, SessionBounded,
      HolderLast, SessionsOrdered, Live, Prompt, Holds, LeftOf, ViewKey, Pc, Electing

\* etcd renews a lease (Renew): it only gets longer.
LEMMA RenewInv ==
  ASSUME NEW m \in Master, ElectionInv, Renew(m)
  PROVE  ElectionInv'
<1>1. key \in [owner : Master, left : 0 .. LeaseTTL, kept : BOOLEAN] /\ key # NoKey
  BY DEF ElectionInv, ElectionTypeOK, ViewKey, Renew, Holds
<1>2. key' = [key EXCEPT !.left = LeaseTTL] /\ LeaseTTL \in 0 .. LeaseTTL
  BY LeaseAssumption DEF Renew
<1>3. key' \in ViewKey /\ key'.owner = key.owner /\ key'.kept = key.kept /\ key'.left = LeaseTTL
  BY <1>1, <1>2 DEF ViewKey
<1>4. key' # NoKey
  BY <1>3, NoKeyAssumption DEF ViewKey
<1>5. \A n \in Master : /\ Holds(n)' <=> Holds(n)
                        /\ LeftOf(n) \in Nat /\ LeftOf(n)' \in Nat /\ LeftOf(n)' >= LeftOf(n)
  BY <1>1, <1>3, <1>4, LeaseAssumption DEF Holds, LeftOf
<1>6. ElectionTypeOK' /\ NoSession' /\ ServingLive'
  BY <1>3 DEF Renew, ElectionInv, ElectionTypeOK, NoSession, ServingLive, Live
<1>7. SessionBounded' /\ HolderLast' /\ SessionsOrdered'
  BY <1>5, LeaseAssumption, ClockAssumption
  DEF Renew, ElectionInv, ElectionTypeOK, SessionBounded, HolderLast, SessionsOrdered, Live,
      Prompt
<1>8. QED
  BY <1>6, <1>7 DEF ElectionInv

\* The steps of one supervisor, of its keep-leader thread and of its calls to etcd.
LEMMA MasterInv ==
  ASSUME NEW m \in Master, ElectionInv, MasterStep(m) \/ StartServer(m)
  PROVE  ElectionInv'
<1> USE LeaseAssumption, ClockAssumption
    DEF ElectionInv, ElectionTypeOK, NoSession, ServingLive, SessionBounded, HolderLast,
        SessionsOrdered, Live, Prompt, Holds, LeftOf, Pc, Electing, Serving
<1>1. CASE GetLeader(m)
  BY <1>1 DEF GetLeader
<1>2. CASE StartWatch(m)
  BY <1>2 DEF StartWatch
<1>3. CASE GrantLease(m)
  BY <1>3 DEF GrantLease
<1>4. CASE CreateWithLease(m)
  BY <1>4, CreateInv
<1>5. CASE CreateRefused(m)
  BY <1>5 DEF CreateRefused
<1>6. CASE Elected(m)
  BY <1>6, ElectedInv
<1>7. CASE EtcdError(m)
  BY <1>7, TermEnds DEF EtcdError
<1>8. CASE ServerFails(m)
  BY <1>8 DEF ServerFails
<1>9. CASE CancelKeepAlive(m)
  BY <1>9, TermEnds DEF CancelKeepAlive
<1>10. CASE Renew(m)
  BY <1>10, RenewInv
<1>11. CASE Renewed(m)
  BY <1>11, RenewedInv
<1>12. CASE RenewalLost(m)
  BY <1>12 DEF RenewalLost
<1>13. CASE KeepAliveEnds(m)
  BY <1>13 DEF KeepAliveEnds
<1>14. CASE StopServer(m)
  BY <1>14 DEF StopServer
<1>15. CASE Crash(m)
  BY <1>15, TermEnds DEF Crash
<1>16. CASE Restart(m)
  BY <1>16 DEF Restart
<1>17. CASE StartServer(m)
  <2>1. CASE keeper[m] = "stopped"
    BY <1>17, <2>1, TermEnds DEF StartServer
  <2>2. CASE keeper[m] # "stopped"
    BY <1>17, <2>2 DEF StartServer
  <2>3. QED
    BY <2>1, <2>2
<1>18. QED
  BY <1>1, <1>2, <1>3, <1>4, <1>5, <1>6, <1>7, <1>8, <1>9, <1>10, <1>11, <1>12, <1>13, <1>14, <1>15, <1>16, <1>17 DEF MasterStep

\* Every step preserves the invariant.
LEMMA NextInv == ElectionInv /\ [ElectionNext]_electionVars => ElectionInv'
<1> SUFFICES ASSUME ElectionInv, [ElectionNext]_electionVars PROVE ElectionInv'
  OBVIOUS
<1>1. CASE UNCHANGED electionVars
  BY <1>1 DEF electionVars, ElectionInv, ElectionTypeOK, NoSession, ServingLive,
              SessionBounded, HolderLast, SessionsOrdered, Live, Prompt, Holds, LeftOf
<1>2. CASE ElectionNext
  BY <1>2, TickInv, KeyExpiresInv, MasterInv DEF ElectionNext, ElectionStep
<1>3. QED
  BY <1>1, <1>2

\* The invariant holds in every state of the election.
LEMMA InvAlways == ElectionSpec => []ElectionInv
  BY InitInv, NextInv, PTL DEF ElectionSpec

\* The variables of the election keep their types: a renewed lease and the
\* sleep of MasterServiceSupervisor::Start never exceed LeaseTTL, and no answer
\* lets a session go on for more than a TTL from its arrival.
THEOREM ElectionTypes == ElectionSpec => []ElectionTypeOK
<1>1. ElectionInv => ElectionTypeOK
  BY DEF ElectionInv
<1>2. QED
  BY <1>1, InvAlways, PTL

-----------------------------------------------------------------------------

\* Two masters that serve have both slept: SessionsOrdered leaves room for one.
LEMMA InvExcludes == ElectionInv => OneServesUnlessLate
<1> SUFFICES ASSUME ElectionInv, NEW m \in Master, NEW n \in Master,
                    Serving(m), Serving(n), m # n, m \notin late, n \notin late
             PROVE  FALSE
  BY DEF OneServesUnlessLate
<1>1. Prompt(m) /\ Prompt(n) /\ wait[m] = 0 /\ wait[n] = 0
  BY DEF ElectionInv, ServingLive, Serving, Prompt
<1>2. deadline[m] \in Nat /\ deadline[n] \in Nat
  BY ClockAssumption DEF ElectionInv, ElectionTypeOK
<1>3. QED
  BY <1>1, <1>2 DEF ElectionInv, SessionsOrdered

\* Two masters serve at the same time (MasterServiceSupervisor::Start) only if
\* the last answer that one of them counts from came late: crashes, lost answers,
\* expired leases and any other delay do not lead to a split brain.
THEOREM OneServes == ElectionSpec => []OneServesUnlessLate
  BY InvAlways, InvExcludes, PTL

-----------------------------------------------------------------------------
(* The refinement.  As at most one master serves while no answer was late,   *)
(* LeaderOf is that master.                                                  *)

\* If at most one master serves, it is LeaderOf.
LEMMA LeaderIs ==
  ASSUME AtMostOneServing
  PROVE  /\ \A m \in Master : Serving(m) => LeaderOf = m
         /\ (\A m \in Master : ~Serving(m)) => LeaderOf = NoKey
  BY DEF AtMostOneServing, LeaderOf

\* The same after a step.
LEMMA LeaderIsNext ==
  ASSUME AtMostOneServing'
  PROVE  /\ \A m \in Master : Serving(m)' => LeaderOf' = m
         /\ (\A m \in Master : ~Serving(m)') => LeaderOf' = NoKey
  BY DEF AtMostOneServing, LeaderOf

\* The leader stays if the same masters serve.
LEMMA SameLeader ==
  ASSUME AtMostOneServing, AtMostOneServing',
         \A m \in Master : Serving(m)' <=> Serving(m)
  PROVE  LeaderOf' = LeaderOf
<1>1. CASE \E m \in Master : Serving(m)
  BY <1>1, LeaderIs, LeaderIsNext
<1>2. CASE ~ \E m \in Master : Serving(m)
  BY <1>2, LeaderIs, LeaderIsNext
<1>3. QED
  BY <1>1, <1>2

\* The leader retires if it stops to serve and nobody starts.
LEMMA LeaderRetires ==
  ASSUME AtMostOneServing, AtMostOneServing', NEW m \in Master,
         Serving(m), ~Serving(m)',
         \A n \in Master : n # m => (Serving(n)' <=> Serving(n)),
         ViewOf' = ViewOf
  PROVE  Abstract!Retire
<1>1. LeaderOf = m
  BY LeaderIs
<1>2. LeaderOf' = NoKey
  BY LeaderIsNext DEF AtMostOneServing
<1>3. QED
  BY <1>1, <1>2, NoKeyAssumption DEF Abstract!Retire

\* Dropping a key does not change the master view.
LEMMA DropKeepsView ==
  ASSUME NEW m \in Master, ElectionTypeOK, key' = Drop(m)
  PROVE  ViewOf' = ViewOf
  BY DropFacts DEF ViewOf

\* Without a late answer, each step of the election is a step of Leadership or leaves
\* view and leader alone.
LEMMA Simulation ==
  ASSUME ElectionInv, ElectionInv', ElectionNext, late \cup late' = {}
  PROVE  Abstract!LeadershipNext \/ UNCHANGED <<ViewOf, LeaderOf>>
<1>a. OneServesUnlessLate
  BY InvExcludes
<1>b. OneServesUnlessLate'
  BY InvExcludes, PTL
<1>0. AtMostOneServing /\ AtMostOneServing'
  BY <1>a, <1>b DEF AtMostOneServing, OneServesUnlessLate
<1>2. CASE KeyExpires
  <2>1. key \in ViewKey /\ key' = NoKey /\ key.owner \in Master
    BY <1>2 DEF KeyExpires, ElectionInv, ElectionTypeOK, ViewKey
  <2>2. ViewOf # NoKey /\ ViewOf' = NoKey
    BY <1>2, <2>1, NoKeyAssumption DEF KeyExpires, ViewOf
  <2>3. LeaderOf' = LeaderOf
    BY <1>0, <1>2, SameLeader DEF KeyExpires, Serving, ElectionInv, ElectionTypeOK
  <2>4. QED
    BY <2>2, <2>3 DEF Abstract!Depose, Abstract!LeadershipNext
<1>3. CASE Tick
  <2>1. ViewOf' = ViewOf
    BY <1>3, NoKeyAssumption, LeaseAssumption
    DEF Tick, Earlier, ViewOf, ElectionInv, ElectionTypeOK, ViewKey
  <2>2. LeaderOf' = LeaderOf
    BY <1>0, <1>3, SameLeader DEF Tick, Serving
  <2>3. QED
    BY <2>1, <2>2
<1>4. ASSUME NEW m \in Master, CreateWithLease(m)
      PROVE  Abstract!LeadershipNext
  <2>1. ViewOf = NoKey /\ ViewOf' = m
    <3>1. key = NoKey /\ key' = [owner |-> m, left |-> lease[m], kept |-> TRUE]
      BY <1>4 DEF CreateWithLease
    <3>2. lease[m] \in 0 .. LeaseTTL
      BY DEF ElectionInv, ElectionTypeOK
    <3>3. key' \in ViewKey /\ key'.owner = m
      BY <3>1, <3>2 DEF ViewKey
    <3>4. QED
      BY <3>1, <3>3, NoKeyAssumption DEF ViewOf, ViewKey
  <2>2. LeaderOf' = LeaderOf
    BY <1>0, <1>4, SameLeader
    DEF CreateWithLease, Serving, ElectionInv, ElectionTypeOK
  <2>3. QED
    BY <2>1, <2>2 DEF Abstract!Elect, Abstract!LeadershipNext
<1>5. ASSUME NEW m \in Master, StartServer(m)
      PROVE  Abstract!LeadershipNext \/ UNCHANGED <<ViewOf, LeaderOf>>
  <2>1. CASE keeper[m] = "stopped"
    <3>1. LeaderOf' = LeaderOf
      BY <1>0, <1>5, <2>1, SameLeader DEF StartServer, Serving, ElectionInv, ElectionTypeOK
    <3>2. QED
      BY <1>5, <2>1, <3>1, DropKeepsView DEF StartServer, EndTerm, ElectionInv
  <2>2. CASE keeper[m] # "stopped"
    <3>1. ~Serving(m) /\ Serving(m)' /\ \A n \in Master : n # m => (Serving(n)' <=> Serving(n))
      BY <1>5, <2>2 DEF StartServer, Serving, ElectionInv, ElectionTypeOK
    <3>2. LeaderOf = NoKey /\ LeaderOf' = m
      BY <1>0, <3>1, LeaderIs, LeaderIsNext DEF AtMostOneServing
    <3>3. ViewOf' = ViewOf
      BY <1>5, <2>2 DEF StartServer, ViewOf
    <3>4. QED
      BY <3>2, <3>3 DEF Abstract!Begin, Abstract!LeadershipNext
  <2>3. QED
    BY <2>1, <2>2
<1>6. ASSUME NEW m \in Master, ServerFails(m) \/ StopServer(m) \/ Crash(m)
      PROVE  Abstract!LeadershipNext \/ UNCHANGED <<ViewOf, LeaderOf>>
  <2>1. ViewOf' = ViewOf
    BY <1>6, DropKeepsView DEF ServerFails, StopServer, Crash, EndTerm, ViewOf, ElectionInv
  <2>2. /\ ~Serving(m)'
        /\ \A n \in Master : n # m => (Serving(n)' <=> Serving(n))
    BY <1>6 DEF ServerFails, StopServer, Crash, Serving, ElectionInv, ElectionTypeOK
  <2>3. CASE Serving(m)
    BY <1>0, <2>1, <2>2, <2>3, LeaderRetires DEF Abstract!LeadershipNext
  <2>4. CASE ~Serving(m)
    BY <1>0, <2>1, <2>2, <2>4, SameLeader
  <2>5. QED
    BY <2>3, <2>4
<1>7. ASSUME NEW m \in Master,
             \/ GetLeader(m) \/ StartWatch(m) \/ GrantLease(m) \/ CreateRefused(m)
             \/ Elected(m) \/ EtcdError(m) \/ CancelKeepAlive(m) \/ Renew(m) \/ Renewed(m)
             \/ RenewalLost(m) \/ KeepAliveEnds(m) \/ Restart(m)
      PROVE  UNCHANGED <<ViewOf, LeaderOf>>
  <2>1. LeaderOf' = LeaderOf
    BY <1>0, <1>7, SameLeader
    DEF GetLeader, StartWatch, GrantLease, CreateRefused, Elected, EtcdError, CancelKeepAlive, Renew,
        Renewed, RenewalLost, KeepAliveEnds, Restart, Serving, ElectionInv, ElectionTypeOK,
        Electing
  <2>2. CASE Renew(m)
    BY <2>1, <2>2, NoKeyAssumption, LeaseAssumption
    DEF Renew, Holds, ViewOf, ElectionInv, ElectionTypeOK, ViewKey
  <2>3. CASE CancelKeepAlive(m) \/ EtcdError(m)
    BY <2>1, <2>3, DropKeepsView DEF CancelKeepAlive, EtcdError, EndTerm, ElectionInv
  <2>4. CASE ~Renew(m) /\ ~CancelKeepAlive(m) /\ ~EtcdError(m)
    BY <1>7, <2>1, <2>4
    DEF GetLeader, StartWatch, GrantLease, CreateRefused, Elected, Renewed, RenewalLost,
        KeepAliveEnds, Restart, ViewOf
  <2>5. QED
    BY <2>2, <2>3, <2>4
<1>8. QED
  BY <1>2, <1>3, <1>4, <1>5, <1>6, <1>7 DEF ElectionNext, ElectionStep, MasterStep

\* As long as no answer came late, supervisors, keep-leader threads and etcd
\* implement Leadership: masters serve one at a time and the master view changes
\* only through none.
THEOREM ElectionRefines == ElectionSpec => LeadershipUnlessLate
<1>1. ElectionInit => Abstract!LeadershipInit
  BY DEF ElectionInit, Abstract!LeadershipInit, ViewOf, LeaderOf, Serving
<1>2. ElectionInv /\ ElectionInv' /\ [ElectionNext]_electionVars
        => [late \cup late' = {} =>
              Abstract!LeadershipNext \/ UNCHANGED <<ViewOf, LeaderOf>>]_electionVars
  BY Simulation
<1>3. QED
  BY <1>1, <1>2, InvAlways, PTL DEF ElectionSpec, LeadershipUnlessLate
=============================================================================
