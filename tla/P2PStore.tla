------------------------------ MODULE P2PStore ------------------------------
(***************************************************************************)
(* The P2P store (mooncake-p2p-store/src/p2pstore): peers that share one   *)
(* named file.  A peer Registers the file it holds (a "gold" copy), other  *)
(* peers pull replicas with GetReplica and then serve them as well, and    *)
(* the payload record in etcd lists who holds what.                        *)
(*                                                                         *)
(* The record is changed by compare-and-swap on its revision only          *)
(* (Metadata.Update); the data moves by one-sided reads that the holder    *)
(* does not see.  So the safety of a reader rests on rechecking the record *)
(* after the transfers, and the safety of a holder on leaving the record   *)
(* before its memory is given back.                                        *)
(*                                                                         *)
(* Abstractions.  A buffer's size is counted in shards (maxShardSize = 1); *)
(* slot k of a peer's memory is where the k-th shard of the file belongs   *)
(* and holds a shard number, or Junk.  All locations of a peer enter and   *)
(* leave the record together, so a payload lists peers, not addresses.     *)
(* Only equality of revisions is ever tested, so fresh[n] says whether the *)
(* revision n holds is still that of the record.  A peer runs one call on  *)
(* the name at a time.                                                     *)
(***************************************************************************)
EXTENDS Integers, Sequences, SequencesExt, FiniteSetsExt

CONSTANTS Node,          \* the peers
          Sizes,         \* sizeList: the sizes of a peer's buffers, in shards
          Rejoin,        \* whether a peer that left, or whose etcd call had an
                         \* unknown outcome, may open the name again
          MaxOpens,      \* bound: calls of Register and GetReplica
          MaxFaults,     \* bound: crashes and failed etcd calls
          NoPayload      \* no record under the name

ASSUME SizesAssumption == Sizes \in Seq(Nat \ {0}) /\ Sizes # <<>>
ASSUME NodeAssumption == IsFiniteSet(Node)
ASSUME BoundAssumption == Rejoin \in BOOLEAN /\ MaxOpens \in Nat /\ MaxFaults \in Nat
ASSUME NoPayloadAssumption ==
    NoPayload \notin [gold : Seq(Node), reps : Seq(Node)]

VARIABLES meta,      \* etcd: the payload record
          pc,        \* the step each peer's call is at
          view,      \* the payload the call works on
          fresh,     \* whether its revision is the record's revision
          catalog,   \* Catalog: "gold" or "replica" for an open payload
          refs,      \* RegisteredMemory: reference count (2: two or more)
          mr,        \* whether the engine has the memory registered
          mem,       \* the content of the peer's memory
          try,       \* performTransfer: retryCount of each shard
          status,    \* performTransfer: how each shard's transfers stand
          left,      \* peers whose Unregister or DeleteReplica succeeded
          doubt,     \* peers whose failed etcd call was carried out
          forced,    \* whether a forceCreate replaced a record
          opens, faults   \* counters for the bounds
vars == <<meta, pc, view, fresh, catalog, refs, mr, mem, try, status, left,
          doubt, forced, opens, faults>>
metaVars == <<meta, fresh>>
memVars == <<refs, mr>>
xferVars == <<try, status>>
histVars == <<left, doubt, forced>>

Total(sizes) == FoldLeft(+, 0, sizes)
Shard == 1..Total(Sizes)
Junk == 0
File == [k \in Shard |-> k]
ShardStatus == {"idle", "pending", "done", "failed"}
MaxTries == 3 + Cardinality(Node) + MaxFaults

Init == /\ meta = NoPayload
        /\ pc = [n \in Node |-> "idle"]
        /\ view = [n \in Node |-> NoPayload]
        /\ fresh = [n \in Node |-> FALSE]
        /\ catalog = [n \in Node |-> "none"]
        /\ refs = [n \in Node |-> 0]
        /\ mr = [n \in Node |-> FALSE]
        /\ mem = [n \in Node |-> [k \in Shard |-> Junk]]
        /\ try = [n \in Node |-> [k \in Shard |-> 0]]
        /\ status = [n \in Node |-> [k \in Shard |-> "idle"]]
        /\ left = {} /\ doubt = {} /\ forced = FALSE
        /\ opens = 0 /\ faults = 0

(***************************************************************************)
(* The record, as seen through Metadata.                                   *)
(***************************************************************************)
Count(p) == Len(p.reps) + Len(p.gold)
IsEmpty(p) == Count(p) = 0
Holders(p) == IF p = NoPayload THEN {} ELSE ToSet(p.gold) \cup ToSet(p.reps)
contains(seq, value) == value \in ToSet(seq)
isSubsetOf(old, new) == /\ \A x \in ToSet(old.gold) : contains(new.gold, x)
                        /\ \A x \in ToSet(old.reps) : contains(new.reps, x)

\* Every write gives the record a new revision, also one that deletes it.
Write(p) == /\ meta' = p
            /\ fresh' = [n \in Node |-> FALSE]
\* Mutant: an empty payload is stored instead of deleting the key.
UpdateKeepsEmpty(n, p) == Write(p)
Update(n, p) == Write(IF IsEmpty(p) THEN NoPayload ELSE p)

\* Metadata.Get by n: the payload and its revision, used from pc s on.
Get(n, s) == /\ view' = [view EXCEPT ![n] = meta]
             /\ fresh' = [fresh EXCEPT ![n] = (meta # NoPayload)]
             /\ pc' = [pc EXCEPT ![n] = s]
             /\ UNCHANGED meta

\* What a call makes of the payload it read.
Registered(n) == [gold |-> <<n>>, reps |-> <<>>]
WithReplica(n) == [view[n] EXCEPT !.reps = Append(@, n)]
WithoutGold(n) == [view[n] EXCEPT !.gold = <<>>]
\* The loop over ReplicaList, which copies the locations of other peers.
Without(reps, n) ==
    LET copied[i \in 0..Len(reps)] ==
          IF i = 0 THEN <<>>
          ELSE IF reps[i] = n THEN copied[i - 1] ELSE Append(copied[i - 1], reps[i])
    IN  copied[Len(reps)]
WithoutReplica(n) == [view[n] EXCEPT !.reps = Without(@, n)]
Removal(n) == IF pc[n] = "unregister" THEN WithoutGold(n) ELSE WithoutReplica(n)

(***************************************************************************)
(* RegisteredMemory.  Remove decrements a copy of the entry: an entry that *)
(* was added twice is never dropped, but its memory is unregistered.       *)
(***************************************************************************)
AddMemory(n) == /\ refs' = [refs EXCEPT ![n] = IF @ = 0 THEN 1 ELSE 2]
                /\ mr' = [mr EXCEPT ![n] = @ \/ refs[n] = 0]
RemoveMemory(n) ==
    IF refs[n] = 0
    THEN UNCHANGED memVars
    ELSE /\ refs' = [refs EXCEPT ![n] = IF @ = 1 THEN 0 ELSE @]
         /\ mr' = [mr EXCEPT ![n] = FALSE]

Goto(n, s) == pc' = [pc EXCEPT ![n] = s] /\ UNCHANGED view
\* The call ends, and its local variables with it.
Return(n, s) == /\ pc' = [pc EXCEPT ![n] = s]
                /\ view' = [view EXCEPT ![n] = NoPayload]
Fault == faults < MaxFaults /\ faults' = faults + 1
Idle(n) == pc[n] = "idle" /\ catalog[n] = "none"
Open(n) == /\ Idle(n) /\ (Rejoin \/ n \notin left \cup doubt)
           /\ opens < MaxOpens /\ opens' = opens + 1

\* The process ends: its registrations and its catalog go with it, its
\* locations stay in the record, which has no lease.
Die(n) == /\ Return(n, "dead")
          /\ mr' = [mr EXCEPT ![n] = FALSE]
          /\ refs' = [refs EXCEPT ![n] = 0]
          /\ catalog' = [catalog EXCEPT ![n] = "none"]

(***************************************************************************)
(* Register: the memory, which holds the file, is registered, then the     *)
(* record is created, or overwritten when forceCreate is set.              *)
(***************************************************************************)
StartRegister(n) ==
    /\ Open(n)
    /\ AddMemory(n)
    /\ mem' = [mem EXCEPT ![n] = File]
    /\ Goto(n, "register")
    /\ UNCHANGED <<metaVars, catalog, xferVars, histVars, faults>>

\* The engine refuses a chunk: both the goroutine and Add close errChan,
\* and the second close panics.
RegistrationPanics(n) ==
    /\ Open(n) /\ refs[n] = 0 /\ Fault
    /\ Die(n)
    /\ UNCHANGED <<metaVars, mem, xferVars, histVars>>

CreateOk(n) ==
    /\ pc[n] = "register" /\ meta = NoPayload
    /\ Write(Registered(n))
    /\ catalog' = [catalog EXCEPT ![n] = "gold"]
    /\ Return(n, "idle")
    /\ UNCHANGED <<memVars, mem, xferVars, histVars, opens, faults>>

CreateExists(n) ==
    /\ pc[n] = "register" /\ meta # NoPayload
    /\ RemoveMemory(n)
    /\ Return(n, "idle")
    /\ UNCHANGED <<metaVars, catalog, mem, xferVars, histVars, opens, faults>>

ForceCreate(n) ==
    /\ pc[n] = "register" /\ meta # NoPayload
    /\ Write(Registered(n))
    /\ forced' = TRUE
    /\ catalog' = [catalog EXCEPT ![n] = "gold"]
    /\ Return(n, "idle")
    /\ UNCHANGED <<memVars, mem, xferVars, left, doubt, opens, faults>>

\* The etcd call returns an error; the write may have been made or not, with
\* forceCreate also over a record that exists.
CreateError(n) ==
    /\ pc[n] = "register" /\ Fault
    /\ \/ UNCHANGED <<metaVars, doubt, forced>>
       \/ /\ Write(Registered(n))
          /\ doubt' = doubt \cup {n}
          /\ forced' = (forced \/ meta # NoPayload)
    /\ RemoveMemory(n)
    /\ Return(n, "idle")
    /\ UNCHANGED <<catalog, mem, xferVars, left, opens>>

(***************************************************************************)
(* Unregister (of a gold copy) and DeleteReplica (of a replica): read the  *)
(* record, write it back without this peer's locations, again while the    *)
(* revision has moved on, then drop the catalog entry and the memory.      *)
(***************************************************************************)
\* Mutant: the memory is given back before the record is updated.
StartRemovalEagerly(n) ==
    /\ pc[n] = "idle" /\ catalog[n] # "none" /\ meta # NoPayload
    /\ Get(n, IF catalog[n] = "gold" THEN "unregister" ELSE "delete")
    /\ RemoveMemory(n)
    /\ UNCHANGED <<catalog, mem, xferVars, histVars, opens, faults>>

StartRemoval(n) ==
    /\ pc[n] = "idle" /\ catalog[n] # "none" /\ meta # NoPayload
    /\ Get(n, IF catalog[n] = "gold" THEN "unregister" ELSE "delete")
    /\ UNCHANGED <<catalog, memVars, mem, xferVars, histVars, opens, faults>>

RemovalCommits(n) ==
    /\ pc[n] \in {"unregister", "delete"} /\ fresh[n]
    /\ Update(n, Removal(n))
    /\ Goto(n, "drop")
    /\ UNCHANGED <<catalog, memVars, mem, xferVars, histVars, opens, faults>>

RemovalRetries(n) ==
    /\ pc[n] \in {"unregister", "delete"} /\ ~fresh[n]
    /\ Get(n, IF meta = NoPayload THEN "idle" ELSE pc[n])
    /\ UNCHANGED <<catalog, memVars, mem, xferVars, histVars, opens, faults>>

RemovalError(n) ==
    /\ pc[n] \in {"unregister", "delete"} /\ Fault
    /\ \/ UNCHANGED <<metaVars, doubt>>
       \/ /\ fresh[n] /\ Update(n, Removal(n))
          /\ doubt' = doubt \cup {n}
    /\ Return(n, "idle")
    /\ UNCHANGED <<catalog, memVars, mem, xferVars, left, forced, opens>>

RemovalDrops(n) ==
    /\ pc[n] = "drop"
    /\ catalog' = [catalog EXCEPT ![n] = "none"]
    /\ RemoveMemory(n)
    /\ left' = left \cup {n}
    /\ Return(n, "idle")
    /\ UNCHANGED <<metaVars, mem, xferVars, doubt, forced, opens, faults>>

\* The application uses the memory for something else, unless one of its
\* calls failed and left open what the record says.
Reuse(n) ==
    /\ n \in left \ doubt /\ Idle(n)
    /\ mem' = [mem EXCEPT ![n] = [k \in Shard |-> Junk]]
    /\ UNCHANGED <<metaVars, pc, view, catalog, memVars, xferVars, histVars, opens, faults>>

(***************************************************************************)
(* doGetReplica: one transfer per shard.  The loop over the buffers never  *)
(* resets offset, so shard k goes to the first buffer of at least k shards *)
(* - to the slot after all earlier buffers and k - 1 of its own.           *)
(***************************************************************************)
Base(i) == Total(SubSeq(Sizes, 1, i - 1))
Planned == {k \in Shard : \E i \in DOMAIN Sizes : Sizes[i] >= k}
BufferOf(k) == CHOOSE i \in DOMAIN Sizes :
                  /\ Sizes[i] >= k
                  /\ \A j \in 1..(i - 1) : Sizes[j] < k
Target(k) == Base(BufferOf(k)) + k

\* GetLocation: a random replica, else a random gold copy; on a retry the
\* replicas and then the gold copies in their order.
Locations(p, retry) ==
    IF retry = 0
    THEN IF p.reps # <<>> THEN ToSet(p.reps) ELSE ToSet(p.gold)
    ELSE LET all == p.reps \o p.gold
         IN  IF retry <= Len(all) THEN {all[retry]} ELSE {}
maxRetryCount(p) == Max({3, Count(p)})

doGetReplica(n) ==
    /\ AddMemory(n)
    /\ try' = [try EXCEPT ![n] = [k \in Shard |-> 0]]
    /\ status' = [status EXCEPT
                     ![n] = [k \in Shard |-> IF k \in Planned THEN "pending" ELSE "idle"]]

StartGet(n) ==
    /\ Open(n) /\ meta # NoPayload
    /\ Get(n, "transfer")
    /\ doGetReplica(n)
    /\ UNCHANGED <<catalog, mem, histVars, faults>>

\* performTransfer reads shard k from s.  A read of memory that s has not
\* registered any more may complete as well, depending on the transport.
Transfer(n, k, s) ==
    /\ pc[n] = "transfer" /\ status[n][k] = "pending"
    /\ try[n][k] < maxRetryCount(view[n])
    /\ s \in Locations(view[n], try[n][k]) /\ pc[s] # "dead"
    /\ mem' = [mem EXCEPT ![n][Target(k)] = mem[s][k]]
    /\ status' = [status EXCEPT ![n][k] = "done"]
    /\ UNCHANGED <<metaVars, pc, view, catalog, memVars, try, histVars, opens, faults>>

\* ... or the transfer fails and the next location is tried.  The segment of a
\* dead peer may still be known and open.
TransferRetries(n, k, s) ==
    /\ pc[n] = "transfer" /\ status[n][k] = "pending"
    /\ try[n][k] < maxRetryCount(view[n])
    /\ s \in Locations(view[n], try[n][k])
    /\ try' = [try EXCEPT ![n][k] = @ + 1]
    /\ UNCHANGED <<metaVars, pc, view, catalog, memVars, mem, status, histVars, opens, faults>>

\* No location or try is left, or the segment of a dead peer does not open.
TransferFails(n, k) ==
    /\ pc[n] = "transfer" /\ status[n][k] = "pending"
    /\ \/ try[n][k] >= maxRetryCount(view[n])
       \/ Locations(view[n], try[n][k]) = {}
       \/ \E s \in Locations(view[n], try[n][k]) : pc[s] = "dead"
    /\ status' = [status EXCEPT ![n][k] = "failed"]
    /\ UNCHANGED <<metaVars, pc, view, catalog, memVars, mem, try, histVars, opens, faults>>

\* wg.Wait: an error of any shard is GetReplica's error, and the memory
\* stays in RegisteredMemory.  But the goroutines of a buffer all assign the
\* one variable err before they look at it, so the success of another shard
\* of the buffer may hide the failure.
Errors(n) ==
    LET Ended(st) == {k \in Planned : status[n][k] = st}
        hidden == {BufferOf(k) : k \in Ended("failed")}
                    \subseteq {BufferOf(k) : k \in Ended("done")}
    IN  {Ended("failed") # {}, Ended("failed") # {} /\ ~hidden}

TransfersEnd(n) ==
    /\ pc[n] = "transfer"
    /\ \A k \in Shard : status[n][k] # "pending"
    /\ \E err \in Errors(n) : IF err THEN Return(n, "idle") ELSE Goto(n, "recheck")
    /\ status' = [status EXCEPT ![n] = [k \in Shard |-> "idle"]]
    /\ try' = [try EXCEPT ![n] = [k \in Shard |-> 0]]
    /\ UNCHANGED <<metaVars, catalog, memVars, mem, histVars, opens, faults>>

\* Mutant: the record only has to exist still.
RecheckForgotten(n) ==
    /\ pc[n] = "recheck" /\ meta # NoPayload
    /\ Goto(n, "publish")
    /\ UNCHANGED <<metaVars, catalog, memVars, mem, xferVars, histVars, opens, faults>>

\* Every location the transfers could have used must still be listed.
RecheckPasses(n) ==
    /\ pc[n] = "recheck" /\ meta # NoPayload
    /\ fresh[n] \/ isSubsetOf(view[n], meta)
    /\ Goto(n, "publish")
    /\ UNCHANGED <<metaVars, catalog, memVars, mem, xferVars, histVars, opens, faults>>

\* Otherwise all is transferred again - from the payload read at first.
RecheckRepeats(n) ==
    /\ pc[n] = "recheck" /\ meta # NoPayload
    /\ ~fresh[n] /\ ~isSubsetOf(view[n], meta)
    /\ doGetReplica(n)
    /\ Goto(n, "transfer")
    /\ UNCHANGED <<metaVars, catalog, mem, histVars, opens, faults>>

\* The record is gone: isSubsetOf dereferences a nil payload.
RecheckPanics(n) ==
    /\ pc[n] = "recheck" /\ meta = NoPayload
    /\ Die(n)
    /\ UNCHANGED <<metaVars, mem, xferVars, histVars, opens, faults>>

\* Mutant: the record is written without comparing its revision.
PublishBlindly(n) ==
    /\ pc[n] = "publish"
    /\ Update(n, WithReplica(n))
    /\ catalog' = [catalog EXCEPT ![n] = "replica"]
    /\ Return(n, "idle")
    /\ UNCHANGED <<memVars, mem, xferVars, histVars, opens, faults>>

\* updatePayloadMetadata: list the replica, from a new read of the record
\* whenever the revision has moved on.
Publish(n) ==
    /\ pc[n] = "publish" /\ fresh[n]
    /\ Update(n, WithReplica(n))
    /\ catalog' = [catalog EXCEPT ![n] = "replica"]
    /\ Return(n, "idle")
    /\ UNCHANGED <<memVars, mem, xferVars, histVars, opens, faults>>

\* Mutant: the payload is read again, its revision is not.
PublishRetriesOld(n) ==
    /\ pc[n] = "publish" /\ ~fresh[n]
    /\ view' = [view EXCEPT ![n] = meta]
    /\ pc' = [pc EXCEPT ![n] = IF meta = NoPayload THEN "idle" ELSE "publish"]
    /\ UNCHANGED <<metaVars, catalog, memVars, mem, xferVars, histVars, opens, faults>>

PublishRetries(n) ==
    /\ pc[n] = "publish" /\ ~fresh[n]
    /\ Get(n, IF meta = NoPayload THEN "idle" ELSE "publish")
    /\ UNCHANGED <<catalog, memVars, mem, xferVars, histVars, opens, faults>>

\* A call to etcd fails, that of the recheck or of the publication.
PublishError(n) ==
    /\ pc[n] \in {"recheck", "publish"} /\ Fault
    /\ \/ UNCHANGED <<metaVars, doubt>>
       \/ /\ pc[n] = "publish" /\ fresh[n] /\ Update(n, WithReplica(n))
          /\ doubt' = doubt \cup {n}
    /\ Return(n, "idle")
    /\ UNCHANGED <<catalog, memVars, mem, xferVars, left, forced, opens>>

Crash(n) ==
    /\ pc[n] # "dead" /\ Fault
    /\ Die(n)
    /\ UNCHANGED <<metaVars, mem, xferVars, histVars, opens>>

Register(n) == \/ StartRegister(n) \/ RegistrationPanics(n) \/ CreateOk(n)
               \/ CreateExists(n) \/ ForceCreate(n) \/ CreateError(n)
Removing(n) == \/ StartRemoval(n) \/ RemovalCommits(n) \/ RemovalRetries(n)
             \/ RemovalError(n) \/ RemovalDrops(n)
GetReplica(n) == \/ StartGet(n)
                 \/ \E k \in Planned : \/ \E s \in Node : Transfer(n, k, s)
                                       \/ \E s \in Node : TransferRetries(n, k, s)
                                       \/ TransferFails(n, k)
                 \/ TransfersEnd(n)
                 \/ RecheckPasses(n) \/ RecheckRepeats(n) \/ RecheckPanics(n)
                 \/ Publish(n) \/ PublishRetries(n) \/ PublishError(n)
Next == \E n \in Node : Register(n) \/ Removing(n) \/ GetReplica(n) \/ Reuse(n) \/ Crash(n)
P2PSpec == Init /\ [][Next]_vars

\* A call that was made goes on; nobody has to make one.
Continues(n) == \/ CreateOk(n) \/ CreateExists(n)
                \/ RemovalCommits(n) \/ RemovalRetries(n) \/ RemovalDrops(n)
                \/ \E k \in Planned : \/ \E s \in Node : Transfer(n, k, s)
                                      \/ TransferFails(n, k)
                \/ TransfersEnd(n)
                \/ RecheckPasses(n) \/ RecheckRepeats(n) \/ RecheckPanics(n)
                \/ Publish(n) \/ PublishRetries(n)
FairP2PSpec == P2PSpec /\ \A n \in Node : WF_vars(Continues(n))
(***************************************************************************)
(* Properties                                                              *)
(***************************************************************************)
\* Payloads, with a bound on the locations: a peer is listed more than once
\* only after a fault.
Payload == [gold : SeqOf(Node, 1), reps : SeqOf(Node, Cardinality(Node) + MaxFaults)]

\* Every variable keeps its type: payloads list peers, a transfer is never
\* tried more often than performTransfer's bound, and only a call of
\* GetReplica that is transferring has transfers under way.
P2PTypeOK ==
    /\ meta \in Payload \cup {NoPayload}
    /\ pc \in [Node -> {"idle", "register", "unregister", "delete", "drop",
                         "transfer", "recheck", "publish", "dead"}]
    /\ view \in [Node -> Payload \cup {NoPayload}]
    /\ fresh \in [Node -> BOOLEAN]
    /\ catalog \in [Node -> {"none", "gold", "replica"}]
    /\ refs \in [Node -> 0..2] /\ mr \in [Node -> BOOLEAN]
    /\ mem \in [Node -> [Shard -> Shard \cup {Junk}]]
    /\ try \in [Node -> [Shard -> 0..MaxTries]]
    /\ status \in [Node -> [Shard -> ShardStatus]]
    /\ left \subseteq Node /\ doubt \subseteq Node
    /\ forced \in BOOLEAN /\ opens \in 0..MaxOpens /\ faults \in 0..MaxFaults
    /\ meta # NoPayload => ~IsEmpty(meta)
    /\ \A n \in Node : pc[n] \notin {"transfer", "dead"} => \A k \in Shard : status[n][k] = "idle"

\* Whoever the record lists holds the whole file: "The file content
\* corresponds logically to the order in the arrays", whatever peers left,
\* reused their memory or died while a replica was being copied from them.
PublishedHoldsFile == \A n \in Holders(meta) : mem[n] = File

\* ... and, while it lives, its memory is registered, so that a reader can
\* get at it: a peer leaves the record before it gives the memory back.  Two
\* cases escape: a Register whose etcd call fails gives it back without
\* knowing whether the record was written; and memory that was added twice
\* (a GetReplica that failed keeps it) is unregistered by the first Remove
\* and, as its entry stays, never registered again.
PublishedReachable ==
    \A n \in Holders(meta) :
       mr[n] \/ pc[n] = "dead" \/ n \in doubt \/ refs[n] = 2

\* No update of the record is lost: a peer with an open payload is listed,
\* as what its catalog says and once, until it removes itself.  Only a
\* forceCreate, which drops the list, and an etcd call of unknown outcome
\* can separate the two: the peer's own, or that of an Unregister, which
\* when called again clears the gold copy of whoever registered meanwhile.
OpenIsListed ==
    ~forced =>
       \A n \in Node : pc[n] # "drop" =>
          /\ catalog[n] = "gold" /\ doubt = {} =>
                meta # NoPayload /\ contains(meta.gold, n)
          /\ catalog[n] = "replica" /\ n \notin doubt =>
                /\ meta # NoPayload
                /\ Cardinality({i \in DOMAIN meta.reps : meta.reps[i] = n}) = 1

\* GetReplica, Unregister, DeleteReplica and Register end, although all of
\* them compete for the same record - unless a location that GetReplica
\* read is no longer listed: it then copies from a payload it never
\* refreshes, until a transfer fails or the record is gone.
Busy(n) == pc[n] \notin {"idle", "dead"}
Outdated(n) == /\ pc[n] \in {"transfer", "recheck"} /\ meta # NoPayload
               /\ ~isSubsetOf(view[n], meta)
CallsReturn == \A n \in Node : Busy(n) ~> (~Busy(n) \/ Outdated(n))
=============================================================================
