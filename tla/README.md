# A TLA+ model of Mooncake

The specifications in this directory model the parts of Mooncake that carry its protocols: the
distributed object store (`mooncake-store/`: master, allocation, eviction, clients, leader election
and failover), the RDMA path of the transfer engine below it, and the P2P store. TLC checks them
on small instances; TLAPS proves, for every size, the invariants of every component that TLC checks
(some of the composed store's and of the P2P store's under hypotheses, section 4), and that the store
implements its abstract specification, and the election its own as long as no answer of etcd comes late.

## 1. Inventory

| Part | State | Operations | What is hard | Correct means |
|---|---|---|---|---|
| Segment registry (`segment.cpp`) | `mounted_segments_`, `allocators_`, `client_segments_`, capacity metric | mount, remount, prepare and commit of an unmount | an unmount is two critical sections with a long walk between them | containers agree; each unmount is committed once |
| Metadata (`master_service.cpp`) | 1024 locked shards: key → replicas, lease, soft pin | ExistKey, GetReplicaList, PutStart/End/Revoke, Remove, …ByRegex, RemoveAll | handles expire while the entry lives; calls of clients come in any order | no leak, no shared unit, leases hold |
| Client monitor | `client_ttl`, `ok_client_`, `client_ping_queue_` | ping, scan, expiry with unmount | expiry races with mount and remount | who has a segment is timed; who is silent loses it |
| Eviction | `need_eviction_`, locals of `BatchEvict` | two passes over the shards | works with a time and a limit that get stale | only what may go, soft pins last, neither too much nor too little |
| Allocation strategy (`allocation_strategy.h`) | shared allocators | `Allocate` | concurrent calls, best effort, partial failure | no region twice, replicas complete and in different segments |
| Offset allocator (`offset_allocator.cpp`) | nodes with neighbours, bins and masks, free nodes | allocate, free, storageReport | coalescing, rounding to bins, running out of nodes | regions tile the storage, the report is exact |
| Client (`client.cpp`) | operations under way | Put, Query, Get and their batches | one-sided transfers that the master does not see | a Get that succeeds returns the object |
| Client and masters (`client.cpp`, `master_client.cpp`) | `mounted_segments_`, the connection, the remount future | MountSegment, UnmountSegment, ping thread | the master changes; calls and answers are lost | unmounted stays unmounted; the client rejoins |
| Leader election (`ha_helper.cpp`, `etcd_wrapper.go`) | etcd key and lease, keep-alive channel | elect, keep, serve, step down | a leader that has not noticed that its lease is gone; answers that come late | at most one serves; someone gets elected |
| RDMA transport (`rdma_transport/`, `multi_transport.cpp`) | task counters, slice queues, endpoints, queue depths | submit, post, poll, retry, evict and reset endpoints | counters that several threads bring up to date late | no slice lost or counted twice; tasks finish |
| P2P store (`p2pstore/`) | payload record in etcd, catalog, registered memory | Register, Unregister, GetReplica, DeleteReplica | compare-and-swap on the record, data moved behind its back | who is listed holds the file |
| Transfer submission and pools, RPC wrappers, storage backend, HTTP server, metrics, Python binding, other transports, conductor, EP | | | I/O, wrappers, drivers or separate systems | not modelled (section 5) |

The parts interact through calls. A client asks the master for space (`PutStart`), writes straight
into the memory of a segment, and reports the end (`PutEnd`). A reader asks for the replicas
(`GetReplicaList`), which grants a lease, reads straight from memory and then looks at its own copy
of the deadline. Metadata calls hold the mutex of one shard, and take `segment_mutex_` (shared) for
an allocation; mounts and unmounts hold it exclusively. Masters meet only in etcd; a client meets
them through the master view it reads there. The P2P store uses the transfer engine and etcd.

`PROJECT.json` lists the hazards line by line, with the properties that cover them.

## 2. Modules

| Module | Models | Remarks |
|---|---|---|
| `SegmentManager` | `segment.h/.cpp` | each operator is the body of one method of `ScopedSegmentAccess`, which holds the mutex all the time |
| `Replica` | `replica.h`, the tests of `ObjectMetadata` | pure operators, shared by the others |
| `MasterService` | `master_service.h/.cpp` | extends `SegmentManager`; one action per critical section |
| `ObjectStore` | | abstract: a write-once store as the threads of clients see it |
| `MooncakeStore` | `client.cpp` over the master and the memory | extends `MasterService`; the composition; implements `ObjectStore` |
| `OffsetAllocator` | `offset_allocator.cpp` | operators on the state of one allocator |
| `AllocationStrategy` | `allocation_strategy.h`, `allocator.cpp` | extends `OffsetAllocator`; the steps behind `Allocate` of `MasterService` |
| `BatchEvict` | `BatchEvict` exactly | the choice behind `EvictShard` of `MasterService` |
| `Leadership` | | abstract: the master view and the serving master, as clients see them |
| `LeaderElection` | `ha_helper.cpp`, `etcd_helper.cpp`, `etcd_wrapper.go` | implements `Leadership` |
| `ClientFailover` | ping and remount threads, `master_client.cpp` | extends `Leadership`: the client under every behaviour an election allows |
| `RdmaTransport` | worker pool, endpoints, endpoint store, tasks | |
| `P2PStore` | `core.go`, `metadata.go`, `registered_memory.go`, `catalog.go` | |
| `MasterServiceProofs`, `MooncakeStoreProofs`, `AllocationStrategyProofs`, `BatchEvictProofs`, `LeaderElectionProofs`, `ClientFailoverProofs`, `RdmaTransportProofs`, `P2PStoreProofs` | | theorems |
| `MCMaster`, `MCStore`, `MCAllocation`, `MCEvict`, `MCRdma`, `MCP2P` | | instances for TLC |

Definitions marked *Mutant* are wrong variants of the definition that follows them. They are
used by no specification: put in its place they must make a property fail, which shows that
the property says something.

### How state and actions correspond to the code

**Master.**
* *Allocator objects.* A segment can be mounted repeatedly, and every mount creates an
  allocator. A buffer remembers its segment and the serial number of the allocator (the `weak_ptr` of
  `AllocatedBuffer`). It is *valid* while the allocator is alive (`Alive`, `isAllocatorValid`): while the
  registry has it (`bufAllocator` has that number: the buffer is *current*) or a call has locked the
  `weak_ptr`, as `~AllocatedBuffer`, `get_descriptor` and `getSegmentName` do. `holders` are these calls, each
  with the shard it has locked; `HoldAllocator` and `DropAllocator` are the begin and the end of a hold, and the other operations
  on that shard wait meanwhile (`Unlocked`). A cleaner that finds an allocator alive that the registry has
  dropped leaves its handles (`outlived` remembers where), and the next call on the key drops them.
* *Atomicity.* `UnmountSegment` is `PrepareUnmount`, one `ClearInvalidHandles` per shard, and
  `CommitUnmount`; `cleaner[t]` is the progress of the thread. The monitor uses the same steps
  after `MonitorScan` and `MonitorExpire`. Loops over all shards (`RemoveAll`, `RemoveByRegex`,
  `GetReplicaListByRegex`, `BatchEvict`) are a step per shard.
* *Time.* Deadlines are remaining times (`Tick` lowers them), which keeps the state finite;
  `BatchEvict`, which compares deadlines with each other and with a stale `now`, has absolute ones.
  Its clock never gives two calls the same time.
* *Callers are unconstrained.* Any key operation can be called at any time by anyone, so the
  invariants of the master do not depend on what clients do. Two things are assumed of them: a
  client mounts and unmounts only its own segments, and its segments have unique ids.
* *Allocation.* `Allocate` yields every sound placement of 1 to `replica_num` replicas;
  `AllocationStrategy` shows by which steps (`ReplicasSound`) and that concurrent calls do not
  disturb each other (`BuffersExclusive`).
* *Ping queue.* `boost::lockfree::queue` allocates nodes on demand, so a push fails only when
  memory runs out; the code handles the failure and `QueueSize` makes it happen.
* *Eviction.* `EvictStart` is the test of `EvictionThreadFunc`, with the ratio of an empty store 0. `EvictShard` may take any subset
  of what may go; that the real algorithm stays inside is `EvictAllowed` of `BatchEvict`.

**Offset allocator.** `nodes`, `bins`, `usedBins`, `usedTops` and `freeList` are `m_nodes`,
`m_binIndices`, `m_usedBins`, `m_usedBinsTop` and the part of `m_freeNodes` in use; the links of a
node are its fields. A size is a number of units of `2^m_multiplier_bits`, `MantissaBits` is 3 in the
code. `Grown` is the node that `allocate` adds before it looks for space, also when it finds none. A node on
the free list has no content in the model; the code reads none.

**Allocation strategy.** `call[t]` is the progress of thread `t` in `Allocate`: `bufs` is `replica_buffers`, `got`
the result of `allocateSlice` so far, `eligible` and `tries` the loop of `tryRandomAllocate`. Every `allocate()` and
every destructor is a step of its own, since only these hold the allocator's mutex. `drop` is a set: the
order in which a vector destroys its elements is not specified, so any is taken. `CollectEligible` reads all
reports in one step; they are stale when they are used in any case, because other threads move before
each `TryRandomAllocate`. A call that is done keeps its buffers until `Finish`, the removal of the object.

**Client.** `op[p]` is the operation of a thread. `PutOp` holds the slices still to be written, in any
order; `GetOp` the slices still to be read, the reader's deadline, and whether all that was read was
right. The deadline starts when the query is sent, as in `Client::Query`. `Abandon` is a thread that
dies anywhere in its operation. The mapping to `ObjectStore` reads the state of a key from the
metadata (`StateOf`) and the call of a thread from `op` (`CallOf`).

**Election.** `pc[m]` is the line of `MasterServiceSupervisor::Start` or `ElectLeader`, `keeper[m]` its
keep-leader thread, `deadline[m]` the deadline of the etcd client's keep-alive channel. etcd is
external: it renews the lease (`Renew`), the answer travels (`answers`), arrives (`Renewed`) after any time or is lost.
The lease runs in etcd from its grant, whatever the answer takes. The key is created while the lease is alive,
however little is left of it (`CreateWithLease`), and the answer to the create arrives within `CallTimeout` (`Elected`),
the 5 s of `context.WithTimeout`, or the call fails (`EtcdError`) and leaves a key that nobody keeps. A master counts
from the arrival of an answer (`CountFrom`): `FirstTTL` from the start of the keep-alive, the first deadline of the
etcd client (`DialTimeout` + 1 s = 6 s), and `LeaseTTL` from each answer. `late` is a history
variable: the masters that, by the last answer they count from, may outlast what was left of their lease by
`LeaseTTL` or more, which is what the next leader sleeps. `StopLag` is the time from a deadline to the end of
`server.stop()`; it covers the loop of the etcd client that looks at its deadlines every 500 ms. A master is in
*get*, *watch*, *watching* in separate steps, because etcd can change between them.

**Failover.** `svc[m]` is what the service of master `m` knows of the client (`ok_client_` and its
mounted segments); a new term starts empty. `lock` is `mounted_segments_mutex_`, which the
application's calls and the remount thread hold across their RPCs. An RPC goes to the master the client was
connected to when it began. `late` holds ReMountSegments that are executed after the caller has timed
out. `doubtful` are segments whose mount or unmount failed, of which neither side is sure.

**RDMA.** A slice is in one place (`at`): shard queue, local queue of a worker, posted on an endpoint,
completed, lost with a reset queue pair, or marked. `submitPostSend` is two steps, since it counts
after it has queued; a round of a worker is one step per peer and per lock; `Poll`, `Uncount` and `Settle` are
the three parts of `performPollCq`: poll, subtraction from `cq_outstanding`, subtraction from the depths of the
endpoints. `Locked(e)` is the endpoint's lock across `Window` and `Send`. `Send` posts any part of what it has
prepared; the rest is what `bad_wr` marks failed. A peer that connects finds its endpoint (`PassiveConnects`, `PassiveHandshake`) or
gets a new one, which may evict another (`PassiveInserts`); its handshake can fail after the disconnect.
`disconnect` resets queue pairs, and what was posted on them is lost, as the comment in the code says.
`disconnectQPs` of an event goes from endpoint to endpoint while the workers run (`doomed` are those it
has still to reach; it can miss those that a poll moves to the waiting list meanwhile), and the monitor
thread brings the context back (`Monitor`). What a thread has taken but not yet accounted for is explicit:
`owed` are the slices a submitter has queued and not counted, `nrPoll`, `polled` and `gain` what a poll has
still to subtract from the completion queue and from the depths and the slices it has still to count, and `torn` the endpoints that were reset while such a
subtraction was open.

**P2P.** `meta` is the record in etcd, `view[n]` the payload a call has read and `fresh[n]` whether its
revision is still current, which is all that the compare-and-swap tests. Slot *k* of a peer's
memory is where shard *k* of the file belongs; `Target(k)` is where `doGetReplica` puts it. `Errors` is the
result of the goroutines, which share one variable `err`. `refs` and `mr` are the entry in
`RegisteredMemory` and the registration with the engine, which can come apart. An etcd call that returns
an error may have been carried out, a forced `Put` over an existing record included. A transfer from a peer that has
died is retried like any other, as its segment may still be known.

## 3. Runs

| Run | Instance | Checks |
|---|---|---|
| `master_objects` | 1 segment of 2 units, 2 keys, disk replicas, all TTLs 1 | `TypeOK`, `AllocatedExact`, `BufferExclusive`, `LeaseProtects` |
| `master_threads` | 2 clients, 1 segment mounted up to twice, 2 shards with a key each, 1 RPC thread and the monitor, 1 hold of an allocator at a time | `SegmentsConsistent`, `CapacityExact`, `UnmountExclusive`, `HandlesTracked`, `Monitored`, `UnmountTerminates`, `DeadClientExpires` |
| `store` | 2 threads, 2 keys of 2 slices, 1 segment of 2 units | `ReadIntegrity`, `WriteSafe`, `CompleteIsWritten`, `ImplementsObjectStore` |
| `allocation` | 3 allocators of 9 units under 2 names, 3 to 4 nodes each, 2 concurrent calls, 3 in all, slices of 2 and 5 units, up to 2 replicas, either name preferred | `BuffersExclusive`, `AllocatorSound`, `ReportExact`, `ReplicasSound` |
| `evict` | 4 objects in 2 shards, 2 used ratios, 2 interfering calls | `SoftPinLast`, `EvictBounded`, `EvictsEnough`, `EvictAllowed` |
| `election` | 2 masters, lease 5, first deadline 6, timeout of calls 5, lag of the stop 1, as in the code in seconds | `ElectionTypeOK`, `OneServesUnlessLate`, `LeadershipUnlessLate`, `ContenderElects` |
| `failover` | 2 masters, 2 segments, 3 failed pings before reconnection, 2 faults | `UnmountedStaysUnmounted`, `OkMeansMounted`, `ClientRejoins` |
| `rdma` | 2 tasks of a slice, 2 workers, 2 peers, 2 endpoints of which 1 fits the store, depths of 1, 2 tries, 1 event | `Conservation`, `TaskCountsExact`, `DepthExact`, `NoUseAfterReclaim`, `TasksFinish` |
| `p2p` | 3 peers, one shard, 3 opens, 1 fault | `P2PTypeOK`, `PublishedHoldsFile`, `PublishedReachable`, `OpenIsListed`, `CallsReturn` |

**What they show.** Apart from the findings below the code keeps its promises on these instances,
under every interleaving, and the exceptions are part of the properties: a task with a
slice on a reset queue pair never finishes (`TasksFinish`); `wr_depth` is off when an endpoint is
reset between a poll and the subtraction it owes (`DepthExact`); a late ReMountSegment can bring back an unmounted segment (`UnmountedStaysUnmounted`);
a GetReplica whose source has left goes on copying from it (`CallsReturn`); memory that was added
twice is unregistered by the first Remove (`PublishedReachable`).

**Bounds and why they are enough.** The questions about unmounting need two mounts of one
segment (a stale handle next to a new allocator), two threads that unmount, and two shards
(a shard the cleaner has passed and one it has not, and a call in one that holds the allocator while the
cleaner is in the other). Objects of one shard suffice for leases and units because a shard is one lock; in an
instance with one shard a hold would be seen by nobody but calls on the allocator, so `master_objects` and
`store_stale_put` have none. In `store` one object fills the whole memory, so every reuse
of a unit is a hazard for the readers and writers of the other key. The instance has no second
mount: with two segments, one of them being unmounted, `WriteSafe` fails (finding 1), and a
second mount brings the late `PutEnd` of section 5. In `allocation` a mantissa of one bit makes sizes
that fall between bins, the calls do not all fit, and nodes run out before storage does. In
`election` the clocks have the values of the code in seconds, so an answer is prompt or late depending on
when it arrives, and a prompt session uses the sleep of one lease up to the last tick. Two masters suffice for
two sessions that overlap; the proof covers any number. In `failover` two faults allow a lost
answer and the retry that meets it. In `rdma` the store holds one endpoint, so every peer evicts
the other's, and depths of one close every window; the one event is a reset, a partial post, a failure or an
insertion under the workers' hands. In `p2p` a third peer copies from a replica while the first one leaves. `MaxMounts`,
`MaxHolders`, `MaxCalls`, `MaxFaults`, `MaxEvents`, `MaxOpens`, `QueueSize` bound what the code does not bound.
Symmetry is used in runs that check no liveness, over values that the instance does not tell apart.

**Fairness.** Nothing makes an application call anything; what is fair is the continuation.
* `master_threads`: the steps of a thread inside `UnmountSegment`, the monitor's scan and expiry, and
  time. They wait for mutexes only, which every holder releases without waiting in turn (`DropAllocator` is
  weakly fair). The steps of an unmount are strongly fair: the mutex of a shard is free again and again, and
  a thread that waits for it gets it in its turn.
* `election`: the supervisor's steps, time and the expiry of leases are weakly fair. GrantLease and
  CreateWithLease are strongly fair: the code retries them every second, and an etcd that is up
  answers some of the retries. Crashes, errors, restarts and renewals are not fair.
* `failover`: calls return or fail, the ping thread loops, the remount thread goes on. RemountStarts is
  strongly fair: the mutex is free again and again, and the operating system lets every waiter have it.
* `rdma`: threads run, the adapter completes or flushes what is on a queue pair that is not reset, the
  submitter goes on, the monitor reactivates the context. The subscript of each fairness condition is a
  few variables one of which every step of that thread changes, which says the same as all variables. `TasksFinish`
  is one formula `[]<>` over all tasks instead of one `~>` for each; as a task stays submitted, finished or lost, they are equivalent.
* `p2p`: a call that was made goes on; etcd errors and crashes are not fair.

### What contradicts the documentation

Three runs expect a violation; each states what a document says.

1. `store_stale_put` (`WriteSafe`): while a segment is being unmounted, `PutStart` on a key with only
   stale replicas empties the old entry but does not erase it; `emplace` then keeps the old entry,
   the new replicas die with their temporary, and the client receives descriptors of buffers
   that are free again.
2. `ha_missed_delete` (`FailoverElects`): `ElectLeader` reads the key and then watches it from the
   current revision. A deletion in between is never reported, and the standby waits although there is no leader.
   `ContenderElects` shows that this is the only way: who has seen the key absent gets one created.
3. `ha_split_brain` (`AtMostOneServing`): the sleep of one lease before the service starts, "To prevent potential
   split-brain", is too short when a key was created late in its lease. Lease granted at 0, key created at 4,
   no word of etcd after that: the key is gone at 5 and a second master creates it. The keep-alive channel of the
   first closes 6 s after its start, at 10; it serves from 9 on, and the second one serves from 10 on. With a create at 4.9 they
   serve together for most of a second; the time `server.stop()` takes comes on top. An answer to the create that takes
   seconds has the same effect, and so does an answer to a keep-alive that arrives when its lease is about to
   end. `OneServesUnlessLate` shows that such a late answer is the only way.

Other disagreements are reached by changing a constant of a passing run:

* `RemoveAllAnyTime = TRUE` in `MCStore.cfg`: `RemoveAll` looks at the lease only, and an object being
  written has none; `WriteSafe` and `ReadIntegrity` fail. `store` shows that reads are right if `RemoveAll` is kept away
  from writers.
* `PreferSameNode = TRUE` in `MCStore.cfg`: the batch read with `prefer_alloc_in_same_node` does not look
  at the lease after the transfer, `Get` and `BatchGet` do; `ReadIntegrity` fails.
* `Sizes <- TwoBuffers` in `MCP2P.cfg`: `doGetReplica` does not reset `offset` between buffers (`core.go:253`), so
  the second of two buffers of one size is never written, and the replica is published all the same, although
  `p2p-store.md:92` says that the content corresponds to the order in the arrays; `PublishedHoldsFile` fails.
* `Sizes <- TwoShards` in `MCP2P.cfg`: two shards of one buffer share the variable `err`, and the success
  of one can hide the failure of the other; `PublishedHoldsFile` fails.
* `Rejoin = TRUE` and `MaxOpens = 4` in `MCP2P.cfg`: a peer that a call of unknown outcome has listed pulls the
  file into the memory it is listed with, from a peer that has reused its own; `PublishedHoldsFile` fails.
* `\A e \in Endpoint : ep[e].depth >= 0` as an invariant of `rdma`: fails. `rdma_endpoint.cpp:235` says
  "After resetting QP, the wr_depth_list_ won't change", but `performPollCq` (`worker_pool.cpp:335`) subtracts
  what it polled before the reset afterwards, without the endpoint's lock. The count of the completion queue
  is then subtracted twice, and `hasOutstandingSlice` stays true.
* The strategy can fail although one replica would fit: the replicas of the first slice use up the room
  of the second, against the comment in `allocation_strategy.h:78`.

## 4. Theorems

**Master** (`Spec` of `MasterService`), for arbitrary sets of clients, segments, keys, units and
threads, any number of shards and any TTLs, from the named assumptions of `SegmentManager` and
`MasterService` (the functions have their types, TTLs are naturals, the monitor is not one of the
RPC threads).

* `TypeCorrect` (`MasterServiceProofs`): `[]TypeOK`. Inductive as it stands.
* `SegmentsCorrect`, `CapacityCorrect`, `UnmountCorrect` (`MasterServiceProofs`): `SegmentsConsistent`,
  `CapacityExact` and `UnmountExclusive`. The three are inductive only together, and with two more facts:
  while the monitor holds expired clients it is not cleaning (`MonitorQuiet`), and a mounted segment has
  had a mount (`MountsPositive`). `CommitUnmountSegment` does not look at the status; that it only
  meets segments that are UNMOUNTING follows from `UnmountExclusive`, whose ownership part in turn
  needs the status test in `PrepareUnmountSegment`.
* `HandlesCorrect` (`MasterServiceProofs`): `[]HandlesTracked`. It needs the invariant above, and that
  keys without an entry have no replicas and that a cleaner's position says which shards are clean, but for
  what it found alive in the hands of a call (`outlived`). Nothing is assumed about how long or how many
  calls hold an allocator.
* `LeaseCorrect` (`MasterServiceProofs`): `LeaseProtects`, an action property; every operation is shown
  to shield complete replicas of leased objects, most of them by one of two lemmas about
  what erasing and keeping entries does.
* `MonitorCorrect` (`MasterServiceProofs`): `[]Monitored`. The invariant adds the ping queue: a client
  that leaves the queue enters `client_ttl` or the expired clients in the same step.

* `UnitsExact` and `UnitsExclusive` (`MasterServiceProofs`): `[]AllocatedExact` and `[]BufferExclusive`. A unit is
  allocated exactly when a handle of the allocator in use holds it, and no two handles hold one, also of
  allocators that are gone. They are
  inductive together with the invariant of `HandlesTracked`: that a new mount starts with no handle at
  all, because no handle has a serial number that was not given out yet, comes from there.

**Election** (`ElectionSpec`), for any set of masters, any `LeaseTTL > 0`, any `FirstTTL >= LeaseTTL`, any
`CallTimeout` and `StopLag`; no bound on delays is assumed.

* `OneServes` (`LeaderElectionProofs`): `[]OneServesUnlessLate`. The invariant is about clocks. A session whose last
  answer was prompt outlasts its lease by less than `LeaseTTL` (`SessionBounded`). So of two such sessions one has
  lost its lease and ends before the sleep of the other (`SessionsOrdered`), and who serves has slept
  (`ServingLive`). A session that is late can become prompt again by an answer that arrives while its lease is alive;
  that the others have run down by then is `HolderLast`.
* `ElectionRefines` (`LeaderElectionProofs`): `ElectionSpec => LeadershipUnlessLate`. Every action leaves view
  and leader alone or is one of Elect, Depose, Begin and Retire; Begin needs that no other master serves,
  which is `OneServesUnlessLate` of the next state when nobody is late. `ClientFailover` builds on `Leadership`, so
  what it shows of clients holds as long as no answer came late.

* `ElectionTypes` (`LeaderElectionProofs`): `[]ElectionTypeOK`.

**Store** (`StoreSpec` of `MooncakeStore`), for any threads, keys, slices and segments.

* `ReadsCorrect`, `WritesCorrect`, `CompleteCorrect`: `ReadIntegrity`, `WriteSafe` and `CompleteIsWritten`;
  `StoreCorrect` is the three together. They are inductive only together, with the
  invariant of the master's units (`StoreInv`). No writer has a unit before it that a reader will read
  (`Apart`), in every state. As long as all allocators are the first ones and alive (`Fresh`) a writer owns the replicas of its key,
  all of them unfinished, and is the only one (`WritersOwn`), and the deadline of a reader is not later than
  the lease of its object, of which it reads a complete replica (`ReadersLeased`).
* `StoreRefines`, `StoreImplements`: every step maps to a step of `ObjectStore` or a stutter, so
  `ImplementsObjectStore`. Without disk replicas: when eviction takes the memory replicas of an object whose
  disk replica is not finished, a readable object becomes a reserved one again, which `ObjectStore` does
  not allow.
* Hypotheses. `[]Settled`: no segment was mounted twice and its allocator is alive, in the registry or in the
  hands of a call (`Fresh`), or there is no allocator any more (`Ended`);
  `store_stale_put` shows that `WriteSafe` fails otherwise. With no thread that unmounts, or with one segment
  that is mounted once, every behaviour satisfies it (`SegmentsSettle`). `~RemoveAllAnyTime` everywhere and,
  for `ReadIntegrity`, `~PreferSameNode`: each is a way to break it (section 3).

**Allocation** (`Spec` of `AllocationStrategy`), for any storage size, mantissa width and numbers of nodes, any
segments with any names, any callers, and any slices and replica numbers that `validateInput` lets through.

* `AllocatorsStaySound` (`AllocationStrategyProofs`): `[]AllocatorSound`. `Sound` says what a user of the allocator
  needs; the proofs use an equivalent that can be followed through the inside of an operation. `Mid(a, U)` is an
  allocator whose bins list exactly the nodes `U`, while `allocate` or `free` has a node in its hands; `Cut` says that
  the regions tile the storage, are linked in order and that no two free ones touch. `Whole` is both, with `U` the
  free nodes. `insertNodeIntoBin`, `PopBin` and `removeNodeFromBin` move one node into or out of `U`; `AllocOk`
  and `FreeOk` put them together. The cases of `free` are the neighbours that are free; the count of
  `m_freeStorage` is the cardinality of the free units, which each operation changes by an interval.
* `ReportsAreExact`: `[]ReportExact`. `floatToUint` is strictly monotonic (`FloatMono`), a
  size lies between the bin it is rounded down to and the next one (`RoundDownOk`), and the bins from the rounded
  up size on are exactly those whose regions are large enough (`RoundUpOk`). So `FindBin` finds a bin exactly if the
  highest bin in use is large enough, and the report is the size of that bin.
* `BuffersStayExclusive` and `ReplicasStaySound`: `[]BuffersExclusive` and `[]ReplicasSound`. None of the four is
  inductive. `AllocInductive` is their common invariant `AllocInv`: each call holds its buffers once and its replicas are
  of one length, with names that differ slice by slice (`Good`); no two calls hold the same buffer (`Calls`); a
  buffer lies in the region of a used node, and every used node has exactly one buffer (`Backing`); `cur_size_`
  counts what the buffers occupy (`Counted`). That a freed node is not one that some other call still has is
  then the uniqueness in `Backing` together with the disjointness in `Calls`.
* `Pow2` is a recursive function. Its equation is proved in the module (`PowersExist`, `PowersAgree`) by well-founded
  induction on sets of naturals.

**Eviction** (`Spec` of `BatchEvict`), for any finite set of objects, any shards, ratios of an even per cent,
any TTLs, and any number of calls between the shards; the clock gives no two calls the same time
(`EvictTimeAssumption`).

* `EvictsAllowed`, `EvictsBounded`, `SoftPinsLast`, `EvictsAsMuch` (`BatchEvictProofs`): `EvictAllowed`,
  `EvictBounded`, `SoftPinLast` and `EvictsEnough`. The argument counts. A *candidate* is an object whose Put
  has ended and whose lease was over when BatchEvict began; calls only take candidates away, since what
  they grant ends later. In the first pass every candidate of a shard already visited is in one of the two lists
  (`Pass1Lists`), and lists and evicted objects together are no more than were counted (`Budget`). The n-th
  smallest deadline exists, and as deadlines differ exactly n are not later (`NthLeaseExact`). So what pass B
  comes across is no more than it has to take (`Second`), it takes all of it, and no unpinned object is
  left; and if nobody interfered it is no less (`Hope`). The lemma `ReachedSteps` says that the loop from a
  random shard comes to every shard once.

**Failover** (`HASpec` of `ClientFailover`), for any masters and segments.

* `UnmountLasts`, `OkClientMounted` (`ClientFailoverProofs`): `UnmountedStaysUnmounted` and `OkMeansMounted`. The
  invariant (`HAInv`) is about the mutex: while the remount thread waits for its answer no call of the
  application is under way, and the segments its request carries are the ones the client has (`LockInv`).
  Masters that do not serve know nothing, late requests are at the master that serves (`OthersFresh`,
  `LateAtLeader`), and ids are never used twice (`SegsInv`).

**RDMA** (`RdmaSpec` of `RdmaTransport`), for any tasks, slices, workers, peers and endpoints, any depths.

* `SlicesConserved`, `TasksCounted`, `DepthsCorrect`, `ReclaimSafe` (`RdmaTransportProofs`): `Conservation`,
  `TaskCountsExact`, `DepthExact` and `NoUseAfterReclaim`. The invariant `RdmaInv` says for each thread what
  is in its hands (`Submission`, `Hands`, `Polling`), relates the counters to the slices in each
  place (`Counts`, `TaskCounts`), and makes the depth of an endpoint that is not torn the work requests posted on
  it plus what a poll has still to subtract (`Depths`), so that one that is deleted at depth 0 has neither.
  `cq_outstanding` is what is posted and what was polled and not yet subtracted. The bound on it counts the slices that workers under a lock are about to post as well
  (`Outstanding`, with `Claims`): each has passed the test and none has posted yet.

**P2P store** (`P2PSpec` of `P2PStore`), for any finite set of peers, any layout of buffers and any bounds.

* `P2PTypesHold`, `OpenStaysListed`, `PublishedStaysReachable` (`P2PStoreProofs`): `P2PTypeOK`, `OpenIsListed` and
  `PublishedReachable`. The invariant `P2PInv` says what each step of a call relies on (`Calls`): what the
  catalog holds by then, that a payload whose revision is current is the record (so that a compare-and-swap that succeeds
  adds to or takes from the record itself), and that the memory was registered first. `ListedIsOpen` is the converse of
  `OpenIsListed`: who is listed has the payload open, as what it is listed, unless it died or an etcd call of its own
  had an unknown outcome. Neither is inductive alone. The bound on the length of the record needs `RepsBounded`: a peer
  listed more than once has had a fault for it. Every step is of one of six kinds (`Kinds`), by what it does to record
  and catalog, and each kind keeps each part.
* `PublishedFileIsWhole`: `PublishedHoldsFile`, for a file of one shard (`Sizes = <<1>>`) and peers that open the
  name once (`Rejoin = FALSE`). A copy is whole or one of its locations has left the record (`CopiedOrStale`), and a location
  that has left does not come back (`ListedSpent`, `OpeningUnspent`), so the recheck sees it. Both hypotheses are
  needed: with two buffers, with two shards and with `Rejoin` TLC finds counterexamples (section 3).

**Only model-checked.** Liveness (`UnmountTerminates`, `DeadClientExpires`, `ContenderElects`, `ClientRejoins`,
`TasksFinish`, `CallsReturn`), which is out of reach of the prover. Every invariant and every other action
property of the passing runs is stated by a theorem.

## 5. Not modelled

* **Late writes.** A transfer that timed out (`transfer_task.cpp:303`), or whose siblings failed to be
  submitted (`client.cpp:1018`), can still be written into a buffer that has been given away. Nothing in the
  store waits for it, so no property about it could hold; in `MooncakeStore` a failed transfer has nothing
  under way.
* **A second mount under a Put.** `PutEnd` names its object by key only. When the segment of an object is
  unmounted and mounted again while its Put is under way, another client can start a Put of the key, which
  the late `PutEnd` of the first completes. `ImplementsObjectStore` and `CompleteIsWritten` are checked for
  segments that are mounted once.
* **Late creates.** A create that etcd carries out after its caller has given up makes a key that nobody keeps
  and that goes with its lease, as one does whose answer was lost (`EtcdError`), which is modelled.
* **The lost request to evict.** `BatchEvict` resets `need_eviction_` at its end and with it a request made
  meanwhile; the next failed `PutStart` makes it again.
* **Devices and drivers.** TCP, NVMe-oF, NVLink, CXL and Ascend transports, topology, memory registration,
  the metadata plugins. Their logic is in the libraries they call. Of the RDMA transport: the error path
  of `submitTransferTask`, which gives slices back to the cache that the task still lists; two endpoints that
  shake hands with each other at the same time; endpoints deleted while active, which stay on the waiting list.
* **Vendored code**: the CacheLib slab allocator, fmt and the Mellanox headers, which are the largest part of
  the lines of the repository.
* **Wrappers and I/O**: RPC serialisation, storage backend, HTTP server, metrics other than capacity, Python
  binding, worker pools, validation of parameters that changes no state.
* **P2P store**: several names, several calls of one peer on a name at the same time.

## 6. Plan

1. Done: all modules of section 2 and the theorems of section 4.
2. To model next: the error path of `submitTransferTask` and the handshake of two active endpoints; a
   store with remounts, once `PutEnd` names its operation.
