---------------------------- MODULE ObjectStore -----------------------------
(***************************************************************************)
(* What the store promises the threads of its clients, without master,     *)
(* segments, replicas or transfers.  An object is written once: it is      *)
(* reserved by one thread, becomes readable when that thread has written   *)
(* it, stays as it is while it exists, and may vanish at any time, since   *)
(* this is a cache.  A thread that gets data has found the object readable *)
(* when it asked.                                                          *)
(***************************************************************************)
CONSTANTS Key, Proc

VARIABLES state,    \* per object: "absent", "reserved" or "readable"
          call      \* per thread: what it does, and on which object

NoCall == [kind |-> "idle"]
Call(kind, k) == [kind |-> kind, key |-> k]
Writers(k) == {p \in Proc : call[p] = Call("put", k)}

ObjectStoreInit == /\ state = [k \in Key |-> "absent"]
                   /\ call = [p \in Proc |-> NoCall]

\* A put gets the object to itself.
BeginPut(p, k) == /\ call[p] = NoCall
                  /\ call' = [call EXCEPT ![p] = Call("put", k)]
                  /\ state[k] = "absent" /\ Writers(k) = {}
                  /\ state' = [state EXCEPT ![k] = "reserved"]

\* It ends: the object is readable, or nothing is left of it.
EndPut(p, k) == /\ call[p] = Call("put", k)
                /\ call' = [call EXCEPT ![p] = NoCall]
                /\ \/ /\ state[k] = "reserved"
                      /\ state' = [state EXCEPT ![k] = "readable"]
                   \/ state' = [state EXCEPT ![k] = "absent"]

\* A get has found the object ...
BeginGet(p, k) == /\ call[p] = NoCall
                  /\ call' = [call EXCEPT ![p] = Call("get", k)]
                  /\ state[k] = "readable"
                  /\ UNCHANGED state

\* ... and returns its data.
EndGet(p, k) == /\ call[p] = Call("get", k)
                /\ call' = [call EXCEPT ![p] = [kind |-> "data"]]
                /\ UNCHANGED state

\* A call fails, its caller has its data, or the thread dies.
EndCall(p) == /\ call[p] # NoCall
              /\ call' = [call EXCEPT ![p] = NoCall]
              /\ UNCHANGED state

\* Removal, eviction, or the loss of a segment.
Vanish(K) == /\ UNCHANGED call
             /\ state' = [k \in Key |-> IF k \in K THEN "absent" ELSE state[k]]

ObjectStoreNext == \/ \E K \in SUBSET Key : Vanish(K)
                   \/ \E p \in Proc : EndCall(p)
                   \/ \E p \in Proc, k \in Key : \/ BeginPut(p, k) \/ EndPut(p, k)
                                                 \/ BeginGet(p, k) \/ EndGet(p, k)

ObjectStoreSpec == ObjectStoreInit /\ [][ObjectStoreNext]_<<state, call>>
=============================================================================
