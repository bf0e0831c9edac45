---------------------------- MODULE StoreLocks ----------------------------
(***************************************************************************)
(* The two locks of opentpu/serve/store.py, PrefixCache.lock ("cache") and *)
(* BlobStore.lock ("store"), both re-entrant, and the calls that nest      *)
(* them.  A call of the cache takes its lock and then, many times, the     *)
(* store's (save, restore, clear); a call of the store that drops a blob   *)
(* takes the cache's lock in on_drop, holding its own, and discards more   *)
(* blobs there (unpin, a put's eviction, the writer's record of a file).   *)
(* What the calls do with blobs is BlobStore's and PrefixCache's.          *)
(***************************************************************************)
EXTENDS Integers, Sequences, SequencesExt

CONSTANTS
  Engines,    \* the worker's thread: save, restore, unpin
  Clients,    \* the API's threads: usage, and clear:
  Clearing,   \* ... the clients that call it
  Writers,    \* the store's writer thread
  Dropping    \* threads whose calls of the store may drop blobs

Threads == Engines \cup Clients \cup Writers
Locks   == {"cache", "store"}

VARIABLES
  stack,      \* thread -> the locks of its nested calls, outermost first
  waits,      \* thread -> the lock it waits for, or "none"
  back        \* thread -> a nested call of the innermost one has returned

vars == <<stack, waits, back>>

(* A loop of nested calls of one kind is one call here: the others take    *)
(* the same locks from the same place, and the loops are over finite lists *)
(* (back).                                                                 *)

Holds(t, l) == l \in Range(stack[t])

(* In the store's eviction, which calls on_drop (discard() does not).      *)
MayDrop(t) == t \in Dropping /\ stack[t] \in {<<"store">>, <<"cache", "store">>}

(* Its calls of the cache call the store: usage() does not.                *)
Nests(t) == t \notin Clients \ Clearing

(* The lock the thread's code may take next: a call's own, a cache call's  *)
(* calls of the store, on_drop, and its discards.                          *)
NextLock(t, l) ==
  \/ stack[t] = <<>> /\ l = "cache" /\ t \notin Writers
  \/ stack[t] = <<>> /\ l = "store"
  \/ stack[t] = <<"cache">> /\ Nests(t) /\ ~ back[t] /\ l = "store"
  \/ Len(stack[t]) > 1 /\ Last(stack[t]) = "cache" /\ ~ back[t] /\ l = "store"
  \/ MayDrop(t) /\ ~ back[t] /\ l = "cache"

Calls(t, l) ==
  /\ waits[t] = "none" /\ NextLock(t, l)
  /\ waits' = [waits EXCEPT ![t] = l]
  /\ UNCHANGED <<stack, back>>

(* An RLock is taken again by its owner.                                   *)
Free(t, l) == \A u \in Threads \ {t} : ~ Holds(u, l)

Takes(t) ==
  /\ waits[t] # "none" /\ Free(t, waits[t])
  /\ stack' = [stack EXCEPT ![t] = Append(@, waits[t])]
  /\ waits' = [waits EXCEPT ![t] = "none"]
  /\ back' = [back EXCEPT ![t] = FALSE]

Returns(t) ==
  /\ waits[t] = "none" /\ stack[t] # <<>>
  /\ stack' = [stack EXCEPT ![t] = Front(@)]
  /\ back' = [back EXCEPT ![t] = Len(stack[t]) > 1]
  /\ UNCHANGED waits

Init ==
  /\ stack = [t \in Threads |-> <<>>] /\ waits = [t \in Threads |-> "none"]
  /\ back = [t \in Threads |-> FALSE]

Next == \E t \in Threads : (\E l \in Locks : Calls(t, l)) \/ Takes(t) \/ Returns(t)

(* A waiter gets a lock that is released again and again; a call with no   *)
(* lock to wait for ends.                                                  *)
Spec == Init /\ [][Next]_vars
FairSpec == Spec /\ \A t \in Threads : SF_vars(Takes(t)) /\ WF_vars(Returns(t))

----------------------------------------------------------------------------
TypeOK ==
  /\ stack \in [Threads -> {<<>>, <<"cache">>, <<"store">>, <<"cache", "store">>,
                            <<"store", "cache">>, <<"store", "cache", "store">>,
                            <<"cache", "store", "cache">>,
                            <<"cache", "store", "cache", "store">>}]
  /\ back \in [Threads -> BOOLEAN]
  /\ waits \in [Threads -> Locks \cup {"none"}]

(* No two threads are both inside calls of the cache, or of the store: the *)
(* re-entrant callbacks included.                                          *)
OneInside == \A l \in Locks : \A t, u \in Threads : Holds(t, l) /\ Holds(u, l) => t = u

(* No two threads wait for each other (with two locks a longer circle has  *)
(* one of these in it).  It is so where the locks are taken in one order,  *)
(* or one thread alone nests them; unpin() in one thread and clear() in    *)
(* another are enough for a circle, and so is the writer's thread          *)
(* (StoreLocksProofs says when, the run StoreLocksDrop shows one).         *)
NoCircularWait ==
  ~ \E t, u \in Threads :
      /\ t # u /\ waits[t] # "none" /\ waits[u] # "none"
      /\ Holds(u, waits[t]) /\ Holds(t, waits[u])

(* A call that waits for a lock gets it: flush() waits for the writer's.   *)
(* (The run StoreLocksDrop refutes it, where the writer drops blobs.)      *)
CallsGoOn == \A t \in Threads : waits[t] # "none" ~> waits[t] = "none"
=============================================================================
