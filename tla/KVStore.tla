------------------------------ MODULE KVStore ------------------------------
(***************************************************************************)
(* What opentpu/serve/store.py's BlobStore promises its callers, whatever  *)
(* tier a blob is in: the set of keys it has (__contains__), the pins, and *)
(* what the callers know of each key.  The store may drop unpinned blobs   *)
(* at any time, and says so (on_drop); a pinned one goes only by a discard *)
(* of it or a failed file operation.                                       *)
(***************************************************************************)
EXTENDS Naturals

CONSTANTS
  Keys,
  IOFails     \* TRUE: file operations may fail

VARIABLES
  held,
  pins,
  told        \* key -> "kept" since a put, "dropped" since on_drop, else "none"

vars == <<held, pins, told>>

Init ==
  /\ held = {}
  /\ pins = [k \in Keys |-> 0]
  /\ told = [k \in Keys |-> "none"]

(* The keys of S an eviction may take, with the pins p.                    *)
Unpinned(S, p) == {k \in S : p[k] = 0}

Drop(t, S) == [k \in Keys |-> IF k \in S THEN "dropped" ELSE t[k]]

(* The store evicts blobs: within a call (get) or in the writer's thread.  *)
Evict(S) ==
  /\ S \subseteq Unpinned(held, pins)
  /\ held' = held \ S
  /\ told' = Drop(told, S)
  /\ UNCHANGED pins

(* put(k): the blob is there, unless the eviction that ends the call took  *)
(* it at once.                                                             *)
Put(k, S) ==
  /\ S \subseteq Unpinned(held \cup {k}, pins)
  /\ held' = (held \cup {k}) \ S
  /\ told' = Drop([told EXCEPT ![k] = "kept"], S)
  /\ UNCHANGED pins

Pin(S) ==
  /\ pins' = [k \in Keys |-> IF k \in S THEN pins[k] + 1 ELSE pins[k]]
  /\ UNCHANGED <<held, told>>

Unpin(S, E) ==
  /\ pins' = [k \in Keys |-> IF k \in S /\ pins[k] > 0 THEN pins[k] - 1 ELSE pins[k]]
  /\ E \subseteq Unpinned(held, pins')
  /\ held' = held \ E
  /\ told' = Drop(told, E)

(* The caller's own removal: nothing is reported.                          *)
Discard(k) ==
  /\ held' = held \ {k}
  /\ told' = [told EXCEPT ![k] = "none"]
  /\ UNCHANGED pins

(* A file that cannot be read or written: its blob is gone, pinned or not. *)
IOError(k) ==
  /\ IOFails
  /\ held' = held \ {k}
  /\ told' = Drop(told, {k})
  /\ UNCHANGED pins

(* A server starts on the directory: what it finds there, cut to the       *)
(* budget.                                                                 *)
Restart(S, D) ==
  /\ S \cap D = {}
  /\ held' = S
  /\ told' = Drop([k \in Keys |-> IF k \in S THEN "kept" ELSE "none"], D)
  /\ pins' = [k \in Keys |-> 0]

Next ==
  \/ \E S \in SUBSET Keys : Evict(S) \/ Pin(S)
  \/ \E k \in Keys, S \in SUBSET Keys : Put(k, S)
  \/ \E S, E \in SUBSET Keys : Unpin(S, E)
  \/ \E k \in Keys : Discard(k) \/ IOError(k)
  \/ \E S, D \in SUBSET Keys : Restart(S, D)

Spec == Init /\ [][Next]_vars
=============================================================================
