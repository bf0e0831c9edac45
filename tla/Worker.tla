------------------------------- MODULE Worker -------------------------------
(***************************************************************************)
(* Worker of opentpu/serve/scheduler.py: one thread owns the engine and    *)
(* runs the requests in turns, each one's context switched in and out of   *)
(* the device's KV cache.  The API's threads submit, cancel, flush and stop*)
(* it meanwhile.                                                           *)
(*                                                                         *)
(* A context is its tokens; the device's holds (kv) what was fed to it, and*)
(* its next token is what the model says after kv.  `saved` is the prefix  *)
(* cache: contexts under the tokens they were saved for, any of which the  *)
(* store may drop at any time, pinned ones too (its evictions look at the  *)
(* pins, but _remove, on_drop and clear() do not: PrefixCache).  Each token*)
(* is polled for the turn's end (stop()), as on the card; the MTP drafter  *)
(* is left out.                                                            *)
(***************************************************************************)
EXTENDS Contexts

CONSTANTS
  At,         \* request -> where in its prompt a context is saved (0: nowhere)
  MaxRunning, Quantum,
  Troubles,   \* bound: contexts the store drops, calls of flush(), turns that raise, a stop()
  Cancels     \* requests whose client may cancel

ASSUME WorkerAssumption ==
  /\ At \in [Requests -> Nat]
  /\ MaxRunning \in Nat \ {0} /\ Quantum \in Nat \ {0}
  /\ Troubles \in Nat /\ Cancels \subseteq Requests

VARIABLES
  stateful,             \* the model: TRUE: a context continues from its very end only
  cardPicks,            \* TRUE: the device picks the tokens (the decode feeds the prompt's last)
  waiting, running,     \* queues of requests
  fed, next, out,       \* request -> its context's tokens; the one picked, not fed; its output
  finish,               \* request -> None, or how it ended
  entry,                \* request -> its saved context while off the device, or None
  new,                  \* the requests not submitted yet
  cancelled, stop,
  owner, rr, dirty,
  dev,                  \* the request whose fed list the worker has as the device's, or None
  kv,                   \* the tokens in the device's caches up to its position
  saved,                \* the contexts in the cache: [key, data]
  phase, cur, base,     \* where the worker's thread is, its request, its output at the start
  match, have,          \* what it restores, and how much of it the device has
  flush, troubles,
  lost                  \* history: the requests whose own context was dropped or forgotten

reqs  == <<fed, next, out, finish, entry>>
api   == <<new, cancelled, stop, flush>>
host  == <<owner, dirty, dev>>
model == <<stateful, cardPicks>>
vars  == <<model, waiting, running, reqs, api, host, rr, kv, saved, phase, cur, base, match, have,
           troubles, lost>>

----------------------------------------------------------------------------
(* Mutant: the position is not moved.                                      *)
AdoptedAll(c, k) == c

(* The device after adopt(k): of a state, only the end continues.          *)
Adopted(c, k) == IF stateful /\ Len(c) # k THEN <<Garbage>> ELSE Take(c, k)

Device == IF dev = None THEN <<>> ELSE fed[dev]      \* (the worker's list)

(* _save_device: the store has the device's context under the worker's     *)
(* list.                                                                   *)
Entry == [key |-> Device, data |-> Adopted(kv, Len(Device))]
SavesIf(cond) == IF cond /\ Device # <<>> THEN saved \cup {Entry} ELSE saved

(* _others, _yield: with `done` tokens decoded in the turn.                *)
Others == waiting # <<>> \/ Len(running) > 1
Yields(done) ==
  \/ waiting # <<>> /\ Len(running) < MaxRunning /\ done > 0
  \/ Others /\ done >= Quantum

(* _end of the requests of S.                                              *)
Ends(S, why) ==
  /\ waiting' = Without(waiting, S) /\ running' = Without(running, S)
  /\ entry' = [r \in Requests |-> IF r \in S THEN None ELSE entry[r]]
  /\ finish' = [r \in Requests |-> IF r \in S /\ finish[r] = None THEN why ELSE finish[r]]

----------------------------------------------------------------------------
(* The API's threads.                                                      *)

Submit(r) ==
  /\ r \in new
  /\ new' = new \ {r}
  /\ waiting' = Append(waiting, r)
  /\ UNCHANGED <<running, reqs, cancelled, stop, flush, host, rr, kv, saved,
                 phase, cur, base, match, have, troubles, lost>>

Cancel(r) ==
  /\ r \in Cancels \ cancelled
  /\ cancelled' = cancelled \cup {r}
  /\ UNCHANGED <<waiting, running, reqs, new, stop, flush, host, rr, kv, saved,
                 phase, cur, base, match, have, troubles, lost>>

(* flush(): the cache cleared, `idle` read under the lock, the device's    *)
(* context forgotten without it.                                           *)
FlushClears ==
  /\ flush = "none" /\ troubles < Troubles
  /\ saved' = {} /\ flush' = "cleared" /\ troubles' = troubles + 1
  /\ lost' = lost \cup {r \in Requests : entry[r] # None}
  /\ UNCHANGED <<waiting, running, reqs, new, cancelled, stop, host, rr, kv, phase, cur,
                 base, match, have>>

FlushLooks ==
  /\ flush = "cleared"
  /\ flush' = IF running = <<>> THEN "idle" ELSE "none"
  /\ UNCHANGED <<waiting, running, reqs, new, cancelled, stop, host, rr, kv, saved,
                 phase, cur, base, match, have, troubles, lost>>

FlushForgets ==
  /\ flush = "idle"
  /\ dev' = None /\ dirty' = FALSE /\ flush' = "none"
  /\ lost' = lost \cup ({owner} \ {None})
  /\ UNCHANGED <<waiting, running, reqs, new, cancelled, stop, owner, rr, kv, saved,
                 phase, cur, base, match, have, troubles>>

Stop ==
  /\ ~ stop /\ troubles < Troubles
  /\ stop' = TRUE /\ troubles' = troubles + 1
  /\ UNCHANGED <<waiting, running, reqs, new, cancelled, flush, host, rr, kv, saved,
                 phase, cur, base, match, have, lost>>

(* The store drops a context: _remove and on_drop ask for no pin.          *)
Forget(s) ==
  /\ s \in saved /\ troubles < Troubles
  /\ saved' = saved \ {s} /\ troubles' = troubles + 1
  /\ lost' = lost \cup {r \in Requests : entry[r] = s}
  /\ UNCHANGED <<waiting, running, reqs, api, host, rr, kv, phase, cur, base,
                 match, have>>

----------------------------------------------------------------------------
(* The worker's thread.                                                    *)

(* _pick: the cancelled end; then a new request, or the next in turn.      *)
Pick ==
  /\ phase = "loop" /\ ~ stop /\ waiting \o running # <<>>
  /\ LET gone  == cancelled \cap Range(waiting \o running)
         queue == Without(waiting, gone)
         turns == Without(running, gone)
         then  == (rr + 1) % Len(turns)
         own   == IF owner \in gone THEN None ELSE owner
     IN /\ entry' = [r \in Requests |-> IF r \in gone THEN None ELSE entry[r]]
        /\ finish' = [r \in Requests |-> IF r \in gone THEN "abort" ELSE finish[r]]
        /\ owner' = own
        /\ \/ /\ queue # <<>> /\ Len(turns) < MaxRunning
              /\ waiting' = Tail(queue) /\ running' = Append(turns, Head(queue))
              /\ cur' = Head(queue)
              /\ UNCHANGED rr
           \/ /\ queue = <<>> \/ Len(turns) >= MaxRunning
              /\ turns # <<>>
              /\ waiting' = queue /\ running' = turns
              /\ rr' = then
              /\ cur' = IF turns = <<own>> THEN own ELSE turns[then + 1]
           \/ /\ queue = <<>> /\ turns = <<>>
              /\ waiting' = queue /\ running' = turns
              /\ cur' = None
              /\ UNCHANGED rr
  /\ phase' = IF cur' = None THEN "loop" ELSE IF owner' = cur' THEN "feed" ELSE "save"
  /\ UNCHANGED <<fed, next, out, api, dirty, dev, kv, saved, base, match, have, troubles, lost>>

UnpinnedFor(r) == entry        \* (mutant: saved as any other)
PinnedFor(r)   == [entry EXCEPT ![r] = Entry]

(* _switch_to, first: the owner's context into the store, pinned for it.   *)
SwitchSaves ==
  /\ phase = "save"
  /\ IF owner # None /\ finish[owner] = None /\ fed[owner] # <<>> /\ Device # <<>>
     THEN /\ saved' = saved \cup {Entry}
          /\ entry' = PinnedFor(owner)
          /\ dirty' = FALSE
     ELSE UNCHANGED <<saved, entry, dirty>>
  /\ owner' = None
  /\ phase' = "take"
  /\ UNCHANGED <<waiting, running, fed, next, out, finish, api, dev, rr, kv,
                 cur, base, match, have, troubles, lost>>

(* What a saved context has of `want`, and those that have the most of it. *)
MatchLen(s, want) ==
  LET common == Common(s.key, want)
  IN IF stateful /\ common # Len(s.key) THEN 0 ELSE common
Best(want) == {s \in saved : /\ MatchLen(s, want) > 0
                             /\ \A o \in saved : MatchLen(o, want) <= MatchLen(s, want)}

(* Mutant: the whole prompt may be there already.                          *)
WantedWhole(r) == IF fed[r] # <<>> THEN fed[r] ELSE Prompt[r]

(* What r continues: its own context, or its prompt but the last token.    *)
Wanted(r) == IF fed[r] # <<>> THEN fed[r] ELSE Front(Prompt[r])

(* Mutant: of a state, a longer context is taken back too.                 *)
DeviceLenAnyEnd(r) == Common(Device, Wanted(r))

(* How much of it the device holds: all of its own context or nothing; of  *)
(* a state, the whole of what the device holds.                            *)
DeviceLen(r) ==
  LET common == Common(Device, Wanted(r))
  IN IF (stateful /\ common # Len(Device)) \/ (fed[r] # <<>> /\ common # Len(fed[r])) THEN 0 ELSE common

(* A request that ran before starts again where its context is gone.       *)
Again(r, k) == fed[r] # <<>> /\ k # Len(fed[r])

(* r has the device, with the k tokens of `content`.                       *)
SwitchedTo(r, k, content) ==
  /\ fed' = [fed EXCEPT ![r] = IF @ = <<>> THEN Take(Prompt[r], k)
                               ELSE IF Again(r, k) THEN <<>> ELSE @]
  /\ next' = [next EXCEPT ![r] = IF Again(r, k) THEN None ELSE @]
  /\ entry' = [entry EXCEPT ![r] = None]
  /\ kv' = IF Again(r, k) THEN <<>> ELSE content
  /\ owner' = r /\ dev' = r /\ dirty' = TRUE
  /\ phase' = "feed" /\ match' = None
  /\ UNCHANGED <<waiting, running, out, finish, api, rr, cur, base, troubles, lost>>

(* What match() finds for a new request; its own entry for another.        *)
Matches(r) ==
  IF fed[r] # <<>> THEN {entry[r]}
  ELSE IF Best(Wanted(r)) = {} THEN {None} ELSE Best(Wanted(r))

MatchedLen(r, s) ==
  IF fed[r] # <<>> THEN Len(fed[r]) ELSE IF s = None THEN 0 ELSE MatchLen(s, Wanted(r))

(* The device holds as much as the store: what lies past it is saved, to   *)
(* be overwritten.                                                         *)
SwitchReuses ==
  /\ phase = "take"
  /\ LET k == DeviceLen(cur)
     IN /\ k > 0 /\ \A s \in Matches(cur) : k >= MatchedLen(cur, s)
        /\ saved' = SavesIf(dirty /\ k < Len(Device))
        /\ SwitchedTo(cur, k, Adopted(kv, k))
        /\ UNCHANGED have

(* Else the device's context is saved (the match may go meanwhile) ...     *)
SwitchLeaves(s) ==
  /\ phase = "take"
  /\ s \in Matches(cur)
  /\ ~ (DeviceLen(cur) > 0 /\ DeviceLen(cur) >= MatchedLen(cur, s))
  /\ match' = s
  /\ have' = Common(Device, Wanted(cur))
  /\ saved' = SavesIf(dirty)
  /\ dirty' = (dirty /\ Device = <<>>)
  /\ phase' = "load"
  /\ UNCHANGED <<waiting, running, reqs, api, owner, dev, rr, kv, cur, base, troubles, lost>>

(* ... and the match written over it, but what the device has of it; a     *)
(* match that is gone: from the start.                                     *)
SwitchLoads ==
  /\ phase = "load"
  /\ IF match \in saved
     THEN LET k    == MatchedLen(cur, match)
              kept == IF have < k THEN have ELSE k
          IN SwitchedTo(cur, k, Take(kv, kept) \o SubSeq(match.data, kept + 1, k))
     ELSE SwitchedTo(cur, 0, <<>>)
  /\ UNCHANGED <<saved, have>>

----------------------------------------------------------------------------
(* _emit of the token t for r, then the turn goes on, yields or ends.      *)
Emits(r, t) ==
  LET words == Words(out[r], t)
      fin   == Finish(out[r], t, r)
  IN /\ out' = [out EXCEPT ![r] = words]
     /\ next' = [next EXCEPT ![r] = IF t \in StopIds THEN None ELSE t]
     /\ IF fin # None
        THEN /\ Ends({r}, fin) /\ owner' = None /\ phase' = "loop"
        ELSE /\ UNCHANGED <<waiting, running, entry, finish, owner>>
             /\ phase' = IF phase = "decode" /\ Yields(Len(words) - base) THEN "loop" ELSE "decode"
     /\ base' = IF phase = "decode" THEN base ELSE Len(words)

Aborts(r) ==
  /\ Ends({r}, "abort") /\ owner' = None /\ phase' = "loop"
  /\ UNCHANGED <<next, out, base>>

LastFed(r) == IF cardPicks THEN Len(Prompt[r]) - 1 ELSE Len(Prompt[r])

(* What is fed is a part of the prompt that is not its end: a state's at   *)
(* r.at, and all that is fed where the device picks the tokens.            *)
SavesAt(r, n) == n # Len(Prompt[r]) /\ (n = LastFed(r) \/ (stateful /\ n = At[r]))

(* _prefill: a token of the prompt is fed; a context is kept at the end of *)
(* each part but the prompt's own; a cancelled request ends; on the host   *)
(* the last row's logits pick a token.                                     *)
Prefill ==
  /\ phase = "feed" /\ next[cur] = None /\ Len(fed[cur]) < LastFed(cur)
  /\ LET r == cur
         n == Len(fed[r]) + 1
         t == Prompt[r][n]
     IN /\ fed' = [fed EXCEPT ![r] = Append(@, t)]
        /\ kv' = Append(kv, t)
        /\ saved' = IF SavesAt(r, n) /\ r \notin cancelled
                    THEN saved \cup {[key |-> fed'[r], data |-> kv']} ELSE saved
        /\ IF r \in cancelled THEN Aborts(r)
           ELSE IF n = Len(Prompt[r]) THEN Emits(r, Says(kv'))
           ELSE UNCHANGED <<waiting, running, next, out, entry, finish, owner, phase, base>>
        /\ UNCHANGED <<api, rr, dirty, dev, cur, match, have, troubles, lost>>

(* Mutant: it begins with nothing picked.                                  *)
DecodeBeginsAlways ==
  /\ phase = "feed"
  /\ base' = Len(out[cur]) /\ phase' = "decode"
  /\ UNCHANGED <<waiting, running, reqs, api, host, rr, kv, saved, cur, match,
                 have, troubles, lost>>

(* The turn's decoding begins (with the prompt's last token, on the card). *)
DecodeBegins ==
  /\ phase = "feed"
  /\ \/ next[cur] # None /\ UNCHANGED next
     \/ /\ next[cur] = None /\ Len(fed[cur]) = LastFed(cur) /\ cardPicks
        /\ next' = [next EXCEPT ![cur] = Prompt[cur][Len(Prompt[cur])]]
  /\ base' = Len(out[cur])
  /\ phase' = "decode"
  /\ UNCHANGED <<waiting, running, fed, out, finish, entry, api, host, rr, kv,
                 saved, cur, match, have, troubles, lost>>

Decode ==
  /\ phase = "decode"
  /\ LET r == cur
     IN \/ /\ r \in cancelled
           /\ Aborts(r)
           /\ UNCHANGED <<fed, kv>>
        \/ /\ r \notin cancelled
           /\ fed' = [fed EXCEPT ![r] = Append(@, next[r])]
           /\ kv' = Append(kv, next[r])
           /\ Emits(r, Says(kv'))
  /\ UNCHANGED <<api, rr, dirty, dev, saved, cur, match, have, troubles, lost>>

(* Mutant: the worker's list of the device's tokens stays.                 *)
DeviceResetOnly == owner' = None /\ dirty' = FALSE /\ kv' = <<>> /\ UNCHANGED dev

DeviceForgotten == owner' = None /\ dev' = None /\ dirty' = FALSE /\ kv' = <<>>

(* The turn raises: the request fails, the device is forgotten.            *)
Fails ==
  /\ phase \in {"save", "take", "load", "feed", "decode"} /\ troubles < Troubles
  /\ troubles' = troubles + 1
  /\ DeviceForgotten
  /\ lost' = lost \cup ({owner} \ {None, cur})
  /\ Ends({cur}, "error")
  /\ phase' = "loop"
  /\ UNCHANGED <<fed, next, out, api, rr, saved, cur, base, match, have>>

(* The loop sees stop(): every request in flight ends, and the thread.     *)
LoopStops ==
  /\ phase = "loop" /\ stop
  /\ Ends(Range(waiting \o running), "abort")
  /\ owner' = IF owner \in Range(running) THEN None ELSE owner
  /\ phase' = "stopped"
  /\ UNCHANGED <<fed, next, out, api, dirty, dev, rr, kv, saved, cur, base,
                 match, have, troubles, lost>>

(* ... then stop() saves the device's context.                             *)
StopSaves ==
  /\ phase = "stopped" /\ dirty
  /\ saved' = SavesIf(TRUE)
  /\ dirty' = FALSE
  /\ UNCHANGED <<waiting, running, reqs, api, owner, dev, rr, kv, phase, cur,
                 base, match, have, troubles, lost>>

----------------------------------------------------------------------------
Init ==
  /\ stateful \in BOOLEAN /\ cardPicks \in BOOLEAN
  /\ waiting = <<>> /\ running = <<>> /\ new = Requests
  /\ fed = [r \in Requests |-> <<>>] /\ next = [r \in Requests |-> None]
  /\ out = [r \in Requests |-> <<>>] /\ finish = [r \in Requests |-> None]
  /\ entry = [r \in Requests |-> None]
  /\ cancelled = {} /\ stop = FALSE
  /\ owner = None /\ rr = 0 /\ dirty = FALSE /\ dev = None /\ kv = <<>> /\ saved = {}
  /\ phase = "loop" /\ cur = None /\ base = 0 /\ match = None /\ have = 0
  /\ flush = "none" /\ troubles = 0 /\ lost = {}

Clients ==
  \/ \E r \in Requests : Submit(r) \/ Cancel(r)
  \/ FlushClears \/ FlushLooks \/ FlushForgets
  \/ Stop

Loop ==
  \/ Pick \/ SwitchSaves \/ SwitchReuses \/ SwitchLoads
  \/ \E s \in saved \cup {None} \cup Range(entry) : SwitchLeaves(s)
  \/ Prefill \/ DecodeBegins \/ Decode
  \/ LoopStops \/ StopSaves

Next ==
  /\ Clients \/ Loop \/ Fails \/ \E s \in saved : Forget(s)
  /\ UNCHANGED model

Spec == Init /\ [][Next]_vars

(* The worker's thread runs; a flush() goes on.                            *)
FairSpec == Spec /\ WF_vars(Loop /\ UNCHANGED model) /\ WF_vars((FlushLooks \/ FlushForgets) /\ UNCHANGED model)

----------------------------------------------------------------------------
TypeOK ==
  /\ lost \subseteq Requests
  /\ model \in BOOLEAN \X BOOLEAN
  /\ IsInjective(waiting \o running) /\ Range(waiting \o running) \subseteq Requests \ new
  /\ new \subseteq Requests /\ cancelled \subseteq Requests /\ stop \in BOOLEAN
  /\ fed \in [Requests -> Seq(Tokens)] /\ next \in [Requests -> Tokens \cup {None}]
  /\ out \in [Requests -> Seq(Tokens)]
  /\ finish \in [Requests -> {None, "stop", "length", "abort", "error"}]
  /\ \A r \in Requests : entry[r] = None \/ entry[r].key \in Seq(Tokens)
  /\ owner \in Requests \cup {None} /\ dev \in Requests \cup {None} /\ dirty \in BOOLEAN
  /\ rr \in Nat /\ kv \in Seq(Tokens)
  /\ phase \in {"loop", "save", "take", "load", "feed", "decode", "stopped"}
  /\ cur \in Requests \cup {None} /\ flush \in {"none", "cleared", "idle"}

(* The worker's list of the device's tokens is what the device was fed, and*)
(* all of it while a request owns the device: through reuse, restores,     *)
(* failures and a flush() in the middle of a turn.                         *)
DeviceAsListed == IsPrefix(Device, kv) /\ (owner # None => kv = fed[owner])

(* A context comes back as it was saved.                                   *)
SavedAsKeyed == \A s \in saved : s.data = s.key

(* A running request off the device has its context saved, whatever turns  *)
(* and switches came between: only the store's drops, a clear(), a flush() *)
(* that forgets the device and a turn that raises take it away.            *)
OffDeviceIsSaved ==
  \A r \in Range(running) :
    fed[r] # <<>> /\ owner # r /\ r \notin lost => entry[r] \in saved /\ entry[r].key = fed[r]

(* A request's tokens are those of one run of its own, unless its context  *)
(* went while it was off the device.                                       *)
OutputIsOwnRun == \A r \in Requests \ lost : IsPrefix(out[r], Reply[r])

(* The whole of what a client is promised: that, and never a token of      *)
(* another request's reply.                                                *)
Promise == INSTANCE Serving
ImplementsServing == Promise!Spec

(* No more runs at once than MaxRunning; a request off the queues, and only*)
(* it, has ended, and has nothing pinned.                                  *)
EndedOnce ==
  /\ Len(running) <= MaxRunning
  /\ \A r \in Requests \ new :
       /\ finish[r] = None <=> r \in Range(waiting \o running)
       /\ finish[r] # None => entry[r] = None

(* Every request submitted before the loop has stopped ends, through       *)
(* switches, restores, starts from the prompt again and failing turns; a   *)
(* stop() ends it too.                                                     *)
RequestsEnd ==
  \A r \in Requests : r \notin new /\ phase # "stopped" ~> finish[r] # None
=============================================================================
