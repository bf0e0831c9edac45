---------------------------- MODULE BatchWorker ----------------------------
(***************************************************************************)
(* BatchWorker of opentpu/serve/batching.py: the device's cache is cut into*)
(* slots, each request runs in one of its own, and one thread feeds their  *)
(* prompts and steps all that decode together.  The API's threads submit,  *)
(* cancel, flush and stop it meanwhile, as they do Worker.                 *)
(*                                                                         *)
(* Which free slot a request takes (least used, best placed), whether a    *)
(* mixed run's program is at hand, which free slots pad a step and when the*)
(* card's loop comes back are open; sampling and compiling ahead are left  *)
(* out.                                                                    *)
(***************************************************************************)
EXTENDS Contexts

CONSTANTS
  B,          \* slots
  P,          \* tokens of a page, the unit a context is copied in
  Rows,       \* tokens of a prompt fed in a run (feed_rows)
  Budget,     \* prompt tokens fed per iteration
  Cap,        \* positions of a slot
  Troubles,   \* bound: drops by the store, flush()es, iterations that raise, a stop()
  Cancels     \* requests whose client may cancel

ASSUME BatchAssumption ==
  /\ B \in Nat \ {0, 1} /\ P \in Nat \ {0} /\ Rows \in Nat \ {0} /\ Budget \in Nat \ {0}
  /\ Cap \in Nat /\ \A r \in Requests : Len(Prompt[r]) + MaxNew[r] <= Cap
  /\ Troubles \in Nat /\ Cancels \subseteq Requests /\ None \notin Nat

Slots == 0..(B - 1)

VARIABLES
  waiting, running,     \* queues of requests
  prefilling,           \* those of running being fed, oldest first
  fed, next, out,       \* request -> its context's tokens; the one picked, not fed; its output
  finish,               \* request -> None, or how it ends (once it is off the queues, ended)
  slotReq,              \* slot -> the request in it, or None
  dev,                  \* slot -> the request whose fed list is slot_dev, or None (empty)
  dirty,                \* the slots whose context is not saved
  kv,                   \* slot -> the tokens in its caches up to its position
  saved,                \* the contexts in the prefix cache: [key, data]
  new, cancelled, stop,
  phase, todo,          \* where the loop is; the requests it has still to bind, or to emit for
  plan,                 \* how the request being bound gets its context
  budget,
  flush, sees,          \* the slot flush() is at, and whether it saw it free
  troubles

reqs  == <<fed, next, out, finish>>
queue == <<waiting, running, prefilling>>
slots == <<slotReq, dev, dirty, kv>>
api   == <<new, cancelled, stop, flush, sees>>
loop  == <<phase, todo, plan, budget>>
vars  == <<queue, reqs, slots, saved, api, loop, troubles>>

----------------------------------------------------------------------------
Listed(s) == IF dev[s] = None THEN <<>> ELSE fed[dev[s]]       \* slot_dev
Free == {s \in Slots : slotReq[s] = None}
SlotOf(r) == CHOOSE s \in Slots : slotReq[s] = r

(* Mutant: the prompt's last token is fed with the others.                 *)
FeedWhole(r) == SubSeq(Prompt[r], Len(fed[r]) + 1, Len(Prompt[r]))

(* What r's prompt continues at most, and what of it is still to be fed.   *)
Wanted(r) == Front(Prompt[r])
Feed(r) == SubSeq(Prompt[r], Len(fed[r]) + 1, Len(Prompt[r]) - 1)

Entry(s) == [key |-> Listed(s), data |-> Take(kv[s], Len(Listed(s)))]
Savable(S) == {s \in S : s \in dirty /\ Listed(s) # <<>>}

(* _decoding.                                                              *)
Decoding == {r \in Range(running) : finish[r] = None /\ next[r] # None /\ r \notin Range(prefilling)}

Freed(S) == [s \in Slots |-> IF slotReq[s] \in S THEN None ELSE slotReq[s]]

(* Mutant: a request that ends stays among those being fed.                *)
EndsFed(S) ==
  /\ waiting' = Without(waiting, S) /\ running' = Without(running, S)
  /\ slotReq' = Freed(S)
  /\ UNCHANGED prefilling

(* _end of the requests of S, all of them finished by now.                 *)
Ends(S) ==
  /\ waiting' = Without(waiting, S) /\ running' = Without(running, S)
  /\ prefilling' = Without(prefilling, S)
  /\ slotReq' = Freed(S)

Finished(S, why) == [r \in Requests |-> IF r \in S /\ finish[r] = None THEN why ELSE finish[r]]

----------------------------------------------------------------------------
(* The API's threads.                                                      *)

Submit(r) ==
  /\ r \in new
  /\ new' = new \ {r} /\ waiting' = Append(waiting, r)
  /\ UNCHANGED <<running, prefilling, reqs, slots, saved, cancelled, stop, flush, sees, loop,
                 troubles>>

Cancel(r) ==
  /\ r \in Cancels \ cancelled
  /\ cancelled' = cancelled \cup {r}
  /\ UNCHANGED <<queue, reqs, slots, saved, new, stop, flush, sees, loop, troubles>>

Stop ==
  /\ ~ stop /\ troubles < Troubles
  /\ stop' = TRUE /\ troubles' = troubles + 1
  /\ UNCHANGED <<queue, reqs, slots, saved, new, cancelled, flush, sees, loop>>

(* flush(), with no lock: the cache cleared, then each slot looked at, and *)
(* forgotten when it was seen free.                                        *)
FlushClears ==
  /\ flush = None /\ troubles < Troubles
  /\ saved' = {} /\ flush' = 0 /\ sees' = FALSE /\ troubles' = troubles + 1
  /\ UNCHANGED <<queue, reqs, slots, new, cancelled, stop, loop>>

FlushGoesOn == flush' = (IF flush + 1 = B THEN None ELSE flush + 1) /\ sees' = FALSE

FlushLooks ==
  /\ flush # None /\ ~ sees
  /\ IF flush \in Free THEN sees' = TRUE /\ UNCHANGED flush ELSE FlushGoesOn
  /\ UNCHANGED <<queue, reqs, slots, saved, new, cancelled, stop, loop, troubles>>

FlushForgets ==
  /\ flush # None /\ sees
  /\ dev' = [dev EXCEPT ![flush] = None] /\ dirty' = dirty \ {flush}
  /\ FlushGoesOn
  /\ UNCHANGED <<queue, reqs, slotReq, kv, saved, new, cancelled, stop, loop, troubles>>

Forget(c) ==
  /\ troubles < Troubles /\ troubles' = troubles + 1
  /\ saved' = saved \ {c}
  /\ UNCHANGED <<queue, reqs, slots, api, loop>>

----------------------------------------------------------------------------
(* The worker's thread.                                                    *)

(* The cancelled are marked, as many of those waiting as slots were free   *)
(* join the running, and all that are marked end.                          *)
Admit ==
  /\ phase = "top" /\ ~ stop /\ waiting \o running # <<>>
  /\ LET n     == Min({Len(waiting), Cardinality(Free)})
         admit == Take(waiting, n)
         inits == running \o admit
         done  == {r \in Range(inits) : finish'[r] # None}
     IN /\ finish' = Finished(cancelled \cap Range(waiting \o running), "abort")
        /\ waiting' = SubSeq(waiting, n + 1, Len(waiting))
        /\ running' = Without(inits, done)
        /\ prefilling' = Without(prefilling, done)
        /\ slotReq' = Freed(done)
        /\ todo' = Without(admit, done)
  /\ phase' = "bind"
  /\ UNCHANGED <<fed, next, out, dev, dirty, kv, saved, api, plan, budget, troubles>>

(* What match() finds.                                                     *)
MatchLen(c, r) == IF c = None THEN 0 ELSE Common(c.key, Wanted(r))
Matches(r) ==
  LET some == {c \in saved : MatchLen(c, r) > 0}
      best == {c \in some : \A o \in some : MatchLen(o, r) <= MatchLen(c, r)}
  IN IF best = {} THEN {None} ELSE best

(* The other slots that have the most of r's prompt.                       *)
Others(r, s) ==
  {x \in Slots \ {s} : \A y \in Slots \ {s} :
     Common(Listed(y), Wanted(r)) <= Common(Listed(x), Wanted(r))}

(* _bind: a free slot; the most of the prompt that it, another or the cache*)
(* has; what lies past that in the slot is saved before it is overwritten. *)
BindPlans(s, x, c) ==
  /\ phase = "bind" /\ todo # <<>> /\ plan = None
  /\ s \in Free
  /\ LET r     == Head(todo)
         own   == Common(Listed(s), Wanted(r))
         there == Common(Listed(x), Wanted(r))
         k     == Max({own, there, MatchLen(c, r)})
     IN /\ x \in Others(r, s) /\ c \in Matches(r)
        /\ plan' = [slot |-> s, own |-> own, k |-> k, match |-> c,
                    from |-> IF k = own THEN s ELSE IF k = there THEN x ELSE None]
        /\ saved' = IF k < Len(Listed(s)) THEN saved \cup {Entry(y) : y \in Savable({s})} ELSE saved
        /\ dirty' = IF k < Len(Listed(s)) THEN dirty \ {s} ELSE dirty
  /\ UNCHANGED <<queue, reqs, slotReq, dev, kv, api, phase, todo, budget, troubles>>

(* The whole pages among the first `own` tokens; the others are brought.   *)
Had(own) == (own \div P) * P

(* The tokens bound: none where the match has gone meanwhile.              *)
Bound == IF plan.from = None /\ plan.match \notin saved THEN 0 ELSE plan.k

(* ... and r has the slot, with the context's first tokens there or brought*)
(* (pages copied on the device, or restored).                              *)
BindPlaces ==
  /\ plan # None
  /\ LET r     == Head(todo)
         s     == plan.slot
         have  == Had(plan.own)
         from  == IF plan.from = None THEN plan.match.data ELSE kv[plan.from]
     IN /\ kv' = [kv EXCEPT ![s] = IF Bound = 0 THEN <<>>
                                   ELSE Take(Take(@, have) \o SubSeq(from, have + 1, plan.k), plan.k)]
        /\ fed' = [fed EXCEPT ![r] = Take(Prompt[r], Bound)]
        /\ next' = [next EXCEPT ![r] = Last(Prompt[r])]
        /\ slotReq' = [slotReq EXCEPT ![s] = r] /\ dev' = [dev EXCEPT ![s] = r]
        /\ dirty' = dirty \cup {s}
        /\ prefilling' = IF Bound < Len(Prompt[r]) - 1 THEN Append(prefilling, r) ELSE prefilling
  /\ todo' = Tail(todo) /\ plan' = None
  /\ UNCHANGED <<waiting, running, out, finish, saved, api, phase, budget, troubles>>

(* The iteration's prompts: `budget` tokens, or one run while a mixed run's*)
(* program compiles.                                                       *)
FeedBegins ==
  /\ phase = "bind" /\ todo = <<>>
  /\ phase' = "feed"
  /\ budget' \in (IF prefilling # <<>> THEN {1, Budget} ELSE {Budget})
  /\ UNCHANGED <<queue, reqs, slots, saved, api, todo, plan, troubles>>

(* Mutant: a fed prompt stays to be fed.                                   *)
FedStays(r, part) ==
  /\ fed' = [fed EXCEPT ![r] = @ \o part]
  /\ finish' = Finished({r} \cap cancelled, "abort")
  /\ prefilling' = IF finish'[r] # None THEN Without(prefilling, {r}) ELSE prefilling

(* r is fed the tokens `part`; a cancel is seen, and a fed prompt is done. *)
Fed(r, part) ==
  /\ fed' = [fed EXCEPT ![r] = @ \o part]
  /\ finish' = Finished({r} \cap cancelled, "abort")
  /\ prefilling' = IF Len(part) = Len(Feed(r)) \/ finish'[r] # None
                   THEN Without(prefilling, {r}) ELSE prefilling

(* _prefill_run of the oldest prompt, to the next multiple of Rows.        *)
PrefillRun ==
  /\ phase = "feed" /\ prefilling # <<>> /\ budget > 0
  /\ LET r    == Head(prefilling)
         s    == SlotOf(r)
         part == Take(Feed(r), Min({Len(Feed(r)), Rows - (Len(kv[s]) % Rows)}))
     IN /\ Fed(r, part)
        /\ kv' = [kv EXCEPT ![s] = @ \o part]
        /\ budget' = Max({0, budget - Len(part)})
  /\ UNCHANGED <<waiting, running, next, out, slotReq, dev, dirty, saved, api, phase, todo, plan,
                 troubles>>

(* Mutant: the dummy token takes the place of a context's last one.        *)
PaddedOver(c) == IF c = <<>> THEN <<Garbage>> ELSE Append(Front(c), Garbage)

(* A free slot's row in a padded step: a dummy token past its context.     *)
Padded(c) == Append(c, Garbage)

(* The caches after a step of the decoding rows and of the slots `pads`.   *)
Stepped(pads) ==
  [s \in Slots |-> IF slotReq[s] \in Decoding THEN Append(kv[s], next[slotReq[s]])
                   ELSE IF s \in pads THEN Padded(kv[s]) ELSE kv[s]]

(* The requests of S, each in a slot, by their slots.                      *)
InSlotOrder(S) == Without([n \in 1..B |-> slotReq[n - 1]], (Requests \cup {None}) \ S)

(* _decode_step: every decoding slot is fed its token and picks the next.  *)
Step ==
  /\ phase = "feed" /\ (prefilling = <<>> \/ budget = 0)
  /\ \E pads \in SUBSET {s \in Free : Len(kv[s]) < Cap} :
       /\ pads # {} => Decoding # {}
       /\ kv' = Stepped(pads)
  /\ todo' = InSlotOrder(Decoding)
  /\ phase' = "emit"
  /\ UNCHANGED <<queue, reqs, slotReq, dev, dirty, saved, api, plan, budget, troubles>>

(* _mixed_step: the oldest prompt's next tokens in a step's spare rows, in *)
(* place of the feed runs.                                                 *)
MixedStep ==
  /\ phase = "bind" /\ todo = <<>> /\ prefilling # <<>>
  /\ Cardinality(Decoding) \in 1..(Rows - 1)
  /\ LET r == Head(prefilling)
         s == SlotOf(r)
     IN \E k \in 1..Min({Rows - Cardinality(Decoding), Len(Feed(r))}) :
          /\ kv' = [Stepped({}) EXCEPT ![s] = @ \o Take(Feed(r), k)]
          /\ Fed(r, Take(Feed(r), k))
  /\ todo' = InSlotOrder(Decoding)
  /\ phase' = "emit"
  /\ UNCHANGED <<waiting, running, next, out, slotReq, dev, dirty, saved, api, plan, budget, troubles>>

(* The token t picked after next[r], which is fed.                         *)
Emits(r, t) ==
  /\ fed' = [fed EXCEPT ![r] = Append(@, next[r])]
  /\ out' = [out EXCEPT ![r] = Words(@, t)]
  /\ next' = [next EXCEPT ![r] = IF t \in StopIds THEN None ELSE t]
  /\ finish' = [finish EXCEPT ![r] = Finish(out[r], t, r)]

(* _outputs: a row's token is read and emitted.                            *)
Output ==
  /\ phase = "emit" /\ todo # <<>>
  /\ Emits(Head(todo), Says(kv[SlotOf(Head(todo))]))
  /\ todo' = Tail(todo)
  /\ UNCHANGED <<queue, slots, saved, api, phase, plan, budget, troubles>>

(* _card_loop: alone in slot 0 with nothing waiting, a request decodes     *)
(* token after token, until it ends or the loop is halted or comes back.   *)
CardToken ==
  /\ Decoding # {} /\ Decoding = {slotReq[0]}
  /\ phase = "card" \/ (phase = "feed" /\ waiting = <<>> /\ prefilling = <<>>)
  /\ kv' = [kv EXCEPT ![0] = Append(@, next[slotReq[0]])]
  /\ Emits(slotReq[0], Says(kv'[0]))
  /\ phase' \in (IF finish'[slotReq[0]] # None THEN {"emit"} ELSE {"card", "emit"})
  /\ UNCHANGED <<queue, slotReq, dev, dirty, saved, api, todo, plan, budget, troubles>>

(* The iteration's end.                                                    *)
Bottom ==
  /\ phase = "emit" /\ todo = <<>>
  /\ Ends({r \in Range(running) : finish[r] # None})
  /\ phase' = "top"
  /\ UNCHANGED <<reqs, dev, dirty, kv, saved, api, todo, plan, budget, troubles>>

(* Mutant: the worker's lists of the slots' tokens stay.                   *)
DeviceResetOnly == dirty' = {} /\ kv' = [s \in Slots |-> <<>>] /\ UNCHANGED dev

(* _reset_device.                                                          *)
DeviceForgotten ==
  /\ dev' = [s \in Slots |-> None] /\ dirty' = {} /\ kv' = [s \in Slots |-> <<>>]

(* An iteration raises: every running request fails, every slot is emptied.*)
Fails ==
  /\ phase \in {"bind", "feed", "emit", "card"} /\ troubles < Troubles
  /\ troubles' = troubles + 1
  /\ finish' = Finished(Range(running), "error")
  /\ Ends(Range(running))
  /\ DeviceForgotten
  /\ todo' = <<>> /\ plan' = None /\ phase' = "top"
  /\ UNCHANGED <<fed, next, out, saved, api, budget>>

(* The loop sees stop(): all in flight end, and the thread; then every     *)
(* slot's context is saved.                                                *)
LoopStops ==
  /\ phase = "top" /\ stop
  /\ finish' = Finished(Range(waiting \o running), "abort")
  /\ Ends(Range(waiting \o running))
  /\ phase' = "stopped"
  /\ UNCHANGED <<fed, next, out, dev, dirty, kv, saved, api, todo, plan, budget, troubles>>

StopSaves ==
  /\ phase = "stopped" /\ dirty # {}
  /\ saved' = saved \cup {Entry(s) : s \in Savable(Slots)}
  /\ dirty' = {}
  /\ UNCHANGED <<queue, reqs, slotReq, dev, kv, api, loop, troubles>>

----------------------------------------------------------------------------
Init ==
  /\ waiting = <<>> /\ running = <<>> /\ prefilling = <<>>
  /\ fed = [r \in Requests |-> <<>>] /\ next = [r \in Requests |-> None]
  /\ out = [r \in Requests |-> <<>>] /\ finish = [r \in Requests |-> None]
  /\ slotReq = [s \in Slots |-> None] /\ dev = [s \in Slots |-> None] /\ dirty = {}
  /\ kv = [s \in Slots |-> <<>>] /\ saved = {}
  /\ new = Requests /\ cancelled = {} /\ stop = FALSE
  /\ phase = "top" /\ todo = <<>> /\ plan = None /\ budget = Budget
  /\ flush = None /\ sees = FALSE /\ troubles = 0

Clients ==
  \/ \E r \in Requests : Submit(r) \/ Cancel(r)
  \/ FlushClears \/ FlushLooks \/ FlushForgets
  \/ Stop

Bind == BindPlaces \/ \E s, x \in Slots, c \in saved \cup {None} : BindPlans(s, x, c)

Loop ==
  \/ Admit \/ Bind \/ FeedBegins \/ PrefillRun \/ Step \/ MixedStep
  \/ Output \/ CardToken \/ Bottom \/ LoopStops \/ StopSaves

Next == Clients \/ Loop \/ Fails \/ \E c \in saved : Forget(c)

Spec == Init /\ [][Next]_vars

(* The worker's thread goes on with its loop.                              *)
FairSpec == Spec /\ WF_vars(Loop)

----------------------------------------------------------------------------
TypeOK ==
  /\ IsInjective(waiting \o running) /\ Range(waiting \o running) \subseteq Requests \ new
  /\ Range(prefilling) \subseteq Range(running) /\ dirty \subseteq Slots
  /\ slotReq \in [Slots -> Requests \cup {None}] /\ dev \in [Slots -> Requests \cup {None}]
  /\ kv \in [Slots -> Seq(Tokens)] /\ budget \in 0..Budget
  /\ phase \in {"top", "bind", "feed", "emit", "card", "stopped"}

(* What the worker has as a slot's tokens is in its caches: through copies,*)
(* restores of what has gone, padded steps, failures and a flush() that    *)
(* forgets a slot as it is taken.                                          *)
DeviceAsListed == \A s \in Slots : IsPrefix(Listed(s), kv[s])

(* A running request has one slot, alone, and its caches hold what it was  *)
(* fed, but for the row a step has just added: no other request's feed,    *)
(* step, pad or copy writes in it.                                         *)
RunsInItsSlot ==
  \A r \in Range(running) :
    finish[r] = None /\ ~ (phase = "bind" /\ r \in Range(todo)) =>
      \E s \in Slots :
        /\ \A x \in Slots : slotReq[x] = r <=> x = s
        /\ kv[s] = IF phase = "emit" /\ r \in Range(todo) THEN Append(fed[r], next[r]) ELSE fed[r]

(* Its clients are promised the same as Worker's.                          *)
Promise == INSTANCE Serving WITH lost <- {}
ImplementsServing == Promise!Spec

(* Every request submitted before the loop has stopped leaves the queues,  *)
(* ended: the cancelled ones that wait for a slot too.                     *)
RequestsEnd ==
  \A r \in Requests :
    r \notin new /\ phase # "stopped" ~> finish[r] # None /\ r \notin Range(waiting \o running)
=============================================================================
