------------------------- MODULE BatchWorkerProofs -------------------------
(***************************************************************************)
(* Proofs about BatchWorker: each running request has its slot, whose      *)
(* caches hold what it was fed, whatever is copied, restored, padded or    *)
(* forgotten; and the worker is a Serving.                                 *)
(***************************************************************************)
EXTENDS BatchWorker, ListsProofs, FiniteSetTheorems

Saveds == [key : Seq(Tokens), data : Seq(Tokens)]
Queued == Range(waiting) \cup Range(running)

(* The running requests that have no slot yet.                             *)
Unbound == IF phase = "bind" THEN Range(todo) ELSE {}

(* Those that nothing was fed for yet, and those that decode or have ended.*)
Before == new \cup Range(waiting) \cup Unbound
Going == Range(running) \ (Unbound \cup Range(prefilling))

Queues ==
  /\ waiting \in Seq(Requests) /\ running \in Seq(Requests) /\ new \subseteq Requests
  /\ IsInjective(waiting) /\ IsInjective(running) /\ Range(waiting) \cap Range(running) = {}
  /\ Queued \cap new = {}
  /\ prefilling \in Seq(Requests) /\ IsInjective(prefilling)
  /\ todo \in Seq(Requests) /\ IsInjective(todo)
  /\ Range(prefilling) \subseteq Range(running) \ Unbound /\ Range(todo) \subseteq Range(running)
  /\ phase \notin {"bind", "emit"} => todo = <<>>

Typed ==
  /\ fed \in [Requests -> Seq(Tokens)] /\ next \in [Requests -> Tokens \cup {None}]
  /\ out \in [Requests -> Seq(Tokens)]
  /\ finish \in [Requests -> {None, "stop", "length", "abort", "error"}]
  /\ slotReq \in [Slots -> Requests \cup {None}] /\ dev \in [Slots -> Requests \cup {None}]
  /\ dirty \subseteq Slots /\ kv \in [Slots -> Seq(Tokens)]
  /\ saved \subseteq Saveds /\ \A c \in saved : c.data = c.key
  /\ cancelled \subseteq Requests /\ flush \in Slots \cup {None}
  /\ budget \in 0..Budget /\ phase \in {"top", "bind", "feed", "emit", "card", "stopped"}

(* A running request has one slot, and a slot's request runs.              *)
Placed ==
  /\ \A s, x \in Slots : slotReq[s] = slotReq[x] /\ slotReq[s] # None => s = x
  /\ \A s \in Slots : slotReq[s] # None => slotReq[s] \in Range(running) \ Unbound
  /\ \A r \in Range(running) \ Unbound : \E s \in Slots : slotReq[s] = r

(* A slot's caches hold what its request was fed, and in a step the token  *)
(* that it decodes; a free one's begin with what is listed for it.         *)
Row(s) ==
  IF phase = "emit" /\ slotReq[s] \in Range(todo) THEN Append(fed[slotReq[s]], next[slotReq[s]])
  ELSE fed[slotReq[s]]

Filled ==
  \A s \in Slots :
    /\ slotReq[s] # None => kv[s] = Row(s) /\ dev[s] \in {slotReq[s], None}
    /\ slotReq[s] = None /\ dev[s] # None => IsPrefix(fed[dev[s]], kv[s])

(* A slot is listed for a request that has it, or that has ended.          *)
Lists ==
  \A s \in Slots :
    dev[s] # None => /\ dev[s] \notin Before
                     /\ dev[s] \in Range(running) => slotReq[s] = dev[s]

(* The plan of a binding still stands when it is done.                     *)
Source == IF plan.from = None THEN plan.match.data ELSE kv[plan.from]

Planned ==
  plan # None =>
    /\ phase = "bind" /\ todo # <<>>
    /\ plan.slot \in Free /\ plan.from \in Slots \cup {None}
    /\ plan.own \in 0..plan.k /\ plan.k \in 0..Len(Wanted(Head(todo)))
    /\ plan.own <= Len(kv[plan.slot]) /\ Take(kv[plan.slot], plan.own) = Take(Wanted(Head(todo)), plan.own)
    /\ Source \in Seq(Tokens) /\ plan.k <= Len(Source) /\ Take(Source, plan.k) = Take(Wanted(Head(todo)), plan.k)

(* A request is fed its prompt but the last token, and then that and what  *)
(* it said of its reply, the last of it still to be fed.                   *)
SpokenOf(r) ==
  /\ IsPrefix(out[r], Reply[r])
  /\ finish[r] = None => Len(out[r]) < MaxNew[r] /\ \A i \in 1..Len(out[r]) : out[r][i] \notin StopIds
  /\ r \in Before => out[r] = <<>>
  /\ r \in Range(prefilling) => /\ out[r] = <<>> /\ next[r] = Last(Prompt[r])
                                /\ IsPrefix(fed[r], Wanted(r)) /\ Len(fed[r]) < Len(Wanted(r))
  /\ r \in Going /\ finish[r] = None =>
       next[r] # None /\ Append(fed[r], next[r]) = Prompt[r] \o out[r]

Spoken == \A r \in Requests : SpokenOf(r)

(* The requests whose step is being emitted decode.                        *)
Emitting == phase = "emit" => \A r \in Range(todo) : r \in Decoding

BatchInv == Queues /\ Typed /\ Placed /\ Filled /\ Lists /\ Planned /\ Spoken /\ Emitting

----------------------------------------------------------------------------
(* Facts that the invariant gives at once.                                 *)
LEMMA Basics ==
  ASSUME BatchInv
  PROVE  /\ None \notin Requests /\ None \notin Nat /\ Slots \subseteq Nat
         /\ Queued \subseteq Requests /\ Range(prefilling) \subseteq Requests
         /\ Range(todo) \subseteq Requests /\ Unbound \subseteq Range(running)
         /\ Queues /\ Typed /\ Placed /\ Filled /\ Lists /\ Planned /\ Spoken /\ Emitting
PROOF
  <1>1. Queues /\ Typed /\ Placed /\ Filled /\ Lists /\ Planned /\ Spoken /\ Emitting BY DEF BatchInv
  <1>2. Range(waiting) \subseteq Requests /\ Range(running) \subseteq Requests
    BY <1>1, RangeIs DEF Queues
  <1>3. Range(prefilling) \subseteq Range(running) /\ Range(todo) \subseteq Range(running)
    BY <1>1 DEF Queues
  <1>4. None \notin Requests /\ None \notin Nat /\ Slots \subseteq Nat
    BY RequestsAssumption, BatchAssumption DEF Slots
  <1> QED BY <1>1, <1>2, <1>3, <1>4 DEF Queued, Unbound

LEMMA SlotIs ==
  ASSUME BatchInv, NEW r \in Range(running), r \notin Unbound
  PROVE  /\ SlotOf(r) \in Slots /\ slotReq[SlotOf(r)] = r
         /\ \A s \in Slots : slotReq[s] = r <=> s = SlotOf(r)
PROOF
  <1>1. \E s \in Slots : slotReq[s] = r BY DEF BatchInv, Placed
  <1>2. SlotOf(r) \in Slots /\ slotReq[SlotOf(r)] = r BY <1>1 DEF SlotOf
  <1>3. r # None BY Basics DEF Queued
  <1> QED BY <1>2, <1>3 DEF BatchInv, Placed

(* What a slot's list says is in its caches.                               *)
LEMMA ListedIs ==
  ASSUME BatchInv, NEW s \in Slots
  PROVE  /\ Listed(s) \in Seq(Tokens) /\ kv[s] \in Seq(Tokens) /\ IsPrefix(Listed(s), kv[s])
         /\ Len(Listed(s)) \in 0..Len(kv[s]) /\ Listed(s) = Take(kv[s], Len(Listed(s)))
PROOF
  <1>1. Typed /\ Filled /\ Lists /\ Emitting BY DEF BatchInv
  <1>2. Listed(s) \in Seq(Tokens) /\ kv[s] \in Seq(Tokens) BY <1>1, EmptySeq DEF Typed, Listed
  <1>3. IsPrefix(Listed(s), kv[s])
    <2>1. CASE dev[s] = None
      <3>1. Listed(s) = <<>> BY <2>1 DEF Listed
      <3>2. Take(kv[s], 0) = <<>> /\ 0 \in 0..Len(kv[s]) BY <1>2, TakeAll
      <3> QED BY <1>2, <3>1, <3>2, TakePrefix
    <2>2. CASE dev[s] # None /\ slotReq[s] = None BY <1>1, <2>2 DEF Listed, Filled
    <2>3. CASE dev[s] # None /\ slotReq[s] # None
      <3>1. dev[s] = slotReq[s] /\ kv[s] = Row(s) /\ Listed(s) = fed[slotReq[s]]
        BY <1>1, <2>3 DEF Filled, Listed
      <3>2. CASE phase = "emit" /\ slotReq[s] \in Range(todo)
        <4>1. kv[s] = Append(Listed(s), next[slotReq[s]]) BY <3>1, <3>2 DEF Row
        <4>2. next[slotReq[s]] \in Tokens
          <5>1. slotReq[s] \in Requests BY <1>1, <2>3 DEF Typed
          <5>2. next[slotReq[s]] # None BY <1>1, <3>2 DEF Emitting, Decoding
          <5> QED BY <1>1, <5>1, <5>2 DEF Typed
        <4>3. IsPrefix(Listed(s), Listed(s)) BY <1>2, TakeAll, PrefixIs
        <4> QED BY <1>2, <4>1, <4>2, <4>3, PrefixGrows
      <3>3. CASE ~ (phase = "emit" /\ slotReq[s] \in Range(todo))
        <4>1. kv[s] = Listed(s) BY <3>1, <3>3 DEF Row
        <4> QED BY <1>2, <4>1, TakeAll, PrefixIs
      <3> QED BY <3>2, <3>3
    <2> QED BY <2>1, <2>2, <2>3
  <1>4. Len(Listed(s)) <= Len(kv[s]) /\ Listed(s) = Take(kv[s], Len(Listed(s))) BY <1>2, <1>3, PrefixIs
  <1> QED BY <1>2, <1>3, <1>4

LEMMA EntryIs ==
  ASSUME BatchInv, NEW s \in Slots
  PROVE  Entry(s) \in Saveds /\ Entry(s).data = Entry(s).key
PROOF
  <1>1. Entry(s) = [key |-> Listed(s), data |-> Listed(s)] BY ListedIs DEF Entry
  <1>2. Listed(s) \in Seq(Tokens) BY ListedIs
  <1> QED BY <1>1, <1>2 DEF Saveds

(* Slots' contexts that are saved.                                         *)
LEMMA SavesIs ==
  ASSUME BatchInv, NEW S \in SUBSET Slots, saved' \subseteq saved \cup {Entry(s) : s \in S}
  PROVE  saved' \subseteq Saveds /\ \A c \in saved' : c.data = c.key
PROOF
  <1>1. saved \subseteq Saveds /\ \A c \in saved : c.data = c.key BY DEF BatchInv, Typed
  <1>2. \A c \in {Entry(s) : s \in S} : c \in Saveds /\ c.data = c.key BY EntryIs
  <1> QED BY <1>1, <1>2

(* What a request has said stays where it is left alone, or ends.          *)
LEMMA SpokenStays ==
  ASSUME NEW r \in Requests, SpokenOf(r), out'[r] = out[r], finish'[r] = None => finish[r] = None,
         r \in Before' => r \in Before,
         r \in Range(prefilling') => r \in Range(prefilling),
         r \in Going' /\ finish'[r] = None => r \in Going,
         (r \in Going' /\ finish'[r] = None) \/ r \in Range(prefilling')
           => fed'[r] = fed[r] /\ next'[r] = next[r]
  PROVE  SpokenOf(r)'
BY DEF SpokenOf, Wanted

----------------------------------------------------------------------------
(* Steps that leave the requests, the loop and what slots hold.            *)
LEMMA AsideInv ==
  ASSUME BatchInv, UNCHANGED <<queue, new, reqs, slotReq, kv, loop>>,
         dev' \in [Slots -> Requests \cup {None}], \A s \in Slots : dev'[s] \in {dev[s], None},
         dirty' \subseteq Slots, saved' \subseteq Saveds, \A c \in saved' : c.data = c.key,
         cancelled' \subseteq Requests, flush' \in Slots \cup {None}
  PROVE  BatchInv'
PROOF
  <1> USE DEF queue, reqs, loop
  <1>1. Queues /\ Typed /\ Placed /\ Filled /\ Lists /\ Planned /\ Spoken /\ Emitting BY DEF BatchInv
  <1>2. Unbound' = Unbound /\ Before' = Before /\ Going' = Going BY DEF Unbound, Before, Going
  <1>3. Queues' BY <1>1, <1>2 DEF Queues, Queued
  <1>4. Typed' BY <1>1 DEF Typed
  <1>5. Placed' BY <1>1, <1>2 DEF Placed
  <1>6. Filled' BY <1>1 DEF Filled, Row
  <1>7. Lists' BY <1>1, <1>2 DEF Lists
  <1>8. Planned' BY <1>1 DEF Planned, Free, Source, Wanted
  <1>9. Spoken' BY <1>1, <1>2, SpokenStays DEF Spoken
  <1>10. Emitting' BY <1>1 DEF Emitting, Decoding
  <1> QED BY <1>3, <1>4, <1>5, <1>6, <1>7, <1>8, <1>9, <1>10 DEF BatchInv

LEMMA InitInv == Init => BatchInv
PROOF
  <1> SUFFICES ASSUME Init PROVE BatchInv
    OBVIOUS
  <1>1. /\ Range(waiting) = {} /\ Range(running) = {} /\ Range(prefilling) = {} /\ Range(todo) = {}
        /\ <<>> \in Seq(Requests) /\ <<>> \in Seq(Tokens) /\ IsInjective(<<>>) /\ Len(<<>>) = 0
    BY DEF Init, Range, IsInjective
  <1>2. Unbound = {} /\ Going = {} BY <1>1 DEF Init, Unbound, Going
  <1>3. Queues BY <1>1, <1>2 DEF Init, Queues, Queued
  <1>4. Typed
    <2>1. 0 \in 0..Budget /\ Budget \in 0..Budget BY BatchAssumption
    <2>2. kv \in [Slots -> Seq(Tokens)] /\ fed \in [Requests -> Seq(Tokens)] /\ out \in [Requests -> Seq(Tokens)]
      BY <1>1 DEF Init
    <2> QED BY <2>1, <2>2 DEF Init, Typed
  <1>5. Placed /\ Filled /\ Lists BY <1>1, <1>2 DEF Init, Placed, Filled, Lists
  <1>6. Planned /\ Emitting BY DEF Init, Planned, Emitting
  <1>7. ASSUME NEW r \in Requests PROVE SpokenOf(r)
    <2>1. out[r] = <<>> BY DEF Init
    <2>2. Reply[r] \in Seq(Tokens) /\ MaxNew[r] \in Nat \ {0} BY RequestsAssumption
    <2>3. IsPrefix(<<>>, Reply[r])
      <3>1. Take(Reply[r], 0) = <<>> /\ 0 \in 0..Len(Reply[r]) BY <2>2, TakeAll
      <3>2. IsPrefix(Take(Reply[r], 0), Reply[r]) BY <2>2, <3>1, TakePrefix
      <3> QED BY <3>1, <3>2
    <2> QED BY <1>1, <1>2, <2>1, <2>2, <2>3 DEF SpokenOf
  <1> QED BY <1>3, <1>4, <1>5, <1>6, <1>7 DEF BatchInv, Spoken

(* A step keeps the invariant, and is one that the clients are promised.   *)
Promised == [Promise!Next]_<<out, finish, {}>>

LEMMA SubmitInv ==
  ASSUME BatchInv, NEW r \in Requests, Submit(r)
  PROVE  BatchInv'
PROOF
  <1> USE DEF reqs, slots, loop
  <1>1. /\ r \in new /\ new' = new \ {r} /\ waiting' = Append(waiting, r)
        /\ UNCHANGED <<running, prefilling, reqs, slots, saved, cancelled, flush, loop>>
    BY DEF Submit
  <1>2. Queues /\ Typed /\ Placed /\ Filled /\ Lists /\ Planned /\ Spoken /\ Emitting BY DEF BatchInv
  <1>3. r \notin Queued /\ r \notin Range(waiting) BY <1>1, <1>2 DEF Queues, Queued
  <1>4. /\ waiting' \in Seq(Requests) /\ Range(waiting') = Range(waiting) \cup {r}
        /\ IsInjective(waiting')
    BY <1>1, <1>2, <1>3, AppendProperties, AppendRange, AppendOnce DEF Queues
  <1>5. Unbound' = Unbound /\ Before' = Before /\ Going' = Going
    BY <1>1, <1>4 DEF Unbound, Before, Going
  <1>6. Queues' BY <1>1, <1>2, <1>3, <1>4, <1>5 DEF Queues, Queued
  <1>7. Typed' BY <1>1, <1>2 DEF Typed
  <1>8. Placed' BY <1>1, <1>2, <1>5 DEF Placed
  <1>9. Filled' BY <1>1, <1>2 DEF Filled, Row
  <1>10. Lists' BY <1>1, <1>2, <1>5 DEF Lists
  <1>11. Planned' BY <1>1, <1>2 DEF Planned, Free, Source, Wanted
  <1>12. Spoken' BY <1>1, <1>2, <1>5, SpokenStays DEF Spoken
  <1>13. Emitting' BY <1>1, <1>2 DEF Emitting, Decoding
  <1> QED BY <1>6, <1>7, <1>8, <1>9, <1>10, <1>11, <1>12, <1>13 DEF BatchInv

LEMMA ClientsInv ==
  ASSUME BatchInv, Clients
  PROVE  BatchInv' /\ UNCHANGED <<out, finish>>
PROOF
  <1> USE DEF api, slots, reqs
  <1>1. Typed BY DEF BatchInv
  <1>2. 0 \in Slots BY BatchAssumption DEF Slots
  <1>3. FlushGoesOn /\ flush \in Slots => flush' \in Slots \cup {None}
    BY BatchAssumption DEF FlushGoesOn, Slots
  <1>4. ASSUME NEW r \in Requests, Submit(r) PROVE BatchInv' /\ UNCHANGED <<out, finish>>
    BY <1>4, SubmitInv DEF Submit
  <1>5. ASSUME NEW r \in Requests, Cancel(r) PROVE BatchInv' /\ UNCHANGED <<out, finish>>
    BY <1>1, <1>5, AsideInv DEF Cancel, Typed
  <1>6. CASE FlushClears BY <1>1, <1>2, <1>6, AsideInv DEF FlushClears, Typed
  <1>7. CASE FlushLooks
    <2>1. flush' \in Slots \cup {None} BY <1>1, <1>3, <1>7 DEF FlushLooks, Typed
    <2> QED BY <1>1, <1>7, <2>1, AsideInv DEF FlushLooks, Typed
  <1>8. CASE FlushForgets
    <2>1. flush \in Slots /\ flush' \in Slots \cup {None} BY <1>1, <1>3, <1>8 DEF FlushForgets, Typed
    <2>2. dev' = [dev EXCEPT ![flush] = None] BY <1>8 DEF FlushForgets
    <2>3. dev' \in [Slots -> Requests \cup {None}] /\ \A s \in Slots : dev'[s] \in {dev[s], None}
      BY <1>1, <2>1, <2>2 DEF Typed
    <2> QED BY <1>1, <1>8, <2>1, <2>3, AsideInv DEF FlushForgets, Typed
  <1>9. CASE Stop BY <1>1, <1>9, AsideInv DEF Stop, Typed
  <1> QED BY <1>4, <1>5, <1>6, <1>7, <1>8, <1>9 DEF Clients

LEMMA ForgetInv ==
  ASSUME BatchInv, NEW c \in saved, Forget(c)
  PROVE  BatchInv' /\ UNCHANGED <<out, finish>>
BY AsideInv DEF BatchInv, api, slots, reqs, Forget, Typed

LEMMA StopSavesInv ==
  ASSUME BatchInv, StopSaves
  PROVE  BatchInv' /\ UNCHANGED <<out, finish>>
PROOF
  <1>1. Typed BY DEF BatchInv
  <1>2. /\ saved' = saved \cup {Entry(s) : s \in Savable(Slots)} /\ dirty' = {}
        /\ UNCHANGED <<queue, reqs, slotReq, dev, kv, api, loop>>
    BY DEF StopSaves
  <1>3. Savable(Slots) \in SUBSET Slots BY DEF Savable
  <1>4. saved' \subseteq Saveds /\ \A c \in saved' : c.data = c.key BY <1>2, <1>3, SavesIs
  <1> QED BY <1>1, <1>2, <1>4, AsideInv DEF Typed, api, reqs

----------------------------------------------------------------------------
(* Requests that end, or are marked so.                                    *)
LEMMA FinishedIs ==
  ASSUME BatchInv, NEW S, NEW why \in {"abort", "error"}, finish' = Finished(S, why), out' = out
  PROVE  /\ finish' \in [Requests -> {None, "stop", "length", "abort", "error"}]
         /\ \A r \in Requests : finish'[r] = None <=> finish[r] = None /\ r \notin S
         /\ Promised
PROOF
  <1> DEFINE T == {r \in Requests : r \in S /\ finish[r] = None}
  <1>1. why # None BY RequestsAssumption
  <1>2. finish \in [Requests -> {None, "stop", "length", "abort", "error"}] BY DEF BatchInv, Typed
  <1>3. finish' = [r \in Requests |-> IF r \in T THEN why ELSE finish[r]] BY DEF Finished
  <1>4. finish' \in [Requests -> {None, "stop", "length", "abort", "error"}] BY <1>2, <1>3
  <1>5. \A r \in Requests : finish'[r] = None <=> finish[r] = None /\ r \notin S BY <1>1, <1>3
  <1>6. T \in SUBSET Requests /\ \A r \in T : finish[r] = None OBVIOUS
  <1> HIDE DEF T
  <1>7. Promised
    <2>1. CASE T = {}
      <3>1. finish' = finish BY <1>2, <1>3, <2>1
      <3> QED BY <3>1 DEF Promised
    <2>2. CASE T # {}
      <3>1. Promise!End(T, why) BY <1>3, <1>6, <2>2 DEF Promise!End
      <3> QED BY <1>6, <3>1 DEF Promised, Promise!Next
    <2> QED BY <2>1, <2>2
  <1> QED BY <1>4, <1>5, <1>7

LEMMA EndsQueues ==
  ASSUME Queues, NEW S, Ends(S)
  PROVE  /\ waiting' \in Seq(Requests) /\ Range(waiting') = Range(waiting) \ S /\ IsInjective(waiting')
         /\ running' \in Seq(Requests) /\ Range(running') = Range(running) \ S /\ IsInjective(running')
         /\ prefilling' \in Seq(Requests) /\ Range(prefilling') = Range(prefilling) \ S /\ IsInjective(prefilling')
BY WithoutIs DEF Queues, Ends

LEMMA EndsInv ==
  ASSUME BatchInv, NEW S, Unbound \subseteq S, Ends(S),
         todo' = <<>>, plan' = None, phase' \in {"top", "stopped"},
         UNCHANGED <<fed, next, out, saved, new, cancelled, flush, budget>>,
         finish' \in [Requests -> {None, "stop", "length", "abort", "error"}],
         \A r \in Requests : finish'[r] = None => finish[r] = None,
         \/ DeviceForgotten /\ Range(running) \subseteq S
         \/ UNCHANGED <<dev, dirty, kv>> /\ todo = <<>>
  PROVE  BatchInv'
PROOF
  <1>1. Queues /\ Typed /\ Placed /\ Filled /\ Lists /\ Planned /\ Spoken /\ Emitting BY DEF BatchInv
  <1>2. /\ waiting' \in Seq(Requests) /\ Range(waiting') = Range(waiting) \ S /\ IsInjective(waiting')
        /\ running' \in Seq(Requests) /\ Range(running') = Range(running) \ S /\ IsInjective(running')
        /\ prefilling' \in Seq(Requests) /\ Range(prefilling') = Range(prefilling) \ S
        /\ IsInjective(prefilling')
    BY <1>1, EndsQueues
  <1>3. /\ <<>> \in Seq(Requests) /\ IsInjective(<<>>) /\ Range(<<>>) = {} /\ <<>> \in Seq(Tokens)
    BY DEF Range, IsInjective
  <1>4. Unbound' = {} /\ Before' \subseteq Before /\ Going' \subseteq Going
    BY <1>2 DEF Unbound, Before, Going
  <1>5. Queues' BY <1>1, <1>2, <1>3, <1>4 DEF Queues, Queued
  <1>6. slotReq' = [s \in Slots |-> IF slotReq[s] \in S THEN None ELSE slotReq[s]] BY DEF Ends, Freed
  <1>7. Typed'
    <2>1. slotReq' \in [Slots -> Requests \cup {None}] BY <1>1, <1>6 DEF Typed
    <2>2. dev' \in [Slots -> Requests \cup {None}] /\ dirty' \subseteq Slots /\ kv' \in [Slots -> Seq(Tokens)]
      BY <1>1, <1>3 DEF Typed, DeviceForgotten
    <2> QED BY <1>1, <2>1, <2>2 DEF Typed
  <1>8. Placed' BY <1>1, <1>2, <1>4, <1>6 DEF Placed
  <1>9. ASSUME NEW s \in Slots
        PROVE  /\ slotReq'[s] # None => kv'[s] = Row(s)' /\ dev'[s] \in {slotReq'[s], None}
               /\ slotReq'[s] = None /\ dev'[s] # None => IsPrefix(fed'[dev'[s]], kv'[s])
               /\ dev'[s] # None => /\ dev'[s] \notin Before'
                                    /\ dev'[s] \in Range(running') => slotReq'[s] = dev'[s]
    <2>1. CASE DeviceForgotten /\ Range(running) \subseteq S
      <3>1. dev'[s] = None BY <2>1 DEF DeviceForgotten
      <3>2. slotReq'[s] = None BY <1>1, <1>6, <2>1 DEF Placed
      <3> QED BY <3>1, <3>2
    <2>2. CASE UNCHANGED <<dev, dirty, kv>> /\ todo = <<>>
      <3>1. slotReq[s] # None => kv[s] = fed[slotReq[s]] /\ dev[s] \in {slotReq[s], None}
        BY <1>1, <1>3, <2>2 DEF Filled, Row
      <3>2. dev[s] # None => IsPrefix(fed[dev[s]], kv[s]) BY ListedIs DEF Listed
      <3>3. slotReq'[s] = IF slotReq[s] \in S THEN None ELSE slotReq[s] BY <1>6
      <3>4. slotReq'[s] # None => kv'[s] = Row(s)' /\ dev'[s] \in {slotReq'[s], None}
        BY <2>2, <3>1, <3>3 DEF Row
      <3>5. dev[s] # None => dev[s] \notin Before /\ (dev[s] \in Range(running) => slotReq[s] = dev[s])
        BY <1>1 DEF Lists
      <3> QED BY <1>2, <1>4, <2>2, <3>2, <3>3, <3>4, <3>5
    <2> QED BY <2>1, <2>2
  <1>10. Filled' /\ Lists' BY <1>9 DEF Filled, Lists
  <1>11. Planned' /\ Emitting' BY DEF Planned, Emitting
  <1>12. Spoken'
    <2> SUFFICES ASSUME NEW r \in Requests PROVE SpokenOf(r)'
      BY DEF Spoken
    <2>1. SpokenOf(r) BY <1>1 DEF Spoken
    <2> QED BY <1>2, <1>4, <2>1, SpokenStays
  <1> QED BY <1>5, <1>7, <1>8, <1>10, <1>11, <1>12 DEF BatchInv

LEMMA BottomInv ==
  ASSUME BatchInv, Bottom
  PROVE  BatchInv' /\ UNCHANGED <<out, finish>>
PROOF
  <1> DEFINE S == {r \in Range(running) : finish[r] # None}
  <1>1. /\ phase = "emit" /\ todo = <<>> /\ Ends(S) /\ phase' = "top"
        /\ UNCHANGED <<fed, next, out, finish, dev, dirty, kv, saved, new, cancelled, flush, todo, plan, budget>>
    BY DEF Bottom, reqs, api
  <1> HIDE DEF S
  <1>2. Unbound = {} /\ plan = None BY <1>1 DEF Unbound, BatchInv, Planned
  <1>3. finish' \in [Requests -> {None, "stop", "length", "abort", "error"}] BY <1>1 DEF BatchInv, Typed
  <1> QED BY <1>1, <1>2, <1>3, EndsInv

LEMMA FailsInv ==
  ASSUME BatchInv, Fails
  PROVE  BatchInv' /\ Promised
PROOF
  <1>1. /\ finish' = Finished(Range(running), "error") /\ Ends(Range(running)) /\ DeviceForgotten
        /\ todo' = <<>> /\ plan' = None /\ phase' = "top"
        /\ UNCHANGED <<fed, next, out, saved, new, cancelled, flush, budget>>
    BY DEF Fails, api
  <1>2. Unbound \subseteq Range(running) BY Basics
  <1> QED BY <1>1, <1>2, FinishedIs, EndsInv

LEMMA LoopStopsInv ==
  ASSUME BatchInv, LoopStops
  PROVE  BatchInv' /\ Promised
PROOF
  <1> DEFINE S == Range(waiting \o running)
  <1>1. /\ phase = "top" /\ finish' = Finished(S, "abort") /\ Ends(S) /\ phase' = "stopped"
        /\ UNCHANGED <<fed, next, out, dev, dirty, kv, saved, new, cancelled, flush, todo, plan, budget>>
    BY DEF LoopStops, api
  <1>2. Unbound = {} /\ plan = None /\ todo = <<>> BY <1>1 DEF Unbound, BatchInv, Planned, Queues
  <1> HIDE DEF S
  <1> QED BY <1>1, <1>2, FinishedIs, EndsInv

----------------------------------------------------------------------------
(* The loop's steps.                                                       *)
LEMMA AdmitInv ==
  ASSUME BatchInv, Admit
  PROVE  BatchInv' /\ Promised
PROOF
  <1> DEFINE n     == Min({Len(waiting), Cardinality(Free)})
             admit == Take(waiting, n)
             rest  == SubSeq(waiting, n + 1, Len(waiting))
             inits == running \o admit
             done  == {r \in Range(inits) : finish'[r] # None}
             S     == cancelled \cap Range(waiting \o running)
  <1>1. Queues /\ Typed /\ Placed /\ Filled /\ Lists /\ Planned /\ Spoken /\ Emitting BY DEF BatchInv
  <1>2. /\ phase = "top" /\ phase' = "bind" /\ finish' = Finished(S, "abort") /\ waiting' = rest
        /\ running' = Without(inits, done) /\ prefilling' = Without(prefilling, done)
        /\ slotReq' = Freed(done) /\ todo' = Without(admit, done)
        /\ UNCHANGED <<fed, next, out, dev, dirty, kv, saved, new, cancelled, flush, plan, budget>>
    BY DEF Admit, api
  <1>3. Unbound = {} /\ plan = None /\ todo = <<>> BY <1>1, <1>2 DEF Unbound, Planned, Queues
  <1>4. /\ finish' \in [Requests -> {None, "stop", "length", "abort", "error"}] /\ Promised
        /\ \A r \in Requests : finish'[r] = None => finish[r] = None
    BY <1>2, FinishedIs
  <1>5. n \in 0..Len(waiting)
    <2>1. IsFiniteSet(Free) /\ Free \subseteq 0..(B - 1)
      <3>1. Free \subseteq 0..(B - 1) BY DEF Free, Slots
      <3>2. IsFiniteSet(0..(B - 1)) BY FS_Interval, BatchAssumption
      <3> QED BY <3>1, <3>2, FS_Subset
    <2>2. Cardinality(Free) \in Nat BY <2>1, FS_CardinalityType
    <2>3. Len(waiting) \in Nat BY <1>1 DEF Queues
    <2>4. /\ n \in {Len(waiting), Cardinality(Free)} /\ n <= Len(waiting)
      BY <2>2, <2>3, MinMax
    <2> HIDE DEF n
    <2> QED BY <2>2, <2>3, <2>4
  <1> HIDE DEF n, S
  <1>6. /\ admit \in Seq(Requests) /\ rest \in Seq(Requests) /\ IsInjective(admit) /\ IsInjective(rest)
        /\ Range(waiting) = Range(admit) \cup Range(rest) /\ Range(admit) \cap Range(rest) = {}
    BY <1>1, <1>5, SplitIs DEF Queues
  <1> HIDE DEF admit, rest
  <1>7. /\ inits \in Seq(Requests) /\ IsInjective(inits) /\ Range(inits) = Range(running) \cup Range(admit)
    <2>1. Range(running) \cap Range(admit) = {} BY <1>1, <1>6 DEF Queues
    <2>2. inits \in Seq(Requests) BY <1>1, <1>6 DEF Queues
    <2> QED BY <1>1, <1>6, <2>1, <2>2, ConcatOnce DEF Queues
  <1> HIDE DEF inits
  <1>8. /\ running' \in Seq(Requests) /\ Range(running') = (Range(running) \cup Range(admit)) \ done
        /\ IsInjective(running')
        /\ prefilling' \in Seq(Requests) /\ Range(prefilling') = Range(prefilling) \ done
        /\ IsInjective(prefilling')
        /\ todo' \in Seq(Requests) /\ Range(todo') = Range(admit) \ done /\ IsInjective(todo')
    BY <1>1, <1>2, <1>6, <1>7, WithoutIs DEF Queues
  <1> HIDE DEF done
  <1>9. /\ Unbound' = Range(admit) \ done /\ Before' \subseteq Before /\ Going' \subseteq Going
        /\ Range(admit) \subseteq Range(waiting) /\ Range(admit) \cap Range(running) = {}
    BY <1>1, <1>2, <1>3, <1>6, <1>8 DEF Unbound, Before, Going, Queues
  <1>10. Queues' BY <1>1, <1>2, <1>6, <1>8, <1>9 DEF Queues, Queued
  <1>11. slotReq' = [s \in Slots |-> IF slotReq[s] \in done THEN None ELSE slotReq[s]]
    BY <1>2 DEF Freed
  <1>12. Typed'
    <2>1. slotReq' \in [Slots -> Requests \cup {None}] BY <1>1, <1>11 DEF Typed
    <2> QED BY <1>1, <1>2, <1>4, <2>1 DEF Typed
  <1>13. Placed' BY <1>1, <1>3, <1>8, <1>9, <1>11 DEF Placed
  <1>14. ASSUME NEW s \in Slots
         PROVE  /\ slotReq'[s] # None => kv'[s] = Row(s)' /\ dev'[s] \in {slotReq'[s], None}
                /\ slotReq'[s] = None /\ dev'[s] # None => IsPrefix(fed'[dev'[s]], kv'[s])
                /\ dev'[s] # None => /\ dev'[s] \notin Before'
                                     /\ dev'[s] \in Range(running') => slotReq'[s] = dev'[s]
    <2>1. slotReq[s] # None => kv[s] = fed[slotReq[s]] /\ dev[s] \in {slotReq[s], None}
      BY <1>1, <1>2 DEF Filled, Row
    <2>2. dev[s] # None => IsPrefix(fed[dev[s]], kv[s]) BY ListedIs DEF Listed
    <2>3. slotReq'[s] = IF slotReq[s] \in done THEN None ELSE slotReq[s] BY <1>11
    <2>4. slotReq'[s] # None => kv'[s] = Row(s)' /\ dev'[s] \in {slotReq'[s], None}
      BY <1>2, <2>1, <2>3 DEF Row
    <2>5. dev[s] # None => dev[s] \notin Before /\ (dev[s] \in Range(running) => slotReq[s] = dev[s])
      BY <1>1 DEF Lists
    <2>6. Range(admit) \subseteq Before BY <1>9 DEF Before
    <2> QED BY <1>2, <1>8, <1>9, <2>2, <2>3, <2>4, <2>5, <2>6
  <1>15. Filled' /\ Lists' BY <1>14 DEF Filled, Lists
  <1>16. Planned' /\ Emitting' BY <1>2, <1>3 DEF Planned, Emitting
  <1>17. Spoken'
    <2> SUFFICES ASSUME NEW r \in Requests PROVE SpokenOf(r)'
      BY DEF Spoken
    <2>1. SpokenOf(r) BY <1>1 DEF Spoken
    <2> QED BY <1>2, <1>4, <1>8, <1>9, <2>1, SpokenStays
  <1> QED BY <1>4, <1>10, <1>12, <1>13, <1>15, <1>16, <1>17 DEF BatchInv

(* What a prompt wants but its last token.                                 *)
LEMMA WantedIs ==
  ASSUME NEW r \in Requests
  PROVE  /\ Prompt[r] \in Seq(Tokens) /\ Len(Prompt[r]) \in Nat \ {0} /\ Last(Prompt[r]) \in Tokens
         /\ Wanted(r) \in Seq(Tokens) /\ Len(Wanted(r)) = Len(Prompt[r]) - 1
         /\ Append(Wanted(r), Last(Prompt[r])) = Prompt[r]
         /\ \A k \in 0..Len(Wanted(r)) : Take(Prompt[r], k) = Take(Wanted(r), k)
PROOF
  <1> DEFINE p == Prompt[r]
             n == Len(p) - 1
  <1>1. p \in Seq(Tokens) /\ p # <<>> BY RequestsAssumption
  <1> HIDE DEF p
  <1>2. Len(p) \in Nat \ {0} /\ n \in 0..Len(p) /\ n \in Nat /\ n < Len(p) BY <1>1
  <1>3. Wanted(r) = Take(p, n) BY DEF Wanted, Front, Take, p
  <1>4. Take(p, n) \in Seq(Tokens) /\ Len(Take(p, n)) = n BY <1>1, <1>2, TakeIs
  <1>5. p[n + 1] \in Tokens /\ Append(Take(p, n), p[n + 1]) = Take(p, n + 1) BY <1>1, <1>2, TakeNext
  <1>6. n + 1 = Len(p) BY <1>2
  <1>7. Last(p) = p[n + 1] /\ Take(p, n + 1) = p BY <1>1, <1>6, TakeAll DEF Last
  <1>8. \A k \in 0..n : Take(p, k) = Take(Take(p, n), k) BY <1>1, <1>2, TakeTake
  <1> QED BY <1>1, <1>2, <1>3, <1>4, <1>5, <1>7, <1>8 DEF p

(* What a slot, or an entry of the cache, has of a prompt.                 *)
LEMMA SlotHas ==
  ASSUME BatchInv, NEW s \in Slots, NEW r \in Requests
  PROVE  LET own == Common(Listed(s), Wanted(r))
         IN /\ own \in 0..Len(Wanted(r)) /\ own <= Len(kv[s]) /\ kv[s] \in Seq(Tokens)
            /\ Take(kv[s], own) = Take(Wanted(r), own)
PROOF
  <1> DEFINE L == Listed(s)
             W == Wanted(r)
             own == Common(L, W)
  <1>1. W \in Seq(Tokens) BY WantedIs
  <1>2. L \in Seq(Tokens) /\ kv[s] \in Seq(Tokens) /\ Len(L) \in 0..Len(kv[s]) /\ L = Take(kv[s], Len(L))
    BY ListedIs
  <1> HIDE DEF L, W
  <1>3. own \in Nat /\ own <= Len(L) /\ own <= Len(W) /\ Take(L, own) = Take(W, own)
    BY <1>1, <1>2, CommonIs
  <1> HIDE DEF own
  <1>4. Len(L) \in Nat /\ Len(W) \in Nat /\ Len(kv[s]) \in Nat BY <1>1, <1>2
  <1>5. own \in 0..Len(W) /\ own \in 0..Len(L) /\ own <= Len(kv[s]) BY <1>2, <1>3, <1>4
  <1>6. Take(Take(kv[s], Len(L)), own) = Take(kv[s], own) BY <1>2, <1>5, TakeTake
  <1>7. Take(L, own) = Take(kv[s], own) BY <1>2, <1>6
  <1> QED BY <1>2, <1>3, <1>5, <1>7 DEF own, L, W

LEMMA MatchHas ==
  ASSUME BatchInv, NEW c \in saved, NEW r \in Requests
  PROVE  /\ MatchLen(c, r) \in 0..Len(Wanted(r)) /\ MatchLen(c, r) <= Len(c.data)
         /\ c.data \in Seq(Tokens) /\ Take(c.data, MatchLen(c, r)) = Take(Wanted(r), MatchLen(c, r))
PROOF
  <1>1. c.data = c.key /\ c.key \in Seq(Tokens) /\ c # None
    BY RequestsAssumption DEF BatchInv, Typed, Saveds
  <1>2. MatchLen(c, r) = Common(c.key, Wanted(r)) BY <1>1 DEF MatchLen
  <1>3. Wanted(r) \in Seq(Tokens) BY WantedIs
  <1>4. /\ MatchLen(c, r) \in Nat /\ MatchLen(c, r) <= Len(c.key) /\ MatchLen(c, r) <= Len(Wanted(r))
        /\ Take(c.key, MatchLen(c, r)) = Take(Wanted(r), MatchLen(c, r))
    BY <1>1, <1>2, <1>3, CommonIs
  <1>5. Len(Wanted(r)) \in Nat BY <1>3
  <1> QED BY <1>1, <1>4, <1>5

LEMMA BindPlansInv ==
  ASSUME BatchInv, NEW s \in Slots, NEW x \in Slots, NEW c \in saved \cup {None}, BindPlans(s, x, c)
  PROVE  BatchInv' /\ UNCHANGED <<out, finish>>
PROOF
  <1> USE DEF queue, reqs, api
  <1> DEFINE r     == Head(todo)
             own   == Common(Listed(s), Wanted(r))
             there == Common(Listed(x), Wanted(r))
             m     == MatchLen(c, r)
             k     == Max({own, there, m})
             from  == IF k = own THEN s ELSE IF k = there THEN x ELSE None
  <1>1. Queues /\ Typed /\ Placed /\ Filled /\ Lists /\ Planned /\ Spoken /\ Emitting BY DEF BatchInv
  <1>2. /\ phase = "bind" /\ todo # <<>> /\ s \in Free
        /\ plan' = [slot |-> s, own |-> own, k |-> k, match |-> c, from |-> from]
        /\ saved' \subseteq saved \cup {Entry(y) : y \in {s}} /\ dirty' \subseteq dirty
        /\ UNCHANGED <<queue, reqs, slotReq, dev, kv, new, cancelled, flush, phase, todo, budget>>
    BY DEF BindPlans, Savable
  <1>3. saved' \subseteq Saveds /\ \A o \in saved' : o.data = o.key
    <2>1. {s} \in SUBSET Slots OBVIOUS
    <2> QED BY <1>2, <2>1, SavesIs
  <1>4. r \in Requests BY <1>1, <1>2 DEF Queues
  <1> DEFINE W == Wanted(r)
  <1>5. /\ own \in 0..Len(W) /\ own <= Len(kv[s]) /\ kv[s] \in Seq(Tokens) /\ Take(kv[s], own) = Take(W, own)
        /\ there \in 0..Len(W) /\ there <= Len(kv[x]) /\ kv[x] \in Seq(Tokens)
        /\ Take(kv[x], there) = Take(W, there)
    BY <1>4, SlotHas
  <1>6. /\ m \in 0..Len(W)
        /\ c # None => c.data \in Seq(Tokens) /\ m <= Len(c.data) /\ Take(c.data, m) = Take(W, m)
        /\ c = None => m = 0
    <2>1. CASE c = None
      <3>1. Len(W) \in Nat BY <1>4, WantedIs
      <3>2. m = 0 BY <2>1 DEF MatchLen
      <3> QED BY <2>1, <3>1, <3>2
    <2>2. CASE c # None
      <3>1. c \in saved BY <2>2
      <3> QED BY <1>4, <2>2, <3>1, MatchHas
    <2> QED BY <2>1, <2>2
  <1> HIDE DEF r, own, there, m, W
  <1>7. k \in {own, there, m} /\ k >= own /\ k \in 0..Len(W)
    <2>1. own \in Int /\ there \in Int /\ m \in Int BY <1>5, <1>6
    <2>2. k \in {own, there, m} /\ k >= own BY <2>1, MaxThree
    <2> HIDE DEF k
    <2> QED BY <1>5, <1>6, <2>2
  <1> HIDE DEF k
  <1>8. Planned'
    <2> DEFINE source == IF from = None THEN c.data ELSE kv[from]
    <2>1. s # None /\ x # None BY Basics
    <2>2. source \in Seq(Tokens) /\ k <= Len(source) /\ Take(source, k) = Take(W, k)
      <3>1. CASE k = own BY <1>5, <2>1, <3>1
      <3>2. CASE k # own /\ k = there BY <1>5, <2>1, <3>2
      <3>3. CASE k # own /\ k # there
        <4>1. k = m /\ m # 0 BY <1>5, <1>7, <3>3
        <4> QED BY <1>6, <3>3, <4>1
      <3> QED BY <3>1, <3>2, <3>3
    <2>3. from \in Slots \cup {None} OBVIOUS
    <2> HIDE DEF from
    <2>4. Source' = source BY <1>2 DEF Source
    <2> HIDE DEF source
    <2>5. own \in 0..k BY <1>5, <1>7
    <2>6. /\ plan'.slot = s /\ plan'.from = from /\ plan'.own = own /\ plan'.k = k
          /\ Wanted(Head(todo))' = W /\ Free' = Free
      BY <1>2 DEF W, r, Free, Wanted
    <2>7. kv'[plan'.slot] = kv[s] BY <1>2, <2>6
    <2> QED BY <1>2, <1>5, <1>7, <2>2, <2>3, <2>4, <2>5, <2>6, <2>7 DEF Planned
  <1>9. Unbound' = Unbound /\ Before' = Before /\ Going' = Going BY <1>2 DEF Unbound, Before, Going
  <1>10. Queues' BY <1>1, <1>2, <1>9 DEF Queues, Queued
  <1>11. Typed' BY <1>1, <1>2, <1>3 DEF Typed
  <1>12. Placed' BY <1>1, <1>2, <1>9 DEF Placed
  <1>13. Filled' BY <1>1, <1>2 DEF Filled, Row
  <1>14. Lists' BY <1>1, <1>2, <1>9 DEF Lists
  <1>15. Spoken' BY <1>1, <1>2, <1>9, SpokenStays DEF Spoken
  <1>16. Emitting' BY <1>2, <1>1 DEF Emitting, Decoding
  <1> QED BY <1>2, <1>8, <1>10, <1>11, <1>12, <1>13, <1>14, <1>15, <1>16 DEF BatchInv

(* What a binding puts in its slot: the prompt's tokens, as many as bound. *)
LEMMA BoundIs ==
  ASSUME BatchInv, BindPlaces
  PROVE  LET r == Head(todo)
         IN /\ r \in Requests /\ Bound \in 0..Len(Wanted(r)) /\ plan.slot \in Free
            /\ kv' = [kv EXCEPT ![plan.slot] = Take(Prompt[r], Bound)]
PROOF
  <1> DEFINE r == Head(todo)
             W == Wanted(r)
             s == plan.slot
             k == plan.k
             own == plan.own
             have == Had(own)
             from == IF plan.from = None THEN plan.match.data ELSE kv[plan.from]
             content == Take(Take(kv[s], have) \o SubSeq(from, have + 1, k), k)
  <1>1. Queues /\ Typed /\ Planned BY DEF BatchInv
  <1>2. /\ plan # None /\ phase = "bind" /\ todo # <<>>
        /\ kv' = [kv EXCEPT ![s] = IF Bound = 0 THEN <<>> ELSE content]
    BY <1>1 DEF BindPlaces, Planned
  <1>3. r \in Requests BY <1>1, <1>2 DEF Queues
  <1>4. W \in Seq(Tokens) /\ Prompt[r] \in Seq(Tokens) /\ \A j \in 0..Len(W) : Take(Prompt[r], j) = Take(W, j)
    BY <1>3, WantedIs
  <1>5. /\ s \in Free /\ own \in 0..k /\ k \in 0..Len(W) /\ own <= Len(kv[s])
        /\ Take(kv[s], own) = Take(W, own)
        /\ from \in Seq(Tokens) /\ k <= Len(from) /\ Take(from, k) = Take(W, k)
    BY <1>1, <1>2 DEF Planned, Source
  <1>6. kv[s] \in Seq(Tokens) BY <1>1, <1>5 DEF Typed, Free
  <1>7. Bound \in {0, k} BY DEF Bound
  <1>8. have \in 0..own
    <2>1. own \in Nat /\ P \in Nat \ {0} BY <1>5, BatchAssumption
    <2> HIDE DEF own
    <2>2. (own \div P) * P \in 0..own BY <2>1
    <2> QED BY <2>2 DEF Had
  <1> HIDE DEF r, W, s, k, own, have, from
  <1>9. Len(W) \in Nat /\ Len(kv[s]) \in Nat /\ Len(from) \in Nat BY <1>4, <1>5, <1>6
  <1>10. content = Take(W, k)
    <2>1. own \in 0..Len(kv[s]) /\ own <= Len(W) /\ k \in 0..Len(from) /\ k <= Len(W)
          /\ have \in 0..k /\ k \in 0..Len(W)
      BY <1>5, <1>8, <1>9
    <2>2. Take(kv[s], have) = Take(W, have) BY <1>4, <1>5, <1>6, <1>8, <2>1, TakeLess
    <2>3. Take(from, have) = Take(W, have) BY <1>4, <1>5, <2>1, TakeLess
    <2>4. Take(from, have) \o SubSeq(from, have + 1, k) = Take(from, k)
      <3>1. 1 \in 1..(Len(from) + 1) /\ have \in (1 - 1)..Len(from) /\ k \in have..Len(from)
        BY <1>9, <2>1
      <3>2. SubSeq(from, 1, have) \o SubSeq(from, have + 1, k) = SubSeq(from, 1, k)
        BY <1>5, <3>1, ConcatAdjacentSubSeq
      <3> QED BY <3>2 DEF Take
    <2>5. content = Take(Take(W, k), k) BY <1>5, <2>2, <2>3, <2>4
    <2>6. k \in 0..k BY <1>5
    <2> HIDE DEF content
    <2> QED BY <1>4, <2>1, <2>5, <2>6, TakeTake
  <1> HIDE DEF content
  <1>11. Bound \in 0..Len(W) BY <1>5, <1>7, <1>9
  <1>12. (IF Bound = 0 THEN <<>> ELSE content) = Take(Prompt[r], Bound)
    <2>1. CASE Bound = 0
      <3>1. Take(Prompt[r], 0) = <<>> BY <1>4, TakeAll
      <3> QED BY <2>1, <3>1
    <2>2. CASE Bound # 0
      <3>1. Bound = k BY <1>7, <2>2
      <3> QED BY <1>4, <1>10, <1>11, <2>2, <3>1
    <2> QED BY <2>1, <2>2
  <1> QED BY <1>2, <1>3, <1>5, <1>11, <1>12 DEF r, W, s

LEMMA BindPlacesInv ==
  ASSUME BatchInv, BindPlaces
  PROVE  BatchInv' /\ UNCHANGED <<out, finish>>
PROOF
  <1> DEFINE r == Head(todo)
             s == plan.slot
             c == Take(Prompt[r], Bound)
             whole == Bound >= Len(Prompt[r]) - 1
  <1>1. Queues /\ Typed /\ Placed /\ Filled /\ Lists /\ Planned /\ Spoken /\ Emitting BY DEF BatchInv
  <1>2. r \in Requests /\ Bound \in 0..Len(Wanted(r)) /\ s \in Free /\ kv' = [kv EXCEPT ![s] = c]
    BY BoundIs
  <1>3. /\ fed' = [fed EXCEPT ![r] = c] /\ next' = [next EXCEPT ![r] = Last(Prompt[r])]
        /\ slotReq' = [slotReq EXCEPT ![s] = r] /\ dev' = [dev EXCEPT ![s] = r] /\ dirty' = dirty \cup {s}
        /\ prefilling' = IF Bound < Len(Prompt[r]) - 1 THEN Append(prefilling, r) ELSE prefilling
        /\ todo' = Tail(todo) /\ plan' = None
        /\ UNCHANGED <<waiting, running, out, finish, saved, new, cancelled, flush, phase, budget>>
    BY DEF BindPlaces, api
  <1>4. phase = "bind" /\ todo # <<>> BY <1>1 DEF BindPlaces, Planned
  <1>5. /\ Prompt[r] \in Seq(Tokens) /\ Len(Prompt[r]) \in Nat \ {0} /\ Last(Prompt[r]) \in Tokens
        /\ Wanted(r) \in Seq(Tokens) /\ Len(Wanted(r)) = Len(Prompt[r]) - 1
        /\ Append(Wanted(r), Last(Prompt[r])) = Prompt[r]
        /\ c = Take(Wanted(r), Bound)
    BY <1>2, WantedIs
  <1>6. c \in Seq(Tokens) /\ Len(c) = Bound /\ IsPrefix(c, Wanted(r)) BY <1>2, <1>5, TakeIs, TakePrefix
  <1>7. /\ Range(todo) = Range(Tail(todo)) \cup {r} /\ r \in Range(todo) /\ r \notin Range(Tail(todo))
        /\ IsInjective(Tail(todo)) /\ Tail(todo) \in Seq(Requests)
    BY <1>1, <1>4, TailRange, TailOnce DEF Queues
  <1> HIDE DEF c, r, s
  <1>8. s \in Slots /\ slotReq[s] = None /\ r # None
    BY <1>2, RequestsAssumption DEF Free
  <1>9. /\ r \in Range(running) /\ r \in Unbound /\ r \in Before /\ r \notin Range(prefilling)
        /\ r \notin new /\ r \notin Range(waiting)
        /\ \A x \in Slots : slotReq[x] # r /\ dev[x] # r
    <2>1. r \in Range(running) /\ r \in Unbound /\ r \in Before
      BY <1>1, <1>4, <1>7 DEF Unbound, Before, Queues
    <2>2. r \notin Range(prefilling) /\ r \notin new /\ r \notin Range(waiting)
      BY <1>1, <2>1 DEF Queues, Queued
    <2>3. \A x \in Slots : slotReq[x] # r BY <1>1, <1>8, <2>1 DEF Placed
    <2>4. \A x \in Slots : dev[x] # r BY <1>1, <1>8, <2>1 DEF Lists
    <2> QED BY <2>1, <2>2, <2>3, <2>4
  <1>10. /\ prefilling' \in Seq(Requests) /\ IsInjective(prefilling')
         /\ Range(prefilling') = IF whole THEN Range(prefilling) ELSE Range(prefilling) \cup {r}
    <2>1. CASE Bound < Len(Prompt[r]) - 1
      <3>1. ~ whole BY <1>2, <1>5, <2>1
      <3> QED BY <1>1, <1>2, <1>3, <1>9, <2>1, <3>1, AppendProperties, AppendRange, AppendOnce DEF Queues
    <2>2. CASE ~ (Bound < Len(Prompt[r]) - 1)
      <3>1. whole BY <1>2, <1>5, <2>2
      <3> QED BY <1>1, <1>3, <2>2, <3>1 DEF Queues
    <2> QED BY <2>1, <2>2
  <1>11. whole => c = Wanted(r)
    <2> SUFFICES ASSUME whole PROVE c = Wanted(r) OBVIOUS
    <2>1. Bound = Len(Wanted(r)) BY <1>2, <1>5
    <2> QED BY <1>5, <2>1, TakeAll
  <1>12. ~ whole => Len(c) < Len(Wanted(r)) BY <1>2, <1>5, <1>6
  <1> HIDE DEF whole
  <1>13. Unbound' = Unbound \ {r} /\ Before' = Before \ {r}
    BY <1>3, <1>4, <1>7, <1>9 DEF Unbound, Before
  <1>14. Going' = IF whole THEN Going \cup {r} ELSE Going
    BY <1>3, <1>9, <1>10, <1>13 DEF Going
  <1>15. Queues' BY <1>1, <1>3, <1>4, <1>7, <1>9, <1>10, <1>13 DEF Queues, Queued
  <1>16. Typed' BY <1>1, <1>2, <1>3, <1>5, <1>6, <1>8 DEF Typed
  <1>17. slotReq'[s] = r /\ dev'[s] = r /\ kv'[s] = c /\ fed'[r] = c
    BY <1>1, <1>2, <1>3, <1>8 DEF Typed
  <1>18. ASSUME NEW x \in Slots, x # s
         PROVE  slotReq'[x] = slotReq[x] /\ dev'[x] = dev[x] /\ kv'[x] = kv[x]
    BY <1>1, <1>2, <1>3, <1>18 DEF Typed
  <1>19. \A q \in Requests : q # r => fed'[q] = fed[q] /\ next'[q] = next[q] BY <1>1, <1>3 DEF Typed
  <1>20. Placed'
    <2>1. \A x \in Slots : slotReq'[x] = IF x = s THEN r ELSE slotReq[x] BY <1>17, <1>18
    <2>2. Range(running') \ Unbound' = (Range(running) \ Unbound) \cup {r} BY <1>3, <1>9, <1>13
    <2>3. \A x, y \in Slots : slotReq'[x] = slotReq'[y] /\ slotReq'[x] # None => x = y
      BY <1>1, <1>9, <2>1 DEF Placed
    <2>4. \A x \in Slots : slotReq'[x] # None => slotReq'[x] \in Range(running') \ Unbound'
      BY <1>1, <2>1, <2>2 DEF Placed
    <2>5. \A q \in Range(running') \ Unbound' : \E x \in Slots : slotReq'[x] = q
      <3>1. ASSUME NEW q \in Range(running) \ Unbound PROVE \E x \in Slots : slotReq'[x] = q
        <4>1. PICK x \in Slots : slotReq[x] = q BY <1>1 DEF Placed
        <4>2. q # None BY <1>1, RequestsAssumption, RangeIs DEF Queues
        <4>3. x # s BY <1>8, <4>1, <4>2
        <4> QED BY <2>1, <4>1, <4>3
      <3> QED BY <1>8, <1>17, <2>2, <3>1
    <2> QED BY <2>3, <2>4, <2>5 DEF Placed
  <1>21. ASSUME NEW x \in Slots
         PROVE  /\ slotReq'[x] # None => kv'[x] = Row(x)' /\ dev'[x] \in {slotReq'[x], None}
                /\ slotReq'[x] = None /\ dev'[x] # None => IsPrefix(fed'[dev'[x]], kv'[x])
                /\ dev'[x] # None => /\ dev'[x] \notin Before'
                                     /\ dev'[x] \in Range(running') => slotReq'[x] = dev'[x]
    <2>1. CASE x = s
      <3>1. Row(x)' = c BY <1>3, <1>4, <1>17, <2>1 DEF Row
      <3> QED BY <1>8, <1>13, <1>17, <2>1, <3>1
    <2>2. CASE x # s
      <3>1. slotReq'[x] = slotReq[x] /\ dev'[x] = dev[x] /\ kv'[x] = kv[x] BY <1>18, <2>2
      <3>2. slotReq[x] \in Requests \cup {None} /\ dev[x] \in Requests \cup {None} BY <1>1 DEF Typed
      <3>3. slotReq[x] # None => kv[x] = fed[slotReq[x]] /\ dev[x] \in {slotReq[x], None}
        BY <1>1, <1>4 DEF Filled, Row
      <3>4. slotReq[x] # None => fed'[slotReq[x]] = fed[slotReq[x]] BY <1>9, <1>19, <3>2
      <3>5. dev[x] # None => fed'[dev[x]] = fed[dev[x]] BY <1>9, <1>19, <3>2
      <3>6. slotReq'[x] # None => kv'[x] = Row(x)' /\ dev'[x] \in {slotReq'[x], None}
        BY <1>3, <1>4, <3>1, <3>3, <3>4 DEF Row
      <3>7. slotReq'[x] = None /\ dev'[x] # None => IsPrefix(fed'[dev'[x]], kv'[x])
        BY <1>1, <3>1, <3>5 DEF Filled
      <3>8. dev[x] # None => dev[x] \notin Before /\ (dev[x] \in Range(running) => slotReq[x] = dev[x])
        BY <1>1 DEF Lists
      <3> QED BY <1>3, <1>13, <3>1, <3>6, <3>7, <3>8
    <2> QED BY <2>1, <2>2
  <1>22. Filled' /\ Lists' BY <1>21 DEF Filled, Lists
  <1>23. Planned' /\ Emitting' BY <1>3, <1>4 DEF Planned, Emitting
  <1>24. ASSUME NEW q \in Requests PROVE SpokenOf(q)'
    <2>1. SpokenOf(q) BY <1>1 DEF Spoken
    <2>2. CASE q # r
      <3>1. (q \in Range(prefilling') => q \in Range(prefilling)) /\ (q \in Going' => q \in Going)
        BY <1>10, <1>14, <2>2
      <3> QED BY <1>3, <1>13, <1>19, <2>1, <2>2, <3>1, SpokenStays
    <2>3. CASE q = r
      <3>1. out[q] = <<>> /\ out' = out /\ finish' = finish BY <1>3, <1>9, <2>1, <2>3 DEF SpokenOf
      <3>2. next'[q] = Last(Prompt[q]) /\ next'[q] # None
        <4>1. next'[q] = Last(Prompt[r]) BY <1>1, <1>2, <1>3, <2>3 DEF Typed
        <4> QED BY <1>5, <2>3, <4>1, RequestsAssumption
      <3>3. q \notin Before' BY <1>13, <2>3
      <3>4. q \in Range(prefilling') => IsPrefix(fed'[q], Wanted(q)) /\ Len(fed'[q]) < Len(Wanted(q))
        BY <1>6, <1>9, <1>10, <1>12, <1>17, <2>3
      <3>5. q \in Going' => Append(fed'[q], next'[q]) = Prompt[q] \o <<>>
        <4>1. q \in Going' => whole BY <1>9, <1>14, <2>3 DEF Going
        <4>2. Prompt[q] \o <<>> = Prompt[q] BY <1>5, <2>3, ConcatEmptySeq
        <4> QED BY <1>5, <1>11, <1>17, <2>3, <3>2, <4>1, <4>2
      <3>6. Wanted(q)' = Wanted(q) BY DEF Wanted
      <3> QED BY <2>1, <3>1, <3>2, <3>3, <3>4, <3>5, <3>6 DEF SpokenOf
    <2> QED BY <2>2, <2>3
  <1> QED BY <1>3, <1>15, <1>16, <1>20, <1>22, <1>23, <1>24 DEF BatchInv, Spoken

LEMMA FeedBeginsInv ==
  ASSUME BatchInv, FeedBegins
  PROVE  BatchInv' /\ UNCHANGED <<out, finish>>
PROOF
  <1> USE DEF queue, reqs, slots, api
  <1>1. Queues /\ Typed /\ Placed /\ Filled /\ Lists /\ Planned /\ Spoken /\ Emitting BY DEF BatchInv
  <1>2. /\ phase = "bind" /\ phase' = "feed" /\ todo = <<>> /\ budget' \in {1, Budget}
        /\ UNCHANGED <<queue, reqs, slots, saved, new, cancelled, flush, todo, plan>>
    BY DEF FeedBegins
  <1>3. Range(todo) = {} BY <1>2 DEF Range
  <1>4. Unbound' = Unbound /\ Before' = Before /\ Going' = Going
    BY <1>2, <1>3 DEF Unbound, Before, Going
  <1>5. budget' \in 0..Budget BY <1>2, BatchAssumption
  <1>6. Queues' BY <1>1, <1>2, <1>4 DEF Queues, Queued
  <1>7. Typed' BY <1>1, <1>2, <1>5 DEF Typed
  <1>8. Placed' BY <1>1, <1>2, <1>4 DEF Placed
  <1>9. Filled' BY <1>1, <1>2 DEF Filled, Row
  <1>10. Lists' BY <1>1, <1>2, <1>4 DEF Lists
  <1>11. Planned' /\ Emitting' BY <1>1, <1>2 DEF Planned, Emitting
  <1>12. Spoken' BY <1>1, <1>2, <1>4, SpokenStays DEF Spoken
  <1> QED BY <1>2, <1>6, <1>7, <1>8, <1>9, <1>10, <1>11, <1>12 DEF BatchInv

----------------------------------------------------------------------------
(* The next m tokens of a prompt that is being fed.                        *)
LEMMA PartIs ==
  ASSUME BatchInv, NEW r \in Range(prefilling), NEW m \in 0..Len(Feed(r))
  PROVE  /\ Len(Feed(r)) \in Nat \ {0} /\ Len(Feed(r)) = Len(Wanted(r)) - Len(fed[r])
         /\ fed[r] \in Seq(Tokens) /\ Len(fed[r]) + m \in 0..Len(Wanted(r))
         /\ Take(Feed(r), m) \in Seq(Tokens) /\ Len(Take(Feed(r), m)) = m
         /\ fed[r] \o Take(Feed(r), m) = Take(Wanted(r), Len(fed[r]) + m)
PROOF
  <1> DEFINE p == Prompt[r]
             W == Wanted(r)
             f == fed[r]
             j == Len(f)
             F == Feed(r)
             part == Take(F, m)
  <1>1. r \in Requests /\ SpokenOf(r) /\ Typed BY Basics DEF Spoken
  <1>2. f \in Seq(Tokens) /\ IsPrefix(f, W) /\ j < Len(W) BY <1>1 DEF SpokenOf, Typed
  <1>3. /\ p \in Seq(Tokens) /\ Len(p) \in Nat \ {0} /\ W \in Seq(Tokens) /\ Len(W) = Len(p) - 1
        /\ \A k \in 0..Len(W) : Take(p, k) = Take(W, k)
    BY <1>1, WantedIs
  <1>4. F = SubSeq(p, j + 1, Len(p) - 1) BY DEF Feed
  <1>5. m \in 0..Len(F) OBVIOUS
  <1> HIDE DEF p, W, f, F
  <1>6. j \in Nat /\ Len(p) \in Nat /\ Len(W) \in Nat BY <1>2, <1>3
  <1> HIDE DEF j
  <1>7. /\ F \in Seq(Tokens) /\ Len(F) = Len(p) - 1 - j
        /\ \A i \in 1..(Len(p) - 1 - j) : F[i] = p[j + i]
    <2> DEFINE i == j + 1
               k == Len(p) - 1
    <2>1. i \in Nat \ {0} /\ k \in Nat /\ i =< k + 1 /\ k =< Len(p) BY <1>2, <1>3, <1>6
    <2>2. k - i + 1 = Len(p) - 1 - j /\ \A n \in Nat : i - 1 + n = j + n BY <1>6
    <2>3. F = SubSeq(p, i, k) BY <1>4
    <2>4. p \in Seq(Tokens) BY <1>3
    <2> HIDE DEF i, k
    <2>5. F \in Seq(Tokens) /\ Len(F) = k - i + 1 /\ \A n \in 1..(k - i + 1) : F[n] = p[i - 1 + n]
      BY <2>1, <2>3, <2>4, PartOf
    <2> QED BY <2>2, <2>5
  <1>8. Len(F) = Len(W) - j /\ Len(F) \in Nat \ {0} /\ j + m \in 0..Len(W) BY <1>2, <1>3, <1>5, <1>6, <1>7
  <1>9. part \in Seq(Tokens) /\ Len(part) = m /\ \A i \in 1..m : part[i] = F[i] BY <1>5, <1>7, TakeIs
  <1>10. part = SubSeq(p, j + 1, j + m)
    <2> DEFINE sub == SubSeq(p, j + 1, j + m)
    <2>0. sub = SubSeq(p, j + 1, j + m) OBVIOUS
    <2> HIDE DEF sub
    <2>1. sub \in Seq(Tokens) /\ Len(sub) = m /\ \A n \in 1..m : sub[n] = p[j + n]
      <3> DEFINE i == j + 1
                 k == j + m
      <3>1. i \in Nat \ {0} /\ k \in Nat /\ i =< k + 1 /\ k =< Len(p) BY <1>3, <1>5, <1>6, <1>8
      <3>2. k - i + 1 = m /\ \A n \in Nat : i - 1 + n = j + n BY <1>5, <1>6, <1>8
      <3>3. sub = SubSeq(p, i, k) BY <2>0
      <3>4. p \in Seq(Tokens) BY <1>3
      <3> HIDE DEF i, k
      <3>5. sub \in Seq(Tokens) /\ Len(sub) = k - i + 1 /\ \A n \in 1..(k - i + 1) : sub[n] = p[i - 1 + n]
        BY <3>1, <3>3, <3>4, PartOf
      <3> QED BY <3>2, <3>5
    <2>2. \A i \in 1..m : part[i] = p[j + i] BY <1>5, <1>7, <1>8, <1>9
    <2>3. \A i \in 1..m : part[i] = sub[i] BY <2>1, <2>2
    <2>4. Len(part) = Len(sub) /\ Len(part) = m /\ part \in Seq(Tokens) /\ sub \in Seq(Tokens) BY <1>9, <2>1
    <2> HIDE DEF part
    <2>5. part = sub BY <2>3, <2>4, SeqEqual
    <2> QED BY <2>0, <2>5
  <1> HIDE DEF part
  <1>11. f \o part = Take(p, j + m)
    <2>1. 1 \in 1..(Len(p) + 1) /\ j \in (1 - 1)..Len(p) /\ j + m \in j..Len(p)
      BY <1>2, <1>3, <1>5, <1>6, <1>8
    <2>2. SubSeq(p, 1, j) \o SubSeq(p, j + 1, j + m) = SubSeq(p, 1, j + m)
      BY <1>3, <2>1, ConcatAdjacentSubSeq
    <2>3. f = Take(p, j)
      <3>1. f = Take(W, j) BY <1>2, <1>3, PrefixIs DEF j
      <3>2. j \in 0..Len(W) BY <1>2, <1>6
      <3> QED BY <1>3, <3>1, <3>2
    <2> QED BY <1>10, <2>2, <2>3 DEF Take
  <1>12. f \o part = Take(W, j + m) BY <1>3, <1>8, <1>11
  <1> QED BY <1>2, <1>8, <1>9, <1>12 DEF p, W, f, F, j, part

(* ... fed to it.                                                          *)
LEMMA FedIs ==
  ASSUME BatchInv, NEW r \in Range(prefilling), NEW m \in 0..Len(Feed(r)), Fed(r, Take(Feed(r), m)),
         Unbound = {}, Unbound' = {}, UNCHANGED <<waiting, running, new, next, out>>
  PROVE  /\ r \in Requests /\ prefilling' \in Seq(Requests) /\ IsInjective(prefilling')
         /\ Range(prefilling') \subseteq Range(prefilling) /\ Before' = Before
         /\ fed' \in [Requests -> Seq(Tokens)] /\ fed'[r] = fed[r] \o Take(Feed(r), m)
         /\ \A q \in Requests : q # r => fed'[q] = fed[q] /\ finish'[q] = finish[q]
         /\ finish' \in [Requests -> {None, "stop", "length", "abort", "error"}]
         /\ Promised /\ Spoken'
PROOF
  <1> DEFINE part == Take(Feed(r), m)
             W == Wanted(r)
  <1>1. Queues /\ Typed /\ Spoken /\ r \in Requests BY Basics
  <1>2. /\ fed' = [fed EXCEPT ![r] = @ \o part] /\ finish' = Finished({r} \cap cancelled, "abort")
        /\ prefilling' = IF Len(part) = Len(Feed(r)) \/ finish'[r] # None
                         THEN Without(prefilling, {r}) ELSE prefilling
    BY DEF Fed
  <1>3. /\ Len(Feed(r)) \in Nat \ {0} /\ Len(Feed(r)) = Len(W) - Len(fed[r])
        /\ fed[r] \in Seq(Tokens) /\ Len(fed[r]) + m \in 0..Len(W)
        /\ part \in Seq(Tokens) /\ Len(part) = m /\ fed[r] \o part = Take(W, Len(fed[r]) + m)
    BY PartIs
  <1>4. /\ W \in Seq(Tokens) /\ Prompt[r] \in Seq(Tokens) /\ Append(W, Last(Prompt[r])) = Prompt[r]
        /\ Last(Prompt[r]) \in Tokens
    BY <1>1, WantedIs
  <1> HIDE DEF part, W
  <1>5. /\ finish' \in [Requests -> {None, "stop", "length", "abort", "error"}] /\ Promised
        /\ \A q \in Requests : finish'[q] = None => finish[q] = None
    BY <1>2, FinishedIs
  <1>6. \A q \in Requests : q # r => finish'[q] = finish[q] BY <1>2 DEF Finished
  <1>7. fed[r] \o part \in Seq(Tokens) BY <1>3, ConcatProperties
  <1>8. /\ fed' \in [Requests -> Seq(Tokens)] /\ fed'[r] = fed[r] \o part
        /\ \A q \in Requests : q # r => fed'[q] = fed[q]
    BY <1>1, <1>2, <1>7 DEF Typed
  <1>9. /\ prefilling' \in Seq(Requests) /\ IsInjective(prefilling')
        /\ Range(prefilling') = IF m = Len(Feed(r)) \/ finish'[r] # None
                                THEN Range(prefilling) \ {r} ELSE Range(prefilling)
    <2>1. /\ Without(prefilling, {r}) \in Seq(Requests) /\ IsInjective(Without(prefilling, {r}))
          /\ Range(Without(prefilling, {r})) = Range(prefilling) \ {r}
      BY <1>1, WithoutIs DEF Queues
    <2> QED BY <1>1, <1>2, <1>3, <2>1 DEF Queues
  <1>10. Before' = Before BY DEF Before
  <1>11. ASSUME NEW q \in Requests PROVE SpokenOf(q)'
    <2>1. SpokenOf(q) BY <1>1 DEF Spoken
    <2>2. CASE q # r
      <3>1. (q \in Range(prefilling') => q \in Range(prefilling)) /\ (q \in Going' => q \in Going)
        BY <1>9, <2>2 DEF Going
      <3> QED BY <1>5, <1>6, <1>8, <1>10, <2>1, <2>2, <3>1, SpokenStays
    <2>3. CASE q = r
      <3>1. out[q] = <<>> /\ next[q] = Last(Prompt[q]) BY <2>1, <2>3 DEF SpokenOf
      <3>2. q \notin Before' BY <1>1, <1>10, <2>3 DEF Before, Queues, Queued
      <3>3. next[q] # None BY <1>4, <2>3, <3>1, RequestsAssumption
      <3>4. fed'[q] = Take(W, Len(fed[r]) + m) BY <1>3, <1>8, <2>3
      <3>5. q \in Range(prefilling') => IsPrefix(fed'[q], W) /\ Len(fed'[q]) < Len(W)
        <4> SUFFICES ASSUME q \in Range(prefilling') PROVE IsPrefix(fed'[q], W) /\ Len(fed'[q]) < Len(W)
          OBVIOUS
        <4>1. m # Len(Feed(r)) BY <1>9, <2>3
        <4>2. Len(fed'[q]) = Len(fed[r]) + m /\ IsPrefix(fed'[q], W)
          BY <1>3, <1>4, <3>4, TakeIs, TakePrefix
        <4>3. Len(fed[r]) \in Nat /\ Len(W) \in Nat BY <1>3, <1>4
        <4> QED BY <1>3, <4>1, <4>2, <4>3
      <3>6. q \in Going' /\ finish'[q] = None => Append(fed'[q], next[q]) = Prompt[q] \o out[q]
        <4> SUFFICES ASSUME q \in Going', finish'[q] = None
                     PROVE  Append(fed'[q], next[q]) = Prompt[q] \o out[q]
          OBVIOUS
        <4>1. q \notin Range(prefilling') BY DEF Going
        <4>2. m = Len(Feed(r)) BY <1>9, <2>3, <4>1
        <4>3. Len(fed[r]) \in Nat /\ Len(W) \in Nat BY <1>3, <1>4
        <4>4. Len(fed[r]) + m = Len(W) BY <1>3, <4>2, <4>3
        <4>5. fed'[q] = W BY <1>4, <3>4, <4>4, TakeAll
        <4>6. Prompt[q] \o out[q] = Prompt[q] BY <1>4, <2>3, <3>1, ConcatEmptySeq
        <4> QED BY <1>4, <2>3, <3>1, <4>5, <4>6
      <3>7. Wanted(q)' = Wanted(q) /\ Wanted(q) = W BY <2>3 DEF Wanted, W
      <3> QED BY <1>5, <2>1, <3>1, <3>2, <3>3, <3>5, <3>6, <3>7 DEF SpokenOf
    <2> QED BY <2>2, <2>3
  <1> QED BY <1>1, <1>5, <1>6, <1>8, <1>9, <1>10, <1>11 DEF Spoken, part

(* The slot of a request that is fed is no other's.                        *)
LEMMA FedSlot ==
  ASSUME BatchInv, NEW r \in Range(prefilling)
  PROVE  /\ SlotOf(r) \in Slots /\ slotReq[SlotOf(r)] = r /\ r # None /\ r \in Range(running)
         /\ phase # "emit" => kv[SlotOf(r)] = fed[r]
         /\ \A x \in Slots : x # SlotOf(r) => slotReq[x] # r /\ dev[x] # r
PROOF
  <1>1. Queues /\ Filled /\ Lists /\ r \in Requests /\ r # None BY Basics
  <1>2. r \in Range(running) /\ r \notin Unbound BY <1>1 DEF Queues
  <1>3. /\ SlotOf(r) \in Slots /\ slotReq[SlotOf(r)] = r
        /\ \A x \in Slots : slotReq[x] = r <=> x = SlotOf(r)
    BY <1>2, SlotIs
  <1>4. phase # "emit" => kv[SlotOf(r)] = fed[r] BY <1>1, <1>3 DEF Filled, Row
  <1>5. \A x \in Slots : dev[x] = r => slotReq[x] = r BY <1>1, <1>2 DEF Lists
  <1> QED BY <1>1, <1>2, <1>3, <1>4, <1>5

LEMMA PrefillRunInv ==
  ASSUME BatchInv, PrefillRun
  PROVE  BatchInv' /\ Promised
PROOF
  <1> DEFINE r == Head(prefilling)
             s == SlotOf(r)
             m == Min({Len(Feed(r)), Rows - (Len(kv[s]) % Rows)})
             part == Take(Feed(r), m)
  <1>1. Queues /\ Typed /\ Placed /\ Filled /\ Lists /\ Planned /\ Spoken /\ Emitting BY DEF BatchInv
  <1>2. /\ phase = "feed" /\ prefilling # <<>> /\ Fed(r, part) /\ kv' = [kv EXCEPT ![s] = @ \o part]
        /\ budget' = Max({0, budget - Len(part)})
        /\ UNCHANGED <<waiting, running, new, next, out, slotReq, dev, dirty, saved, cancelled, flush, phase,
                       todo, plan>>
    BY DEF PrefillRun, api
  <1>3. r \in Range(prefilling) BY <1>1, <1>2, TailRange DEF Queues
  <1>4. s \in Slots /\ slotReq[s] = r /\ kv[s] = fed[r] /\ r # None
        /\ \A x \in Slots : x # s => slotReq[x] # r /\ dev[x] # r
    BY <1>2, <1>3, FedSlot
  <1>5. m \in 0..Len(Feed(r))
    <2>1. Len(Feed(r)) \in Nat
      <3>1. 0 \in 0..0 /\ r \in Requests BY <1>3, Basics
      <3>2. Prompt[r] \in Seq(Tokens) /\ Len(fed[r]) \in Nat /\ Len(Prompt[r]) \in Nat \ {0}
        BY <1>1, <3>1, WantedIs DEF Typed
      <3> QED BY <3>2 DEF Feed
    <2> DEFINE at == Len(kv[s])
               room == Rows - (at % Rows)
    <2>2. room \in Nat
      <3>1. at \in Nat /\ Rows \in Nat \ {0} BY <1>1, <1>4, BatchAssumption DEF Typed
      <3> HIDE DEF at
      <3> QED BY <3>1
    <2> DEFINE most == Len(Feed(r))
    <2>3. m = Min({most, room}) /\ most \in Nat BY <2>1
    <2> HIDE DEF at, room, most, m
    <2>4. Min({most, room}) \in {most, room} /\ Min({most, room}) <= most
      <3>1. most \in Int /\ room \in Int BY <2>2, <2>3
      <3> QED BY <3>1, MinMax
    <2>5. m \in 0..most BY <2>2, <2>3, <2>4
    <2> QED BY <2>5 DEF most
  <1>6. part \in Seq(Tokens) /\ Len(part) = m BY <1>3, <1>5, PartIs
  <1> HIDE DEF r, s, m, part
  <1>7. budget' \in 0..Budget
    <2>1. budget \in 0..Budget /\ Len(part) \in Nat /\ Budget \in Nat BY <1>1, <1>6, BatchAssumption DEF Typed
    <2> DEFINE left == budget - Len(part)
    <2>2. left \in Int /\ left <= Budget BY <2>1
    <2> HIDE DEF left
    <2>3. budget' \in {0, left} /\ budget' >= 0
      <3>1. budget' = Max({0, left}) BY <1>2 DEF left
      <3>2. 0 \in Int OBVIOUS
      <3>3. Max({0, left}) \in {0, left} /\ Max({0, left}) >= 0 BY <2>2, <3>2, MinMax
      <3> QED BY <3>1, <3>3
    <2> QED BY <2>1, <2>2, <2>3
  <1>8. Unbound = {} /\ Unbound' = {} BY <1>2 DEF Unbound
  <1>9. /\ r \in Requests /\ prefilling' \in Seq(Requests) /\ IsInjective(prefilling')
        /\ Range(prefilling') \subseteq Range(prefilling) /\ Before' = Before
        /\ fed' \in [Requests -> Seq(Tokens)] /\ fed'[r] = fed[r] \o part
        /\ \A q \in Requests : q # r => fed'[q] = fed[q] /\ finish'[q] = finish[q]
        /\ finish' \in [Requests -> {None, "stop", "length", "abort", "error"}]
        /\ Promised /\ Spoken'
    BY <1>2, <1>3, <1>5, <1>8, FedIs DEF part
  <1>10. kv[s] \o part \in Seq(Tokens) BY <1>1, <1>4, <1>6, ConcatProperties DEF Typed
  <1>11. /\ kv' \in [Slots -> Seq(Tokens)] /\ kv'[s] = kv[s] \o part
         /\ \A x \in Slots : x # s => kv'[x] = kv[x]
    BY <1>1, <1>2, <1>4, <1>10 DEF Typed
  <1>12. Queues' BY <1>1, <1>2, <1>8, <1>9 DEF Queues, Queued
  <1>13. Typed' BY <1>1, <1>2, <1>7, <1>9, <1>11 DEF Typed
  <1>14. Placed' BY <1>1, <1>2, <1>8 DEF Placed
  <1>15. ASSUME NEW x \in Slots
         PROVE  /\ slotReq'[x] # None => kv'[x] = Row(x)' /\ dev'[x] \in {slotReq'[x], None}
                /\ slotReq'[x] = None /\ dev'[x] # None => IsPrefix(fed'[dev'[x]], kv'[x])
    <2>1. slotReq[x] \in Requests \cup {None} /\ dev[x] \in Requests \cup {None} BY <1>1 DEF Typed
    <2>2. slotReq[x] # None => kv[x] = fed[slotReq[x]] /\ dev[x] \in {slotReq[x], None}
      BY <1>1, <1>2 DEF Filled, Row
    <2>3. Row(x)' = fed'[slotReq[x]] BY <1>2 DEF Row
    <2>4. slotReq[x] # None => kv'[x] = fed'[slotReq[x]] BY <1>4, <1>9, <1>11, <2>1, <2>2
    <2>5. slotReq[x] = None /\ dev[x] # None => IsPrefix(fed'[dev[x]], kv'[x])
      BY <1>1, <1>4, <1>9, <1>11, <2>1 DEF Filled
    <2> QED BY <1>2, <2>2, <2>3, <2>4, <2>5
  <1>16. Filled' BY <1>15 DEF Filled
  <1>17. Lists' BY <1>1, <1>2, <1>9 DEF Lists
  <1>18. Planned' /\ Emitting' BY <1>1, <1>2 DEF Planned, Emitting
  <1> QED BY <1>9, <1>12, <1>13, <1>14, <1>16, <1>17, <1>18 DEF BatchInv

(* The requests that a step decodes, each by its slot.                     *)
LEMMA InSlotOrderIs ==
  ASSUME BatchInv, Unbound = {}
  PROVE  /\ InSlotOrder(Decoding) \in Seq(Requests) /\ IsInjective(InSlotOrder(Decoding))
         /\ Range(InSlotOrder(Decoding)) = Decoding
PROOF
  <1> DEFINE q == [n \in 1..B |-> slotReq[n - 1]]
             S == (Requests \cup {None}) \ Decoding
  <1>1. Queues /\ Typed /\ Placed /\ Range(running) \subseteq Requests /\ None \notin Requests
    BY Basics, RangeIs DEF Queues
  <1>2. B \in Nat BY BatchAssumption
  <1>3. \A n \in 1..B : n - 1 \in Slots /\ slotReq[n - 1] \in Requests \cup {None}
    BY <1>1, <1>2 DEF Slots, Typed
  <1>4. q \in Seq(Requests \cup {None}) /\ Len(q) = B /\ \A n \in 1..B : q[n] = slotReq[n - 1]
    BY <1>2, <1>3
  <1>5. Decoding \subseteq Range(running) BY DEF Decoding
  <1>6. InSlotOrder(Decoding) = Without(q, S) BY DEF InSlotOrder
  <1> HIDE DEF q, S
  <1>7. OnceBut(q, S)
    <2> SUFFICES ASSUME NEW i \in 1..B, NEW j \in 1..B, q[i] = q[j], q[i] \notin S PROVE i = j
      BY <1>4 DEF OnceBut
    <2>1. i - 1 \in Slots /\ j - 1 \in Slots /\ slotReq[i - 1] = slotReq[j - 1] BY <1>3, <1>4
    <2>2. slotReq[i - 1] # None
      <3>1. q[i] \in Decoding BY <1>3, <1>4 DEF S
      <3> QED BY <1>1, <1>4, <1>5, <3>1
    <2>3. i - 1 = j - 1 BY <1>1, <2>1, <2>2 DEF Placed
    <2> QED BY <1>2, <2>3
  <1>8. Without(q, S) \in Seq(Requests \cup {None}) /\ Range(Without(q, S)) = Range(q) \ S
        /\ IsInjective(Without(q, S))
    BY <1>4, <1>7, WithoutIs
  <1>9. Range(q) \ S = Decoding
    <2>1. Range(q) = {q[n] : n \in 1..B} /\ Range(q) \subseteq Requests \cup {None} BY <1>4, RangeIs
    <2>2. ASSUME NEW r \in Decoding PROVE r \in Range(q)
      <3>1. PICK s \in Slots : slotReq[s] = r BY <1>1, <1>5 DEF Placed
      <3>2. s + 1 \in 1..B /\ (s + 1) - 1 = s BY <1>2 DEF Slots
      <3>3. q[s + 1] = r BY <1>4, <3>1, <3>2
      <3> QED BY <2>1, <3>2, <3>3
    <2> QED BY <2>1, <2>2 DEF S
  <1>10. Range(Without(q, S)) \subseteq Requests BY <1>1, <1>5, <1>8, <1>9
  <1>11. Without(q, S) \in Seq(Requests) BY <1>8, <1>10, SeqWithin
  <1> QED BY <1>6, <1>8, <1>9, <1>11

LEMMA StepInv ==
  ASSUME BatchInv, Step
  PROVE  BatchInv' /\ UNCHANGED <<out, finish>>
PROOF
  <1> USE DEF queue, reqs
  <1>1. Queues /\ Typed /\ Placed /\ Filled /\ Lists /\ Planned /\ Spoken /\ Emitting BY DEF BatchInv
  <1>2. PICK pads \in SUBSET Free : kv' = Stepped(pads)
    BY DEF Step
  <1>3. /\ phase = "feed" /\ phase' = "emit" /\ todo' = InSlotOrder(Decoding)
        /\ UNCHANGED <<queue, reqs, slotReq, dev, dirty, saved, new, cancelled, flush, plan, budget>>
    BY DEF Step, api
  <1>4. Unbound = {} /\ Unbound' = {} BY <1>3 DEF Unbound
  <1>5. todo' \in Seq(Requests) /\ IsInjective(todo') /\ Range(todo') = Decoding
    BY <1>3, <1>4, InSlotOrderIs
  <1>6. Before' = Before /\ Going' = Going BY <1>3, <1>4 DEF Before, Going
  <1>7. Decoding \subseteq Range(running) BY DEF Decoding
  <1>8. Queues' BY <1>1, <1>3, <1>4, <1>5, <1>7 DEF Queues, Queued
  <1>9. ASSUME NEW x \in Slots
        PROVE  /\ kv'[x] \in Seq(Tokens)
               /\ slotReq'[x] # None => kv'[x] = Row(x)' /\ dev'[x] \in {slotReq'[x], None}
               /\ slotReq'[x] = None /\ dev'[x] # None => IsPrefix(fed'[dev'[x]], kv'[x])
    <2>1. kv'[x] = IF slotReq[x] \in Decoding THEN Append(kv[x], next[slotReq[x]])
                   ELSE IF x \in pads THEN Append(kv[x], Garbage) ELSE kv[x]
      BY <1>2 DEF Stepped, Padded
    <2>2. kv[x] \in Seq(Tokens) /\ slotReq[x] \in Requests \cup {None} /\ dev[x] \in Requests \cup {None}
      BY <1>1 DEF Typed
    <2>3. slotReq[x] # None => kv[x] = fed[slotReq[x]] /\ dev[x] \in {slotReq[x], None}
      BY <1>1, <1>3 DEF Filled, Row
    <2>4. CASE slotReq[x] \in Decoding
      <3>1. slotReq[x] \in Requests /\ slotReq[x] # None
        BY <1>1, <1>7, <2>4, RangeIs, RequestsAssumption DEF Queues
      <3>2. next[slotReq[x]] \in Tokens BY <1>1, <2>4, <3>1 DEF Decoding, Typed
      <3>3. kv'[x] = Append(fed[slotReq[x]], next[slotReq[x]]) BY <2>1, <2>3, <2>4, <3>1
      <3>4. Row(x)' = Append(fed[slotReq[x]], next[slotReq[x]]) BY <1>3, <1>5, <2>4 DEF Row
      <3>5. kv'[x] \in Seq(Tokens) BY <2>1, <2>2, <2>4, <3>2, AppendProperties
      <3> QED BY <1>3, <2>3, <3>1, <3>3, <3>4, <3>5
    <2>5. CASE slotReq[x] \notin Decoding /\ slotReq[x] # None
      <3>1. x \notin pads BY <1>2, <2>5 DEF Free
      <3>2. kv'[x] = kv[x] BY <2>1, <2>5, <3>1
      <3>3. Row(x)' = fed[slotReq[x]] BY <1>3, <1>5, <2>5 DEF Row
      <3> QED BY <1>3, <2>2, <2>3, <2>5, <3>2, <3>3
    <2>6. CASE slotReq[x] = None
      <3>1. slotReq[x] \notin Decoding
        BY <1>1, <1>7, <2>6, RangeIs, RequestsAssumption DEF Queues
      <3>2. kv'[x] = Append(kv[x], Garbage) \/ kv'[x] = kv[x] BY <2>1, <3>1
      <3>3. Garbage \in Tokens BY RequestsAssumption
      <3>4. kv'[x] \in Seq(Tokens) BY <2>2, <3>2, <3>3, AppendProperties
      <3>5. ASSUME dev[x] # None PROVE IsPrefix(fed[dev[x]], kv'[x])
        <4>1. IsPrefix(fed[dev[x]], kv[x]) /\ fed[dev[x]] \in Seq(Tokens)
          BY <1>1, <2>2, <2>6, <3>5 DEF Filled, Typed
        <4> QED BY <2>2, <3>2, <3>3, <4>1, PrefixGrows
      <3> QED BY <1>3, <2>6, <3>4, <3>5
    <2> QED BY <2>4, <2>5, <2>6
  <1>10. Filled' BY <1>9 DEF Filled
  <1>11. kv' \in [Slots -> Seq(Tokens)]
    <2>1. kv' = [x \in Slots |-> kv'[x]] BY <1>2 DEF Stepped
    <2> QED BY <1>9, <2>1
  <1>12. Typed' BY <1>1, <1>3, <1>11 DEF Typed
  <1>13. Placed' BY <1>1, <1>3, <1>4 DEF Placed
  <1>14. Lists' BY <1>1, <1>3, <1>6 DEF Lists
  <1>15. Planned' BY <1>1, <1>3 DEF Planned
  <1>16. Emitting' BY <1>3, <1>5 DEF Emitting, Decoding
  <1>17. Spoken' BY <1>1, <1>3, <1>6, SpokenStays DEF Spoken
  <1> QED BY <1>3, <1>8, <1>10, <1>12, <1>13, <1>14, <1>15, <1>16, <1>17 DEF BatchInv

LEMMA MixedStepInv ==
  ASSUME BatchInv, MixedStep
  PROVE  BatchInv' /\ Promised
PROOF
  <1> DEFINE r == Head(prefilling)
             s == SlotOf(r)
  <1>1. Queues /\ Typed /\ Placed /\ Filled /\ Lists /\ Planned /\ Spoken /\ Emitting BY DEF BatchInv
  <1>2. /\ phase = "bind" /\ phase' = "emit" /\ todo = <<>> /\ todo' = InSlotOrder(Decoding)
        /\ prefilling # <<>> /\ Cardinality(Decoding) \in 1..(Rows - 1)
        /\ UNCHANGED <<waiting, running, new, next, out, slotReq, dev, dirty, saved, cancelled, flush,
                       plan, budget>>
    BY DEF MixedStep, api
  <1>3. PICK k \in 1..Min({Rows - Cardinality(Decoding), Len(Feed(r))}) :
          /\ kv' = [Stepped({}) EXCEPT ![s] = @ \o Take(Feed(r), k)]
          /\ Fed(r, Take(Feed(r), k))
    BY DEF MixedStep
  <1>4. r \in Range(prefilling) BY <1>1, <1>2, TailRange DEF Queues
  <1>5. s \in Slots /\ slotReq[s] = r /\ kv[s] = fed[r] /\ r # None
        /\ \A x \in Slots : x # s => slotReq[x] # r /\ dev[x] # r
    BY <1>2, <1>4, FedSlot
  <1>6. k \in 0..Len(Feed(r))
    <2> DEFINE most == Len(Feed(r))
               room == Rows - Cardinality(Decoding)
    <2>1. most \in Nat
      <3>1. r \in Requests BY <1>4, Basics
      <3>2. Prompt[r] \in Seq(Tokens) /\ Len(fed[r]) \in Nat /\ Len(Prompt[r]) \in Nat \ {0}
        BY <1>1, <3>1, WantedIs DEF Typed
      <3> QED BY <3>2 DEF Feed
    <2>2. room \in Nat BY <1>2, BatchAssumption
    <2>3. k \in 1..Min({room, most}) BY <1>3
    <2> HIDE DEF most, room
    <2>4. Min({room, most}) \in {room, most} /\ Min({room, most}) <= most
      <3>1. most \in Int /\ room \in Int BY <2>1, <2>2
      <3> QED BY <3>1, MinMax
    <2>5. k \in 0..most BY <2>1, <2>2, <2>3, <2>4
    <2> QED BY <2>5 DEF most
  <1> DEFINE part == Take(Feed(r), k)
  <1>7. part \in Seq(Tokens) BY <1>4, <1>6, PartIs
  <1> HIDE DEF r, s, part
  <1>8. Unbound = {} /\ Unbound' = {}
    <2>1. Range(<<>>) = {} BY DEF Range
    <2> QED BY <1>2, <2>1 DEF Unbound
  <1>9. /\ r \in Requests /\ prefilling' \in Seq(Requests) /\ IsInjective(prefilling')
        /\ Range(prefilling') \subseteq Range(prefilling) /\ Before' = Before
        /\ fed' \in [Requests -> Seq(Tokens)] /\ fed'[r] = fed[r] \o part
        /\ \A q \in Requests : q # r => fed'[q] = fed[q] /\ finish'[q] = finish[q]
        /\ finish' \in [Requests -> {None, "stop", "length", "abort", "error"}]
        /\ Promised /\ Spoken'
    BY <1>2, <1>3, <1>4, <1>6, <1>8, FedIs DEF part
  <1>10. todo' \in Seq(Requests) /\ IsInjective(todo') /\ Range(todo') = Decoding
    BY <1>2, <1>8, InSlotOrderIs
  <1>11. Decoding \subseteq Range(running) /\ r \notin Decoding BY <1>4 DEF Decoding
  <1>12. Queues' BY <1>1, <1>2, <1>8, <1>9, <1>10, <1>11 DEF Queues, Queued
  <1>13. kv[s] \o part \in Seq(Tokens) BY <1>1, <1>5, <1>7, ConcatProperties DEF Typed
  <1>14. ASSUME NEW x \in Slots
         PROVE  kv'[x] = IF slotReq[x] \in Decoding THEN Append(kv[x], next[slotReq[x]])
                         ELSE IF x = s THEN kv[x] \o part ELSE kv[x]
    <2>1. Stepped({})[x] = IF slotReq[x] \in Decoding THEN Append(kv[x], next[slotReq[x]]) ELSE kv[x]
      BY DEF Stepped
    <2>2. kv'[x] = IF x = s THEN Stepped({})[x] \o part ELSE Stepped({})[x]
      <3>1. x \in DOMAIN Stepped({}) BY DEF Stepped
      <3> QED BY <1>3, <3>1 DEF part
    <2> QED BY <1>5, <1>11, <2>1, <2>2
  <1>15. ASSUME NEW x \in Slots
         PROVE  /\ kv'[x] \in Seq(Tokens)
                /\ slotReq'[x] # None => kv'[x] = Row(x)' /\ dev'[x] \in {slotReq'[x], None}
                /\ slotReq'[x] = None /\ dev'[x] # None => IsPrefix(fed'[dev'[x]], kv'[x])
    <2>1. kv[x] \in Seq(Tokens) /\ slotReq[x] \in Requests \cup {None} /\ dev[x] \in Requests \cup {None}
      BY <1>1 DEF Typed
    <2>2. slotReq[x] # None => kv[x] = fed[slotReq[x]] /\ dev[x] \in {slotReq[x], None}
      BY <1>1, <1>2 DEF Filled, Row
    <2>3. CASE slotReq[x] \in Decoding
      <3>1. slotReq[x] \in Requests /\ slotReq[x] # None /\ slotReq[x] # r
        <4>1. Range(running) \subseteq Requests /\ None \notin Requests BY Basics DEF Queued
        <4> QED BY <1>11, <2>3, <4>1
      <3>2. next[slotReq[x]] \in Tokens BY <1>1, <2>3, <3>1 DEF Decoding, Typed
      <3>3. kv'[x] = Append(fed[slotReq[x]], next[slotReq[x]]) BY <1>14, <2>2, <2>3, <3>1
      <3>4. Row(x)' = Append(fed'[slotReq[x]], next[slotReq[x]]) BY <1>2, <1>10, <2>3 DEF Row
      <3>5. kv'[x] \in Seq(Tokens)
        <4>1. kv'[x] = Append(kv[x], next[slotReq[x]]) BY <1>14, <2>3
        <4> QED BY <2>1, <3>2, <4>1, AppendProperties
      <3> QED BY <1>2, <1>9, <2>2, <3>1, <3>3, <3>4, <3>5
    <2>4. CASE slotReq[x] \notin Decoding
      <3>1. kv'[x] = IF x = s THEN kv[s] \o part ELSE kv[x] BY <1>14, <2>4
      <3>2. kv'[x] \in Seq(Tokens) BY <1>13, <2>1, <3>1
      <3>3. Row(x)' = fed'[slotReq[x]] BY <1>2, <1>10, <2>4 DEF Row
      <3>4. slotReq[x] # None => kv'[x] = fed'[slotReq[x]] BY <1>5, <1>9, <2>1, <2>2, <3>1
      <3>5. slotReq[x] = None /\ dev[x] # None => IsPrefix(fed'[dev[x]], kv'[x])
        BY <1>1, <1>5, <1>9, <2>1, <3>1 DEF Filled
      <3> QED BY <1>2, <2>2, <3>2, <3>3, <3>4, <3>5
    <2> QED BY <2>3, <2>4
  <1>16. Filled' BY <1>15 DEF Filled
  <1>17. kv' \in [Slots -> Seq(Tokens)]
    <2>1. kv' = [x \in Slots |-> kv'[x]] BY <1>3 DEF Stepped
    <2> QED BY <1>15, <2>1
  <1>18. Typed' BY <1>1, <1>2, <1>9, <1>17 DEF Typed
  <1>19. Placed' BY <1>1, <1>2, <1>8 DEF Placed
  <1>20. Lists' BY <1>1, <1>2, <1>9 DEF Lists
  <1>21. Planned'
    <2>1. plan = None BY <1>1, <1>2 DEF Planned
    <2> QED BY <1>2, <2>1 DEF Planned
  <1>22. Emitting'
    <2>1. ASSUME NEW q \in Decoding PROVE q \in Decoding'
      <3>1. q \in Requests /\ q # r BY <1>1, <1>11, RangeIs DEF Queues
      <3> QED BY <1>2, <1>9, <3>1 DEF Decoding
    <2> QED BY <1>10, <2>1 DEF Emitting
  <1> QED BY <1>9, <1>12, <1>16, <1>18, <1>19, <1>20, <1>21, <1>22 DEF BatchInv

----------------------------------------------------------------------------
(* A reply that nothing has ended yet goes on, and the model says how.     *)
LEMMA SaysNext ==
  ASSUME NEW r \in Requests, NEW words \in Seq(Tokens), IsPrefix(words, Reply[r]),
         Len(words) < MaxNew[r], \A i \in 1..Len(words) : words[i] \notin StopIds
  PROVE  LET t == Says(Prompt[r] \o words)
         IN /\ t = Reply[r][Len(words) + 1] /\ t \in Tokens /\ IsPrefix(Append(words, t), Reply[r])
PROOF
  <1> DEFINE n == Len(words)
  <1>1. Reply[r] \in Seq(Tokens) /\ Reply[r] # <<>> /\ MaxNew[r] \in Nat
    BY RequestsAssumption
  <1>2. Last(Reply[r]) \in StopIds \/ Len(Reply[r]) >= MaxNew[r]
    BY RequestsAssumption
  <1>3. ASSUME NEW w, w = Reply[r]
        PROVE  /\ n \in 0..(Len(w) - 1) /\ words = Take(w, n)
               /\ w[n + 1] \in Tokens /\ IsPrefix(Append(words, w[n + 1]), w)
    <2>1. w \in Seq(Tokens) /\ w # <<>> /\ IsPrefix(words, w) BY <1>1, <1>3
    <2>2. Last(w) \in StopIds \/ Len(w) >= MaxNew[r] BY <1>2, <1>3
    <2>3. Len(words) < MaxNew[r] /\ MaxNew[r] \in Nat BY <1>1
    <2>4. \A i \in 1..Len(words) : words[i] \notin StopIds OBVIOUS
    <2> QED BY <2>1, <2>2, <2>3, <2>4, ReplyGoesOn
  <1>4. /\ n \in 0..(Len(Reply[r]) - 1) /\ words = Take(Reply[r], n)
        /\ Reply[r][n + 1] \in Tokens /\ IsPrefix(Append(words, Reply[r][n + 1]), Reply[r])
    BY <1>3
  <1>5. Says(Prompt[r] \o Take(Reply[r], n)) = Reply[r][n + 1] BY <1>4, ModelAssumption
  <1> QED BY <1>4, <1>5

LEMMA ContextGrows ==
  ASSUME NEW r \in Requests, NEW words \in Seq(Tokens), NEW t \in Tokens
  PROVE  Append(Prompt[r] \o words, t) = Prompt[r] \o Append(words, t)
PROOF
  <1>1. Prompt[r] \in Seq(Tokens) BY RequestsAssumption
  <1>2. ASSUME NEW p \in Seq(Tokens) PROVE Append(p \o words, t) = p \o Append(words, t)
    BY AppendLast, SMTT(40)
  <1> QED BY <1>1, <1>2

(* The token picked after a context is its reply's next.                   *)
LEMMA EmitsIs ==
  ASSUME BatchInv, NEW r \in Range(running), r \notin Range(prefilling), finish[r] = None,
         phase \in {"feed", "card", "emit"}, phase' \notin {"bind"},
         NEW c, c = Append(fed[r], next[r]), Emits(r, Says(c)),
         UNCHANGED <<waiting, running, prefilling, new>>
  PROVE  /\ r \in Requests /\ next[r] \in Tokens /\ c \in Seq(Tokens)
         /\ fed' \in [Requests -> Seq(Tokens)] /\ next' \in [Requests -> Tokens \cup {None}]
         /\ out' \in [Requests -> Seq(Tokens)]
         /\ finish' \in [Requests -> {None, "stop", "length", "abort", "error"}]
         /\ fed'[r] = c /\ \A q \in Requests : q # r => /\ fed'[q] = fed[q] /\ next'[q] = next[q]
                                                        /\ finish'[q] = finish[q]
         /\ Before' = Before /\ Spoken' /\ Promised
PROOF
  <1> DEFINE t == Says(c)
             words == Words(out[r], t)
             fin == Finish(out[r], t, r)
             long == Len(out[r]) + 1 >= MaxNew[r]
             said == Append(out[r], t)
  <1>1. Queues /\ Typed /\ Spoken /\ r \in Requests BY Basics DEF Queued
  <1>2. Unbound = {} /\ Unbound' = {} /\ Before' = Before /\ Going' = Going /\ r \in Going
    BY DEF Unbound, Before, Going
  <1>3. /\ fed \in [Requests -> Seq(Tokens)] /\ next \in [Requests -> Tokens \cup {None}]
        /\ out \in [Requests -> Seq(Tokens)]
        /\ finish \in [Requests -> {None, "stop", "length", "abort", "error"}]
        /\ out[r] \in Seq(Tokens) /\ Prompt[r] \in Seq(Tokens) /\ MaxNew[r] \in Nat
        /\ next[r] \in Tokens /\ fed[r] \in Seq(Tokens)
    BY <1>1, <1>2, RequestsAssumption DEF Typed, Spoken, SpokenOf
  <1>4. /\ IsPrefix(out[r], Reply[r]) /\ Len(out[r]) < MaxNew[r]
        /\ \A i \in 1..Len(out[r]) : out[r][i] \notin StopIds
        /\ c = Prompt[r] \o out[r]
    BY <1>1, <1>2 DEF Spoken, SpokenOf
  <1>5. t = Reply[r][Len(out[r]) + 1] /\ t \in Tokens /\ IsPrefix(said, Reply[r])
    <2> DEFINE u == Says(Prompt[r] \o out[r])
    <2>1. u = Reply[r][Len(out[r]) + 1] /\ u \in Tokens /\ IsPrefix(Append(out[r], u), Reply[r])
      BY <1>1, <1>3, <1>4, SaysNext
    <2>2. t = u BY <1>4
    <2> HIDE DEF t, u
    <2> QED BY <2>1, <2>2
  <1>6. c \in Seq(Tokens) BY <1>3, AppendProperties
  <1>7. /\ fed' = [fed EXCEPT ![r] = c] /\ out' = [out EXCEPT ![r] = words]
        /\ next' = [next EXCEPT ![r] = IF t \in StopIds THEN None ELSE t]
        /\ finish' = [finish EXCEPT ![r] = fin]
    BY <1>3 DEF Emits
  <1>8. None \notin {"stop", "length"} /\ t # None BY <1>5, RequestsAssumption
  <1>9. /\ said \in Seq(Tokens) /\ Len(said) = Len(out[r]) + 1 /\ said[Len(out[r]) + 1] = t
        /\ \A i \in 1..Len(out[r]) : said[i] = out[r][i]
    BY <1>3, <1>5, AppendProperties
  <1>10. Append(c, t) = Prompt[r] \o said
    <2>1. Append(Prompt[r] \o out[r], t) = Prompt[r] \o Append(out[r], t)
      BY <1>1, <1>3, <1>5, ContextGrows, Zenon
    <2> QED BY <1>4, <2>1
  <1>11. /\ words = IF t \in StopIds THEN out[r] ELSE said
         /\ fin = IF t \in StopIds THEN "stop" ELSE IF long THEN "length" ELSE None
    BY DEF Words, Finish
  <1> HIDE DEF t, said, words, fin, long
  <1>12. words \in Seq(Tokens) /\ fin \in {None, "stop", "length"} BY <1>3, <1>9, <1>11
  <1>13. /\ fed' \in [Requests -> Seq(Tokens)] /\ next' \in [Requests -> Tokens \cup {None}]
         /\ out' \in [Requests -> Seq(Tokens)]
         /\ finish' \in [Requests -> {None, "stop", "length", "abort", "error"}]
    BY <1>1, <1>3, <1>5, <1>6, <1>7, <1>12
  <1>14. /\ fed'[r] = c /\ out'[r] = words /\ finish'[r] = fin
         /\ next'[r] = IF t \in StopIds THEN None ELSE t
    BY <1>1, <1>3, <1>7
  <1>15. \A q \in Requests : q # r => /\ fed'[q] = fed[q] /\ next'[q] = next[q]
                                      /\ finish'[q] = finish[q] /\ out'[q] = out[q]
    BY <1>3, <1>7
  <1>16. SpokenOf(r)'
    <2>1. r \notin Range(prefilling') /\ r \notin Before'
      BY <1>1, <1>2 DEF Before, Queues, Queued
    <2>2. CASE t \in StopIds
      <3>1. out'[r] = out[r] /\ finish'[r] # None BY <1>8, <1>11, <1>14, <2>2
      <3> QED BY <1>4, <2>1, <3>1 DEF SpokenOf
    <2>3. CASE t \notin StopIds
      <3>1. out'[r] = said /\ next'[r] = t BY <1>11, <1>14, <2>3
      <3>2. ASSUME finish'[r] = None PROVE Len(said) < MaxNew[r]
        <4>1. ~ long BY <1>8, <1>11, <1>14, <2>3, <3>2
        <4> QED BY <1>3, <1>9, <4>1 DEF long
      <3>3. \A i \in 1..Len(said) : said[i] \notin StopIds
        <4> SUFFICES ASSUME NEW i \in 1..Len(said) PROVE said[i] \notin StopIds
          OBVIOUS
        <4>1. i \in 1..Len(out[r]) \/ i = Len(out[r]) + 1 BY <1>3, <1>9
        <4> QED BY <1>4, <1>9, <2>3, <4>1
      <3> QED BY <1>5, <1>8, <1>10, <1>14, <2>1, <3>1, <3>2, <3>3 DEF SpokenOf
    <2> QED BY <2>2, <2>3
  <1>17. Spoken'
    <2>1. ASSUME NEW q \in Requests, q # r PROVE SpokenOf(q)'
      <3>1. SpokenOf(q) BY <1>1 DEF Spoken
      <3>2. out'[q] = out[q] /\ fed'[q] = fed[q] /\ next'[q] = next[q] /\ finish'[q] = finish[q]
        BY <1>15, <2>1
      <3> QED BY <1>2, <3>1, <3>2, SpokenStays
    <2> QED BY <1>16, <2>1 DEF Spoken
  <1>18. t \in Promise!NextTokens(r) BY <1>5 DEF Promise!NextTokens
  <1>19. Promised
    <2>1. CASE t \in StopIds
      <3>1. out' = out
        <4>1. out' = [out EXCEPT ![r] = out[r]] BY <1>7, <1>11, <2>1
        <4> QED BY <1>3, <4>1
      <3>2. finish' = [finish EXCEPT ![r] = "stop"] BY <1>7, <1>11, <2>1
      <3>3. Promise!Say(r, t) BY <2>1, <3>1, <3>2 DEF Promise!Say
      <3> QED BY <1>1, <1>18, <3>3 DEF Promised, Promise!Next
    <2>2. CASE t \notin StopIds
      <3>1. out' = [out EXCEPT ![r] = Append(@, t)] BY <1>3, <1>7, <1>11, <2>2 DEF said
      <3>2. finish' = IF long THEN [finish EXCEPT ![r] = "length"] ELSE finish
        <4>1. CASE long BY <1>7, <1>11, <2>2, <4>1
        <4>2. CASE ~ long
          <5>1. finish' = [finish EXCEPT ![r] = finish[r]] BY <1>7, <1>11, <2>2, <4>2
          <5> QED BY <1>3, <4>2, <5>1
        <4> QED BY <4>1, <4>2
      <3>3. Promise!Say(r, t) BY <2>2, <3>1, <3>2 DEF Promise!Say, long
      <3> QED BY <1>1, <1>18, <3>3 DEF Promised, Promise!Next
    <2> QED BY <2>1, <2>2
  <1> QED BY <1>1, <1>2, <1>3, <1>6, <1>13, <1>14, <1>15, <1>17, <1>19

(* The slots where a request's token is emitted, its row read or just fed. *)
LEMMA EmitsSlots ==
  ASSUME BatchInv, NEW s \in Slots, NEW r \in Requests, slotReq[s] = r, r \in Range(running),
         UNCHANGED <<slotReq, dev, running>>,
         kv' \in [Slots -> Seq(Tokens)], kv'[s] = fed'[r], \A x \in Slots : x # s => kv'[x] = kv[x],
         phase' = "emit" => Range(todo') = Range(todo) \ {r},
         phase' = "card" => phase # "emit",
         phase # "emit" => Range(todo') = {}, phase' \in {"card", "emit"},
         \A q \in Requests : q # r => fed'[q] = fed[q] /\ next'[q] = next[q]
  PROVE  Filled'
PROOF
  <1>1. Queues /\ Typed /\ Placed /\ Filled /\ Lists /\ r # None BY Basics
  <1>2. ASSUME NEW x \in Slots
        PROVE  /\ slotReq'[x] # None => kv'[x] = Row(x)' /\ dev'[x] \in {slotReq'[x], None}
               /\ slotReq'[x] = None /\ dev'[x] # None => IsPrefix(fed'[dev'[x]], kv'[x])
    <2>1. slotReq[x] \in Requests \cup {None} /\ dev[x] \in Requests \cup {None} BY <1>1 DEF Typed
    <2>2. slotReq[x] # None => kv[x] = Row(x) /\ dev[x] \in {slotReq[x], None} BY <1>1 DEF Filled
    <2>3. slotReq[x] = None /\ dev[x] # None => IsPrefix(fed[dev[x]], kv[x]) BY <1>1 DEF Filled
    <2>4. CASE x = s
      <3>1. Row(x)' = fed'[r] BY <2>4 DEF Row
      <3> QED BY <1>1, <2>2, <2>4, <3>1
    <2>5. CASE x # s
      <3>1. kv'[x] = kv[x] /\ slotReq[x] # r BY <1>1, <2>5 DEF Placed
      <3>2. dev[x] # r BY <1>1, <3>1 DEF Lists
      <3>3. slotReq[x] # None => Row(x)' = Row(x) BY <2>1, <3>1 DEF Row
      <3> QED BY <2>1, <2>2, <2>3, <3>1, <3>2, <3>3
    <2> QED BY <2>4, <2>5
  <1> QED BY <1>2 DEF Filled

LEMMA OutputInv ==
  ASSUME BatchInv, Output
  PROVE  BatchInv' /\ Promised
PROOF
  <1> USE DEF queue
  <1> DEFINE r == Head(todo)
             s == SlotOf(r)
  <1>1. Queues /\ Typed /\ Placed /\ Filled /\ Lists /\ Planned /\ Spoken /\ Emitting BY DEF BatchInv
  <1>2. /\ phase = "emit" /\ todo # <<>> /\ todo' = Tail(todo) /\ Emits(r, Says(kv[s]))
        /\ UNCHANGED <<waiting, running, prefilling, slotReq, dev, dirty, kv, saved, new, cancelled, flush,
                       phase, plan, budget>>
    BY DEF Output, slots, api
  <1>3. /\ Range(todo) = Range(Tail(todo)) \cup {r} /\ r \in Range(todo) /\ r \notin Range(Tail(todo))
        /\ IsInjective(Tail(todo)) /\ Tail(todo) \in Seq(Requests)
    BY <1>1, <1>2, TailRange, TailOnce DEF Queues
  <1>4. r \in Range(running) /\ finish[r] = None /\ r \notin Range(prefilling)
    BY <1>1, <1>2, <1>3 DEF Emitting, Decoding
  <1>5. Unbound = {} /\ Unbound' = {} BY <1>2 DEF Unbound
  <1>6. s \in Slots /\ slotReq[s] = r BY <1>4, <1>5, SlotIs
  <1>7. kv[s] = Append(fed[r], next[r])
    <2>1. r # None BY <1>4, Basics DEF Queued
    <2> HIDE DEF r, s
    <2> QED BY <1>1, <1>2, <1>3, <1>6, <2>1 DEF Filled, Row
  <1> HIDE DEF r, s
  <1> DEFINE c == kv[s]
  <1>8. /\ r \in Requests /\ fed' \in [Requests -> Seq(Tokens)] /\ next' \in [Requests -> Tokens \cup {None}]
        /\ out' \in [Requests -> Seq(Tokens)]
        /\ finish' \in [Requests -> {None, "stop", "length", "abort", "error"}]
        /\ fed'[r] = c /\ \A q \in Requests : q # r => /\ fed'[q] = fed[q] /\ next'[q] = next[q]
                                                       /\ finish'[q] = finish[q]
        /\ Before' = Before /\ Spoken' /\ Promised
    <2>1. c = Append(fed[r], next[r]) /\ Emits(r, Says(c)) BY <1>2, <1>7
    <2> HIDE DEF c
    <2>2. phase \in {"feed", "card", "emit"} /\ phase' \notin {"bind"} BY <1>2
    <2> QED BY <1>2, <1>4, <2>1, <2>2, EmitsIs
  <1>9. Queues' BY <1>1, <1>2, <1>3, <1>5 DEF Queues, Queued
  <1>10. Typed' BY <1>1, <1>2, <1>8 DEF Typed
  <1>11. Placed' BY <1>1, <1>2, <1>5 DEF Placed
  <1>12. Filled'
    <2>1. kv' \in [Slots -> Seq(Tokens)] /\ kv'[s] = fed'[r] /\ \A x \in Slots : x # s => kv'[x] = kv[x]
      BY <1>1, <1>2, <1>8 DEF Typed
    <2>2. Range(todo') = Range(todo) \ {r} BY <1>2, <1>3
    <2>3. /\ phase' = "emit" => Range(todo') = Range(todo) \ {r}
          /\ phase' = "card" => phase # "emit"
          /\ phase # "emit" => Range(todo') = {}
          /\ phase' \in {"card", "emit"} /\ UNCHANGED <<slotReq, dev, running>>
      BY <1>2, <2>2
    <2>4. \A q \in Requests : q # r => fed'[q] = fed[q] /\ next'[q] = next[q] BY <1>8
    <2>5. s \in Slots /\ r \in Requests /\ slotReq[s] = r /\ r \in Range(running) BY <1>4, <1>6, <1>8
    <2> QED BY <2>1, <2>3, <2>4, <2>5, EmitsSlots
  <1>13. Lists' BY <1>1, <1>2, <1>8 DEF Lists
  <1>14. Planned' BY <1>1, <1>2 DEF Planned
  <1>15. Emitting'
    <2>1. ASSUME NEW q \in Range(todo') PROVE q \in Decoding'
      <3>1. q \in Range(todo) /\ q # r BY <1>2, <1>3, <2>1
      <3>2. q \in Requests /\ q \in Decoding BY <1>1, <1>2, <3>1, Basics DEF Emitting
      <3> QED BY <1>2, <1>8, <3>1, <3>2 DEF Decoding
    <2> QED BY <2>1 DEF Emitting
  <1> QED BY <1>8, <1>9, <1>10, <1>11, <1>12, <1>13, <1>14, <1>15 DEF BatchInv

LEMMA CardTokenInv ==
  ASSUME BatchInv, CardToken
  PROVE  BatchInv' /\ Promised
PROOF
  <1> USE DEF queue
  <1> DEFINE r == slotReq[0]
             c == kv'[0]
  <1>1. Queues /\ Typed /\ Placed /\ Filled /\ Lists /\ Planned /\ Spoken /\ Emitting BY DEF BatchInv
  <1>2. /\ phase \in {"card", "feed"} /\ phase' \in {"card", "emit"} /\ Decoding = {r}
        /\ kv' = [kv EXCEPT ![0] = Append(@, next[r])] /\ Emits(r, Says(c))
        /\ UNCHANGED <<waiting, running, prefilling, slotReq, dev, dirty, saved, new, cancelled, flush,
                       todo, plan, budget>>
    BY DEF CardToken, api
  <1>3. todo = <<>> /\ Range(todo) = {}
    <2>1. todo = <<>> BY <1>1, <1>2 DEF Queues
    <2> QED BY <2>1 DEF Range
  <1>4. r \in Decoding BY <1>2
  <1>5. r \in Range(running) /\ finish[r] = None /\ r \notin Range(prefilling) BY <1>4 DEF Decoding
  <1>6. Unbound = {} /\ Unbound' = {} BY <1>2 DEF Unbound
  <1>7. 0 \in Slots /\ r # None BY <1>5, Basics, BatchAssumption DEF Slots, Queued
  <1>8. c = Append(fed[r], next[r])
    <2>1. kv[0] = fed[r] BY <1>1, <1>2, <1>7 DEF Filled, Row
    <2> QED BY <1>1, <1>2, <1>7, <2>1 DEF Typed
  <1> HIDE DEF r, c
  <1>9. /\ r \in Requests /\ next[r] \in Tokens /\ c \in Seq(Tokens)
        /\ fed' \in [Requests -> Seq(Tokens)] /\ next' \in [Requests -> Tokens \cup {None}]
        /\ out' \in [Requests -> Seq(Tokens)]
        /\ finish' \in [Requests -> {None, "stop", "length", "abort", "error"}]
        /\ fed'[r] = c /\ \A q \in Requests : q # r => /\ fed'[q] = fed[q] /\ next'[q] = next[q]
                                                       /\ finish'[q] = finish[q]
        /\ Before' = Before /\ Spoken' /\ Promised
    <2>1. phase \in {"feed", "card", "emit"} /\ phase' \notin {"bind"} BY <1>2
    <2> QED BY <1>2, <1>5, <1>8, <2>1, EmitsIs
  <1>10. kv' \in [Slots -> Seq(Tokens)] /\ kv'[0] = c /\ \A x \in Slots : x # 0 => kv'[x] = kv[x]
    <2>1. kv[0] \in Seq(Tokens) BY <1>1, <1>7 DEF Typed
    <2>2. Append(kv[0], next[r]) \in Seq(Tokens) BY <1>9, <2>1, AppendProperties
    <2> QED BY <1>1, <1>2, <2>2 DEF Typed, c
  <1>11. Queues' BY <1>1, <1>2, <1>3, <1>6 DEF Queues, Queued
  <1>12. Typed' BY <1>1, <1>2, <1>9, <1>10 DEF Typed
  <1>13. Placed' BY <1>1, <1>2, <1>6 DEF Placed
  <1>14. Filled'
    <2>1. slotReq[0] = r BY DEF r
    <2>2. Range(todo') = {} /\ Range(todo') = Range(todo) \ {r} BY <1>2, <1>3
    <2>3. kv'[0] = fed'[r] BY <1>9, <1>10
    <2>4. /\ phase' = "emit" => Range(todo') = Range(todo) \ {r}
          /\ phase' = "card" => phase # "emit"
          /\ phase # "emit" => Range(todo') = {}
          /\ phase' \in {"card", "emit"} /\ UNCHANGED <<slotReq, dev, running>>
      BY <1>2, <2>2
    <2>5. \A q \in Requests : q # r => fed'[q] = fed[q] /\ next'[q] = next[q] BY <1>9
    <2>6. 0 \in Slots /\ r \in Requests /\ r \in Range(running) BY <1>5, <1>7, <1>9
    <2> QED BY <1>10, <2>1, <2>3, <2>4, <2>5, <2>6, EmitsSlots
  <1>15. Lists' BY <1>1, <1>2, <1>9 DEF Lists
  <1>16. Planned'
    <2>1. plan = None BY <1>1, <1>2 DEF Planned
    <2> QED BY <1>2, <2>1 DEF Planned
  <1>17. Emitting' BY <1>2, <1>3 DEF Emitting
  <1> QED BY <1>9, <1>11, <1>12, <1>13, <1>14, <1>15, <1>16, <1>17 DEF BatchInv

----------------------------------------------------------------------------
LEMMA NextInv == BatchInv /\ [Next]_vars => BatchInv' /\ Promised
PROOF
  <1> SUFFICES ASSUME BatchInv, [Next]_vars PROVE BatchInv' /\ Promised
    OBVIOUS
  <1>1. UNCHANGED <<out, finish>> => Promised BY DEF Promised
  <1>2. CASE UNCHANGED vars
    <2>1. Typed BY DEF BatchInv
    <2> QED BY <1>1, <1>2, <2>1, AsideInv DEF vars, slots, api, reqs, Typed
  <1>3. CASE Clients BY <1>1, <1>3, ClientsInv
  <1>4. CASE Admit BY <1>4, AdmitInv
  <1>5. CASE BindPlaces BY <1>1, <1>5, BindPlacesInv
  <1>6. ASSUME NEW s \in Slots, NEW x \in Slots, NEW c \in saved \cup {None}, BindPlans(s, x, c)
        PROVE  BatchInv' /\ Promised
    BY <1>1, <1>6, BindPlansInv
  <1>7. CASE FeedBegins BY <1>1, <1>7, FeedBeginsInv
  <1>8. CASE PrefillRun BY <1>8, PrefillRunInv
  <1>9. CASE Step BY <1>1, <1>9, StepInv
  <1>10. CASE MixedStep BY <1>10, MixedStepInv
  <1>11. CASE Output BY <1>11, OutputInv
  <1>12. CASE CardToken BY <1>12, CardTokenInv
  <1>13. CASE Bottom BY <1>1, <1>13, BottomInv
  <1>14. CASE LoopStops BY <1>14, LoopStopsInv
  <1>15. CASE StopSaves BY <1>1, <1>15, StopSavesInv
  <1>16. CASE Fails BY <1>16, FailsInv
  <1>17. ASSUME NEW c \in saved, Forget(c) PROVE BatchInv' /\ Promised BY <1>1, <1>17, ForgetInv
  <1> QED
    BY <1>2, <1>3, <1>4, <1>5, <1>6, <1>7, <1>8, <1>9, <1>10, <1>11, <1>12, <1>13, <1>14, <1>15, <1>16, <1>17
    DEF Next, Loop, Bind

(* Whatever the clients, the store and the troubles do, the invariant      *)
(* holds.                                                                  *)
LEMMA AlwaysInv == Spec => []BatchInv
BY InitInv, NextInv, PTL DEF Spec

(* The queues hold each request once, those being fed run, and slots and   *)
(* caches keep their types, in any interleaving of the loop with clients,  *)
(* a flush(), failures and a stop().                                       *)
THEOREM BatchTypeOK == Spec => []TypeOK
PROOF
  <1>1. BatchInv => TypeOK
    <2> SUFFICES ASSUME BatchInv PROVE TypeOK
      OBVIOUS
    <2>1. Queues /\ Typed BY DEF BatchInv
    <2>2. Range(waiting \o running) = Range(waiting) \cup Range(running) /\ IsInjective(waiting \o running)
      BY <2>1, ConcatOnce DEF Queues
    <2>3. Range(waiting) \subseteq Requests /\ Range(running) \subseteq Requests BY Basics DEF Queued
    <2>4. Range(waiting \o running) \subseteq Requests \ new BY <2>1, <2>2, <2>3 DEF Queues, Queued
    <2> QED BY <2>1, <2>2, <2>4 DEF TypeOK, Queues, Typed
  <1> QED BY <1>1, AlwaysInv, PTL

(* What the worker has as a slot's tokens (slot_dev) is in the slot's      *)
(* caches: through copies between slots, restores of a match that the store*)
(* has dropped meanwhile, padded rows, failures and a flush() that forgets *)
(* a slot as _bind takes it.                                               *)
THEOREM BatchDeviceAsListed == Spec => []DeviceAsListed
PROOF
  <1>1. BatchInv => DeviceAsListed BY ListedIs DEF DeviceAsListed
  <1> QED BY <1>1, AlwaysInv, PTL

(* A running request has one slot, its alone, and the caches there hold    *)
(* what it was fed, and the token of the step being emitted: no other's    *)
(* prompt run, step, pad, copy or restore writes in it.                    *)
THEOREM BatchRunsInItsSlot == Spec => []RunsInItsSlot
PROOF
  <1>1. BatchInv => RunsInItsSlot
    <2> SUFFICES ASSUME BatchInv, NEW r \in Range(running), finish[r] = None,
                        ~ (phase = "bind" /\ r \in Range(todo))
                 PROVE  \E s \in Slots :
                          /\ \A x \in Slots : slotReq[x] = r <=> x = s
                          /\ kv[s] = IF phase = "emit" /\ r \in Range(todo) THEN Append(fed[r], next[r])
                                     ELSE fed[r]
      BY DEF RunsInItsSlot
    <2>1. r \notin Unbound BY DEF Unbound
    <2>2. SlotOf(r) \in Slots /\ \A x \in Slots : slotReq[x] = r <=> x = SlotOf(r) BY <2>1, SlotIs
    <2>3. slotReq[SlotOf(r)] = r /\ r # None BY <2>2, Basics DEF Queued
    <2>4. kv[SlotOf(r)] = Row(SlotOf(r)) BY <2>2, <2>3 DEF BatchInv, Filled
    <2> QED BY <2>2, <2>3, <2>4 DEF Row
  <1> QED BY <1>1, AlwaysInv, PTL

(* The batching worker is a Serving, flush(), failures and stop() and all: *)
(* each token a client gets is its own reply's next, whatever runs beside  *)
(* it, and it ends by a stop id, its length, or an end asked for or forced.*)
THEOREM BatchServes == Spec => ImplementsServing
PROOF
  <1>1. Init => Promise!Init BY DEF Init, Promise!Init
  <1>2. BatchInv /\ [Next]_vars => [Promise!Next]_<<out, finish, {}>> BY NextInv DEF Promised
  <1> QED BY <1>1, <1>2, AlwaysInv, PTL DEF Spec, ImplementsServing, Promise!Spec
=============================================================================
