---------------------------- MODULE WorkerProofs ----------------------------
(***************************************************************************)
(* Proofs about Worker: what the thread knows of the device is so and what *)
(* it saved is what it says, whatever the clients, the store and failing   *)
(* turns do; and, whatever contexts they lose, the worker is a Serving.    *)
(***************************************************************************)
EXTENDS Worker, ListsProofs

Saveds == [key : Seq(Tokens), data : Seq(Tokens)]
Queued == Range(waiting) \cup Range(running)

(* A turn's phases.                                                        *)
Turns == {"save", "take", "load", "feed", "decode"}

Queues ==
  /\ waiting \in Seq(Requests) /\ running \in Seq(Requests) /\ new \subseteq Requests
  /\ IsInjective(waiting) /\ IsInjective(running) /\ Range(waiting) \cap Range(running) = {}
  /\ Queued \cap new = {}

Typed ==
  /\ stateful \in BOOLEAN /\ cardPicks \in BOOLEAN
  /\ cancelled \subseteq Requests /\ stop \in BOOLEAN /\ flush \in {"none", "cleared", "idle"}
  /\ fed \in [Requests -> Seq(Tokens)] /\ next \in [Requests -> Tokens \cup {None}]
  /\ out \in [Requests -> Seq(Tokens)]
  /\ finish \in [Requests -> {None, "stop", "length", "abort", "error"}]
  /\ entry \in [Requests -> Saveds \cup {None}]
  /\ owner \in Requests \cup {None} /\ dev \in Requests \cup {None} /\ dirty \in BOOLEAN
  /\ rr \in Nat /\ kv \in Seq(Tokens) /\ saved \subseteq Saveds /\ have \in Nat
  /\ phase \in {"loop", "stopped"} \cup Turns /\ cur \in Requests \cup {None}

(* Who has ended, and how many run.                                        *)
Ended ==
  /\ Len(running) <= MaxRunning
  /\ \A r \in Requests : finish[r] = None <=> r \in new \cup Queued

(* Where the thread is, its request has the device or not.                 *)
Turned ==
  /\ phase \in Turns => cur \in Range(running)
  /\ phase = "save" => owner # cur
  /\ phase \in {"take", "load"} => owner = None
  /\ phase \in {"feed", "decode"} => owner = cur
  /\ phase = "decode" => next[cur] # None
  /\ owner # None => owner \in Range(running) /\ dev \in {owner, None}

(* The device holds all of the list the worker has of it, and its owner's. *)
Held ==
  /\ dev # None => kv = fed[dev]
  /\ owner # None => kv = fed[owner]

(* A context saved for a request is that request's, and it runs elsewhere. *)
Pinned ==
  \A r \in Requests : entry[r] # None =>
    /\ r \in Range(running) /\ r # owner
    /\ entry[r] = [key |-> fed[r], data |-> fed[r]]

(* What is kept of the device while a match is loaded over it.             *)
Loading ==
  phase = "load" =>
    /\ have <= Len(kv) /\ have <= Len(Wanted(cur))
    /\ Take(kv, have) = Take(Wanted(cur), have)
    /\ fed[cur] # <<>> => match = entry[cur]

WorkerInv ==
  Queues /\ Typed /\ Ended /\ Turned /\ Held /\ Pinned /\ Loading /\ SavedAsKeyed

----------------------------------------------------------------------------
(* A running request whose context is not lost has it, on the device or    *)
(* saved,                                                                  *)
Kept ==
  /\ owner # None /\ owner \notin lost => dev = owner
  /\ \A r \in new \cup Range(waiting) : fed[r] = <<>>
  /\ \A r \in Range(running) : fed[r] # <<>> /\ owner # r /\ r \notin lost => entry[r] \in saved

(* and has been fed its prompt and the words it said of its reply, the last*)
(* token of those still to be fed; they are its output, but where its      *)
(* context was lost: then what it said since it began again.               *)
Saying(r, words) ==
  /\ IsPrefix(words, Reply[r]) /\ Len(words) <= Len(out[r])
  /\ \A i \in 1..Len(words) : words[i] \notin StopIds
  /\ r \notin lost => words = out[r]
  /\ next[r] = None => words = <<>> /\ IsPrefix(fed[r], Prompt[r])
  /\ next[r] # None => Append(fed[r], next[r]) = Prompt[r] \o words

SpokenOf(r) ==
  /\ r \notin lost => IsPrefix(out[r], Reply[r])
  /\ finish[r] = None => /\ Len(out[r]) < MaxNew[r]
                         /\ \E words \in Seq(Tokens) : Saying(r, words)

Spoken == \A r \in Requests : SpokenOf(r)

PromiseInv == WorkerInv /\ Kept /\ Spoken
----------------------------------------------------------------------------
LEMMA TypeFrom == Queues /\ Typed /\ lost \subseteq Requests => TypeOK
PROOF
  <1> SUFFICES ASSUME Queues, Typed, lost \subseteq Requests PROVE TypeOK
    OBVIOUS
  <1>1. IsInjective(waiting \o running) /\ Range(waiting \o running) = Queued
    BY ConcatOnce DEF Queues, Queued
  <1>2. Queued \subseteq Requests \ new /\ new \subseteq Requests
    BY RangeIs DEF Queues, Queued
  <1>3. \A r \in Requests : entry[r] = None \/ entry[r].key \in Seq(Tokens)
    BY DEF Typed, Saveds
  <1> QED
    BY <1>1, <1>2, <1>3 DEF TypeOK, Typed, Turns, model

LEMMA InitInv == Init => WorkerInv
PROOF
  <1> SUFFICES ASSUME Init PROVE WorkerInv
    OBVIOUS
  <1> USE DEF Init
  <1>1. Queues /\ Queued = {}
    BY DEF Queues, Queued, IsInjective, Range
  <1>2. Typed
    <2>1. /\ fed \in [Requests -> Seq(Tokens)] /\ out \in [Requests -> Seq(Tokens)] /\ kv \in Seq(Tokens)
      BY EmptySeq
    <2>2. /\ next \in [Requests -> Tokens \cup {None}]
          /\ finish \in [Requests -> {None, "stop", "length", "abort", "error"}]
          /\ entry \in [Requests -> Saveds \cup {None}]
      OBVIOUS
    <2>3. saved \subseteq Saveds /\ have \in Nat /\ rr \in Nat OBVIOUS
    <2> QED BY <2>1, <2>2, <2>3 DEF Typed, Turns
  <1>3. Ended
    <2>1. Len(running) <= MaxRunning BY WorkerAssumption
    <2>2. \A r \in Requests : finish[r] = None /\ r \in new OBVIOUS
    <2> QED BY <2>1, <2>2 DEF Ended
  <1>4. Turned /\ Held /\ Pinned /\ Loading /\ SavedAsKeyed
    BY DEF Turned, Held, Pinned, Loading, SavedAsKeyed, Turns
  <1> QED BY <1>1, <1>2, <1>3, <1>4 DEF WorkerInv

(* What _end does to the queues, and to who has ended.                     *)
LEMMA EndsQueues ==
  ASSUME Queues, NEW S, NEW why, Ends(S, why), new' = new
  PROVE  /\ Queues' /\ Len(running') <= Len(running)
         /\ Range(waiting') = Range(waiting) \ S /\ Range(running') = Range(running) \ S
PROOF
  <1>1. /\ waiting' \in Seq(Requests) /\ Range(waiting') = Range(waiting) \ S
        /\ IsInjective(waiting')
    BY WithoutIs DEF Ends, Queues
  <1>2. /\ running' \in Seq(Requests) /\ Range(running') = Range(running) \ S
        /\ IsInjective(running') /\ Len(running') <= Len(running)
    BY WithoutIs DEF Ends, Queues
  <1> QED
    BY <1>1, <1>2 DEF Queues, Queued

LEMMA EndsEnded ==
  ASSUME Queues, Typed, Ended, NEW S \in SUBSET Queued, NEW why \in {"stop", "length", "abort", "error"},
         Ends(S, why), new' = new
  PROVE  /\ Ended'
         /\ finish' \in [Requests -> {None, "stop", "length", "abort", "error"}]
         /\ entry' \in [Requests -> Saveds \cup {None}]
PROOF
  <1>1. /\ Range(waiting') = Range(waiting) \ S /\ Range(running') = Range(running) \ S
        /\ Len(running') <= Len(running) /\ running' \in Seq(Requests)
    BY EndsQueues DEF Queues
  <1>2. Queued' = Queued \ S BY <1>1 DEF Queued
  <1>3. finish' = [r \in Requests |-> IF r \in S /\ finish[r] = None THEN why ELSE finish[r]]
    BY DEF Ends
  <1>4. why # None BY RequestsAssumption
  <1>5. ASSUME NEW r \in Requests PROVE finish'[r] = None <=> r \in new' \cup Queued'
    <2>1. finish[r] = None <=> r \in new \cup Queued BY DEF Ended
    <2>2. CASE r \in S
      <3>1. r \in Queued /\ r \notin new BY <2>2 DEF Queues
      <3> QED BY <1>2, <1>3, <1>4, <2>1, <2>2, <3>1
    <2>3. CASE r \notin S BY <1>2, <1>3, <2>1, <2>3
    <2> QED BY <2>2, <2>3
  <1>6. Len(running') <= MaxRunning
    BY <1>1, WorkerAssumption DEF Ended, Queues
  <1>7. finish' \in [Requests -> {None, "stop", "length", "abort", "error"}]
    BY <1>3 DEF Typed
  <1>8. entry' \in [Requests -> Saveds \cup {None}]
    BY DEF Ends, Typed
  <1> QED BY <1>5, <1>6, <1>7, <1>8 DEF Ended

----------------------------------------------------------------------------
(* The API's threads and the store.                                        *)
LEMMA SubmitInv ==
  ASSUME WorkerInv, NEW r \in Requests, Submit(r), UNCHANGED model
  PROVE  WorkerInv'
PROOF
  <1> USE DEF WorkerInv
  <1>1. /\ r \in new /\ new' = new \ {r} /\ waiting' = Append(waiting, r) /\ running' = running
        /\ UNCHANGED <<reqs, host, rr, kv, saved, phase, cur, match, have, cancelled, stop, flush>>
    BY DEF Submit
  <1>2. r \notin Queued BY <1>1 DEF Queues
  <1>3. /\ waiting' \in Seq(Requests) /\ Range(waiting') = Range(waiting) \cup {r}
        /\ IsInjective(waiting')
    BY <1>1, <1>2, AppendProperties, AppendRange, AppendOnce DEF Queues, Queued
  <1>4. Queues' BY <1>1, <1>2, <1>3 DEF Queues, Queued
  <1>5. Typed' BY <1>1 DEF Typed, reqs, host, model
  <1>6. Ended' BY <1>1, <1>3 DEF Ended, Queued, reqs
  <1>7. Turned' BY <1>1 DEF Turned, reqs, host
  <1>8. Held' /\ Pinned' BY <1>1 DEF Held, Pinned, reqs, host
  <1>9. Loading' /\ SavedAsKeyed' BY <1>1 DEF Loading, Wanted, SavedAsKeyed, reqs
  <1> QED BY <1>4, <1>5, <1>6, <1>7, <1>8, <1>9

(* Steps that leave the thread and the requests as they are.               *)
LEMMA AsideInv ==
  ASSUME WorkerInv, UNCHANGED <<model, waiting, running, new, reqs, owner, rr, kv, phase, cur, match, have>>,
         dev' \in {dev, None}, saved' \subseteq saved,
         cancelled' \subseteq Requests, stop' \in BOOLEAN, flush' \in {"none", "cleared", "idle"},
         dirty' \in BOOLEAN
  PROVE  WorkerInv'
PROOF
  <1> USE DEF WorkerInv
  <1>1. Queues' /\ Ended' BY DEF Queues, Queued, Ended, reqs
  <1>2. Typed' BY DEF Typed, reqs, model
  <1>3. Turned' BY DEF Turned, reqs
  <1>4. Held' /\ Pinned' BY DEF Held, Pinned, reqs
  <1>5. Loading' /\ SavedAsKeyed' BY DEF Loading, Wanted, SavedAsKeyed, reqs
  <1> QED BY <1>1, <1>2, <1>3, <1>4, <1>5

LEMMA ClientsInv ==
  ASSUME WorkerInv, Clients, UNCHANGED model
  PROVE  WorkerInv'
PROOF
  <1> USE DEF WorkerInv, api, host
  <1>1. ASSUME NEW r \in Requests, Submit(r) PROVE WorkerInv' BY <1>1, SubmitInv
  <1>2. ASSUME NEW r \in Requests, Cancel(r) PROVE WorkerInv'
    BY <1>2, AsideInv DEF Cancel, Typed
  <1>3. CASE FlushClears BY <1>3, AsideInv DEF FlushClears, Typed
  <1>4. CASE FlushLooks BY <1>4, AsideInv DEF FlushLooks, Typed
  <1>5. CASE FlushForgets BY <1>5, AsideInv DEF FlushForgets, Typed
  <1>6. CASE Stop BY <1>6, AsideInv DEF Stop, Typed
  <1> QED BY <1>1, <1>2, <1>3, <1>4, <1>5, <1>6 DEF Clients

LEMMA ForgetInv ==
  ASSUME WorkerInv, NEW s \in saved, Forget(s), UNCHANGED model
  PROVE  WorkerInv'
BY AsideInv DEF WorkerInv, api, host, Forget, Typed

----------------------------------------------------------------------------
(* What is saved of the device is its context, under that context.         *)
LEMMA DeviceIs ==
  ASSUME Typed
  PROVE  Device \in Seq(Tokens) /\ (Device # <<>> => dev \in Requests /\ Device = fed[dev])
BY EmptySeq DEF Device, Typed

LEMMA EntryIs ==
  ASSUME Typed, Held, Device # <<>>
  PROVE  /\ dev \in Requests /\ kv = Device /\ Device = fed[dev]
         /\ Entry = [key |-> Device, data |-> Device] /\ Entry \in Saveds
PROOF
  <1>1. dev \in Requests /\ Device = fed[dev] /\ Device \in Seq(Tokens) BY DeviceIs
  <1>2. kv = Device BY <1>1, RequestsAssumption DEF Held
  <1>3. Adopted(kv, Len(Device)) = Device BY <1>1, <1>2, TakeAll DEF Adopted
  <1>4. Entry = [key |-> Device, data |-> Device] BY <1>3 DEF Entry
  <1> QED BY <1>1, <1>2, <1>4 DEF Saveds

LEMMA SavesIfIs ==
  ASSUME Typed, Held, SavedAsKeyed, NEW cond, saved' = SavesIf(cond)
  PROVE  saved \subseteq saved' /\ saved' \subseteq Saveds /\ SavedAsKeyed'
PROOF
  <1>1. saved \subseteq Saveds BY DEF Typed
  <1>2. CASE cond /\ Device # <<>>
    <2>1. saved' = saved \cup {Entry} BY <1>2 DEF SavesIf
    <2>2. Entry.data = Entry.key /\ Entry \in Saveds BY <1>2, EntryIs
    <2> QED BY <1>1, <2>1, <2>2 DEF SavedAsKeyed
  <1>3. CASE ~ (cond /\ Device # <<>>)
    <2>1. saved' = saved BY <1>3 DEF SavesIf
    <2> QED BY <1>1, <2>1 DEF SavedAsKeyed
  <1> QED BY <1>2, <1>3

----------------------------------------------------------------------------
(* The thread's own steps.                                                 *)
LEMMA PickInv ==
  ASSUME WorkerInv, Pick, UNCHANGED model
  PROVE  WorkerInv'
PROOF
  <1> DEFINE gone == cancelled \cap Range(waiting \o running)
             wait == Without(waiting, gone)
             turns == Without(running, gone)
             then == (rr + 1) % Len(turns)
             own == IF owner \in gone THEN None ELSE owner
  <1>1. Queues /\ Typed /\ Ended /\ Turned /\ Held /\ Pinned /\ SavedAsKeyed BY DEF WorkerInv
  <1>2. /\ entry' = [r \in Requests |-> IF r \in gone THEN None ELSE entry[r]]
        /\ finish' = [r \in Requests |-> IF r \in gone THEN "abort" ELSE finish[r]]
        /\ owner' = own
        /\ phase' = IF cur' = None THEN "loop" ELSE IF owner' = cur' THEN "feed" ELSE "save"
        /\ UNCHANGED <<fed, next, out, new, cancelled, stop, flush, dirty, dev, kv, saved, match, have>>
    BY DEF Pick, api
  <1>3. \/ /\ wait # <<>> /\ Len(turns) < MaxRunning
           /\ waiting' = Tail(wait) /\ running' = Append(turns, Head(wait))
           /\ cur' = Head(wait) /\ rr' = rr
        \/ /\ wait = <<>> \/ Len(turns) >= MaxRunning
           /\ turns # <<>> /\ waiting' = wait /\ running' = turns
           /\ rr' = then /\ cur' = IF turns = <<own>> THEN own ELSE turns[then + 1]
        \/ /\ wait = <<>> /\ turns = <<>>
           /\ waiting' = wait /\ running' = turns
           /\ cur' = None /\ rr' = rr
    BY DEF Pick
  <1>4. /\ gone \subseteq Queued /\ gone \subseteq cancelled
        /\ waiting \in Seq(Requests) /\ running \in Seq(Requests)
    <2>1. waiting \in Seq(Requests) /\ running \in Seq(Requests) BY <1>1 DEF Queues
    <2> QED BY <2>1, ConcatOnce DEF Queued
  <1> HIDE DEF gone
  <1>5. /\ wait \in Seq(Requests) /\ Range(wait) = Range(waiting) \ gone /\ IsInjective(wait)
        /\ turns \in Seq(Requests) /\ Range(turns) = Range(running) \ gone /\ IsInjective(turns)
        /\ Len(turns) <= Len(running)
    BY <1>1, <1>4, WithoutIs DEF Queues
  <1>6. Len(turns) \in Nat /\ Len(turns) <= MaxRunning
    BY <1>1, <1>4, <1>5, WorkerAssumption DEF Ended
  <1> HIDE DEF wait, turns
  <1>7. Range(wait) \cap Range(turns) = {} /\ (Range(wait) \cup Range(turns)) \cap new = {}
    BY <1>1, <1>5 DEF Queues, Queued
  \* the new queues
  <1>8. /\ Queues' /\ Queued' = Queued \ gone /\ Len(running') <= MaxRunning
        /\ Range(turns) \subseteq Range(running')
        /\ rr' \in Nat
        /\ cur' = None \/ cur' \in Range(running')
    <2>1. CASE /\ wait # <<>> /\ Len(turns) < MaxRunning
               /\ waiting' = Tail(wait) /\ running' = Append(turns, Head(wait))
               /\ cur' = Head(wait) /\ rr' = rr
      <3>1. /\ Range(wait) = Range(Tail(wait)) \cup {Head(wait)} /\ Head(wait) \in Range(wait)
            /\ IsInjective(Tail(wait)) /\ Head(wait) \notin Range(Tail(wait))
        BY <1>5, <2>1, TailRange, TailOnce
      <3>2. Tail(wait) \in Seq(Requests) /\ Head(wait) \in Requests BY <1>5, <2>1, HeadTailProperties
      <3>3. Head(wait) \notin Range(turns) BY <3>1, <1>7
      <3>4. /\ running' \in Seq(Requests) /\ Len(running') = Len(turns) + 1
            /\ Range(running') = Range(turns) \cup {Head(wait)} /\ IsInjective(running')
        BY <1>5, <2>1, <3>2, <3>3, AppendProperties, AppendRange, AppendOnce
      <3>5. Len(running') <= MaxRunning BY <1>6, <2>1, <3>4, WorkerAssumption
      <3>6. Queues'
        BY <1>1, <1>2, <1>7, <2>1, <3>1, <3>2, <3>4 DEF Queues, Queued
      <3>7. Queued' = Queued \ gone
        BY <1>5, <2>1, <3>1, <3>4 DEF Queued
      <3>8. rr' \in Nat BY <1>1, <2>1 DEF Typed
      <3> QED BY <2>1, <3>4, <3>5, <3>6, <3>7, <3>8
    <2>2. CASE /\ turns # <<>> /\ waiting' = wait /\ running' = turns
               /\ rr' = then /\ cur' = IF turns = <<own>> THEN own ELSE turns[then + 1]
      <3>1. rr \in Nat /\ Len(turns) \in Nat \ {0} BY <1>1, <1>5, <2>2 DEF Typed
      <3>2. then \in 0..(Len(turns) - 1) BY <3>1
      <3>3. turns[then + 1] \in Range(turns) BY <1>5, <3>1, <3>2, RangeIs
      <3>4. turns = <<own>> => own \in Range(turns)
        <4>1. SUFFICES ASSUME turns = <<own>> PROVE own \in Range(turns) OBVIOUS
        <4>2. Len(turns) = 1 /\ turns[1] = own BY <4>1
        <4> QED BY <1>5, <4>2, RangeIs
      <3>5. cur' \in Range(running') BY <2>2, <3>3, <3>4
      <3>6. rr' \in Nat BY <2>2, <3>2
      <3> QED
        BY <1>1, <1>2, <1>5, <1>6, <1>7, <2>2, <3>5, <3>6 DEF Queues, Queued
    <2>3. CASE waiting' = wait /\ running' = turns /\ cur' = None /\ rr' = rr
      <3>1. rr' \in Nat BY <1>1, <2>3 DEF Typed
      <3> QED BY <1>1, <1>2, <1>5, <1>6, <1>7, <2>3, <3>1 DEF Queues, Queued
    <2> QED BY <1>3, <2>1, <2>2, <2>3
  <1>9. \A r \in Requests : finish'[r] = None <=> r \in new' \cup Queued'
    <2>1. None # "abort" BY RequestsAssumption
    <2> QED BY <1>1, <1>2, <1>4, <1>8, <2>1 DEF Ended, Queues
  <1>10. Ended' BY <1>8, <1>9 DEF Ended
  <1>11. running' \in Seq(Requests) /\ Range(running') \subseteq Requests BY <1>8, RangeIs DEF Queues
  <1>12. owner' # None => owner' = owner /\ owner \in Range(turns)
    BY <1>1, <1>2, <1>5 DEF Turned
  <1>13. cur' \in Requests \cup {None} /\ owner' \in Requests \cup {None}
    BY <1>1, <1>2, <1>8, <1>11 DEF Typed
  <1>14. Typed'
    <2>1. finish' \in [Requests -> {None, "stop", "length", "abort", "error"}] BY <1>1, <1>2 DEF Typed
    <2>2. entry' \in [Requests -> Saveds \cup {None}] BY <1>1, <1>2 DEF Typed
    <2>3. phase' \in {"loop", "stopped"} \cup Turns BY <1>2 DEF Turns
    <2> QED BY <1>1, <1>2, <1>8, <1>13, <2>1, <2>2, <2>3 DEF Typed, model
  <1>15. Turned'
    <2>1. phase' \in Turns => cur' \in Range(running') BY <1>2, <1>8 DEF Turns
    <2>2. phase' \in {"loop", "feed", "save"} BY <1>2
    <2>3. phase' = "save" => owner' # cur' BY <1>2
    <2>4. phase' = "feed" => owner' = cur' BY <1>2
    <2>5. owner' # None => owner' \in Range(running') /\ dev' \in {owner', None}
      BY <1>1, <1>2, <1>8, <1>12 DEF Turned
    <2> QED BY <2>1, <2>2, <2>3, <2>4, <2>5 DEF Turned
  <1>16. Held' BY <1>1, <1>2, <1>12 DEF Held
  <1>17. Pinned'
    <2>1. SUFFICES ASSUME NEW r \in Requests, entry'[r] # None
                   PROVE  /\ r \in Range(running') /\ r # owner'
                          /\ entry'[r] = [key |-> fed'[r], data |-> fed'[r]]
      BY DEF Pinned
    <2>2. r \notin gone /\ entry'[r] = entry[r] BY <1>2, <2>1
    <2>3. r \in Range(running) /\ r # owner /\ entry[r] = [key |-> fed[r], data |-> fed[r]]
      BY <1>1, <2>1, <2>2 DEF Pinned
    <2>4. r \in Range(running') BY <1>5, <1>8, <2>2, <2>3
    <2>5. r # owner' BY <1>12, <2>1, <2>3, RequestsAssumption
    <2> QED BY <1>2, <2>2, <2>3, <2>4, <2>5
  <1>18. Loading' BY <1>2 DEF Loading
  <1>19. SavedAsKeyed' BY <1>1, <1>2 DEF SavedAsKeyed
  <1> QED BY <1>8, <1>10, <1>14, <1>15, <1>16, <1>17, <1>18, <1>19 DEF WorkerInv

LEMMA SwitchSavesInv ==
  ASSUME WorkerInv, SwitchSaves, UNCHANGED model
  PROVE  WorkerInv'
PROOF
  <1> USE DEF WorkerInv
  <1>1. /\ phase = "save" /\ owner' = None /\ phase' = "take"
        /\ UNCHANGED <<waiting, running, fed, next, out, finish, new, cancelled, stop, flush, dev, rr, kv, cur,
                       match, have>>
    BY DEF SwitchSaves, api
  <1> DEFINE cond == owner # None /\ finish[owner] = None /\ fed[owner] # <<>> /\ Device # <<>>
  <1>2. \/ /\ owner # None /\ Device # <<>>
           /\ saved' = saved \cup {Entry} /\ entry' = [entry EXCEPT ![owner] = Entry] /\ dirty' = FALSE
        \/ UNCHANGED <<saved, entry, dirty>>
    BY DEF SwitchSaves, PinnedFor
  <1>3. Queues' /\ Ended' BY <1>1 DEF Queues, Queued, Ended
  <1>4. saved' \subseteq Saveds /\ SavedAsKeyed' /\ entry' \in [Requests -> Saveds \cup {None}] /\ dirty' \in BOOLEAN
    <2>1. CASE UNCHANGED <<saved, entry, dirty>> BY <2>1 DEF Typed, SavedAsKeyed
    <2>2. CASE /\ owner # None /\ Device # <<>>
               /\ saved' = saved \cup {Entry} /\ entry' = [entry EXCEPT ![owner] = Entry] /\ dirty' = FALSE
      <3>1. Entry \in Saveds /\ Entry.key = Entry.data BY <2>2, EntryIs
      <3>2. saved \subseteq Saveds /\ entry \in [Requests -> Saveds \cup {None}] BY DEF Typed
      <3>3. entry' \in [Requests -> Saveds \cup {None}] BY <2>2, <3>1, <3>2
      <3>4. saved' \subseteq Saveds /\ SavedAsKeyed' BY <2>2, <3>1, <3>2 DEF SavedAsKeyed
      <3> QED BY <2>2, <3>3, <3>4
    <2> QED BY <1>2, <2>1, <2>2
  <1>5. Typed' BY <1>1, <1>4 DEF Typed, Turns, model
  <1>6. Turned' BY <1>1 DEF Turned, Turns
  <1>7. Held' BY <1>1 DEF Held
  <1>8. Pinned'
    <2>1. CASE UNCHANGED <<saved, entry, dirty>>
      <3>1. \A r \in Requests : r # None BY RequestsAssumption
      <3> QED BY <1>1, <2>1, <3>1 DEF Pinned
    <2>2. CASE /\ owner # None /\ Device # <<>> /\ entry' = [entry EXCEPT ![owner] = Entry]
      <3>1. /\ owner \in Range(running) /\ dev = owner /\ owner \in Requests
            /\ Entry = [key |-> fed[owner], data |-> fed[owner]]
        <4>1. dev \in Requests /\ Device = fed[dev] /\ Entry = [key |-> Device, data |-> Device]
          BY <2>2, EntryIs
        <4>2. dev = owner BY <2>2, <4>1, RequestsAssumption DEF Turned
        <4> QED BY <2>2, <4>1, <4>2 DEF Turned
      <3>2. ASSUME NEW r \in Requests, entry'[r] # None
            PROVE  r \in Range(running) /\ r # None /\ entry'[r] = [key |-> fed[r], data |-> fed[r]]
        <4>1. r # None BY RequestsAssumption
        <4>2. entry \in [Requests -> Saveds \cup {None}] BY DEF Typed
        <4>3. CASE r = owner BY <2>2, <3>1, <4>1, <4>2, <4>3
        <4>4. CASE r # owner
          <5>1. entry'[r] = entry[r] BY <2>2, <4>2, <4>4
          <5> QED BY <3>2, <4>1, <5>1 DEF Pinned
        <4> QED BY <4>3, <4>4
      <3> QED BY <1>1, <3>2 DEF Pinned
    <2> QED BY <1>2, <2>1, <2>2
  <1>9. Loading' BY <1>1 DEF Loading
  <1> QED BY <1>3, <1>4, <1>5, <1>6, <1>7, <1>8, <1>9

(* What a request continues, and how much of it the device holds.          *)
LEMMA WantedIs ==
  ASSUME Typed, NEW r \in Requests
  PROVE  /\ Wanted(r) \in Seq(Tokens)
         /\ fed[r] # <<>> => Wanted(r) = fed[r]
         /\ fed[r] = <<>> => \A k \in 0..Len(Wanted(r)) : Take(Wanted(r), k) = Take(Prompt[r], k)
PROOF
  <1>1. fed[r] \in Seq(Tokens) /\ Prompt[r] \in Seq(Tokens) /\ Prompt[r] # <<>>
    BY RequestsAssumption DEF Typed
  <1>2. Len(Prompt[r]) - 1 \in 0..Len(Prompt[r]) BY <1>1
  <1>3. Front(Prompt[r]) = Take(Prompt[r], Len(Prompt[r]) - 1) BY DEF Front, Take
  <1>4. Front(Prompt[r]) \in Seq(Tokens) /\ Len(Front(Prompt[r])) = Len(Prompt[r]) - 1
    BY <1>1, <1>2, <1>3, TakeIs
  <1>5. \A k \in 0..Len(Front(Prompt[r])) : Take(Front(Prompt[r]), k) = Take(Prompt[r], k)
    BY <1>1, <1>2, <1>3, <1>4, TakeTake
  <1> QED BY <1>1, <1>4, <1>5 DEF Wanted

LEMMA DeviceLenIs ==
  ASSUME Typed, NEW r \in Requests
  PROVE  /\ DeviceLen(r) \in 0..Len(Wanted(r)) /\ DeviceLen(r) <= Len(Device)
         /\ Take(Device, DeviceLen(r)) = Take(Wanted(r), DeviceLen(r))
         /\ stateful /\ DeviceLen(r) # 0 => DeviceLen(r) = Len(Device)
         /\ fed[r] # <<>> /\ DeviceLen(r) # 0 => DeviceLen(r) = Len(fed[r])
PROOF
  <1> DEFINE c == Common(Device, Wanted(r))
  <1>1. Device \in Seq(Tokens) /\ Wanted(r) \in Seq(Tokens) BY DeviceIs, WantedIs
  <1>2. c \in Nat /\ c <= Len(Wanted(r)) /\ c <= Len(Device) /\ Take(Device, c) = Take(Wanted(r), c)
    BY <1>1, CommonIs
  <1>3. Take(Device, 0) = Take(Wanted(r), 0) BY <1>1, TakeAll
  <1>4. DeviceLen(r) = IF (stateful /\ c # Len(Device)) \/ (fed[r] # <<>> /\ c # Len(fed[r])) THEN 0 ELSE c
    BY DEF DeviceLen
  <1> HIDE DEF c
  <1> QED BY <1>1, <1>2, <1>3, <1>4

(* The device switched to the thread's request.                            *)
LEMMA SwitchedInv ==
  ASSUME WorkerInv, phase \in {"take", "load"}, NEW k \in 0..Len(Wanted(cur)), NEW content,
         content = Take(Wanted(cur), k), SwitchedTo(cur, k, content),
         saved' \subseteq Saveds, SavedAsKeyed', have' = have, UNCHANGED model
  PROVE  WorkerInv'
PROOF
  <1>1. /\ Queues /\ Typed /\ Ended /\ Turned /\ Held /\ Pinned
        /\ cur \in Range(running) /\ cur \in Requests /\ cur # None
    <2>1. cur \in Range(running) BY DEF WorkerInv, Turned, Turns
    <2>2. cur \in Requests BY <2>1, RangeIs DEF WorkerInv, Queues
    <2> QED BY <2>1, <2>2, RequestsAssumption DEF WorkerInv
  <1>2. /\ fed' = [fed EXCEPT ![cur] = IF @ = <<>> THEN Take(Prompt[cur], k)
                                       ELSE IF Again(cur, k) THEN <<>> ELSE @]
        /\ next' = [next EXCEPT ![cur] = IF Again(cur, k) THEN None ELSE @]
        /\ entry' = [entry EXCEPT ![cur] = None]
        /\ kv' = IF Again(cur, k) THEN <<>> ELSE content
        /\ owner' = cur /\ dev' = cur /\ dirty' = TRUE /\ phase' = "feed"
        /\ UNCHANGED <<waiting, running, out, finish, new, cancelled, stop, flush, rr, cur>>
    BY DEF SwitchedTo, api
  <1>3. Wanted(cur) \in Seq(Tokens) /\ content \in Seq(Tokens) BY <1>1, WantedIs, TakeIs
  <1>4. /\ fed' \in [Requests -> Seq(Tokens)] /\ fed'[cur] = kv'
        /\ \A r \in Requests : r # cur => fed'[r] = fed[r]
    <2>1. fed \in [Requests -> Seq(Tokens)] BY <1>1 DEF Typed
    <2>2. CASE fed[cur] = <<>>
      <3>1. ~ Again(cur, k) BY <2>2 DEF Again
      <3>2. content = Take(Prompt[cur], k) BY <1>1, <2>2, WantedIs
      <3> QED BY <1>1, <1>2, <1>3, <2>1, <2>2, <3>1, <3>2
    <2>3. CASE fed[cur] # <<>> /\ Again(cur, k)
      <3>1. <<>> \in Seq(Tokens) OBVIOUS
      <3> QED BY <1>1, <1>2, <2>1, <2>3, <3>1
    <2>4. CASE fed[cur] # <<>> /\ ~ Again(cur, k)
      <3>1. k = Len(fed[cur]) /\ Wanted(cur) = fed[cur] BY <1>1, <2>4, WantedIs DEF Again
      <3>2. content = fed[cur] BY <1>1, <2>1, <3>1, TakeAll
      <3> QED BY <1>1, <1>2, <2>1, <2>4, <3>2
    <2> QED BY <2>2, <2>3, <2>4
  <1>5. Queues' /\ Ended' BY <1>1, <1>2 DEF Queues, Queued, Ended
  <1>6. Typed'
    <2>1. next' \in [Requests -> Tokens \cup {None}] BY <1>1, <1>2 DEF Typed
    <2>2. entry' \in [Requests -> Saveds \cup {None}] BY <1>1, <1>2 DEF Typed
    <2>3. kv' \in Seq(Tokens) BY <1>2, <1>3, EmptySeq
    <2> QED BY <1>1, <1>2, <1>4, <2>1, <2>2, <2>3 DEF Typed, Turns, model
  <1>7. Turned' BY <1>1, <1>2 DEF Turned, Turns
  <1>8. Held' BY <1>2, <1>4 DEF Held
  <1>9. Pinned'
    <2>1. SUFFICES ASSUME NEW r \in Requests, entry'[r] # None
                   PROVE  /\ r \in Range(running') /\ r # owner'
                          /\ entry'[r] = [key |-> fed'[r], data |-> fed'[r]]
      BY DEF Pinned
    <2>2. entry \in [Requests -> Saveds \cup {None}] BY <1>1 DEF Typed
    <2>3. r # cur /\ entry'[r] = entry[r] BY <1>1, <1>2, <2>1, <2>2
    <2>4. r \in Range(running) /\ entry[r] = [key |-> fed[r], data |-> fed[r]]
      BY <1>1, <2>1, <2>3 DEF Pinned
    <2> QED BY <1>2, <1>4, <2>3, <2>4
  <1>10. Loading' BY <1>2 DEF Loading
  <1> QED BY <1>5, <1>6, <1>7, <1>8, <1>9, <1>10 DEF WorkerInv

LEMMA SwitchReusesInv ==
  ASSUME WorkerInv, SwitchReuses, UNCHANGED model
  PROVE  WorkerInv'
PROOF
  <1> DEFINE k == DeviceLen(cur)
  <1>1. /\ phase = "take" /\ k > 0 /\ SwitchedTo(cur, k, Adopted(kv, k)) /\ have' = have
        /\ saved' = SavesIf(dirty /\ k < Len(Device))
    BY DEF SwitchReuses
  <1>2. Typed /\ Held /\ SavedAsKeyed BY DEF WorkerInv
  <1>3. cur \in Requests
    <2>1. cur \in Range(running) BY <1>1 DEF WorkerInv, Turned, Turns
    <2> QED BY <2>1, RangeIs DEF WorkerInv, Queues
  <1>4. /\ k \in 0..Len(Wanted(cur)) /\ k <= Len(Device) /\ Take(Device, k) = Take(Wanted(cur), k)
        /\ stateful /\ k # 0 => k = Len(Device)
    BY <1>2, <1>3, DeviceLenIs
  <1>5. Device # <<>> /\ kv = Device
    <2>1. Wanted(cur) \in Seq(Tokens) /\ Device \in Seq(Tokens) BY <1>2, <1>3, WantedIs, DeviceIs
    <2>2. k \in Nat /\ k # 0 BY <1>1, <1>4, <2>1
    <2>3. Device # <<>> BY <1>4, <2>1, <2>2
    <2> QED BY <1>2, <2>3, EntryIs
  <1> HIDE DEF k
  <1>6. Adopted(kv, k) = Take(Wanted(cur), k) BY <1>1, <1>4, <1>5 DEF Adopted
  <1>7. saved' \subseteq Saveds /\ SavedAsKeyed' BY <1>1, <1>2, SavesIfIs
  <1> QED BY <1>1, <1>4, <1>6, <1>7, SwitchedInv

LEMMA SwitchLeavesInv ==
  ASSUME WorkerInv, NEW s, SwitchLeaves(s), UNCHANGED model
  PROVE  WorkerInv'
PROOF
  <1>1. /\ phase = "take" /\ phase' = "load" /\ s \in Matches(cur) /\ match' = s
        /\ have' = Common(Device, Wanted(cur)) /\ saved' = SavesIf(dirty)
        /\ dirty' = (dirty /\ Device = <<>>)
        /\ UNCHANGED <<waiting, running, fed, next, out, finish, entry, new, cancelled, stop, flush,
                       owner, dev, rr, kv, cur>>
    BY DEF SwitchLeaves, reqs, api
  <1>2. Queues /\ Typed /\ Ended /\ Turned /\ Held /\ Pinned /\ SavedAsKeyed BY DEF WorkerInv
  <1>3. cur \in Range(running) /\ cur \in Requests
    <2>1. cur \in Range(running) BY <1>1, <1>2 DEF Turned, Turns
    <2> QED BY <1>2, <2>1, RangeIs DEF Queues
  <1>4. /\ have' \in Nat /\ have' <= Len(Device) /\ have' <= Len(Wanted(cur))
        /\ Take(Device, have') = Take(Wanted(cur), have')
    BY <1>1, <1>2, <1>3, DeviceIs, WantedIs, CommonIs
  <1>5. have' <= Len(kv) /\ Take(kv, have') = Take(Device, have')
    <2>1. kv \in Seq(Tokens) /\ Device \in Seq(Tokens) BY <1>2, DeviceIs DEF Typed
    <2>2. CASE Device = <<>>
      <3>1. have' = 0 BY <1>4, <2>2
      <3> QED BY <2>1, <3>1, TakeAll
    <2>3. CASE Device # <<>> BY <1>2, <1>4, <2>3, EntryIs
    <2> QED BY <2>2, <2>3
  <1>6. saved' \subseteq Saveds /\ SavedAsKeyed' BY <1>1, <1>2, SavesIfIs
  <1>7. Queues' /\ Ended' BY <1>1, <1>2 DEF Queues, Queued, Ended
  <1>8. Typed' BY <1>1, <1>2, <1>4, <1>6 DEF Typed, Turns, model
  <1>9. Turned' BY <1>1, <1>2 DEF Turned, Turns
  <1>10. Held' /\ Pinned' BY <1>1, <1>2 DEF Held, Pinned
  <1>11. Loading'
    <2>1. Wanted(cur)' = Wanted(cur) BY <1>1 DEF Wanted
    <2>2. fed[cur] # <<>> => s = entry[cur] BY <1>1 DEF Matches
    <2> QED BY <1>1, <1>4, <1>5, <2>1, <2>2 DEF Loading
  <1> QED BY <1>6, <1>7, <1>8, <1>9, <1>10, <1>11 DEF WorkerInv

(* What is taken from the match that is there.                             *)
LEMMA MatchIs ==
  ASSUME WorkerInv, phase = "load", match \in saved
  PROVE  /\ MatchedLen(cur, match) \in 0..Len(Wanted(cur))
         /\ match.data \in Seq(Tokens) /\ MatchedLen(cur, match) <= Len(match.data)
         /\ Take(match.data, MatchedLen(cur, match)) = Take(Wanted(cur), MatchedLen(cur, match))
PROOF
  <1>1. Typed /\ Pinned /\ Loading /\ SavedAsKeyed /\ cur \in Requests
    <2>1. cur \in Range(running) BY DEF WorkerInv, Turned, Turns
    <2>2. cur \in Requests BY <2>1, RangeIs DEF WorkerInv, Queues
    <2> QED BY <2>2 DEF WorkerInv
  <1>2. match \in Saveds /\ match.data = match.key /\ match # None
    BY <1>1, RequestsAssumption DEF Typed, SavedAsKeyed, Saveds
  <1>3. match.data \in Seq(Tokens) /\ match.key \in Seq(Tokens) /\ Wanted(cur) \in Seq(Tokens)
    BY <1>1, <1>2, WantedIs DEF Saveds
  <1>4. CASE fed[cur] # <<>>
    <2>1. match = entry[cur] BY <1>1, <1>4 DEF Loading
    <2>2. match.data = fed[cur]
      <3>1. entry[cur] = [key |-> fed[cur], data |-> fed[cur]] BY <1>1, <1>2, <2>1 DEF Pinned
      <3> QED BY <2>1, <3>1
    <2>3. MatchedLen(cur, match) = Len(fed[cur]) /\ Wanted(cur) = fed[cur] BY <1>1, <1>4, WantedIs DEF MatchedLen
    <2> QED BY <1>3, <2>2, <2>3
  <1>5. CASE fed[cur] = <<>>
    <2> DEFINE c == Common(match.key, Wanted(cur))
    <2>1. c \in Nat /\ c <= Len(match.key) /\ c <= Len(Wanted(cur)) /\ Take(match.key, c) = Take(Wanted(cur), c)
      BY <1>3, CommonIs
    <2>2. MatchedLen(cur, match) = IF stateful /\ c # Len(match.key) THEN 0 ELSE c
      BY <1>2, <1>5 DEF MatchedLen, MatchLen
    <2>3. Take(match.key, 0) = Take(Wanted(cur), 0) BY <1>3, TakeAll
    <2> HIDE DEF c
    <2> QED BY <1>2, <1>3, <2>1, <2>2, <2>3
  <1> QED BY <1>4, <1>5

LEMMA SwitchLoadsInv ==
  ASSUME WorkerInv, SwitchLoads, UNCHANGED model
  PROVE  WorkerInv'
PROOF
  <1>1. Queues /\ Typed /\ Loading /\ SavedAsKeyed /\ phase = "load" BY DEF WorkerInv, SwitchLoads
  <1>2. cur \in Requests
    <2>1. cur \in Range(running) BY <1>1 DEF WorkerInv, Turned, Turns
    <2> QED BY <1>1, <2>1, RangeIs DEF Queues
  <1>3. saved' \subseteq Saveds /\ SavedAsKeyed' /\ have' = have
    BY <1>1 DEF SwitchLoads, Typed, SavedAsKeyed
  <1>4. Wanted(cur) \in Seq(Tokens) /\ kv \in Seq(Tokens) /\ have \in Nat BY <1>1, <1>2, WantedIs DEF Typed
  <1>5. CASE match \in saved
    <2> DEFINE k    == MatchedLen(cur, match)
               kept == IF have < k THEN have ELSE k
               content == Take(kv, kept) \o SubSeq(match.data, kept + 1, k)
    <2>1. SwitchedTo(cur, k, content) BY <1>5 DEF SwitchLoads
    <2>2. /\ k \in 0..Len(Wanted(cur)) /\ match.data \in Seq(Tokens) /\ k <= Len(match.data)
          /\ Take(match.data, k) = Take(Wanted(cur), k)
      BY <1>1, <1>5, MatchIs
    <2> HIDE DEF k
    <2>3. kept \in 0..k /\ kept <= have /\ kept \in 0..Len(kv) /\ kept \in 0..Len(Wanted(cur))
      BY <1>1, <1>4, <2>2 DEF Loading
    <2> HIDE DEF kept
    <2>4. Take(kv, kept) = Take(Wanted(cur), kept)
      <3>1. have \in 0..Len(kv) /\ have <= Len(Wanted(cur)) /\ Take(kv, have) = Take(Wanted(cur), have)
        BY <1>1, <1>4 DEF Loading
      <3>2. kept \in 0..have BY <1>4, <2>3
      <3> QED BY <1>4, <3>1, <3>2, TakeLess
    <2>5. Take(match.data, kept) = Take(Wanted(cur), kept)
      <3>1. k \in 0..Len(match.data) /\ k <= Len(Wanted(cur)) BY <1>4, <2>2
      <3> QED BY <1>4, <2>2, <2>3, <3>1, TakeLess
    <2>6. content = Take(match.data, k)
      <3>1. 1 \in 1..(Len(match.data) + 1) /\ kept \in (1 - 1)..Len(match.data) /\ k \in kept..Len(match.data)
        BY <2>2, <2>3
      <3>2. SubSeq(match.data, 1, kept) \o SubSeq(match.data, kept + 1, k) = SubSeq(match.data, 1, k)
        BY <2>2, <3>1, ConcatAdjacentSubSeq
      <3> QED BY <2>4, <2>5, <3>2 DEF Take
    <2>7. content = Take(Wanted(cur), k) BY <2>2, <2>6
    <2> HIDE DEF content
    <2> QED BY <1>1, <1>3, <2>1, <2>2, <2>7, SwitchedInv
  <1>6. CASE match \notin saved
    <2>1. SwitchedTo(cur, 0, <<>>) BY <1>6 DEF SwitchLoads
    <2>2. 0 \in 0..Len(Wanted(cur)) /\ <<>> = Take(Wanted(cur), 0) BY <1>4, TakeAll
    <2> QED BY <1>1, <1>3, <2>1, <2>2, SwitchedInv
  <1> QED BY <1>5, <1>6

----------------------------------------------------------------------------
(* What the model says, and what _emit does with it.                       *)
LEMMA SaysIn ==
  ASSUME NEW c \in Seq(Tokens)
  PROVE  Says(c) \in Tokens
PROOF
  <1> DEFINE whose == {r \in Requests : /\ Len(c) \in Len(Prompt[r])..(Len(Prompt[r]) + Len(Reply[r]) - 1)
                                        /\ IsPrefix(c, Prompt[r] \o Reply[r])}
             r == CHOOSE r \in whose : TRUE
  <1>1. Says(c) = IF whose = {} THEN Garbage ELSE Reply[r][Len(c) - Len(Prompt[r]) + 1]
    BY DEF Says
  <1>2. ASSUME NEW s \in whose PROVE Reply[s][Len(c) - Len(Prompt[s]) + 1] \in Tokens
    <2> DEFINE m == Len(Prompt[s])
               n == Len(Reply[s])
    <2>1. Prompt[s] \in Seq(Tokens) /\ Reply[s] \in Seq(Tokens) BY RequestsAssumption
    <2>2. m \in Nat /\ n \in Nat /\ Len(c) \in Nat BY <2>1
    <2>3. Len(c) \in m..(m + n - 1) OBVIOUS
    <2> HIDE DEF m, n
    <2>4. Len(c) - m + 1 \in 1..n BY <2>2, <2>3
    <2>5. \A i \in 1..n : Reply[s][i] \in Tokens BY <2>1 DEF n
    <2> DEFINE i == Len(c) - m + 1
    <2>6. Reply[s][i] \in Tokens BY <2>4, <2>5
    <2> QED BY <2>6 DEF m
  <1>3. whose # {} => r \in whose OBVIOUS
  <1> HIDE DEF whose, r
  <1> QED BY <1>1, <1>2, <1>3, RequestsAssumption

(* A token of the turn's request: it ends, or its turn does or goes on.    *)
LEMMA EmitsIs ==
  ASSUME Typed, NEW r \in Requests, NEW t \in Tokens, Emits(r, t)
  PROVE  /\ next' \in [Requests -> Tokens \cup {None}] /\ out' \in [Requests -> Seq(Tokens)]
         /\ \/ /\ Ends({r}, Finish(out[r], t, r)) /\ owner' = None /\ phase' = "loop"
               /\ Finish(out[r], t, r) \in {"stop", "length"}
            \/ /\ UNCHANGED <<waiting, running, entry, finish, owner>>
               /\ phase' \in {"loop", "decode"} /\ next'[r] # None
PROOF
  <1> DEFINE fin == Finish(out[r], t, r)
             words == Words(out[r], t)
  <1>1. /\ out' = [out EXCEPT ![r] = words]
        /\ next' = [next EXCEPT ![r] = IF t \in StopIds THEN None ELSE t]
    BY DEF Emits
  <1>2. /\ fin # None => Ends({r}, fin) /\ owner' = None /\ phase' = "loop"
        /\ fin = None => /\ UNCHANGED <<waiting, running, entry, finish, owner>>
                         /\ phase' \in {"loop", "decode"}
    BY DEF Emits
  <1>3. words \in Seq(Tokens) BY DEF Words, Typed
  <1>4. fin \in {"stop", "length", None} /\ (fin = None => t \notin StopIds)
    BY RequestsAssumption DEF Finish
  <1>5. t # None BY RequestsAssumption
  <1> HIDE DEF fin, words
  <1>6. next' \in [Requests -> Tokens \cup {None}] /\ (fin = None => next'[r] # None)
    BY <1>1, <1>4, <1>5 DEF Typed
  <1>7. out' \in [Requests -> Seq(Tokens)] BY <1>1, <1>3 DEF Typed
  <1> QED BY <1>2, <1>4, <1>6, <1>7 DEF fin

(* The turn's request ends.                                                *)
LEMMA TurnEnds ==
  ASSUME WorkerInv, phase \in Turns, NEW why \in {"stop", "length", "abort", "error"}, Ends({cur}, why),
         owner' = None, phase' = "loop", dev' \in {dev, None}, dev' # None => kv' = fed'[dev'],
         fed' \in [Requests -> Seq(Tokens)], \A r \in Requests : r # cur => fed'[r] = fed[r],
         next' \in [Requests -> Tokens \cup {None}], out' \in [Requests -> Seq(Tokens)],
         kv' \in Seq(Tokens), dirty' \in BOOLEAN, saved' \subseteq Saveds, SavedAsKeyed',
         UNCHANGED <<model, new, cancelled, stop, flush, rr, cur, have>>
  PROVE  WorkerInv'
PROOF
  <1>1. /\ Queues /\ Typed /\ Ended /\ Turned /\ Held /\ Pinned
        /\ cur \in Range(running) /\ {cur} \in SUBSET Queued
    BY DEF WorkerInv, Turned, Queued
  <1>2. Queues' /\ Range(running') = Range(running) \ {cur} BY <1>1, EndsQueues
  <1>3. /\ Ended' /\ finish' \in [Requests -> {None, "stop", "length", "abort", "error"}]
        /\ entry' \in [Requests -> Saveds \cup {None}]
    BY <1>1, EndsEnded
  <1>4. Typed' BY <1>1, <1>3 DEF Typed, Turns, model
  <1>5. Turned' /\ Held' /\ Loading' BY DEF Turned, Turns, Held, Loading
  <1>6. Pinned'
    <2>1. SUFFICES ASSUME NEW r \in Requests, entry'[r] # None
                   PROVE  /\ r \in Range(running') /\ r # owner'
                          /\ entry'[r] = [key |-> fed'[r], data |-> fed'[r]]
      BY DEF Pinned
    <2>2. r # cur /\ entry'[r] = entry[r] BY <2>1 DEF Ends
    <2>3. r \in Range(running) /\ entry[r] = [key |-> fed[r], data |-> fed[r]]
      BY <1>1, <2>1, <2>2 DEF Pinned
    <2>4. r # owner' BY RequestsAssumption
    <2> QED BY <1>2, <2>2, <2>3, <2>4
  <1> QED BY <1>2, <1>3, <1>4, <1>5, <1>6 DEF WorkerInv

(* The turn goes on, or yields.                                            *)
LEMMA TurnGoesOn ==
  ASSUME WorkerInv, phase \in {"feed", "decode"}, phase' \in {"feed", "decode", "loop"},
         phase' = "decode" => next'[cur] # None,
         fed' \in [Requests -> Seq(Tokens)], \A r \in Requests : r # cur => fed'[r] = fed[r], kv' = fed'[cur],
         next' \in [Requests -> Tokens \cup {None}], out' \in [Requests -> Seq(Tokens)],
         saved' \subseteq Saveds, SavedAsKeyed',
         UNCHANGED <<model, waiting, running, finish, entry, owner, dev, dirty,
                     new, cancelled, stop, flush, rr, cur, have>>
  PROVE  WorkerInv'
PROOF
  <1>1. /\ Queues /\ Typed /\ Ended /\ Turned /\ Held /\ Pinned
        /\ cur \in Range(running) /\ owner = cur
    BY DEF WorkerInv, Turned, Turns
  <1>2. cur \in Requests /\ cur # None
    <2>1. cur \in Requests BY <1>1, RangeIs DEF Queues
    <2> QED BY <2>1, RequestsAssumption
  <1>3. Queues' /\ Ended' BY <1>1 DEF Queues, Queued, Ended
  <1>4. kv' \in Seq(Tokens) BY <1>2
  <1>5. Typed' BY <1>1, <1>4 DEF Typed, Turns, model
  <1>6. Turned' BY <1>1 DEF Turned, Turns
  <1>7. Held' BY <1>1, <1>2 DEF Held, Turned
  <1>8. Pinned'
    <2>1. \A r \in Requests : entry[r] # None => r # cur BY <1>1 DEF Pinned
    <2> QED BY <1>1, <2>1 DEF Pinned
  <1>9. Loading' BY DEF Loading
  <1> QED BY <1>3, <1>5, <1>6, <1>7, <1>8, <1>9 DEF WorkerInv

(* Where the turn's request has the device, the device holds its context.  *)
LEMMA TurnIs ==
  ASSUME WorkerInv, phase \in {"feed", "decode"}
  PROVE  cur \in Requests /\ cur \in Range(running) /\ cur # None /\ owner = cur /\ kv = fed[cur]
PROOF
  <1>1. cur \in Range(running) /\ owner = cur BY DEF WorkerInv, Turned, Turns
  <1>2. cur \in Requests BY <1>1, RangeIs DEF WorkerInv, Queues
  <1> QED BY <1>1, <1>2, RequestsAssumption DEF WorkerInv, Held

(* A token is fed to it.                                                   *)
LEMMA FeedIs ==
  ASSUME WorkerInv, phase \in {"feed", "decode"}, NEW t \in Tokens,
         fed' = [fed EXCEPT ![cur] = Append(@, t)], kv' = Append(kv, t)
  PROVE  /\ fed' \in [Requests -> Seq(Tokens)] /\ kv' = fed'[cur] /\ kv' \in Seq(Tokens)
         /\ \A r \in Requests : r # cur => fed'[r] = fed[r]
PROOF
  <1>1. cur \in Requests /\ kv = fed[cur] /\ fed \in [Requests -> Seq(Tokens)]
    BY TurnIs DEF WorkerInv, Typed
  <1>2. Append(kv, t) \in Seq(Tokens) BY <1>1, AppendProperties
  <1> QED BY <1>1, <1>2

LEMMA PrefillInv ==
  ASSUME WorkerInv, Prefill, UNCHANGED model
  PROVE  WorkerInv'
PROOF
  <1> DEFINE n == Len(fed[cur]) + 1
             t == Prompt[cur][n]
  <1>1. /\ phase = "feed" /\ Len(fed[cur]) < LastFed(cur)
        /\ fed' = [fed EXCEPT ![cur] = Append(@, t)] /\ kv' = Append(kv, t)
        /\ saved' = IF SavesAt(cur, n) /\ cur \notin cancelled
                    THEN saved \cup {[key |-> fed'[cur], data |-> kv']} ELSE saved
        /\ UNCHANGED <<new, cancelled, stop, flush, rr, dirty, dev, cur, have>>
    BY DEF Prefill, api
  <1>2. \/ Aborts(cur)
        \/ Emits(cur, Says(kv'))
        \/ UNCHANGED <<waiting, running, next, out, entry, finish, owner, phase>>
    BY DEF Prefill
  <1>3. /\ cur \in Requests /\ Typed /\ SavedAsKeyed /\ owner = cur /\ dev \in {cur, None} /\ cur \in Range(running)
    BY <1>1, TurnIs DEF WorkerInv, Turned
  <1>4. n \in 1..Len(Prompt[cur]) /\ t \in Tokens
    <2>1. Prompt[cur] \in Seq(Tokens) /\ fed[cur] \in Seq(Tokens)
      BY <1>3, RequestsAssumption DEF Typed
    <2>2. LastFed(cur) <= Len(Prompt[cur]) BY <2>1 DEF LastFed
    <2>3. n \in 1..Len(Prompt[cur]) BY <1>1, <2>1, <2>2 DEF LastFed
    <2> QED BY <2>1, <2>3
  <1> HIDE DEF n, t
  <1>5. /\ fed' \in [Requests -> Seq(Tokens)] /\ kv' = fed'[cur] /\ kv' \in Seq(Tokens)
        /\ \A r \in Requests : r # cur => fed'[r] = fed[r]
    BY <1>1, <1>4, FeedIs
  <1>6. saved' \subseteq Saveds /\ SavedAsKeyed'
    <2>1. saved \subseteq Saveds BY <1>3 DEF Typed
    <2>2. [key |-> fed'[cur], data |-> kv'] \in Saveds BY <1>5 DEF Saveds
    <2>3. saved' \subseteq saved \cup {[key |-> fed'[cur], data |-> kv']} BY <1>1
    <2>4. ASSUME NEW s \in saved' PROVE s.data = s.key
      <3>1. CASE s \in saved BY <1>3, <3>1 DEF SavedAsKeyed
      <3>2. CASE s = [key |-> fed'[cur], data |-> kv'] BY <1>5, <3>2
      <3> QED BY <2>3, <3>1, <3>2
    <2> QED BY <2>1, <2>2, <2>3, <2>4 DEF SavedAsKeyed
  <1>7. CASE Aborts(cur)
    BY <1>1, <1>3, <1>5, <1>6, <1>7, TurnEnds DEF Aborts, Turns, Typed
  <1>8. CASE Emits(cur, Says(kv'))
    <2>1. Says(kv') \in Tokens BY <1>5, SaysIn
    <2> DEFINE said == Says(kv')
    <2> HIDE DEF said
    <2>2. /\ next' \in [Requests -> Tokens \cup {None}] /\ out' \in [Requests -> Seq(Tokens)]
          /\ \/ /\ Ends({cur}, Finish(out[cur], said, cur)) /\ owner' = None /\ phase' = "loop"
                /\ Finish(out[cur], said, cur) \in {"stop", "length"}
             \/ /\ UNCHANGED <<waiting, running, entry, finish, owner>>
                /\ phase' \in {"loop", "decode"} /\ next'[cur] # None
      BY <1>3, <1>8, <2>1, EmitsIs DEF said
    <2>3. CASE /\ Ends({cur}, Finish(out[cur], said, cur)) /\ owner' = None /\ phase' = "loop"
               /\ Finish(out[cur], said, cur) \in {"stop", "length"}
      BY <1>1, <1>3, <1>5, <1>6, <2>2, <2>3, TurnEnds DEF Turns, Typed
    <2>4. CASE /\ UNCHANGED <<waiting, running, entry, finish, owner>>
               /\ phase' \in {"loop", "decode"} /\ next'[cur] # None
      BY <1>1, <1>3, <1>5, <1>6, <2>2, <2>4, TurnGoesOn
    <2> QED BY <2>2, <2>3, <2>4
  <1>9. CASE UNCHANGED <<waiting, running, next, out, entry, finish, owner, phase>>
    BY <1>1, <1>3, <1>5, <1>6, <1>9, TurnGoesOn DEF Typed
  <1> QED BY <1>2, <1>7, <1>8, <1>9

LEMMA DecodeBeginsInv ==
  ASSUME WorkerInv, DecodeBegins, UNCHANGED model
  PROVE  WorkerInv'
PROOF
  <1>1. /\ phase = "feed" /\ phase' = "decode"
        /\ UNCHANGED <<waiting, running, fed, out, finish, entry, new, cancelled, stop, flush, owner, dirty, dev,
                       rr, kv, saved, cur, have>>
        /\ \/ next[cur] # None /\ next' = next
           \/ next' = [next EXCEPT ![cur] = Prompt[cur][Len(Prompt[cur])]]
    BY DEF DecodeBegins, api, host
  <1>2. cur \in Requests /\ kv = fed[cur] /\ Typed /\ SavedAsKeyed BY <1>1, TurnIs DEF WorkerInv
  <1>3. Prompt[cur][Len(Prompt[cur])] \in Tokens /\ Prompt[cur][Len(Prompt[cur])] # None
    <2>1. Prompt[cur] \in Seq(Tokens) /\ Len(Prompt[cur]) \in 1..Len(Prompt[cur])
      BY <1>2, RequestsAssumption
    <2>2. Prompt[cur][Len(Prompt[cur])] \in Tokens BY <2>1
    <2> QED BY <2>2, RequestsAssumption
  <1>4. next' \in [Requests -> Tokens \cup {None}] /\ next'[cur] # None BY <1>1, <1>2, <1>3 DEF Typed
  <1>5. /\ fed' \in [Requests -> Seq(Tokens)] /\ out' \in [Requests -> Seq(Tokens)]
        /\ saved' \subseteq Saveds /\ SavedAsKeyed' /\ kv' = fed'[cur]
    BY <1>1, <1>2 DEF Typed, SavedAsKeyed
  <1> QED BY <1>1, <1>4, <1>5, TurnGoesOn

LEMMA DecodeInv ==
  ASSUME WorkerInv, Decode, UNCHANGED model
  PROVE  WorkerInv'
PROOF
  <1>1. /\ phase = "decode"
        /\ UNCHANGED <<new, cancelled, stop, flush, rr, dirty, dev, saved, cur, have>>
        /\ \/ Aborts(cur) /\ UNCHANGED <<fed, kv>>
           \/ /\ fed' = [fed EXCEPT ![cur] = Append(@, next[cur])]
              /\ kv' = Append(kv, next[cur]) /\ Emits(cur, Says(kv'))
    BY DEF Decode, api
  <1>2. /\ cur \in Requests /\ kv = fed[cur] /\ Typed /\ SavedAsKeyed /\ owner = cur /\ dev \in {cur, None}
        /\ next[cur] # None
    BY <1>1, TurnIs DEF WorkerInv, Turned
  <1>3. saved' \subseteq Saveds /\ SavedAsKeyed' BY <1>1, <1>2 DEF Typed, SavedAsKeyed
  <1>4. CASE Aborts(cur) /\ UNCHANGED <<fed, kv>>
    BY <1>1, <1>2, <1>3, <1>4, TurnEnds DEF Aborts, Turns, Typed
  <1>5. CASE /\ fed' = [fed EXCEPT ![cur] = Append(@, next[cur])]
             /\ kv' = Append(kv, next[cur]) /\ Emits(cur, Says(kv'))
    <2>1. next[cur] \in Tokens BY <1>2 DEF Typed
    <2>2. /\ fed' \in [Requests -> Seq(Tokens)] /\ kv' = fed'[cur] /\ kv' \in Seq(Tokens)
          /\ \A r \in Requests : r # cur => fed'[r] = fed[r]
      BY <1>1, <1>5, <2>1, FeedIs
    <2>3. Says(kv') \in Tokens BY <2>2, SaysIn
    <2> DEFINE said == Says(kv')
    <2> HIDE DEF said
    <2>4. /\ next' \in [Requests -> Tokens \cup {None}] /\ out' \in [Requests -> Seq(Tokens)]
          /\ \/ /\ Ends({cur}, Finish(out[cur], said, cur)) /\ owner' = None /\ phase' = "loop"
                /\ Finish(out[cur], said, cur) \in {"stop", "length"}
             \/ /\ UNCHANGED <<waiting, running, entry, finish, owner>>
                /\ phase' \in {"loop", "decode"} /\ next'[cur] # None
      BY <1>2, <1>5, <2>3, EmitsIs DEF said
    <2>5. CASE /\ Ends({cur}, Finish(out[cur], said, cur)) /\ owner' = None /\ phase' = "loop"
               /\ Finish(out[cur], said, cur) \in {"stop", "length"}
      BY <1>1, <1>2, <1>3, <2>2, <2>4, <2>5, TurnEnds DEF Turns, Typed
    <2>6. CASE /\ UNCHANGED <<waiting, running, entry, finish, owner>>
               /\ phase' \in {"loop", "decode"} /\ next'[cur] # None
      BY <1>1, <1>2, <1>3, <2>2, <2>4, <2>6, TurnGoesOn
    <2> QED BY <2>4, <2>5, <2>6
  <1> QED BY <1>1, <1>4, <1>5

LEMMA FailsInv ==
  ASSUME WorkerInv, Fails, UNCHANGED model
  PROVE  WorkerInv'
PROOF
  <1>1. /\ phase \in Turns /\ phase' = "loop" /\ Ends({cur}, "error")
        /\ owner' = None /\ dev' = None /\ dirty' = FALSE /\ kv' = <<>>
        /\ UNCHANGED <<fed, next, out, new, cancelled, stop, flush, rr, saved, cur, have>>
    BY DEF Fails, DeviceForgotten, Turns, api
  <1>2. Typed /\ SavedAsKeyed BY DEF WorkerInv
  <1>3. /\ fed' \in [Requests -> Seq(Tokens)] /\ next' \in [Requests -> Tokens \cup {None}]
        /\ out' \in [Requests -> Seq(Tokens)] /\ saved' \subseteq Saveds /\ SavedAsKeyed'
    BY <1>1, <1>2 DEF Typed, SavedAsKeyed
  <1>4. kv' \in Seq(Tokens) BY <1>1
  <1> QED BY <1>1, <1>3, <1>4, TurnEnds

LEMMA LoopStopsInv ==
  ASSUME WorkerInv, LoopStops, UNCHANGED model
  PROVE  WorkerInv'
PROOF
  <1> DEFINE all == Range(waiting \o running)
  <1>1. /\ Ends(all, "abort") /\ phase' = "stopped"
        /\ owner' = IF owner \in Range(running) THEN None ELSE owner
        /\ UNCHANGED <<fed, next, out, new, cancelled, stop, flush, dirty, dev, rr, kv, saved, cur, have>>
    BY DEF LoopStops, api
  <1>2. Queues /\ Typed /\ Ended /\ Turned /\ Held /\ Pinned /\ SavedAsKeyed BY DEF WorkerInv
  <1>3. all = Queued /\ all \in SUBSET Queued BY <1>2, ConcatOnce DEF Queues, Queued
  <1> HIDE DEF all
  <1>4. Queues' /\ Range(running') = Range(running) \ all BY <1>1, <1>2, EndsQueues
  <1>5. /\ Ended' /\ finish' \in [Requests -> {None, "stop", "length", "abort", "error"}]
        /\ entry' \in [Requests -> Saveds \cup {None}]
    BY <1>1, <1>2, <1>3, EndsEnded
  <1>6. owner' = None BY <1>1, <1>2 DEF Turned
  <1>7. Typed' BY <1>1, <1>2, <1>5, <1>6 DEF Typed, model
  <1>8. Turned' /\ Held' /\ Loading' BY <1>1, <1>2, <1>6 DEF Turned, Turns, Held, Loading
  <1>9. Pinned'
    <2>1. SUFFICES ASSUME NEW r \in Requests PROVE entry'[r] = None
      BY DEF Pinned
    <2>2. entry'[r] = IF r \in all THEN None ELSE entry[r] BY <1>1 DEF Ends
    <2>3. entry[r] # None => r \in all BY <1>2, <1>3 DEF Pinned, Queued
    <2> QED BY <2>2, <2>3
  <1>10. SavedAsKeyed' BY <1>1, <1>2 DEF SavedAsKeyed
  <1> QED BY <1>4, <1>5, <1>7, <1>8, <1>9, <1>10 DEF WorkerInv

LEMMA StopSavesInv ==
  ASSUME WorkerInv, StopSaves, UNCHANGED model
  PROVE  WorkerInv'
PROOF
  <1>1. /\ saved' = SavesIf(TRUE) /\ dirty' = FALSE /\ phase = "stopped"
        /\ UNCHANGED <<waiting, running, fed, next, out, finish, entry, new, cancelled, stop, flush,
                       owner, dev, rr, kv, phase, cur, match, have>>
    BY DEF StopSaves, reqs, api
  <1>2. Queues /\ Typed /\ Ended /\ Turned /\ Held /\ Pinned /\ SavedAsKeyed BY DEF WorkerInv
  <1>3. saved' \subseteq Saveds /\ SavedAsKeyed' BY <1>1, <1>2, SavesIfIs
  <1>4. Queues' /\ Ended' BY <1>1, <1>2 DEF Queues, Queued, Ended
  <1>5. Typed' BY <1>1, <1>2, <1>3 DEF Typed, model
  <1>6. Turned' /\ Held' BY <1>1, <1>2 DEF Turned, Held
  <1>7. Pinned' /\ Loading' BY <1>1, <1>2 DEF Pinned, Loading
  <1> QED BY <1>3, <1>4, <1>5, <1>6, <1>7 DEF WorkerInv

LEMMA NextInv == WorkerInv /\ [Next]_vars => WorkerInv'
PROOF
  <1> SUFFICES ASSUME WorkerInv, [Next]_vars PROVE WorkerInv'
    OBVIOUS
  <1>1. CASE Next
    <2>1. UNCHANGED model BY <1>1 DEF Next
    <2>2. CASE Clients BY <2>1, <2>2, ClientsInv
    <2>3. CASE Fails BY <2>1, <2>3, FailsInv
    <2>4. ASSUME NEW s \in saved, Forget(s) PROVE WorkerInv' BY <2>1, <2>4, ForgetInv
    <2>5. CASE Pick BY <2>1, <2>5, PickInv
    <2>6. CASE SwitchSaves BY <2>1, <2>6, SwitchSavesInv
    <2>7. CASE SwitchReuses BY <2>1, <2>7, SwitchReusesInv
    <2>8. CASE SwitchLoads BY <2>1, <2>8, SwitchLoadsInv
    <2>9. ASSUME NEW s, SwitchLeaves(s) PROVE WorkerInv' BY <2>1, <2>9, SwitchLeavesInv
    <2>10. CASE Prefill BY <2>1, <2>10, PrefillInv
    <2>11. CASE DecodeBegins BY <2>1, <2>11, DecodeBeginsInv
    <2>12. CASE Decode BY <2>1, <2>12, DecodeInv
    <2>13. CASE LoopStops BY <2>1, <2>13, LoopStopsInv
    <2>14. CASE StopSaves BY <2>1, <2>14, StopSavesInv
    <2> QED
      BY <1>1, <2>2, <2>3, <2>4, <2>5, <2>6, <2>7, <2>8, <2>9, <2>10, <2>11, <2>12, <2>13, <2>14 DEF Next, Loop
  <1>2. CASE UNCHANGED vars
    <2>1. UNCHANGED <<model, waiting, running, new, reqs, owner, rr, kv, phase, cur, match, have,
                      dev, saved, cancelled, stop, flush, dirty>>
      BY <1>2 DEF vars, api, host
    <2>2. cancelled \subseteq Requests /\ stop \in BOOLEAN /\ flush \in {"none", "cleared", "idle"} /\ dirty \in BOOLEAN
      BY DEF WorkerInv, Typed
    <2> QED BY <2>1, <2>2, AsideInv
  <1> QED BY <1>1, <1>2

(* The thread's own steps lose nothing.                                    *)
LEMMA LoopLoses == Loop => lost' = lost
BY DEF Loop, Pick, SwitchSaves, SwitchReuses, SwitchLeaves, SwitchLoads, SwitchedTo, Prefill, DecodeBegins,
       Decode, LoopStops, StopSaves

(* Whatever the clients, the store and failing turns do, the invariant     *)
(* holds.                                                                  *)
LEMMA AlwaysInv == Spec => []WorkerInv
BY InitInv, NextInv, PTL DEF Spec

LostIs == lost \subseteq Requests

LEMMA AlwaysLost == Spec => []LostIs
PROOF
  <1>1. Init => LostIs BY DEF Init, LostIs
  <1>2. WorkerInv /\ LostIs /\ [Next]_vars => LostIs'
    <2> SUFFICES ASSUME WorkerInv, lost \subseteq Requests, [Next]_vars PROVE lost' \subseteq Requests
      BY DEF LostIs
    <2>1. owner \in Requests \cup {None} BY DEF WorkerInv, Typed
    <2>2. CASE Clients
      BY <2>1, <2>2 DEF Clients, Submit, Cancel, FlushClears, FlushLooks, FlushForgets, Stop
    <2>3. CASE Fails BY <2>1, <2>3 DEF Fails
    <2>4. ASSUME NEW s \in saved, Forget(s) PROVE lost' \subseteq Requests BY <2>4 DEF Forget
    <2>5. lost' = lost => lost' \subseteq Requests OBVIOUS
    <2>6. CASE Loop BY <2>5, <2>6, LoopLoses
    <2>7. CASE UNCHANGED vars BY <2>7 DEF vars
    <2> QED BY <2>2, <2>3, <2>4, <2>6, <2>7 DEF Next
  <1> QED BY <1>1, <1>2, AlwaysInv, PTL DEF Spec

(* The variables have their types, and no request is in a queue twice:     *)
(* Worker's queues only move requests (_pick, _end).                       *)
THEOREM WorkerTypeOK == Spec => []TypeOK
PROOF
  <1>1. WorkerInv /\ LostIs => TypeOK BY TypeFrom DEF WorkerInv, LostIs
  <1> QED BY <1>1, AlwaysInv, AlwaysLost, PTL

(* The worker's list of the device's tokens (dev_tokens) is what the       *)
(* device was fed, and all of it while a request owns the device, through  *)
(* reuse, restores, failing turns and a flush() in the middle of one.      *)
THEOREM WorkerDeviceAsListed == Spec => []DeviceAsListed
PROOF
  <1>1. WorkerInv => DeviceAsListed
    <2> SUFFICES ASSUME WorkerInv PROVE DeviceAsListed
      OBVIOUS
    <2>1. Typed /\ Held BY DEF WorkerInv
    <2>2. Device \in Seq(Tokens) /\ kv \in Seq(Tokens) BY <2>1, DeviceIs DEF Typed
    <2>3. IsPrefix(Device, kv)
      <3>1. CASE Device = <<>>
        <4>1. Take(kv, 0) = <<>> BY <2>2, TakeAll
        <4>2. Len(Device) = 0 /\ Len(kv) \in Nat BY <2>2, <3>1
        <4>3. Device = Take(kv, Len(Device)) /\ Len(Device) <= Len(kv) BY <3>1, <4>1, <4>2
        <4> QED BY <2>2, <4>3, PrefixIs
      <3>2. CASE Device # <<>>
        <4>1. kv = Device BY <2>1, <3>2, EntryIs
        <4> QED BY <2>2, <4>1, TakeAll, PrefixIs
      <3> QED BY <3>1, <3>2
    <2> QED BY <2>1, <2>3 DEF DeviceAsListed, Held
  <1> QED BY <1>1, AlwaysInv, PTL

(* A context comes back as it was saved: what goes into the store is under *)
(* the tokens it was fed, whichever list of the device's tokens the thread *)
(* has at the time (_save_device, the context kept at r.at).               *)
THEOREM WorkerSavedAsKeyed == Spec => []SavedAsKeyed
PROOF
  <1>1. WorkerInv => SavedAsKeyed BY DEF WorkerInv
  <1> QED BY <1>1, AlwaysInv, PTL

(* No more runs at once than max_running; a request has ended when, and    *)
(* only when, it is off the queues, and then nothing of it is pinned.      *)
THEOREM WorkerEndedOnce == Spec => []EndedOnce
PROOF
  <1>1. WorkerInv => EndedOnce
    <2> SUFFICES ASSUME WorkerInv PROVE EndedOnce
      OBVIOUS
    <2>1. Range(waiting \o running) = Queued BY ConcatOnce DEF WorkerInv, Queues, Queued
    <2>2. Len(running) <= MaxRunning BY DEF WorkerInv, Ended
    <2>3. ASSUME NEW r \in Requests \ new
          PROVE  /\ finish[r] = None <=> r \in Queued
                 /\ finish[r] # None => entry[r] = None
      <3>1. finish[r] = None <=> r \in Queued BY DEF WorkerInv, Ended
      <3>2. entry[r] # None => r \in Queued BY DEF WorkerInv, Pinned, Queued
      <3> QED BY <3>1, <3>2
    <2> QED BY <2>1, <2>2, <2>3 DEF EndedOnce
  <1> QED BY <1>1, AlwaysInv, PTL

----------------------------------------------------------------------------
(* What a request has said stays so where it is left alone, or ends.       *)
LEMMA SpokenStays ==
  ASSUME NEW r \in Requests, SpokenOf(r), out'[r] = out[r], lost \subseteq lost',
         finish'[r] = None => finish[r] = None /\ fed'[r] = fed[r] /\ next'[r] = next[r]
  PROVE  SpokenOf(r)'
PROOF
  <1>1. r \notin lost' => IsPrefix(out'[r], Reply[r]) BY DEF SpokenOf
  <1>2. ASSUME finish'[r] = None
        PROVE  Len(out'[r]) < MaxNew[r] /\ \E words \in Seq(Tokens) : Saying(r, words)'
    <2>1. PICK words \in Seq(Tokens) : Saying(r, words) BY <1>2 DEF SpokenOf
    <2>2. Saying(r, words)' BY <1>2, <2>1 DEF Saying
    <2> QED BY <1>2, <2>2 DEF SpokenOf
  <1> QED BY <1>1, <1>2 DEF SpokenOf

(* Requests that end as cancelled, in the stop() or with a turn that fails,*)
(* are Serving's.                                                          *)
LEMMA EndsPromise ==
  ASSUME WorkerInv, NEW S \in SUBSET Queued, out' = out, lost \subseteq lost', NEW why \in {"abort", "error"},
         finish' = [r \in Requests |-> IF r \in S THEN why ELSE finish[r]]
  PROVE  [Promise!Next]_<<out, finish, lost>>
PROOF
  <1>1. S \in SUBSET Requests /\ \A r \in S : finish[r] = None
    <2>1. Queued \subseteq Requests BY RangeIs DEF WorkerInv, Queues, Queued
    <2> QED BY <2>1 DEF WorkerInv, Ended
  <1>2. CASE S = {}
    <2>1. finish' = finish BY <1>2 DEF WorkerInv, Typed
    <2> QED BY <2>1 DEF Promise!Next
  <1>3. CASE S # {}
    <2>1. Promise!End(S, why) BY <1>1, <1>3 DEF Promise!End
    <2> QED BY <1>1, <2>1 DEF Promise!Next
  <1> QED BY <1>2, <1>3

(* Those of S end: _end by itself.                                         *)
LEMMA EndsPromised ==
  ASSUME WorkerInv, NEW S \in SUBSET Queued, out' = out, lost \subseteq lost', NEW why \in {"abort", "error"},
         Ends(S, why)
  PROVE  [Promise!Next]_<<out, finish, lost>> /\ (\A r \in S : finish'[r] # None)
PROOF
  <1>1. S \in SUBSET Requests /\ \A r \in S : finish[r] = None
    <2>1. Queued \subseteq Requests BY RangeIs DEF WorkerInv, Queues, Queued
    <2> QED BY <2>1 DEF WorkerInv, Ended
  <1>2. finish' = [r \in Requests |-> IF r \in S /\ finish[r] = None THEN why ELSE finish[r]] BY DEF Ends
  <1>3. finish' = [r \in Requests |-> IF r \in S THEN why ELSE finish[r]] BY <1>1, <1>2
  <1>4. why # None BY RequestsAssumption
  <1> QED BY <1>1, <1>3, <1>4, EndsPromise

(* What a running request has stays its own where requests leave the       *)
(* queues, and the device's owner gives it up only as it does.             *)
LEMMA KeptStays ==
  ASSUME Kept, new' = new, lost \subseteq lost',
         Range(waiting') \subseteq Range(waiting), Range(running') \subseteq Range(running),
         \A r \in new \cup Range(waiting') : fed'[r] = fed[r],
         \A r \in Range(running') : \/ entry'[r] = entry[r] /\ fed'[r] = fed[r] /\ (owner # r \/ r \in lost')
                                    \/ owner' = r,
         saved \subseteq saved', owner' # None => owner' = owner /\ dev' = dev
  PROVE  Kept'
BY DEF Kept

(* A reply that nothing has ended yet goes on, and the model says how.     *)
LEMMA SaysNext ==
  ASSUME NEW r \in Requests, NEW words \in Seq(Tokens), IsPrefix(words, Reply[r]),
         Len(words) < MaxNew[r], \A i \in 1..Len(words) : words[i] \notin StopIds
  PROVE  LET t == Says(Prompt[r] \o words)
         IN /\ t = Reply[r][Len(words) + 1] /\ t \in Tokens /\ IsPrefix(Append(words, t), Reply[r])
PROOF
  <1> DEFINE n == Len(words)
  <1>1. Reply[r] \in Seq(Tokens) /\ Reply[r] # <<>> /\ MaxNew[r] \in Nat
    BY RequestsAssumption
  <1>2. Last(Reply[r]) \in StopIds \/ Len(Reply[r]) >= MaxNew[r]
    BY RequestsAssumption
  <1>3. ASSUME NEW w, w = Reply[r]
        PROVE  /\ n \in 0..(Len(w) - 1) /\ words = Take(w, n)
               /\ w[n + 1] \in Tokens /\ IsPrefix(Append(words, w[n + 1]), w)
    <2>1. w \in Seq(Tokens) /\ w # <<>> /\ IsPrefix(words, w) BY <1>1, <1>3
    <2>2. Last(w) \in StopIds \/ Len(w) >= MaxNew[r] BY <1>2, <1>3
    <2>3. Len(words) < MaxNew[r] /\ MaxNew[r] \in Nat BY <1>1
    <2>4. \A i \in 1..Len(words) : words[i] \notin StopIds OBVIOUS
    <2> QED BY <2>1, <2>2, <2>3, <2>4, ReplyGoesOn
  <1>4. /\ n \in 0..(Len(Reply[r]) - 1) /\ words = Take(Reply[r], n)
        /\ Reply[r][n + 1] \in Tokens /\ IsPrefix(Append(words, Reply[r][n + 1]), Reply[r])
    BY <1>3
  <1>5. Says(Prompt[r] \o Take(Reply[r], n)) = Reply[r][n + 1] BY <1>4, ModelAssumption
  <1> QED BY <1>4, <1>5

LEMMA ContextGrows ==
  ASSUME NEW r \in Requests, NEW words \in Seq(Tokens), NEW t \in Tokens
  PROVE  Append(Prompt[r] \o words, t) = Prompt[r] \o Append(words, t)
PROOF
  <1>1. Prompt[r] \in Seq(Tokens) BY RequestsAssumption
  <1>2. ASSUME NEW p \in Seq(Tokens) PROVE Append(p \o words, t) = p \o Append(words, t)
    BY AppendLast, SMTT(40)
  <1> QED BY <1>1, <1>2

LEMMA EmptyPrefix ==
  ASSUME NEW s \in Seq(Tokens)
  PROVE  IsPrefix(<<>>, s)
PROOF
  <1>1. Take(s, 0) = <<>> /\ 0 \in 0..Len(s) BY TakeAll
  <1> QED BY <1>1, TakePrefix

(* A token of the turn's request is its reply's next.                      *)
LEMMA EmitsSpoken ==
  ASSUME Typed, NEW r \in Requests, SpokenOf(r), finish[r] = None, r \in Queued, lost' = lost,
         NEW words \in Seq(Tokens), Saying(r, words),
         NEW c, c = Prompt[r] \o words, fed'[r] = c, Emits(r, Says(c))
  PROVE  /\ SpokenOf(r)' /\ \E t \in Promise!NextTokens(r) : Promise!Say(r, t)
         /\ \A o \in Requests : o # r => out'[o] = out[o] /\ next'[o] = next[o] /\ finish'[o] = finish[o]
PROOF
  <1> DEFINE t == Says(c)
             fin == Finish(out[r], t, r)
             long == Len(out[r]) + 1 >= MaxNew[r]
  <1>1. /\ out \in [Requests -> Seq(Tokens)] /\ next \in [Requests -> Tokens \cup {None}]
        /\ finish \in [Requests -> {None, "stop", "length", "abort", "error"}]
        /\ Prompt[r] \in Seq(Tokens) /\ MaxNew[r] \in Nat /\ Reply[r] \in Seq(Tokens)
        /\ IsPrefix(words, Reply[r]) /\ Len(words) <= Len(out[r]) /\ Len(out[r]) < MaxNew[r]
        /\ \A i \in 1..Len(words) : words[i] \notin StopIds
        /\ r \notin lost => words = out[r]
    BY RequestsAssumption DEF Typed, SpokenOf, Saying
  <1>2. t = Reply[r][Len(words) + 1] /\ t \in Tokens /\ IsPrefix(Append(words, t), Reply[r])
    <2>1. Len(words) < MaxNew[r] BY <1>1
    <2> QED BY <1>1, <2>1, SaysNext
  <1>3. /\ out' = [out EXCEPT ![r] = Words(out[r], t)]
        /\ next' = [next EXCEPT ![r] = IF t \in StopIds THEN None ELSE t]
        /\ fin # None => Ends({r}, fin)
        /\ fin = None => finish' = finish
    BY DEF Emits
  <1>4. None \notin {"stop", "length"} /\ t # None BY <1>2, RequestsAssumption
  <1> HIDE DEF t
  <1>5. t \in Promise!NextTokens(r)
    <2> DEFINE w == Reply[r]
               n == Len(words)
    <2>1. Append(words, t) \in Seq(Tokens) /\ Len(Append(words, t)) = n + 1 BY <1>2, AppendProperties
    <2>2. Len(Append(words, t)) <= Len(w) BY <1>1, <1>2, <2>1, PrefixIs
    <2>3. n \in Nat /\ Len(w) \in Nat /\ DOMAIN w = 1..Len(w) BY <1>1
    <2> HIDE DEF w, n
    <2>4. n + 1 \in DOMAIN w BY <2>1, <2>2, <2>3
    <2>5. n + 1 \in DOMAIN Reply[r] /\ t = Reply[r][n + 1] BY <1>2, <2>4 DEF w, n
    <2>6. CASE r \in lost BY <2>5, <2>6 DEF Promise!NextTokens
    <2>7. CASE r \notin lost BY <1>1, <1>2, <2>7 DEF Promise!NextTokens
    <2> QED BY <2>6, <2>7
  <1>6. CASE t \in StopIds
    <2>1. Words(out[r], t) = out[r] /\ fin = "stop" BY <1>6 DEF Words, Finish
    <2>2. Ends({r}, "stop") BY <1>3, <1>4, <2>1
    <2>3. out' = out BY <1>1, <1>3, <2>1
    <2>4. finish' = [finish EXCEPT ![r] = "stop"] BY <1>1, <2>2 DEF Ends
    <2>5. Promise!Say(r, t) BY <1>6, <2>3, <2>4 DEF Promise!Say
    <2>6. SpokenOf(r)' BY <1>1, <1>4, <2>3, <2>4 DEF SpokenOf
    <2> QED BY <1>1, <1>3, <1>5, <2>3, <2>4, <2>5, <2>6
  <1>7. CASE t \notin StopIds
    <2>1. Words(out[r], t) = Append(out[r], t) /\ fin = IF long THEN "length" ELSE None
      BY <1>7 DEF Words, Finish
    <2>2. out' = [out EXCEPT ![r] = Append(@, t)] BY <1>3, <2>1
    <2>3. finish' = IF long THEN [finish EXCEPT ![r] = "length"] ELSE finish
      <3>1. CASE long
        <4>1. Ends({r}, "length") BY <1>3, <1>4, <2>1, <3>1
        <4> QED BY <1>1, <3>1, <4>1 DEF Ends
      <3>2. CASE ~ long BY <1>3, <2>1, <3>2
      <3> QED BY <3>1, <3>2
    <2>4. Promise!Say(r, t) BY <1>7, <2>2, <2>3 DEF Promise!Say
    <2>5. SpokenOf(r)'
      <3> DEFINE said == Append(words, t)
      <3>1. /\ said \in Seq(Tokens) /\ Len(said) = Len(words) + 1 /\ said[Len(words) + 1] = t
            /\ \A i \in 1..Len(words) : said[i] = words[i]
        BY <1>1, <1>2, AppendProperties
      <3>2. out'[r] = Append(out[r], t) /\ Len(out'[r]) = Len(out[r]) + 1 /\ (r \notin lost => out'[r] = said)
        BY <1>1, <1>2, <2>2, AppendProperties
      <3>3. Append(c, t) = Prompt[r] \o said BY <1>2, ContextGrows, Zenon
      <3>4. next'[r] = t BY <1>1, <1>3, <1>7
      <3>5. IsPrefix(said, Reply[r]) BY <1>2 DEF said
      <3> HIDE DEF said
      <3>6. \A i \in 1..Len(said) : said[i] \notin StopIds
        <4>1. SUFFICES ASSUME NEW i \in 1..Len(said) PROVE said[i] \notin StopIds
          OBVIOUS
        <4>2. i \in 1..Len(words) \/ i = Len(words) + 1 BY <3>1
        <4> QED BY <1>1, <1>7, <3>1, <4>2
      <3>7. Len(said) <= Len(out'[r]) BY <1>1, <3>1, <3>2
      <3>8. Saying(r, said)' BY <1>4, <3>2, <3>3, <3>4, <3>5, <3>6, <3>7 DEF Saying
      <3>9. ASSUME finish'[r] = None PROVE Len(out'[r]) < MaxNew[r]
        <4>1. ~ long BY <1>1, <1>4, <2>3, <3>9
        <4> QED BY <1>1, <3>2, <4>1
      <3>10. r \notin lost' => IsPrefix(out'[r], Reply[r]) BY <3>2, <3>5
      <3> QED BY <3>1, <3>8, <3>9, <3>10 DEF SpokenOf
    <2>6. \A o \in Requests : o # r => out'[o] = out[o] /\ next'[o] = next[o] /\ finish'[o] = finish[o]
      BY <1>1, <1>3, <2>2, <2>3
    <2> QED BY <1>5, <2>4, <2>5, <2>6
  <1> QED BY <1>6, <1>7

----------------------------------------------------------------------------
(* A step keeps the running requests' contexts, and is one of Serving's or *)
(* none that a client sees.                                                *)
PromiseStep == Kept' /\ Spoken' /\ [Promise!Next]_<<out, finish, lost>>

(* Steps that leave the requests as they are, and lose contexts at most.   *)
LEMMA AsidePromise ==
  ASSUME PromiseInv, UNCHANGED <<fed, next, out, finish>>, lost \subseteq lost', Kept'
  PROVE  PromiseStep
PROOF
  <1>1. Spoken' BY SpokenStays DEF PromiseInv, Spoken
  <1>2. Promise!Next BY DEF Promise!Next
  <1> QED BY <1>1, <1>2 DEF PromiseStep

LEMMA ClientsPromise ==
  ASSUME PromiseInv, Clients
  PROVE  PromiseStep
PROOF
  <1> USE DEF PromiseInv
  <1>1. Range(running) \subseteq Requests BY RangeIs DEF WorkerInv, Queues
  <1>2. ASSUME NEW r \in Requests, Submit(r) PROVE PromiseStep
    <2>1. /\ r \in new /\ new' = new \ {r} /\ waiting' = Append(waiting, r) /\ running' = running
          /\ UNCHANGED <<fed, next, out, finish, entry, owner, dev, saved, lost>>
      BY <1>2 DEF Submit, reqs, host
    <2>2. Range(waiting') = Range(waiting) \cup {r} BY <2>1, AppendRange DEF WorkerInv, Queues
    <2>3. Kept' BY <2>1, <2>2 DEF Kept
    <2> QED BY <2>1, <2>3, AsidePromise
  <1>3. ASSUME UNCHANGED <<waiting, running, new, fed, next, out, finish, entry, owner, dev, saved, lost>>
        PROVE  PromiseStep
    <2>1. Kept' BY <1>3 DEF Kept
    <2> QED BY <1>3, <2>1, AsidePromise
  <1>4. ASSUME NEW r \in Requests, Cancel(r) PROVE PromiseStep BY <1>3, <1>4 DEF Cancel, reqs, host
  <1>5. CASE Stop BY <1>3, <1>5 DEF Stop, reqs, host
  <1>6. CASE FlushClears
    <2>1. /\ saved' = {} /\ lost' = lost \cup {r \in Requests : entry[r] # None}
          /\ UNCHANGED <<waiting, running, new, fed, next, out, finish, entry, owner, dev>>
      BY <1>6 DEF FlushClears, reqs, host
    <2>2. \A r \in Requests : entry[r] \in saved => entry[r] # None
      BY RequestsAssumption DEF WorkerInv, Typed, Saveds
    <2>3. \A r \in Range(running) : fed'[r] # <<>> /\ owner' # r => r \in lost'
      BY <1>1, <2>1, <2>2 DEF Kept
    <2>4. Kept' BY <2>1, <2>3 DEF Kept
    <2> QED BY <2>1, <2>4, AsidePromise
  <1>7. CASE FlushLooks BY <1>3, <1>7 DEF FlushLooks, reqs, host
  <1>8. CASE FlushForgets
    <2>1. /\ dev' = None /\ lost' = lost \cup ({owner} \ {None})
          /\ UNCHANGED <<waiting, running, new, fed, next, out, finish, entry, owner, saved>>
      BY <1>8 DEF FlushForgets, reqs
    <2>2. Kept' BY <2>1 DEF Kept
    <2> QED BY <2>1, <2>2, AsidePromise
  <1> QED BY <1>2, <1>4, <1>5, <1>6, <1>7, <1>8 DEF Clients

LEMMA ForgetPromise ==
  ASSUME PromiseInv, NEW s \in saved, Forget(s)
  PROVE  PromiseStep
PROOF
  <1> USE DEF PromiseInv
  <1>1. /\ saved' = saved \ {s} /\ lost' = lost \cup {r \in Requests : entry[r] = s}
        /\ UNCHANGED <<waiting, running, new, fed, next, out, finish, entry, owner, dev>>
    BY DEF Forget, reqs, host, api
  <1>2. Range(running) \subseteq Requests BY RangeIs DEF WorkerInv, Queues
  <1>3. Kept' BY <1>1, <1>2 DEF Kept
  <1> QED BY <1>1, <1>3, AsidePromise

(* The turn raises: what was on the device for another request is lost.    *)
LEMMA FailsPromise ==
  ASSUME PromiseInv, Fails
  PROVE  PromiseStep
PROOF
  <1>1. /\ phase \in Turns /\ Ends({cur}, "error") /\ owner' = None
        /\ lost' = lost \cup ({owner} \ {None, cur})
        /\ UNCHANGED <<fed, next, out, new, saved>>
    BY DEF Fails, DeviceForgotten, Turns, api
  <1>2. WorkerInv /\ Queues /\ Kept /\ Spoken /\ cur \in Range(running) /\ {cur} \in SUBSET Queued
    BY <1>1 DEF PromiseInv, WorkerInv, Turned, Queued
  <1>3. /\ Range(waiting') = Range(waiting) \ {cur} /\ Range(running') = Range(running) \ {cur}
        /\ Range(running) \subseteq Requests
    BY <1>1, <1>2, EndsQueues, RangeIs DEF Queues
  <1>4. Kept'
    <2>1. \A r \in Range(running') : /\ entry'[r] = entry[r] /\ fed'[r] = fed[r]
                                     /\ owner # r \/ r \in lost'
      BY <1>1, <1>3, RequestsAssumption DEF Ends
    <2> QED BY <1>1, <1>2, <1>3, <2>1, KeptStays
  <1>5. [Promise!Next]_<<out, finish, lost>> /\ finish'[cur] # None BY <1>1, <1>2, EndsPromised
  <1>6. \A r \in Requests : r # cur => finish'[r] = finish[r] BY <1>1 DEF Ends
  <1>7. Spoken' BY <1>1, <1>2, <1>5, <1>6, SpokenStays DEF Spoken
  <1> QED BY <1>4, <1>5, <1>7 DEF PromiseStep

LEMMA PickPromise ==
  ASSUME PromiseInv, Pick
  PROVE  PromiseStep
PROOF
  <1> DEFINE gone == cancelled \cap Range(waiting \o running)
             wait == Without(waiting, gone)
             turns == Without(running, gone)
             own == IF owner \in gone THEN None ELSE owner
  <1>1. WorkerInv /\ Kept /\ Spoken /\ Queues /\ Turned BY DEF PromiseInv, WorkerInv
  <1>2. /\ entry' = [r \in Requests |-> IF r \in gone THEN None ELSE entry[r]]
        /\ finish' = [r \in Requests |-> IF r \in gone THEN "abort" ELSE finish[r]]
        /\ owner' = own
        /\ UNCHANGED <<fed, next, out, new, lost, dev, saved>>
    BY DEF Pick, api
  <1>3. \/ wait # <<>> /\ waiting' = Tail(wait) /\ running' = Append(turns, Head(wait))
        \/ waiting' = wait /\ running' = turns
    BY DEF Pick
  <1>4. gone \subseteq Queued BY <1>1, ConcatOnce DEF Queues, Queued
  <1> HIDE DEF gone
  <1>5. /\ wait \in Seq(Requests) /\ Range(wait) = Range(waiting) \ gone
        /\ turns \in Seq(Requests) /\ Range(turns) = Range(running) \ gone
    BY <1>1, WithoutIs DEF Queues
  <1> HIDE DEF wait, turns
  <1>6. /\ Range(waiting') \subseteq Range(waiting)
        /\ Range(running') \subseteq Range(turns) \cup Range(waiting)
        /\ Range(turns) \subseteq Requests
    <2>1. Range(turns) \subseteq Requests BY <1>5, RangeIs
    <2>2. CASE wait # <<>> /\ waiting' = Tail(wait) /\ running' = Append(turns, Head(wait))
      <3>1. Head(wait) \in Range(wait) /\ Range(wait) = Range(Tail(wait)) \cup {Head(wait)}
        BY <1>5, <2>2, TailRange
      <3>2. Head(wait) \in Requests BY <1>5, <2>2, HeadTailProperties
      <3>3. Range(running') = Range(turns) \cup {Head(wait)} BY <1>5, <2>2, <3>2, AppendRange
      <3> QED BY <1>5, <2>1, <2>2, <3>1, <3>3
    <2> QED BY <1>3, <1>5, <2>1, <2>2
  <1>7. \A r \in Range(turns) : r \notin gone /\ r \in Range(running) /\ entry'[r] = entry[r]
    BY <1>2, <1>5, <1>6
  <1>8. Kept'
    <2>1. owner' # None => owner' = owner BY <1>2
    <2>2. \A r \in Range(turns) : owner' # r => owner # r
      BY <1>2, <1>7
    <2>3. ASSUME NEW r \in Range(running'), fed[r] # <<>>, owner' # r, r \notin lost PROVE entry'[r] \in saved
      <3>1. r \notin Range(waiting) BY <1>1, <2>3 DEF Kept
      <3>2. r \in Range(turns) BY <1>6, <2>3, <3>1
      <3> QED BY <1>1, <1>7, <2>2, <2>3, <3>2 DEF Kept
    <2> QED BY <1>1, <1>2, <1>6, <2>1, <2>3 DEF Kept
  <1>9. Spoken'
    <2>1. "abort" # None BY RequestsAssumption
    <2> QED BY <1>1, <1>2, <2>1, SpokenStays DEF Spoken
  <1>10. [Promise!Next]_<<out, finish, lost>> BY <1>1, <1>2, <1>4, EndsPromise
  <1> QED BY <1>8, <1>9, <1>10 DEF PromiseStep

LEMMA SwitchSavesPromise ==
  ASSUME PromiseInv, SwitchSaves
  PROVE  PromiseStep
PROOF
  <1>1. WorkerInv /\ Kept /\ Spoken /\ Typed /\ Ended /\ Turned /\ Held BY DEF PromiseInv, WorkerInv
  <1>2. /\ owner' = None
        /\ UNCHANGED <<waiting, running, new, fed, next, out, finish, dev, lost>>
        /\ IF owner # None /\ finish[owner] = None /\ fed[owner] # <<>> /\ Device # <<>>
           THEN saved' = saved \cup {Entry} /\ entry' = [entry EXCEPT ![owner] = Entry]
           ELSE UNCHANGED <<saved, entry>>
    BY DEF SwitchSaves, PinnedFor, api
  <1>3. Range(running) \subseteq Requests BY RangeIs DEF PromiseInv, WorkerInv, Queues
  <1>4. entry \in [Requests -> Saveds \cup {None}] BY <1>1 DEF Typed
  <1>5. ASSUME NEW r \in Range(running), fed[r] # <<>>, r \notin lost PROVE entry'[r] \in saved'
    <2>1. r \in Requests /\ r # None BY <1>3, RequestsAssumption
    <2>2. CASE r = owner
      <3>1. finish[owner] = None BY <2>1, <2>2, <1>1 DEF Ended, Queued
      <3>2. Device = fed[owner] BY <1>1, <1>5, <2>1, <2>2 DEF Kept, Device
      <3>3. saved' = saved \cup {Entry} /\ entry' = [entry EXCEPT ![owner] = Entry]
        BY <1>2, <1>5, <2>1, <2>2, <3>1, <3>2
      <3> QED BY <1>4, <2>1, <2>2, <3>3
    <2>3. CASE r # owner
      <3>1. entry[r] \in saved BY <1>1, <1>5, <2>3 DEF Kept
      <3>2. entry'[r] = entry[r] /\ saved \subseteq saved' BY <1>2, <1>4, <2>1, <2>3
      <3> QED BY <3>1, <3>2
    <2> QED BY <2>2, <2>3
  <1>6. Kept' BY <1>1, <1>2, <1>5 DEF Kept
  <1>7. Spoken' BY <1>1, <1>2, SpokenStays DEF Spoken
  <1> QED BY <1>2, <1>6, <1>7 DEF PromiseStep

(* A context that is there is taken back whole, or a new one begins; one   *)
(* that was lost begins again.                                             *)
LEMMA SwitchedPromise ==
  ASSUME PromiseInv, phase \in {"take", "load"}, NEW k \in 0..Len(Wanted(cur)), NEW content,
         Again(cur, k) => cur \in lost, SwitchedTo(cur, k, content), saved \subseteq saved'
  PROVE  PromiseStep
PROOF
  <1>1. /\ WorkerInv /\ Kept /\ Spoken /\ Typed /\ cur \in Range(running) /\ cur \in Requests /\ cur # None
    <2>1. cur \in Range(running) BY DEF PromiseInv, WorkerInv, Turned, Turns
    <2>2. cur \in Requests BY <2>1, RangeIs DEF PromiseInv, WorkerInv, Queues
    <2> QED BY <2>1, <2>2, RequestsAssumption DEF PromiseInv, WorkerInv
  <1>2. /\ fed' = [fed EXCEPT ![cur] = IF @ = <<>> THEN Take(Prompt[cur], k)
                                       ELSE IF Again(cur, k) THEN <<>> ELSE @]
        /\ next' = [next EXCEPT ![cur] = IF Again(cur, k) THEN None ELSE @]
        /\ entry' = [entry EXCEPT ![cur] = None]
        /\ owner' = cur /\ dev' = cur
        /\ UNCHANGED <<waiting, running, new, out, finish, lost>>
    BY DEF SwitchedTo, api
  <1>3. /\ owner = None /\ fed \in [Requests -> Seq(Tokens)] /\ entry \in [Requests -> Saveds \cup {None}]
        /\ cur \notin new \cup Range(waiting) /\ Range(running) \subseteq Requests
        /\ new \cup Range(waiting) \subseteq Requests
    BY <1>1, RangeIs DEF WorkerInv, Turned, Typed, Queues, Queued
  <1>4. Kept'
    <2>1. \A r \in Requests : r # cur => fed'[r] = fed[r] /\ entry'[r] = entry[r] BY <1>2, <1>3
    <2> QED BY <1>1, <1>2, <1>3, <2>1, RequestsAssumption DEF Kept
  <1>5. ASSUME NEW r \in Requests, r = cur PROVE SpokenOf(r)'
    <2>1. SpokenOf(r) /\ next \in [Requests -> Tokens \cup {None}] BY <1>1 DEF Spoken, Typed
    <2>2. CASE finish[r] # None BY <1>2, <2>1, <2>2, SpokenStays
    <2>3. CASE fed[r] # <<>> /\ ~ Again(r, k) BY <1>1, <1>2, <1>3, <1>5, <2>1, <2>3, SpokenStays
    <2>4. CASE finish[r] = None /\ fed[r] # <<>> /\ Again(r, k)
      <3>1. r \in lost /\ fed'[r] = <<>> /\ next'[r] = None BY <1>2, <1>3, <1>5, <2>1, <2>4
      <3>2. /\ Prompt[r] \in Seq(Tokens) /\ Reply[r] \in Seq(Tokens) /\ out[r] \in Seq(Tokens)
        BY <1>1, RequestsAssumption DEF Typed
      <3>3. <<>> \in Seq(Tokens) /\ Len(<<>>) = 0 /\ 0 <= Len(out[r]) BY <3>2, EmptySeq
      <3>4. IsPrefix(<<>>, Prompt[r]) /\ IsPrefix(<<>>, Reply[r])
        BY <3>2, EmptyPrefix
      <3>5. Saying(r, <<>>)' BY <1>2, <3>1, <3>3, <3>4 DEF Saying
      <3> QED BY <1>2, <2>1, <2>4, <3>1, <3>3, <3>5 DEF SpokenOf
    <2>5. CASE finish[r] = None /\ fed[r] = <<>>
      <3>1. /\ Prompt[r] \in Seq(Tokens) /\ Prompt[r] # <<>> /\ fed'[r] = Take(Prompt[r], k) /\ next'[r] = next[r]
        BY <1>1, <1>2, <1>3, <1>5, <2>1, <2>5, RequestsAssumption DEF Again
      <3>2. Len(Wanted(cur)) = Len(Prompt[r]) - 1 BY <1>5, <2>5, <3>1 DEF Wanted, Front
      <3>3. k \in 0..Len(Prompt[r]) BY <3>1, <3>2
      <3>4. PICK words \in Seq(Tokens) : Saying(r, words) BY <2>1, <2>5 DEF SpokenOf
      <3>5. CASE next[r] = None
        <4>1. IsPrefix(fed'[r], Prompt[r]) BY <3>1, <3>3, TakePrefix
        <4>2. Saying(r, words)' BY <1>2, <3>1, <3>4, <3>5, <4>1 DEF Saying
        <4> QED BY <1>2, <2>1, <4>2 DEF SpokenOf
      <3>6. CASE next[r] # None
        <4>1. Append(<<>>, next[r]) = Prompt[r] \o words BY <2>5, <3>4, <3>6 DEF Saying
        <4>2. Len(Append(<<>>, next[r])) = 1 OBVIOUS
        <4>3. Len(Prompt[r] \o words) = Len(Prompt[r]) + Len(words) BY <3>1
        <4>4. Len(Prompt[r]) # 0 /\ Len(Prompt[r]) \in Nat /\ Len(words) \in Nat BY <3>1
        <4> DEFINE p == Len(Prompt[r])
                   o == Len(words)
        <4>5. 1 = p + o BY <4>1, <4>2, <4>3
        <4> HIDE DEF p, o
        <4>6. p # 0 /\ p \in Nat /\ o \in Nat BY <4>4 DEF p, o
        <4>7. p = 1 BY <4>5, <4>6
        <4>8. k = 0 BY <3>2, <4>7 DEF p
        <4>9. fed'[r] = fed[r] BY <2>5, <3>1, <4>8, TakeAll
        <4> QED BY <1>2, <2>1, <3>1, <4>9, SpokenStays
      <3> QED BY <3>5, <3>6
    <2> QED BY <2>2, <2>3, <2>4, <2>5
  <1>6. Spoken'
    <2>1. ASSUME NEW r \in Requests, r # cur PROVE SpokenOf(r)'
      <3>1. fed'[r] = fed[r] /\ next'[r] = next[r] BY <1>1, <1>2, <1>3, <2>1 DEF Typed
      <3> QED BY <1>1, <1>2, <3>1, SpokenStays DEF Spoken
    <2>2. \A r \in Requests : SpokenOf(r)' BY <1>5, <2>1
    <2> QED BY <2>2 DEF Spoken
  <1>7. [Promise!Next]_<<out, finish, lost>> BY <1>2
  <1> QED BY <1>4, <1>6, <1>7 DEF PromiseStep

LEMMA SwitchReusesPromise ==
  ASSUME PromiseInv, SwitchReuses
  PROVE  PromiseStep
PROOF
  <1> DEFINE k == DeviceLen(cur)
  <1>1. /\ phase = "take" /\ k > 0 /\ SwitchedTo(cur, k, Adopted(kv, k))
        /\ saved' = SavesIf(dirty /\ k < Len(Device))
    BY DEF SwitchReuses
  <1>2. Typed /\ cur \in Requests
    <2>1. cur \in Range(running) BY <1>1 DEF PromiseInv, WorkerInv, Turned, Turns
    <2> QED BY <2>1, RangeIs DEF PromiseInv, WorkerInv, Queues
  <1>3. k \in 0..Len(Wanted(cur)) /\ (fed[cur] # <<>> /\ k # 0 => k = Len(fed[cur])) BY <1>2, DeviceLenIs
  <1> HIDE DEF k
  <1>4. Wanted(cur) \in Seq(Tokens) BY <1>2, WantedIs
  <1>5. k # 0 BY <1>1, <1>3, <1>4
  <1>6. ~ Again(cur, k) BY <1>3, <1>5 DEF Again
  <1>7. saved \subseteq saved' BY <1>1 DEF SavesIf
  <1> QED BY <1>1, <1>3, <1>6, <1>7, SwitchedPromise

LEMMA SwitchLeavesPromise ==
  ASSUME PromiseInv, NEW s, SwitchLeaves(s)
  PROVE  PromiseStep
PROOF
  <1>1. /\ saved' = SavesIf(dirty)
        /\ UNCHANGED <<waiting, running, new, fed, next, out, finish, entry, owner, dev, lost>>
    BY DEF SwitchLeaves, reqs, api
  <1>2. saved \subseteq saved' BY <1>1 DEF SavesIf
  <1>3. Kept' BY <1>1, <1>2 DEF Kept, PromiseInv
  <1>4. Spoken' BY <1>1, SpokenStays DEF Spoken, PromiseInv
  <1> QED BY <1>1, <1>3, <1>4 DEF PromiseStep

LEMMA SwitchLoadsPromise ==
  ASSUME PromiseInv, SwitchLoads
  PROVE  PromiseStep
PROOF
  <1>1. WorkerInv /\ Kept /\ Typed /\ Turned /\ Loading /\ phase = "load" /\ saved' = saved
    BY DEF PromiseInv, WorkerInv, SwitchLoads
  <1>2. cur \in Range(running) /\ cur \in Requests /\ owner = None /\ cur # None
    <2>1. cur \in Range(running) BY <1>1 DEF Turned, Turns
    <2>2. cur \in Requests BY <2>1, RangeIs DEF PromiseInv, WorkerInv, Queues
    <2> QED BY <1>1, <2>1, <2>2, RequestsAssumption DEF Turned
  <1>3. fed[cur] # <<>> /\ cur \notin lost => match \in saved BY <1>1, <1>2 DEF Kept, Loading
  <1>4. CASE match \in saved
    <2> DEFINE k    == MatchedLen(cur, match)
               kept == IF have < k THEN have ELSE k
               content == Take(kv, kept) \o SubSeq(match.data, kept + 1, k)
    <2>1. SwitchedTo(cur, k, content) BY <1>4 DEF SwitchLoads
    <2>2. k \in 0..Len(Wanted(cur)) BY <1>1, <1>4, MatchIs
    <2>3. ~ Again(cur, k) BY DEF Again, MatchedLen
    <2> HIDE DEF k, kept, content
    <2> QED BY <1>1, <2>1, <2>2, <2>3, SwitchedPromise
  <1>5. CASE match \notin saved
    <2>1. SwitchedTo(cur, 0, <<>>) BY <1>5 DEF SwitchLoads
    <2>2. Wanted(cur) \in Seq(Tokens) BY <1>1, <1>2, WantedIs
    <2>3. 0 \in 0..Len(Wanted(cur)) BY <2>2
    <2>4. Again(cur, 0) => cur \in lost BY <1>3, <1>5 DEF Again
    <2> QED BY <1>1, <2>1, <2>3, <2>4, SwitchedPromise
  <1> QED BY <1>4, <1>5

(* The turn's request keeps the device, fed its next token or not, or it   *)
(* ends.                                                                   *)
LEMMA KeptTurn ==
  ASSUME PromiseInv, phase \in {"feed", "decode"}, UNCHANGED <<new, lost, dev, cur>>,
         saved \subseteq saved', \A r \in Requests : r # cur => fed'[r] = fed[r],
         NEW why,
         \/ UNCHANGED <<waiting, running, entry, owner>>
         \/ Ends({cur}, why) /\ owner' = None
  PROVE  Kept'
PROOF
  <1>1. /\ Queues /\ Typed /\ Kept /\ cur \in Range(running) /\ owner = cur /\ cur \in Requests /\ cur # None
    BY TurnIs DEF PromiseInv, WorkerInv
  <1>2. /\ Range(running) \subseteq Requests /\ cur \notin new \cup Range(waiting)
        /\ new \cup Range(waiting) \subseteq Requests
    BY <1>1, RangeIs DEF Queues, Queued
  <1>3. CASE UNCHANGED <<waiting, running, entry, owner>>
    BY <1>1, <1>2, <1>3, KeptStays
  <1>4. CASE Ends({cur}, why) /\ owner' = None
    <2>1. Range(waiting') = Range(waiting) \ {cur} /\ Range(running') = Range(running) \ {cur}
      BY <1>1, <1>4, EndsQueues
    <2>2. \A r \in Range(running') : entry'[r] = entry[r] /\ fed'[r] = fed[r] /\ owner # r
      BY <1>1, <1>2, <1>4, <2>1 DEF Ends
    <2> QED BY <1>1, <1>2, <1>4, <2>1, <2>2, KeptStays
  <1> QED BY <1>3, <1>4

(* The turn's request ends as cancelled.                                   *)
LEMMA AbortsPromise ==
  ASSUME PromiseInv, phase \in {"feed", "decode"}, Aborts(cur), UNCHANGED <<new, lost, dev, cur>>,
         saved \subseteq saved', \A r \in Requests : r # cur => fed'[r] = fed[r]
  PROVE  PromiseStep
PROOF
  <1>1. WorkerInv /\ Spoken /\ cur \in Requests /\ cur \in Queued BY TurnIs DEF PromiseInv, Queued
  <1>2. Ends({cur}, "abort") /\ owner' = None /\ next' = next /\ out' = out BY DEF Aborts
  <1>3. Kept' BY <1>2, KeptTurn
  <1>4. {cur} \in SUBSET Queued BY <1>1
  <1>5. [Promise!Next]_<<out, finish, lost>> /\ finish'[cur] # None BY <1>1, <1>2, <1>4, EndsPromised
  <1>6. \A r \in Requests : r # cur => finish'[r] = finish[r] BY <1>2 DEF Ends
  <1>7. Spoken' BY <1>1, <1>2, <1>5, <1>6, SpokenStays DEF Spoken
  <1> QED BY <1>3, <1>5, <1>7 DEF PromiseStep

(* A token is picked for it and emitted.                                   *)
LEMMA EmitsPromise ==
  ASSUME PromiseInv, phase \in {"feed", "decode"}, Emits(cur, Says(kv')),
         UNCHANGED <<new, lost, dev, cur>>, saved \subseteq saved',
         \A r \in Requests : r # cur => fed'[r] = fed[r],
         NEW words \in Seq(Tokens), Saying(cur, words), kv' = Prompt[cur] \o words, fed'[cur] = kv'
  PROVE  PromiseStep
PROOF
  <1>1. /\ WorkerInv /\ Typed /\ Spoken /\ cur \in Requests /\ cur \in Queued /\ SpokenOf(cur)
        /\ finish[cur] = None
    <2>1. cur \in Requests /\ cur \in Queued BY TurnIs DEF PromiseInv, Queued
    <2> QED BY <2>1 DEF PromiseInv, WorkerInv, Ended, Spoken
  <1> DEFINE fin == Finish(out[cur], Says(kv'), cur)
  <1>2. \/ UNCHANGED <<waiting, running, entry, owner>>
        \/ Ends({cur}, fin) /\ owner' = None
    BY DEF Emits
  <1> HIDE DEF fin
  <1>3. Kept' BY <1>2, KeptTurn
  <1>4. ASSUME NEW r \in Requests, r = cur
        PROVE  /\ SpokenOf(r)' /\ \E t \in Promise!NextTokens(r) : Promise!Say(r, t)
               /\ \A o \in Requests : o # r => out'[o] = out[o] /\ next'[o] = next[o] /\ finish'[o] = finish[o]
    <2> DEFINE c == Prompt[r] \o words
    <2>1. fed'[r] = c /\ Emits(r, Says(c)) /\ Saying(r, words) BY <1>4
    <2>2. SpokenOf(r) /\ finish[r] = None /\ r \in Queued BY <1>1, <1>4
    <2>3. c = Prompt[r] \o words OBVIOUS
    <2> HIDE DEF c
    <2> QED BY <1>1, <2>1, <2>2, <2>3, EmitsSpoken
  <1>5. Spoken'
    <2>1. ASSUME NEW r \in Requests, r # cur PROVE SpokenOf(r)'
      <3>1. out'[r] = out[r] /\ next'[r] = next[r] /\ finish'[r] = finish[r] BY <1>1, <1>4, <2>1
      <3> QED BY <1>1, <2>1, <3>1, SpokenStays DEF Spoken
    <2>2. \A r \in Requests : SpokenOf(r)' BY <1>4, <2>1
    <2> QED BY <2>2 DEF Spoken
  <1>6. Promise!Next BY <1>1, <1>4 DEF Promise!Next
  <1> QED BY <1>3, <1>5, <1>6 DEF PromiseStep

LEMMA PrefillPromise ==
  ASSUME PromiseInv, Prefill
  PROVE  PromiseStep
PROOF
  <1> DEFINE n == Len(fed[cur]) + 1
             t == Prompt[cur][n]
  <1>1. /\ phase = "feed" /\ next[cur] = None /\ Len(fed[cur]) < LastFed(cur)
        /\ fed' = [fed EXCEPT ![cur] = Append(@, t)] /\ kv' = Append(kv, t)
        /\ saved \subseteq saved'
        /\ UNCHANGED <<new, lost, dev, cur>>
        /\ \/ Aborts(cur)
           \/ n = Len(Prompt[cur]) /\ Emits(cur, Says(kv'))
           \/ UNCHANGED <<waiting, running, next, out, entry, finish, owner>>
    BY DEF Prefill, api
  <1>2. /\ WorkerInv /\ Spoken /\ SpokenOf(cur) /\ cur \in Requests /\ kv = fed[cur] /\ finish[cur] = None
        /\ fed \in [Requests -> Seq(Tokens)] /\ fed[cur] \in Seq(Tokens)
        /\ Prompt[cur] \in Seq(Tokens)
    <2>1. cur \in Requests /\ cur \in Queued /\ kv = fed[cur] BY <1>1, TurnIs DEF PromiseInv, Queued
    <2> QED BY <2>1, RequestsAssumption DEF PromiseInv, WorkerInv, Ended, Spoken, Typed
  <1>3. /\ Saying(cur, <<>>) /\ fed[cur] = Take(Prompt[cur], Len(fed[cur])) /\ <<>> \in Seq(Tokens)
    <2>1. PICK words \in Seq(Tokens) : Saying(cur, words) BY <1>2 DEF SpokenOf
    <2>2. words = <<>> BY <1>1, <2>1 DEF Saying
    <2> QED BY <1>1, <1>2, <2>1, <2>2, PrefixIs DEF Saying
  <1>4. Len(fed[cur]) \in Nat /\ Len(fed[cur]) < Len(Prompt[cur])
    <2>1. LastFed(cur) <= Len(Prompt[cur]) /\ LastFed(cur) \in Int /\ Len(Prompt[cur]) \in Nat
      BY <1>2 DEF LastFed
    <2> QED BY <1>1, <1>2, <2>1
  <1>5. /\ t \in Tokens /\ n \in 0..Len(Prompt[cur])
        /\ Append(fed[cur], t) = Take(Prompt[cur], n)
    BY <1>2, <1>3, <1>4, TakeNext
  <1> HIDE DEF n, t
  <1>6. /\ \A r \in Requests : r # cur => fed'[r] = fed[r]
        /\ fed'[cur] = Take(Prompt[cur], n) /\ kv' = fed'[cur]
    BY <1>1, <1>2, <1>5
  <1>7. CASE Aborts(cur) BY <1>1, <1>6, <1>7, AbortsPromise
  <1>8. CASE n = Len(Prompt[cur]) /\ Emits(cur, Says(kv'))
    <2>1. Take(Prompt[cur], n) = Prompt[cur] BY <1>2, <1>8, TakeAll
    <2>2. Prompt[cur] \o <<>> = Prompt[cur] BY <1>2
    <2>3. kv' = Prompt[cur] \o <<>> BY <1>6, <2>1, <2>2
    <2> QED BY <1>1, <1>3, <1>6, <1>8, <2>3, EmitsPromise
  <1>9. CASE UNCHANGED <<waiting, running, next, out, entry, finish, owner>>
    <2>1. Kept' BY <1>1, <1>6, <1>9, KeptTurn
    <2>2. ASSUME NEW r \in Requests PROVE SpokenOf(r)'
      <3>1. CASE r # cur BY <1>1, <1>2, <1>6, <1>9, <3>1, SpokenStays DEF Spoken
      <3>2. CASE r = cur
        <4>1. IsPrefix(fed'[r], Prompt[r]) BY <1>2, <1>5, <1>6, <3>2, TakePrefix
        <4>2. SpokenOf(r) /\ next[r] = None BY <1>1, <1>2, <3>2
        <4>3. Saying(r, <<>>)' BY <1>1, <1>3, <1>9, <3>2, <4>1, <4>2 DEF Saying
        <4> QED BY <1>1, <1>2, <1>3, <1>9, <3>2, <4>2, <4>3 DEF SpokenOf
      <3> QED BY <3>1, <3>2
    <2> QED BY <1>1, <1>9, <2>1, <2>2 DEF PromiseStep, Spoken
  <1> QED BY <1>1, <1>7, <1>8, <1>9

LEMMA DecodeBeginsPromise ==
  ASSUME PromiseInv, DecodeBegins
  PROVE  PromiseStep
PROOF
  <1> DEFINE t == Prompt[cur][Len(Prompt[cur])]
  <1>1. /\ phase = "feed"
        /\ UNCHANGED <<waiting, running, fed, out, finish, entry, new, lost, owner, dev, saved, cur>>
        /\ \/ next' = next
           \/ /\ next[cur] = None /\ Len(fed[cur]) = LastFed(cur) /\ cardPicks
              /\ next' = [next EXCEPT ![cur] = t]
    BY DEF DecodeBegins, api, host
  <1>2. /\ Spoken /\ cur \in Requests /\ next \in [Requests -> Tokens \cup {None}]
        /\ Prompt[cur] \in Seq(Tokens) /\ Prompt[cur] # <<>> /\ fed[cur] \in Seq(Tokens) /\ finish[cur] = None
    <2>1. cur \in Requests /\ cur \in Queued BY <1>1, TurnIs DEF PromiseInv, Queued
    <2> QED BY <2>1, RequestsAssumption DEF PromiseInv, WorkerInv, Typed, Ended
  <1>3. Kept' BY <1>1, KeptTurn
  <1>4. ASSUME NEW r \in Requests PROVE SpokenOf(r)'
    <2>1. SpokenOf(r) BY <1>2 DEF Spoken
    <2>2. CASE next'[r] = next[r] BY <1>1, <2>1, <2>2, SpokenStays
    <2>3. CASE next'[r] # next[r]
      <3>1. /\ r = cur /\ next[cur] = None /\ Len(fed[cur]) = LastFed(cur) /\ cardPicks
            /\ next'[r] = t
        BY <1>1, <1>2, <2>3
      <3>2. Saying(cur, <<>>) /\ fed[cur] = Take(Prompt[cur], Len(fed[cur])) /\ <<>> \in Seq(Tokens)
        <4>1. PICK words \in Seq(Tokens) : Saying(cur, words) BY <1>2, <2>1, <3>1 DEF SpokenOf
        <4>2. words = <<>> BY <3>1, <4>1 DEF Saying
        <4> QED BY <1>2, <3>1, <4>1, <4>2, PrefixIs DEF Saying
      <3>3. Len(fed[cur]) = Len(Prompt[cur]) - 1 BY <3>1 DEF LastFed
      <3>4. Len(Prompt[cur]) \in Nat /\ Len(Prompt[cur]) # 0 BY <1>2
      <3> DEFINE k == Len(fed[cur])
      <3>5. k \in Nat /\ k < Len(Prompt[cur]) /\ Len(Prompt[cur]) = k + 1 BY <3>3, <3>4
      <3>6. fed[cur] = Take(Prompt[cur], k) BY <3>2
      <3> HIDE DEF k
      <3>7. t \in Tokens /\ Append(fed[cur], t) = Take(Prompt[cur], k + 1) BY <1>2, <3>5, <3>6, TakeNext
      <3>8. Append(fed[cur], t) = Prompt[cur] BY <1>2, <3>5, <3>7, TakeAll
      <3>9. Append(fed'[r], next'[r]) = Prompt[r] \o <<>>
        <4>1. Prompt[cur] \o <<>> = Prompt[cur] BY <1>2
        <4> QED BY <1>1, <3>1, <3>2, <3>8, <4>1
      <3>10. next'[r] # None BY <3>1, <3>7, RequestsAssumption
      <3>11. Saying(r, <<>>)' BY <1>1, <3>1, <3>2, <3>9, <3>10 DEF Saying
      <3> QED BY <1>1, <2>1, <3>2, <3>11 DEF SpokenOf
    <2> QED BY <2>2, <2>3
  <1> QED BY <1>1, <1>3, <1>4 DEF PromiseStep, Spoken

LEMMA DecodePromise ==
  ASSUME PromiseInv, Decode
  PROVE  PromiseStep
PROOF
  <1>1. /\ phase = "decode"
        /\ UNCHANGED <<new, lost, dev, saved, cur>>
        /\ \/ Aborts(cur) /\ UNCHANGED <<fed, kv>>
           \/ /\ fed' = [fed EXCEPT ![cur] = Append(@, next[cur])]
              /\ kv' = Append(kv, next[cur]) /\ Emits(cur, Says(kv'))
    BY DEF Decode, api
  <1>2. /\ SpokenOf(cur) /\ cur \in Requests /\ kv = fed[cur] /\ finish[cur] = None
        /\ next[cur] # None /\ fed \in [Requests -> Seq(Tokens)]
    <2>1. cur \in Requests /\ cur \in Queued /\ kv = fed[cur] BY <1>1, TurnIs DEF PromiseInv, Queued
    <2> QED BY <1>1, <2>1 DEF PromiseInv, WorkerInv, Turned, Ended, Spoken, Typed
  <1>3. CASE Aborts(cur) /\ UNCHANGED <<fed, kv>> BY <1>1, <1>3, AbortsPromise
  <1>4. CASE /\ fed' = [fed EXCEPT ![cur] = Append(@, next[cur])]
             /\ kv' = Append(kv, next[cur]) /\ Emits(cur, Says(kv'))
    <2>1. PICK words \in Seq(Tokens) : Saying(cur, words) BY <1>2 DEF SpokenOf
    <2>2. Append(fed[cur], next[cur]) = Prompt[cur] \o words BY <1>2, <2>1 DEF Saying
    <2>3. /\ \A r \in Requests : r # cur => fed'[r] = fed[r]
          /\ fed'[cur] = kv' /\ kv' = Prompt[cur] \o words
      BY <1>2, <1>4, <2>2
    <2> QED BY <1>1, <1>4, <2>1, <2>3, EmitsPromise
  <1> QED BY <1>1, <1>3, <1>4

LEMMA LoopStopsPromise ==
  ASSUME PromiseInv, LoopStops
  PROVE  PromiseStep
PROOF
  <1> DEFINE all == Range(waiting \o running)
  <1>1. /\ Ends(all, "abort")
        /\ owner' = IF owner \in Range(running) THEN None ELSE owner
        /\ UNCHANGED <<fed, next, out, new, lost, dev, saved>>
    BY DEF LoopStops, api
  <1>2. WorkerInv /\ Queues /\ Kept /\ Spoken BY DEF PromiseInv, WorkerInv
  <1>3. all = Queued BY <1>2, ConcatOnce DEF Queues, Queued
  <1> HIDE DEF all
  <1>4. Range(waiting') = Range(waiting) \ all /\ Range(running') = Range(running) \ all
    BY <1>1, <1>2, EndsQueues
  <1>5. Range(running') = {} BY <1>3, <1>4 DEF Queued
  <1>6. Kept' BY <1>1, <1>2, <1>4, <1>5 DEF Kept
  <1>7. all \in SUBSET Queued BY <1>3
  <1>8. [Promise!Next]_<<out, finish, lost>> /\ \A r \in all : finish'[r] # None
    BY <1>1, <1>2, <1>7, EndsPromised
  <1>9. \A r \in Requests : r \notin all => finish'[r] = finish[r] BY <1>1 DEF Ends
  <1>10. Spoken' BY <1>1, <1>2, <1>8, <1>9, SpokenStays DEF Spoken
  <1> QED BY <1>6, <1>8, <1>10 DEF PromiseStep

LEMMA StopSavesPromise ==
  ASSUME PromiseInv, StopSaves
  PROVE  PromiseStep
PROOF
  <1>1. /\ saved' = SavesIf(TRUE)
        /\ UNCHANGED <<waiting, running, new, fed, next, out, finish, entry, owner, dev, lost>>
    BY DEF StopSaves, reqs, api
  <1>2. saved \subseteq saved' BY <1>1 DEF SavesIf
  <1>3. Kept' BY <1>1, <1>2 DEF Kept, PromiseInv
  <1>4. Spoken' BY <1>1, SpokenStays DEF Spoken, PromiseInv
  <1> QED BY <1>1, <1>3, <1>4 DEF PromiseStep

LEMMA NextPromise ==
  PromiseInv /\ [Next]_vars => PromiseInv' /\ [Promise!Next]_<<out, finish, lost>>
PROOF
  <1> SUFFICES ASSUME PromiseInv, [Next]_vars PROVE PromiseInv' /\ [Promise!Next]_<<out, finish, lost>>
    OBVIOUS
  <1>1. WorkerInv' BY NextInv DEF PromiseInv
  <1>2. ASSUME Next PROVE PromiseStep
    <2>1. CASE Clients BY <2>1, ClientsPromise
    <2>2. CASE Fails BY <2>2, FailsPromise
    <2>3. ASSUME NEW s \in saved, Forget(s) PROVE PromiseStep BY <2>3, ForgetPromise
    <2>4. CASE Pick BY <2>4, PickPromise
    <2>5. CASE SwitchSaves BY <2>5, SwitchSavesPromise
    <2>6. CASE SwitchReuses BY <2>6, SwitchReusesPromise
    <2>7. CASE SwitchLoads BY <2>7, SwitchLoadsPromise
    <2>8. ASSUME NEW s, SwitchLeaves(s) PROVE PromiseStep BY <2>8, SwitchLeavesPromise
    <2>9. CASE Prefill BY <2>9, PrefillPromise
    <2>10. CASE DecodeBegins BY <2>10, DecodeBeginsPromise
    <2>11. CASE Decode BY <2>11, DecodePromise
    <2>12. CASE LoopStops BY <2>12, LoopStopsPromise
    <2>13. CASE StopSaves BY <2>13, StopSavesPromise
    <2> QED
      BY <1>2, <2>1, <2>2, <2>3, <2>4, <2>5, <2>6, <2>7, <2>8, <2>9, <2>10, <2>11, <2>12, <2>13 DEF Next, Loop
  <1>3. CASE UNCHANGED vars
    <2>1. UNCHANGED <<waiting, running, new, fed, next, out, finish, entry, owner, dev, saved, lost>>
      BY <1>3 DEF vars, reqs, api, host
    <2>2. Kept' BY <2>1 DEF Kept, PromiseInv
    <2>3. Spoken' BY <2>1, SpokenStays DEF Spoken, PromiseInv
    <2> QED BY <1>1, <2>1, <2>2, <2>3 DEF PromiseInv
  <1> QED BY <1>1, <1>2, <1>3 DEF PromiseStep, PromiseInv

LEMMA InitPromise == Init => PromiseInv /\ Promise!Init
PROOF
  <1> SUFFICES ASSUME Init PROVE PromiseInv /\ Promise!Init
    OBVIOUS
  <1>1. WorkerInv BY InitInv
  <1>2. Kept
    <2>1. Range(running) = {} /\ Range(waiting) = {} BY DEF Init, Range
    <2>2. \A r \in new : fed[r] = <<>> BY DEF Init
    <2> QED BY <2>1, <2>2 DEF Init, Kept
  <1>3. ASSUME NEW r \in Requests PROVE SpokenOf(r)
    <2>1. out[r] = <<>> /\ next[r] = None /\ fed[r] = <<>> BY DEF Init
    <2>2. MaxNew[r] \in Nat \ {0} BY RequestsAssumption
    <2>3. IsPrefix(<<>>, Prompt[r]) /\ IsPrefix(<<>>, Reply[r]) BY RequestsAssumption, EmptyPrefix
    <2>4. Len(<<>>) = 0 /\ <<>> \in Seq(Tokens) BY EmptySeq
    <2>5. Saying(r, <<>>) BY <2>1, <2>3, <2>4 DEF Saying
    <2>6. \E words \in Seq(Tokens) : Saying(r, words) BY <2>4, <2>5
    <2>7. Len(out[r]) < MaxNew[r] /\ IsPrefix(out[r], Reply[r]) BY <2>1, <2>2, <2>3, <2>4
    <2> QED BY <2>6, <2>7 DEF SpokenOf
  <1>4. Promise!Init BY DEF Init, Promise!Init
  <1> QED BY <1>1, <1>2, <1>3, <1>4 DEF PromiseInv, Spoken

(* Each running request that is off the device has its own context saved   *)
(* under the tokens it was fed, through all the turns, switches, restores  *)
(* and reuses between (_switch_to, _pick): only the store's drops, pinned  *)
(* or not, a flush() and a failing turn take it away.                      *)
THEOREM WorkerOffDeviceIsSaved == Spec => []OffDeviceIsSaved
PROOF
  <1>1. Init => PromiseInv BY InitPromise
  <1>2. PromiseInv /\ [Next]_vars => PromiseInv' BY NextPromise
  <1>3. PromiseInv => OffDeviceIsSaved
    <2> SUFFICES ASSUME PromiseInv, NEW r \in Range(running), fed[r] # <<>>, owner # r, r \notin lost
                 PROVE  entry[r] \in saved /\ entry[r].key = fed[r]
      BY DEF OffDeviceIsSaved
    <2>1. r \in Requests BY RangeIs DEF PromiseInv, WorkerInv, Queues
    <2>2. entry[r] \in saved BY DEF PromiseInv, Kept
    <2>3. entry[r] # None BY <2>2, RequestsAssumption DEF PromiseInv, WorkerInv, Typed, Saveds
    <2>4. entry[r] = [key |-> fed[r], data |-> fed[r]] BY <2>1, <2>3 DEF PromiseInv, WorkerInv, Pinned
    <2> QED BY <2>2, <2>4
  <1> QED BY <1>1, <1>2, <1>3, PTL DEF Spec

(* The output of a request whose context is not lost is, token by token,   *)
(* what the model says on its own after its prompt, through the turns of   *)
(* others, the switches, restores and reuses of contexts in the middle.    *)
THEOREM WorkerOutputIsOwnRun == Spec => []OutputIsOwnRun
PROOF
  <1>1. Init => PromiseInv BY InitPromise
  <1>2. PromiseInv /\ [Next]_vars => PromiseInv' BY NextPromise
  <1>3. PromiseInv => OutputIsOwnRun BY DEF PromiseInv, Spoken, SpokenOf, OutputIsOwnRun
  <1> QED BY <1>1, <1>2, <1>3, PTL DEF Spec

(* The worker is a Serving, drops of pinned contexts, flush(), failing     *)
(* turns, cancels and stop() and all: each token a client gets is its own  *)
(* reply's next (any of its reply's, where its context was lost and it     *)
(* began again), and it ends by a stop id, its length, or an end asked for *)
(* or forced.                                                              *)
THEOREM WorkerServes == Spec => ImplementsServing
PROOF
  <1>1. Init => PromiseInv /\ Promise!Init BY InitPromise
  <1>2. PromiseInv /\ [Next]_vars => PromiseInv' /\ [Promise!Next]_<<out, finish, lost>> BY NextPromise
  <1> QED BY <1>1, <1>2, PTL DEF Spec, ImplementsServing, Promise!Spec
=============================================================================
