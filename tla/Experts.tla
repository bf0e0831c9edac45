------------------------------ MODULE Experts ------------------------------
(***************************************************************************)
(* The expert server of opentpu/host/offload.py and the card's program it  *)
(* serves (opentpu/llm/moe.py, opentpu/kernels/mailbox.py).  A mixture-of- *)
(* experts layer needs k of its experts, of which the card's DRAM holds    *)
(* some, in slots.  The card posts the ids it needs in a mailbox, computes *)
(* with the ones the directory says are present, and waits for the others: *)
(* for the answer, which names their slots, then for each slot's tag word. *)
(* It also posts hints, whose experts the host sends a part at a time while*)
(* nothing is asked of it.                                                 *)
(*                                                                         *)
(* The host's poll reads the mailbox once and queues its writes (dma), in  *)
(* order; they reach the card's DRAM one by one, the card running between  *)
(* them, and the next poll begins with the queue empty (flush).  Which     *)
(* expert a missing one replaces is left open: least recent or least used. *)
(* Layer-major prefills (pooled slots, layers ahead, need lines) and the   *)
(* pacing of polls are left out; there is one layer.                       *)
(***************************************************************************)
EXTENDS Lists

CONSTANTS
  Expert, Slot,
  K,           \* the ids of a token's request (layout.k)
  MaxIds,      \* the most ids of a request (rows of a prefill)
  Parts,       \* the parts of an expert's bytes
  Drops,       \* whether a request withdraws the hinted experts it does not name
  Exact,       \* the last seq a float32 counts to exactly (2^24)
  RebaseAt,    \* SEQ_REBASE
  PostsPerRun, \* bound: posts of one run of the card's program
  None         \* no slot, no expert: a word of 0

ASSUME ExpertsAssumption ==
  /\ None \notin Expert \cup Slot
  /\ IsFiniteSet(Slot) /\ IsFiniteSet(Expert)
  /\ MaxIds \in Nat /\ K \in 1..MaxIds /\ MaxIds <= Cardinality(Slot)
  /\ Parts \in Nat \ {0}
  /\ RebaseAt \in Nat \ {0} /\ PostsPerRun \in Nat
  /\ Exact \in Nat /\ RebaseAt + PostsPerRun <= Exact
  /\ Drops \subseteq BOOLEAN /\ Drops # {}

VARIABLES
  \* the card's DRAM
  seq, row, served,
  answer,      \* place in the request -> slot, or None
  dir,         \* expert -> its slot, or None: not present
  bytes,       \* slot -> part -> whose bytes are there
  tag,         \* slot -> the expert whose tag word is there, or None
  \* the host
  dma,         \* its writes on their way, in order
  done,        \* the last request served
  slotOf,      \* expert -> the slot it has or is on its way to, or None
  pending,     \* the hinted experts on their way, oldest first: [e, sent]
  fresh,       \* the expert the last poll landed
  armed,       \* slots whose tag may be set
  used,        \* the slots of the last request
  placed,      \* slots that hold other weights of the host's
  \* the card
  on, posts,   \* a run is going on, its posts
  at,          \* where it is
  seen,        \* the places whose expert it read as present
  left,        \* the places it has still to compute
  reg,         \* the slot it has in its register, or None
  \* history
  stale,       \* the answer there came when its request had ended
  misled       \* the card took a slot from such an answer

dram == <<seq, row, served, answer, dir, bytes, tag>>
host == <<done, slotOf, pending, fresh, armed, used, placed>>
card == <<on, posts, at, seen, left, reg>>
past == <<stale, misled>>
vars == <<dram, dma, host, card, past>>

----------------------------------------------------------------------------
Ids      == ToSet(row.ids)
OnTheWay == {p.e : p \in ToSet(pending)}
Sent(e)  == (CHOOSE p \in ToSet(pending) : p.e = e).sent
InSlots  == {e \in Expert : slotOf[e] # None}
Taken    == {slotOf[e] : e \in InSlots} \cup placed
NoAnswer == [p \in 1..MaxIds |-> None]
NoBytes  == [p \in 1..Parts |-> None]
Places   == 1..Len(row.ids)

(* The host's writes.                                                      *)
Part(s, p, e) == [op |-> "part", slot |-> s, part |-> p, e |-> e]
Tag(s, e)     == [op |-> "tag", slot |-> s, e |-> e]
NoTags(S)     == [op |-> "notags", slots |-> S]
Answer(a)     == [op |-> "answer", to |-> a]
Dir(d)        == [op |-> "dir", to |-> d]        \* d: the entries that change
Served(n)     == [op |-> "served", n |-> n]

(* The parts a+1.. of an expert, with its tag in the last one's last beat. *)
Sends(e, s, a) == [p \in 1..(Parts - a) |-> Part(s, a + p, e)] \o <<Tag(s, e)>>
Dirs(d)        == IF DOMAIN d = {} THEN <<>> ELSE <<Dir(d)>>
NoTagsIn(S)    == IF S = {} THEN <<>> ELSE <<NoTags(S)>>

(* Mutant: a slot given to another expert keeps its tag.                   *)
ReusesAsIs(S) == <<>>

(* _reuse: the tags the card may not have zeroed are, before anything else.*)
Reuses(S) == NoTagsIn(S \cap armed)

(* The slots for the experts of M, free ones first, then their victims':   *)
(* experts the request does not name.                                      *)
SlotsFor(M, ids) ==
  {to \in [M -> Slot \ placed] :
     /\ IsInjective(to)
     /\ \A e \in ids \cap InSlots, m \in M : to[m] # slotOf[e]
     /\ \/ \A m \in M : to[m] \notin Taken
        \/ Slot \ Taken \subseteq Range(to)}
Victims(to)       == {v \in InSlots : slotOf[v] \in Range(to)}
Replaced(to, out) == [e \in Expert |-> IF e \in DOMAIN to THEN to[e]
                                       ELSE IF e \in out THEN None ELSE slotOf[e]]

(* Mutant: the victims' entries stay.                                      *)
ChangedNew(new, out, slots) == [e \in new |-> slots[e]]

(* The entries a request changes: those of its new experts, and of their   *)
(* victims that had landed.                                                *)
Changed(new, out, slots) ==
  [e \in new \cup (out \ OnTheWay) |-> IF e \in new THEN slots[e] ELSE None]

Kept(out)         == Without(pending, {p \in ToSet(pending) : p.e \in out})

----------------------------------------------------------------------------
(* A poll of the host.                                                     *)

(* Nothing asked: a part of the oldest hinted expert; its tag with the last*)
(* one, then its entry.                                                    *)
PollSteps ==
  /\ dma = <<>> /\ on /\ seq = done /\ pending # <<>>
  /\ LET e == Head(pending).e
         n == Head(pending).sent + 1
         s == slotOf[e]
     IN IF n < Parts
        THEN /\ dma' = <<Part(s, n, e)>>
             /\ pending' = <<[e |-> e, sent |-> n]>> \o Tail(pending)
             /\ fresh' = {} /\ UNCHANGED armed
        ELSE /\ dma' = <<Part(s, n, e), Tag(s, e), Dir([x \in {e} |-> s])>>
             /\ pending' = Tail(pending)
             /\ fresh' = {e} /\ armed' = armed \cup {s}
  /\ UNCHANGED <<dram, done, slotOf, used, placed, card, past>>

(* Nothing asked and nothing to send, or the run's end too near (_hold).   *)
PollHolds ==
  /\ dma = <<>> /\ on /\ seq = done
  /\ fresh' = {}
  /\ UNCHANGED <<dram, dma, done, slotOf, pending, armed, used, placed, card, past>>

(* A request was posted (a poll of the run, or settle() after it).         *)
Asked(kind) == dma = <<>> /\ seq # done /\ row.kind = kind

(* hint(): the first of the experts named that have no slot (as many as the*)
(* caps let; none, with "lru") get one, and wait for idle polls; a victim's*)
(* entry goes before served.                                               *)
PollHint ==
  /\ Asked("hint")
  /\ \E n \in 0..MaxIds :
     LET no   == Without(row.ids, InSlots)
         want == SubSeq(no, 1, n)
     IN /\ n <= Len(no)
        /\ \E to \in SlotsFor(ToSet(want), Ids) :
             LET out == Victims(to)
             IN /\ slotOf' = Replaced(to, out)
                /\ pending' = Kept(out) \o [i \in DOMAIN want |-> [e |-> want[i], sent |-> 0]]
                /\ dma' = Reuses(Range(to)) \o Dirs(Changed({}, out, slotOf')) \o <<Served(seq)>>
                /\ armed' = (armed \ used) \ Range(to)
  /\ used' = {} /\ fresh' = {} /\ done' = seq
  /\ UNCHANGED <<dram, placed, card, past>>

(* Mutant: only what is sent is answered.                                  *)
LateNever(ids) == {}

(* The hits that landed in the poll before, when the card may have read    *)
(* their entries already.                                                  *)
Late(ids) == {e \in ids : slotOf[e] # None /\ e \notin OnTheWay /\ e \in fresh}

(* Mutant: served before the entries.                                      *)
InTurnServedFirst(tags, data, dirs, n) == tags \o data \o <<Served(n)>> \o dirs

(* Tags first, experts, their entries and the victims', served last.       *)
InTurn(tags, data, dirs, n) == tags \o data \o dirs \o <<Served(n)>>

(* The data of a request's missing experts, in its order, the answer once  *)
(* the first one's first part is on its way; or the answer alone.          *)
Data(plan, to, a) ==
  LET sends == [n \in DOMAIN plan |->
                  IF plan[n] \in OnTheWay THEN Sends(plan[n], slotOf[plan[n]], Sent(plan[n]))
                                          ELSE Sends(plan[n], to[plan[n]], 0)]
      all   == FlattenSeq(sends)
  IN IF all = <<>> THEN (IF a = NoAnswer THEN <<>> ELSE <<Answer(a)>>)
     ELSE <<Head(all), Answer(a)>> \o Tail(all)

(* serve(): hits, late hits, experts on their way (sent to their end now), *)
(* and missing ones.                                                       *)
PollServes ==
  /\ Asked("request")
  /\ LET plan == Without(row.ids, InSlots \ OnTheWay)
         late == Late(Ids)
     IN \E to \in SlotsFor({e \in Ids : slotOf[e] = None}, Ids), drop \in Drops :
          LET out    == Victims(to)
              gone   == IF drop THEN (OnTheWay \ out) \ Ids ELSE {}
              slotIn == Replaced(to, out \cup gone)
              a      == [p \in 1..MaxIds |->
                           IF p \in Places /\ row.ids[p] \in ToSet(plan) \cup late
                           THEN slotIn[row.ids[p]] ELSE None]
          IN /\ slotOf' = slotIn
             /\ pending' = Kept(out \cup gone \cup Ids)
             /\ dma' = InTurn(Reuses(Range(to)), Data(plan, to, a), Dirs(Changed(ToSet(plan), out, slotIn)), seq)
             /\ armed' = ((armed \ used) \ Range(to)) \cup {slotIn[e] : e \in ToSet(plan)}
             /\ used' = {slotIn[e] : e \in Ids}
  /\ fresh' = {} /\ done' = seq
  /\ UNCHANGED <<dram, placed, card, past>>

(* The next of the host's writes reaches the card's DRAM; of the directory *)
(* and of the tags cleared together, one at a time, in any order.          *)
Dma ==
  /\ dma # <<>>
  /\ LET w == Head(dma)
     IN \/ /\ w.op = "part"
           /\ bytes' = [bytes EXCEPT ![w.slot][w.part] = w.e]
           /\ dma' = Tail(dma)
           /\ UNCHANGED <<answer, dir, tag, served, stale>>
        \/ /\ w.op = "tag"
           /\ tag' = [tag EXCEPT ![w.slot] = w.e]
           /\ dma' = Tail(dma)
           /\ UNCHANGED <<answer, dir, bytes, served, stale>>
        \/ /\ w.op = "notags"
           /\ \E s \in w.slots :
                /\ tag' = [tag EXCEPT ![s] = None]
                /\ dma' = NoTagsIn(w.slots \ {s}) \o Tail(dma)
           /\ UNCHANGED <<answer, dir, bytes, served, stale>>
        \/ /\ w.op = "answer"
           /\ answer' = w.to /\ stale' = (at = "free")
           /\ dma' = Tail(dma)
           /\ UNCHANGED <<dir, bytes, tag, served>>
        \/ /\ w.op = "dir"
           /\ \E e \in DOMAIN w.to :
                /\ dir' = [dir EXCEPT ![e] = w.to[e]]
                /\ dma' = Dirs([x \in DOMAIN w.to \ {e} |-> w.to[x]]) \o Tail(dma)
           /\ UNCHANGED <<answer, bytes, tag, served, stale>>
        \/ /\ w.op = "served"
           /\ served' = w.n
           /\ dma' = Tail(dma)
           /\ UNCHANGED <<answer, dir, bytes, tag, stale>>
  /\ UNCHANGED <<seq, row, host, card, misled>>

----------------------------------------------------------------------------
(* Between runs: the last request is served first (settle).                *)
Settled == ~ on /\ dma = <<>> /\ seq = done

(* rebase(), and the next run.                                             *)
Starts ==
  /\ ~ on /\ dma = <<>>
  /\ IF done >= RebaseAt
     THEN /\ Settled
          /\ seq' = 0 /\ served' = 0 /\ done' = 0
     ELSE UNCHANGED <<seq, served, done>>
  /\ on' = TRUE /\ posts' = 0
  /\ UNCHANGED <<row, answer, dir, bytes, tag, dma, slotOf, pending, fresh, armed, used,
                 placed, at, seen, left, reg, past>>

(* place() of one of the host's entries: what is on its way is dropped; a  *)
(* free slot, else an expert's.                                            *)
Place(s) ==
  /\ Settled /\ placed = {} /\ Cardinality(Slot) > K
  /\ LET free == Slot \ {slotOf[e] : e \in InSlots \ OnTheWay}
         out  == {e \in InSlots : slotOf[e] = s}
     IN /\ free # {} => s \in free
        /\ slotOf' = [e \in Expert |-> IF e \in OnTheWay \cup out THEN None ELSE slotOf[e]]
        /\ dir' = [e \in Expert |-> IF e \in out THEN None ELSE dir[e]]
  /\ tag' = IF s \in armed \ used THEN [tag EXCEPT ![s] = None] ELSE tag
  /\ armed' = (armed \ used) \ {s} /\ used' = {}
  /\ bytes' = [bytes EXCEPT ![s] = NoBytes]
  /\ placed' = {s} /\ pending' = <<>>
  /\ UNCHANGED <<seq, row, served, answer, dma, done, fresh, card, past>>

Release ==
  /\ ~ on /\ placed # {}
  /\ placed' = {}
  /\ UNCHANGED <<dram, dma, done, slotOf, pending, fresh, armed, used, card, past>>

----------------------------------------------------------------------------
(* The card's program.                                                     *)

(* The fence (the last request served), then the ids into the row ...      *)
Asks(kind, ids) ==
  /\ on /\ at = "free" /\ posts < PostsPerRun
  /\ placed # {} => Len(ids) <= K
  /\ served >= seq
  /\ row' = [kind |-> kind, ids |-> ids]
  /\ at' = "row"
  /\ UNCHANGED <<seq, served, answer, dir, bytes, tag, dma, host, on, posts, seen, left, reg, past>>

(* ... and seq + 1.0, in float32.                                          *)
Posts ==
  /\ at = "row"
  /\ seq' = IF seq < Exact THEN seq + 1 ELSE seq
  /\ posts' = posts + 1
  /\ IF row.kind = "hint"
     THEN at' = "free" /\ UNCHANGED left
     ELSE at' = "flags" /\ left' = Places
  /\ seen' = {}
  /\ UNCHANGED <<row, served, answer, dir, bytes, tag, dma, host, on, reg, past>>

(* The present flag of each id, in turn (left: those to read).             *)
ReadsFlag ==
  /\ at = "flags"
  /\ LET p == Min(left)
     IN /\ seen' = IF dir[row.ids[p]] # None THEN seen \cup {p} ELSE seen
        /\ left' = IF left = {p} THEN Places ELSE left \ {p}
        /\ at' = IF left = {p} THEN "experts" ELSE "flags"
  /\ UNCHANGED <<dram, dma, host, on, posts, reg, past>>

(* The present ones first, then the missing ones.                          *)
Turn == IF left \cap seen # {} THEN Min(left \cap seen) ELSE Min(left)

(* slot_of, present: the entry's slot; its tag is zeroed.                  *)
TakesPresent ==
  /\ at = "experts" /\ left \cap seen # {}
  /\ LET s == dir[row.ids[Turn]]
     IN /\ s # None
        /\ reg' = s
        /\ tag' = [tag EXCEPT ![s] = None]
  /\ at' = "computes"
  /\ UNCHANGED <<seq, row, served, answer, dir, bytes, dma, host, on, posts, seen, left, past>>

(* slot_of, missing: the answer's slot, once there ...                     *)
TakesAnswer ==
  /\ at = "experts" /\ left # {} /\ left \cap seen = {}
  /\ answer[Turn] # None
  /\ reg' = answer[Turn]
  /\ at' = "tag" /\ misled' = (misled \/ stale)
  /\ UNCHANGED <<dram, dma, host, on, posts, seen, left, stale>>

(* ... and the slot's tag, zeroed.                                         *)
TakesTag ==
  /\ at = "tag" /\ tag[reg] # None
  /\ tag' = [tag EXCEPT ![reg] = None]
  /\ at' = "computes"
  /\ UNCHANGED <<seq, row, served, answer, dir, bytes, dma, host, on, posts, seen, left, reg, past>>

Computes ==
  /\ at = "computes"
  /\ left' = left \ {Turn}
  /\ reg' = None /\ at' = "experts"
  /\ UNCHANGED <<dram, dma, host, on, posts, seen, past>>

(* After its experts: the answer zeroed, though one may be still to come,  *)
(* for an expert landed in the last poll that the card found present.      *)
Ends ==
  /\ at = "experts" /\ left = {}
  /\ answer' = NoAnswer /\ stale' = FALSE
  /\ at' = "free" /\ seen' = {}
  /\ UNCHANGED <<seq, row, served, dir, bytes, tag, dma, host, on, posts, left, reg, misled>>

Halts ==
  /\ on /\ at = "free" /\ posts > 0
  /\ on' = FALSE
  /\ UNCHANGED <<dram, dma, host, posts, at, seen, left, reg, past>>

----------------------------------------------------------------------------
Lists == {s \in UNION {[1..n -> Expert] : n \in 1..MaxIds} : IsInjective(s)}

(* load(), with some experts warm.                                         *)
Init ==
  /\ seq = 0 /\ served = 0 /\ done = 0 /\ row = [kind |-> "none", ids |-> <<>>]
  /\ answer = NoAnswer /\ tag = [s \in Slot |-> None]
  /\ \E warm \in SUBSET Expert : \E to \in [warm -> Slot] :
       /\ IsInjective(to)
       /\ slotOf = [e \in Expert |-> IF e \in warm THEN to[e] ELSE None]
  /\ dir = slotOf
  /\ bytes = [s \in Slot |-> [p \in 1..Parts |->
                 IF \E e \in Expert : slotOf[e] = s THEN CHOOSE e \in Expert : slotOf[e] = s
                 ELSE None]]
  /\ dma = <<>> /\ pending = <<>> /\ fresh = {} /\ armed = {} /\ used = {} /\ placed = {}
  /\ on = FALSE /\ posts = 0 /\ at = "free" /\ seen = {} /\ left = {} /\ reg = None
  /\ stale = FALSE /\ misled = FALSE

Poll == PollSteps \/ PollHolds \/ PollHint \/ PollServes

Program ==
  \/ Posts \/ ReadsFlag \/ TakesPresent \/ TakesAnswer \/ TakesTag \/ Computes \/ Ends

Next ==
  \/ Poll \/ Dma
  \/ Starts \/ Release \/ \E s \in Slot : Place(s)
  \/ \E kind \in {"hint", "request"}, ids \in Lists : Asks(kind, ids)
  \/ Program \/ Halts

Spec == Init /\ [][Next]_vars

(* The host polls, its writes arrive, the program goes on.                 *)
FairSpec == Spec /\ WF_vars(Poll) /\ WF_vars(Dma) /\ WF_vars(Program)

----------------------------------------------------------------------------
(* While the card computes with an expert, its slot holds all of that      *)
(* expert's bytes and no other's: whatever was hinted, replaced, placed or *)
(* landed while it read the entries.  Only a slot taken from an answer that*)
(* came when its request had ended may be another's.                       *)
ComputesOwn ==
  at = "computes" /\ ~ misled => \A p \in 1..Parts : bytes[reg][p] = row.ids[Turn]

(* When the card posts, nothing of an earlier request is left for it to    *)
(* take for its own: no answer, but one that came when its request had     *)
(* ended, and no tag but those the host knows of.                          *)
ClearAtPost ==
  at = "row" /\ ~ misled =>
    /\ ~ stale => answer = NoAnswer
    /\ \A s \in Slot : tag[s] # None => s \in armed

(* The document's claim of an expert landed as its request is posted: the  *)
(* card that read it as present zeroes the answer after its experts, so no *)
(* answer is left for the next request.                                    *)
AnswerZeroed == at = "row" => answer = NoAnswer

(* With the host's writes all there, the directory is the host's: an entry *)
(* says present for the experts in slots that are not on their way.        *)
DirectoryAgrees ==
  dma = <<>> => \A e \in Expert : dir[e] = IF e \in OnTheWay THEN None ELSE slotOf[e]

(* No request waits for what never comes: once the host has served it and  *)
(* its writes are there, the card finds the answer and the tag it waits    *)
(* for, though it read the entries at some moment of its own, and though an*)
(* old answer was there, unless it took a slot from that.                  *)
WaitsEnd ==
  dma = <<>> /\ seq = done /\ ~ misled =>
    /\ at = "experts" /\ left # {} /\ left \cap seen = {} => answer[Turn] # None
    /\ at = "tag" => tag[reg] # None
=============================================================================
