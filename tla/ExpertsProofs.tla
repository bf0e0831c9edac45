--------------------------- MODULE ExpertsProofs ---------------------------
(***************************************************************************)
(* What Experts.tla states, for every number of experts, slots, parts and  *)
(* ids: the directory is the host's once its writes are there, the card    *)
(* computes with its own experts, finds nothing of an earlier request and  *)
(* waits for nothing that never comes; the last three as long as it took   *)
(* no slot from an answer that came when its request had ended (misled).   *)
(*                                                                         *)
(* Nothing is locked: the invariant says, write by write, what is still on *)
(* its way (dma) for what the DRAM does not hold yet, and in which order.  *)
(* Each step is shown to keep what the host and its writes keep alone, and *)
(* the rest while the card was not misled.                                 *)
(***************************************************************************)
EXTENDS Experts, ListsProofs

----------------------------------------------------------------------------
(* The host's writes, and which may come before which in one poll's.       *)
SlotOrNone == Slot \cup {None}

PartWrite   == [op : {"part"}, slot : Slot, part : 1..Parts, e : Expert]
TagWrite    == [op : {"tag"}, slot : Slot, e : Expert]
NoTagsWrite == [op : {"notags"}, slots : SUBSET Slot]
AnswerWrite == [op : {"answer"}, to : [1..MaxIds -> SlotOrNone]]
DirWrite    == [op : {"dir"}, to : UNION {[D -> SlotOrNone] : D \in SUBSET Expert}]
ServedWrite == [op : {"served"}, n : Nat]
Write == PartWrite \cup TagWrite \cup NoTagsWrite \cup AnswerWrite \cup DirWrite \cup ServedWrite

(* Tags are cleared first and served is written last; an expert's tag      *)
(* follows its parts, and its entry follows its tag.                       *)
May(w, v) ==
  /\ v.op # "notags" /\ w.op # "served"
  /\ w.op = "dir" => v.op = "served"
  /\ w.op = "answer" => v.op # "answer"
  /\ w.op = "tag" /\ v.op \in {"part", "tag"} => w.e # v.e

InLine(s) == \A i, j \in DOMAIN s : i < j => May(s[i], s[j])

----------------------------------------------------------------------------
(* The invariant.                                                          *)
Hint          == [e : Expert, sent : 0..(Parts - 1)]
Writes        == ToSet(dma)
Running       == at \in {"flags", "experts", "tag", "computes"}
Home(e)       == IF e \in OnTheWay THEN None ELSE slotOf[e]
TagSent(s)    == \E w \in Writes : w.op = "tag" /\ w.slot = s
Clearing(s)   == \E w \in Writes : w.op = "notags" /\ s \in w.slots
AnswerSent(p) == \E w \in Writes : w.op = "answer" /\ w.to[p] # None
Told          == IF stale THEN NoAnswer ELSE answer   \* of the request the card is in
Answers(p)    == Told[p] # None \/ AnswerSent(p)
Own(p)        == slotOf[row.ids[p]]
Read(p)       == at # "flags" \/ p \notin left
Over          == at \in {"free", "row"} \/ seq # done

Typed ==
  /\ seq \in Nat /\ done \in Nat /\ served \in Nat /\ posts \in Nat /\ on \in BOOLEAN
  /\ row \in [kind : {"none", "hint", "request"}, ids : Seq(Expert)]
  /\ Len(row.ids) <= MaxIds /\ IsInjective(row.ids)
  /\ answer \in [1..MaxIds -> SlotOrNone]
  /\ dir \in [Expert -> SlotOrNone] /\ slotOf \in [Expert -> SlotOrNone]
  /\ bytes \in [Slot -> [1..Parts -> Expert \cup {None}]]
  /\ tag \in [Slot -> Expert \cup {None}]
  /\ dma \in Seq(Write)
  /\ pending \in Seq(Hint)
  /\ fresh \subseteq Expert /\ armed \subseteq Slot /\ used \subseteq Slot /\ placed \subseteq Slot
  /\ at \in {"free", "row", "flags", "experts", "tag", "computes"}
  /\ seen \subseteq 1..MaxIds /\ left \subseteq 1..MaxIds /\ reg \in SlotOrNone
  /\ stale \in BOOLEAN /\ misled \in BOOLEAN

(* An expert on its way is there once, and no two experts share a slot.    *)
Slotted ==
  /\ \A i, j \in DOMAIN pending : pending[i].e = pending[j].e => i = j
  /\ OnTheWay \subseteq InSlots
  /\ \A e, f \in InSlots : slotOf[e] = slotOf[f] => e = f
  /\ \A e \in InSlots : slotOf[e] \notin placed

(* The counts, and where the card may be by them.                          *)
Counted ==
  /\ served <= done /\ done <= seq /\ seq <= done + 1
  /\ served # done => \E w \in Writes : w.op = "served"
  /\ \A w \in Writes : w.op = "served" => w.n = done /\ served # done
  /\ seq # done => served = done
  /\ on => seq <= RebaseAt + posts /\ posts <= PostsPerRun
  /\ at # "free" => on /\ row.ids # <<>>
  /\ at = "row" => posts < PostsPerRun /\ served = seq /\ row.kind # "none"
  /\ Running => row.kind = "request" /\ seen \subseteq Places /\ left \subseteq Places
  /\ at = "flags" => left # {} /\ left \cap seen = {}

(* A poll's writes end with served, but an idle poll's.                    *)
Polled ==
  /\ InLine(dma)
  /\ served = done =>
       \A w \in Writes : /\ w.op \in {"part", "tag", "dir"}
                         /\ w.op = "dir" => \A e \in DOMAIN w.to : e \in fresh /\ w.to[e] # None
  /\ served # done => fresh = {}

(* An entry is the host's, or is on its way.                               *)
Directed ==
  /\ \A w \in Writes : w.op = "dir" =>
       \A e \in DOMAIN w.to : w.to[e] = Home(e) /\ (w.to[e] # None => dir[e] = None)
  /\ \A e \in Expert : (\A w \in Writes : w.op = "dir" => e \notin DOMAIN w.to) => dir[e] = Home(e)

(* The parts and tags on their way are of experts whose slot it is; a tag  *)
(* is on its way while the last of its expert's parts are.                 *)
Sending ==
  \A w \in Writes : w.op \in {"part", "tag"} =>
    /\ slotOf[w.e] = w.slot /\ dir[w.e] = None
    /\ w.op = "tag" => w.slot \in armed /\ w.e \notin OnTheWay
    /\ w.op = "part" => w.e \in OnTheWay \/ TagSent(w.slot)

(* What was sent of an expert is in its slot, or on its way.               *)
There(e, p) == bytes[slotOf[e]][p] = e \/ Part(slotOf[e], p, e) \in Writes
Landed ==
  /\ \A e \in InSlots \ OnTheWay, p \in 1..Parts : There(e, p)
  /\ \A q \in ToSet(pending), p \in 1..Parts : p <= q.sent => There(q.e, p)

(* The tags: which may be set, and which are zero.                         *)
Tagged ==
  /\ \A s \in Slot : tag[s] # None => s \in armed \/ Clearing(s)
  /\ \A e \in OnTheWay : tag[slotOf[e]] = None \/ Clearing(slotOf[e])
  /\ \A s \in Slot : TagSent(s) => tag[s] = None \/ Clearing(s)
  /\ \A e \in OnTheWay : slotOf[e] \notin used
  /\ Over => \A s \in used : tag[s] = None /\ ~ TagSent(s)

(* The card in a request: its places ...                                   *)
Placed ==
  Running =>
    /\ \A p \in seen : dir[row.ids[p]] # None /\ dir[row.ids[p]] = Own(p)
                       /\ row.ids[p] \notin OnTheWay
    /\ seq = done => /\ \A e \in Ids : slotOf[e] # None /\ e \notin OnTheWay /\ e \notin fresh
                     /\ used = {slotOf[e] : e \in Ids}

(* ... its answer, which may still come when it has ended ...              *)
AnswerOwn ==
  /\ ~ Running \/ seq # done => Told = NoAnswer
  /\ \A w \in Writes : w.op = "answer" =>
       /\ Told = NoAnswer
       /\ \A p \in 1..MaxIds : w.to[p] # None => p \in Places /\ w.to[p] = Own(p)
  /\ \A p \in 1..MaxIds : Told[p] # None => p \in Places /\ Told[p] = Own(p)
  /\ Told # NoAnswer => \A w \in Writes : w.op # "notags"

(* ... where it is ...                                                     *)
AtPlace ==
  /\ at \in {"tag", "computes"} => left # {}
  /\ at = "tag" => left \cap seen = {} /\ Told[Turn] # None /\ reg = Told[Turn]
  /\ at = "computes" => reg # None /\ reg = Own(Turn) /\ \A p \in 1..Parts : bytes[reg][p] = row.ids[Turn]
  /\ Running /\ seq # done => /\ at # "flags" => Places \ left \subseteq seen
                              /\ at = "computes" => left \cap seen # {}

(* ... the places it has taken, whose tags it zeroed ...                   *)
ToTake == IF at = "flags" THEN Places ELSE IF at = "computes" THEN left \ {Turn} ELSE left
Zeroed ==
  Running =>
    \A p \in Places \ ToTake : Own(p) # None /\ tag[Own(p)] = None /\ ~ TagSent(Own(p))

(* ... and those it has still to take.                                     *)
Coming ==
  Running =>
    \A p \in Places :
      /\ seq # done /\ Read(p) /\ p \notin seen =>
           slotOf[row.ids[p]] = None \/ row.ids[p] \in OnTheWay \/ row.ids[p] \in fresh
      /\ seq = done => Answers(p) \/ (dir[row.ids[p]] # None /\ (Read(p) => p \in seen))
      /\ seq = done /\ p \in ToTake /\ p \notin seen /\ Answers(p) =>
           (tag[Own(p)] # None /\ ~ Clearing(Own(p))) \/ TagSent(Own(p))

(* A request has ended, or is to be served still.                          *)
Unserved == at = "free" /\ seq # done /\ row.kind = "request"

(* What landed in the last poll, if it was an idle one, has its tag, which *)
(* the card took if it found the expert present.                           *)
Freshly ==
  \A e \in fresh :
    /\ e \notin OnTheWay
    /\ \/ slotOf[e] = None
       \/ Running /\ \E p \in seen : row.ids[p] = e
       \/ Unserved /\ e \in Ids
       \/ tag[slotOf[e]] # None \/ TagSent(slotOf[e])

(* A request ended before the host looked at it found all of its experts.  *)
Early ==
  Unserved =>
    \A e \in Ids : /\ slotOf[e] # None /\ e \notin OnTheWay
                   /\ tag[slotOf[e]] = None /\ ~ TagSent(slotOf[e])

(* What the host and its writes keep by themselves, and what holds with a  *)
(* card that has taken no slot from an old answer.                         *)
HostInv == Typed /\ Slotted /\ Counted /\ Polled /\ Directed /\ Sending /\ Landed

CardInv ==
  /\ Tagged /\ Placed /\ AnswerOwn /\ AtPlace /\ Zeroed /\ Coming /\ Freshly /\ Early

ExpertsInv == HostInv /\ (misled \/ CardInv)

(* What each step is shown to keep.                                        *)
StepKeeps == HostInv' /\ (CardInv /\ ~ misled' => CardInv')

----------------------------------------------------------------------------
(* Lists of writes.                                                        *)
LEMMA WriteIs ==
  ASSUME NEW w \in Write
  PROVE  /\ w.op \in {"part", "tag", "notags", "answer", "dir", "served"}
         /\ w.op = "part" => w \in PartWrite
         /\ w.op = "tag" => w \in TagWrite
         /\ w.op = "notags" => w \in NoTagsWrite
         /\ w.op = "answer" => w \in AnswerWrite
         /\ w.op = "dir" => w \in DirWrite
         /\ w.op = "served" => w \in ServedWrite
BY DEF Write, PartWrite, TagWrite, NoTagsWrite, AnswerWrite, DirWrite, ServedWrite

LEMMA WrittenIn ==
  ASSUME NEW S, NEW s \in Seq(S)
  PROVE  /\ ToSet(s) \subseteq S
         /\ \A i \in 1..Len(s) : s[i] \in ToSet(s)
         /\ \A x \in ToSet(s) : \E i \in 1..Len(s) : x = s[i]
         /\ (s = <<>>) <=> (ToSet(s) = {})
PROOF
  <1>1. ToSet(s) = Range(s) BY DEF ToSet, Range
  <1> QED BY <1>1, RangeIs DEF Range

LEMMA ConcatInLine ==
  ASSUME NEW s \in Seq(Write), NEW t \in Seq(Write), InLine(s), InLine(t),
         \A w \in ToSet(s), v \in ToSet(t) : May(w, v)
  PROVE  InLine(s \o t)
PROOF
  <1> DEFINE r == s \o t
  <1>1. /\ Len(r) = Len(s) + Len(t) /\ DOMAIN r = 1..Len(r)
        /\ \A i \in 1..Len(s) : r[i] = s[i]
        /\ \A i \in 1..Len(r) : i > Len(s) => i - Len(s) \in 1..Len(t) /\ r[i] = t[i - Len(s)]
    OBVIOUS
  <1>2. Len(s) \in Nat /\ Len(t) \in Nat /\ DOMAIN s = 1..Len(s) /\ DOMAIN t = 1..Len(t) OBVIOUS
  <1>3. /\ \A i, j \in 1..Len(s) : i < j => May(s[i], s[j])
        /\ \A i, j \in 1..Len(t) : i < j => May(t[i], t[j])
    BY <1>2 DEF InLine
  <1>4. \A i \in 1..Len(s), j \in 1..Len(t) : May(s[i], t[j])
    BY WrittenIn
  <1> HIDE DEF r
  <1>5. ASSUME NEW i \in 1..Len(r), NEW j \in 1..Len(r), i < j
        PROVE  May(r[i], r[j])
    <2>1. CASE j <= Len(s)
      <3>1. i \in 1..Len(s) /\ j \in 1..Len(s) BY <2>1, <1>5, <1>2, <1>1
      <3> QED BY <3>1, <1>1, <1>3, <1>5
    <2>2. CASE i > Len(s)
      <3> DEFINE a == i - Len(s)
                 b == j - Len(s)
      <3>1. a \in 1..Len(t) /\ b \in 1..Len(t) /\ r[i] = t[a] /\ r[j] = t[b] /\ a < b
        BY <2>2, <1>5, <1>2, <1>1
      <3> HIDE DEF a, b
      <3> QED BY <3>1, <1>3
    <2>3. CASE i <= Len(s) /\ j > Len(s)
      <3> DEFINE b == j - Len(s)
      <3>1. b \in 1..Len(t) /\ r[j] = t[b] /\ i \in 1..Len(s) /\ r[i] = s[i]
        BY <2>3, <1>5, <1>2, <1>1
      <3> HIDE DEF b
      <3> QED BY <3>1, <1>4
    <2> QED BY <2>1, <2>2, <2>3, <1>1, <1>2
  <1>6. InLine(r) BY <1>1, <1>5 DEF InLine
  <1> QED BY <1>6 DEF r

(* The writes in one list, and with one before them.                       *)
LEMMA ConcatWrites ==
  ASSUME NEW s \in Seq(Write), NEW t \in Seq(Write), InLine(s), InLine(t),
         \A w \in ToSet(s), v \in ToSet(t) : May(w, v)
  PROVE  s \o t \in Seq(Write) /\ InLine(s \o t) /\ ToSet(s \o t) = ToSet(s) \cup ToSet(t)
BY ConcatInLine, ConcatSet

LEMMA OneWrite ==
  ASSUME NEW w \in Write
  PROVE  <<w>> \in Seq(Write) /\ InLine(<<w>>) /\ ToSet(<<w>>) = {w}
BY DEF InLine, ToSet

LEMMA NoWrite == <<>> \in Seq(Write) /\ InLine(<<>>) /\ ToSet(<<>>) = {}
BY DEF InLine, ToSet

(* The first of the writes may come before the others, and these are in    *)
(* line.                                                                   *)
LEMMA FirstWrite ==
  ASSUME NEW s \in Seq(Write), s # <<>>, InLine(s)
  PROVE  /\ Head(s) \in Write /\ Tail(s) \in Seq(Write) /\ InLine(Tail(s))
         /\ ToSet(s) = {Head(s)} \cup ToSet(Tail(s))
         /\ \A v \in ToSet(Tail(s)) : May(Head(s), v)
PROOF
  <1>1. /\ Head(s) \in Write /\ Tail(s) \in Seq(Write) /\ Len(s) \in Nat /\ Len(s) # 0
        /\ Head(s) = s[1] /\ Len(Tail(s)) = Len(s) - 1
        /\ \A i \in 1..(Len(s) - 1) : Tail(s)[i] = s[i + 1]
    OBVIOUS
  <1> DEFINE t == Tail(s)
  <1>2. DOMAIN t = 1..(Len(s) - 1) /\ DOMAIN s = 1..Len(s) BY <1>1
  <1>3. ToSet(s) = Range(s) /\ ToSet(t) = Range(t) BY DEF ToSet, Range
  <1>4. ToSet(s) = {Head(s)} \cup ToSet(t) BY <1>3, TailRange
  <1>5. \A i \in 1..(Len(s) - 1) : t[i] = s[i + 1] /\ i + 1 \in 1..Len(s) /\ 1 < i + 1 BY <1>1
  <1> HIDE DEF t
  <1>6. \A i, j \in 1..Len(s) : i < j => May(s[i], s[j]) BY <1>2 DEF InLine
  <1>7. 1 \in 1..Len(s) BY <1>1
  <1>8. \A i, j \in 1..(Len(s) - 1) : i < j => i + 1 < j + 1 OBVIOUS
  <1>9. \A i, j \in 1..(Len(s) - 1) : i < j => May(t[i], t[j]) BY <1>5, <1>6, <1>8
  <1>10. InLine(t) BY <1>2, <1>9 DEF InLine
  <1>11. \A i \in 1..(Len(s) - 1) : May(s[1], t[i]) BY <1>5, <1>6, <1>7
  <1>12. \A v \in ToSet(t) : May(s[1], v) BY <1>2, <1>11 DEF ToSet
  <1> QED BY <1>1, <1>4, <1>10, <1>12 DEF t

LEMMA FlattenWrites ==
  ASSUME NEW ss \in Seq(Seq(Write)),
         \A i \in 1..Len(ss) : InLine(ss[i]),
         \A i, j \in 1..Len(ss) : i < j => \A w \in ToSet(ss[i]), v \in ToSet(ss[j]) : May(w, v)
  PROVE  /\ FlattenSeq(ss) \in Seq(Write) /\ InLine(FlattenSeq(ss))
         /\ \A w : w \in ToSet(FlattenSeq(ss)) <=> \E i \in 1..Len(ss) : w \in ToSet(ss[i])
PROOF
  <1>1. CASE Len(ss) = 0
    <2>1. ss = <<>> BY <1>1
    <2>2. FlattenSeq(ss) = <<>> BY <2>1 DEF FlattenSeq
    <2> QED BY <1>1, <2>2, NoWrite
  <1>2. CASE Len(ss) # 0
    <2>1. PICK f : /\ FlattenSeq(ss) = f[Len(ss)]
                   /\ f[1] = ss[1]
                   /\ \A n \in 2..Len(ss) : f[n] = f[n - 1] \o ss[n]
      BY <1>2, FlattenSteps
    <2> DEFINE Is(n) == /\ f[n] \in Seq(Write) /\ InLine(f[n])
                        /\ \A w : w \in ToSet(f[n]) <=> \E i \in 1..n : w \in ToSet(ss[i])
               T == {n \in Nat : n + 1 \in 1..Len(ss) => Is(n + 1)}
    <2>2. Len(ss) \in Nat /\ \A i \in 1..Len(ss) : ss[i] \in Seq(Write) OBVIOUS
    <2>3. 0 \in T
      <3>1. 1 \in 1..Len(ss) BY <1>2, <2>2
      <3>2. ss[1] \in Seq(Write) /\ InLine(ss[1]) BY <3>1, <2>2
      <3>3. \A w : w \in ToSet(ss[1]) <=> \E i \in 1..1 : w \in ToSet(ss[i]) OBVIOUS
      <3>4. Is(1) BY <3>2, <3>3, <2>1
      <3> QED BY <3>4
    <2>4. ASSUME NEW n \in T PROVE n + 1 \in T
      <3>1. SUFFICES ASSUME n + 2 \in 1..Len(ss) PROVE Is(n + 2)
        BY <2>2
      <3> DEFINE m == n + 1
                 k == n + 2
      <3>2. n \in Nat /\ m \in 1..Len(ss) /\ k \in 1..Len(ss) /\ k \in 2..Len(ss) /\ k - 1 = m BY <3>1, <2>2
      <3>3. Is(m) BY <3>2, <2>4
      <3>4. f[k] = f[m] \o ss[k] BY <3>2, <2>1
      <3>5. \A i \in 1..m : i \in 1..Len(ss) /\ i < k BY <3>2
      <3>6. \A i \in 1..k : i \in 1..m \/ i = k BY <3>2
      <3>7. k \in 1..k /\ \A i \in 1..m : i \in 1..k BY <3>2
      <3> HIDE DEF m, k, Is, T
      <3>8. ss[k] \in Seq(Write) /\ InLine(ss[k]) BY <3>2, <2>2
      <3>9. f[m] \in Seq(Write) /\ InLine(f[m]) BY <3>3 DEF Is
      <3>10. \A w : w \in ToSet(f[m]) <=> \E i \in 1..m : w \in ToSet(ss[i]) BY <3>3 DEF Is
      <3>11. \A w \in ToSet(f[m]), v \in ToSet(ss[k]) : May(w, v)
        BY <3>10, <3>5, <3>2
      <3>12. f[k] \in Seq(Write) /\ InLine(f[k]) /\ ToSet(f[k]) = ToSet(f[m]) \cup ToSet(ss[k])
        BY <3>4, <3>8, <3>9, <3>11, ConcatWrites
      <3>13. \A w : w \in ToSet(f[k]) <=> \E i \in 1..k : w \in ToSet(ss[i])
        BY <3>12, <3>10, <3>6, <3>7
      <3>14. Is(k) BY <3>12, <3>13 DEF Is
      <3> QED BY <3>14 DEF k
    <2> HIDE DEF Is
    <2>5. T = Nat
      <3> HIDE DEF T
      <3>1. T \in SUBSET Nat BY DEF T
      <3> QED BY <2>3, <2>4, <3>1, NatInd
    <2>6. Len(ss) - 1 \in Nat /\ (Len(ss) - 1) + 1 = Len(ss) /\ Len(ss) \in 1..Len(ss) BY <1>2, <2>2
    <2>7. Is(Len(ss)) BY <2>5, <2>6
    <2> QED BY <2>7, <2>1 DEF Is
  <1> QED BY <1>1, <1>2

----------------------------------------------------------------------------
(* What a step leaves.                                                     *)
LEMMA SameWrites ==
  ASSUME dma' = dma
  PROVE  /\ Writes' = Writes
         /\ \A s : (TagSent(s)' <=> TagSent(s)) /\ (Clearing(s)' <=> Clearing(s))
         /\ \A p : AnswerSent(p)' <=> AnswerSent(p)
BY DEF Writes, TagSent, Clearing, AnswerSent

LEMMA SameSlots ==
  ASSUME pending' = pending, slotOf' = slotOf
  PROVE  /\ OnTheWay' = OnTheWay /\ InSlots' = InSlots
         /\ \A e : Home(e)' = Home(e)
BY DEF OnTheWay, InSlots, Home

(* What the card has been told: nothing, by an old answer.                 *)
LEMMA ToldIs ==
  ASSUME Typed
  PROVE  /\ Told \in [1..MaxIds -> SlotOrNone] /\ (Told = NoAnswer \/ (~ stale /\ Told = answer))
         /\ NoAnswer' = NoAnswer /\ \A p \in 1..MaxIds : NoAnswer[p] = None
PROOF
  <1>1. NoAnswer' = NoAnswer /\ \A p \in 1..MaxIds : NoAnswer[p] = None BY DEF NoAnswer
  <1>2. NoAnswer \in [1..MaxIds -> SlotOrNone] BY DEF NoAnswer, SlotOrNone
  <1>3. answer \in [1..MaxIds -> SlotOrNone] BY DEF Typed
  <1> QED BY <1>1, <1>2, <1>3 DEF Told

LEMMA SameTold ==
  ASSUME UNCHANGED <<answer, stale>>
  PROVE  Told' = Told /\ NoAnswer' = NoAnswer
BY DEF Told, NoAnswer

(* With every write of the last request there, no answer is on its way.    *)
LEMMA NoAnswerSent ==
  ASSUME Polled, served = done
  PROVE  \A w \in Writes : w.op \notin {"answer", "notags", "served"}
BY DEF Polled

(* The card's steps change neither the host's words, nor its writes, nor   *)
(* the entries and the bytes.                                              *)
CardStep == UNCHANGED <<served, dir, bytes, dma, host>>

LEMMA CardKeeps ==
  ASSUME HostInv, CardStep
  PROVE  /\ Slotted' /\ Polled' /\ Directed' /\ Sending' /\ Landed'
         /\ Writes' = Writes
         /\ \A s : (TagSent(s)' <=> TagSent(s)) /\ (Clearing(s)' <=> Clearing(s))
         /\ \A p : AnswerSent(p)' <=> AnswerSent(p)
         /\ OnTheWay' = OnTheWay /\ InSlots' = InSlots
PROOF
  <1>1. UNCHANGED <<served, dir, bytes, dma, done, slotOf, pending, fresh, armed, used, placed>>
    BY DEF CardStep, host
  <1>2. /\ Writes' = Writes
        /\ \A s : (TagSent(s)' <=> TagSent(s)) /\ (Clearing(s)' <=> Clearing(s))
        /\ \A p : AnswerSent(p)' <=> AnswerSent(p)
    BY <1>1, SameWrites
  <1>3. OnTheWay' = OnTheWay /\ InSlots' = InSlots /\ \A e : Home(e)' = Home(e)
    BY <1>1, SameSlots
  <1>4. Slotted /\ Polled /\ Directed /\ Sending /\ Landed BY DEF HostInv
  <1>5. Slotted' BY <1>1, <1>3, <1>4 DEF Slotted
  <1>6. Polled' BY <1>1, <1>2, <1>4 DEF Polled
  <1>7. Directed' BY <1>1, <1>2, <1>3, <1>4 DEF Directed
  <1>8. Sending' BY <1>1, <1>2, <1>3, <1>4 DEF Sending
  <1>9. \A e, p : There(e, p)' <=> There(e, p) BY <1>1, <1>2 DEF There
  <1>10. Landed' BY <1>1, <1>3, <1>4, <1>9 DEF Landed
  <1> QED BY <1>2, <1>3, <1>5, <1>6, <1>7, <1>8, <1>10

LEMMA ListIs ==
  ASSUME NEW ids \in Lists
  PROVE  /\ ids \in Seq(Expert) /\ Len(ids) <= MaxIds /\ Len(ids) \in Nat \ {0}
         /\ IsInjective(ids) /\ ids # <<>>
PROOF
  <1>1. PICK n \in 1..MaxIds : ids \in [1..n -> Expert] BY DEF Lists
  <1>2. n \in Nat \ {0} /\ n <= MaxIds BY <1>1, ExpertsAssumption
  <1>3. ids \in Seq(Expert) /\ Len(ids) = n BY <1>1, <1>2
  <1>4. IsInjective(ids) BY DEF Lists
  <1>5. ids # <<>> BY <1>3, <1>2
  <1> QED BY <1>2, <1>3, <1>4, <1>5

LEMMA AsksKeeps ==
  ASSUME HostInv, NEW kind \in {"hint", "request"}, NEW ids \in Lists, Asks(kind, ids)
  PROVE  StepKeeps
PROOF
  <1>1. /\ on /\ at = "free" /\ posts < PostsPerRun /\ served >= seq
        /\ row' = [kind |-> kind, ids |-> ids] /\ at' = "row"
        /\ UNCHANGED <<seq, answer, tag, on, posts, seen, left, reg, stale, misled>>
    BY DEF Asks, past
  <1>2. CardStep BY DEF Asks, CardStep
  <1>3. UNCHANGED <<served, dir, bytes, dma, done, slotOf, pending, fresh, armed, used, placed>>
    BY <1>2 DEF CardStep, host
  <1>4. /\ Slotted' /\ Polled' /\ Directed' /\ Sending' /\ Landed'
        /\ Writes' = Writes
        /\ \A s : (TagSent(s)' <=> TagSent(s)) /\ (Clearing(s)' <=> Clearing(s))
        /\ \A p : AnswerSent(p)' <=> AnswerSent(p)
        /\ OnTheWay' = OnTheWay /\ InSlots' = InSlots
    BY <1>2, CardKeeps
  <1>5. ~ Running /\ ~ Running' BY <1>1 DEF Running
  <1>6. Over /\ Over' BY <1>1 DEF Over
  <1>7. Typed /\ Counted /\ Polled BY DEF HostInv
  <1>8. served = done /\ seq = done /\ served = seq
    <2>1. seq \in Nat /\ done \in Nat /\ served \in Nat BY <1>7 DEF Typed
    <2> QED BY <2>1, <1>1, <1>7 DEF Counted
  <1>9. Typed'
    <2>1. ids \in Seq(Expert) /\ Len(ids) <= MaxIds /\ IsInjective(ids) BY ListIs
    <2>2. row' \in [kind : {"none", "hint", "request"}, ids : Seq(Expert)] /\ row'.ids = ids
      BY <1>1, <2>1
    <2> QED BY <1>1, <1>3, <1>7, <2>1, <2>2 DEF Typed
  <1>10. Counted'
    <2>1. row'.ids # <<>> /\ row'.kind # "none" BY <1>1, ListIs
    <2>3. served' = seq' BY <1>1, <1>3, <1>8
    <2> QED BY <1>1, <1>3, <1>4, <1>5, <1>7, <2>1, <2>3 DEF Counted
  <1>11. HostInv' BY <1>4, <1>9, <1>10 DEF HostInv
  <1> SUFFICES ASSUME CardInv, ~ misled' PROVE CardInv'
    BY <1>11 DEF StepKeeps
  <1>12. Tagged /\ AnswerOwn /\ Freshly
    BY DEF CardInv
  <1>13. Tagged' BY <1>1, <1>3, <1>4, <1>6, <1>7, <1>12 DEF Tagged
  <1>14. Placed' /\ Zeroed' /\ Coming' BY <1>5 DEF Placed, Zeroed, Coming
  <1>15. AnswerOwn'
    <2>1. Told = NoAnswer /\ Told' = Told BY <1>1, <1>5, <1>7, <1>12, SameTold DEF AnswerOwn
    <2>2. \A w \in Writes : w.op # "answer" BY <1>7, <1>12, <1>8, NoAnswerSent
    <2> QED BY <2>1, <2>2, <1>4, <1>7, <1>12, ToldIs DEF AnswerOwn
  <1>16. AtPlace' BY <1>1, <1>5 DEF AtPlace
  <1>17. Freshly' BY <1>1, <1>3, <1>4, <1>5, <1>7, <1>12, <1>8 DEF Freshly, Unserved
  <1>18. Early' BY <1>1 DEF Early, Unserved
  <1> QED BY <1>13, <1>14, <1>15, <1>16, <1>17, <1>18 DEF CardInv

(* The places of a request, and whose slots are its experts'.              *)
LEMMA PlaceIs ==
  ASSUME Typed
  PROVE  /\ Places \subseteq 1..MaxIds /\ Ids \subseteq Expert
         /\ \A p \in Places : row.ids[p] \in Ids
         /\ \A e \in Ids : \E p \in Places : row.ids[p] = e
         /\ \A p, q \in Places : row.ids[p] = row.ids[q] => p = q
PROOF
  <1>1. row.ids \in Seq(Expert) /\ Len(row.ids) <= MaxIds /\ IsInjective(row.ids) BY DEF Typed
  <1>2. Len(row.ids) \in Nat /\ DOMAIN row.ids = 1..Len(row.ids) BY <1>1
  <1>3. MaxIds \in Nat BY ExpertsAssumption
  <1>4. Places \subseteq 1..MaxIds BY <1>1, <1>2, <1>3 DEF Places
  <1>5. Ids = {row.ids[p] : p \in Places} BY <1>2 DEF Ids, ToSet, Places
  <1>6. \A p \in Places : row.ids[p] \in Expert BY <1>1 DEF Places
  <1>7. \A p, q \in Places : row.ids[p] = row.ids[q] => p = q BY <1>1, <1>2 DEF Places, IsInjective
  <1> QED BY <1>4, <1>5, <1>6, <1>7

LEMMA OwnOnce ==
  ASSUME Typed, Slotted
  PROVE  /\ \A p \in Places : row.ids[p] \in Expert /\ Own(p) \in SlotOrNone
         /\ \A p \in Places : Own(p) # None => Own(p) \in Slot /\ row.ids[p] \in InSlots
         /\ \A p \in Places, e \in Expert : slotOf[e] = Own(p) /\ Own(p) # None => e = row.ids[p]
         /\ \A p, q \in Places : Own(p) = Own(q) /\ Own(p) # None => p = q
PROOF
  <1>1. \A p \in Places : row.ids[p] \in Expert BY PlaceIs
  <1>2. \A p \in Places : Own(p) \in SlotOrNone BY <1>1 DEF Typed, Own
  <1>3. \A p \in Places : Own(p) # None => Own(p) \in Slot /\ row.ids[p] \in InSlots
    BY <1>1, <1>2 DEF SlotOrNone, InSlots, Own
  <1>4. \A p \in Places, e \in Expert : slotOf[e] = Own(p) /\ Own(p) # None => e = row.ids[p]
    BY <1>1 DEF Slotted, Own, InSlots
  <1>5. \A p, q \in Places : Own(p) = Own(q) /\ Own(p) # None => p = q
    <2>1. \A p, q \in Places : Own(p) = Own(q) /\ Own(p) # None => row.ids[p] = row.ids[q]
      BY <1>1, <1>4 DEF Own
    <2> QED BY <2>1, PlaceIs
  <1> QED BY <1>1, <1>2, <1>3, <1>4, <1>5

(* A part or a tag on its way is for the slot of an expert in one.         *)
LEMMA SentIs ==
  ASSUME Typed, Sending, NEW w \in Writes, w.op \in {"part", "tag"}
  PROVE  w.slot \in Slot /\ w.e \in InSlots /\ slotOf[w.e] = w.slot /\ dir[w.e] = None
PROOF
  <1>1. w \in Write BY WrittenIn DEF Typed, Writes
  <1>2. w.slot \in Slot /\ w.e \in Expert BY <1>1, WriteIs DEF PartWrite, TagWrite
  <1>3. w.slot # None BY <1>2, ExpertsAssumption
  <1> QED BY <1>2, <1>3 DEF Sending, InSlots

LEMMA TagOwn ==
  ASSUME Typed, Slotted, Sending, NEW p \in Places, TagSent(Own(p))
  PROVE  dir[row.ids[p]] = None /\ row.ids[p] \notin OnTheWay
PROOF
  <1>1. PICK w \in Writes : w.op = "tag" /\ w.slot = Own(p) BY DEF TagSent
  <1>2. w.slot \in Slot /\ w.e \in InSlots /\ slotOf[w.e] = w.slot /\ dir[w.e] = None
    BY <1>1, SentIs
  <1>3. w.e \in Expert /\ Own(p) # None BY <1>1, <1>2, ExpertsAssumption DEF InSlots
  <1>4. w.e = row.ids[p] BY <1>1, <1>2, <1>3, OwnOnce
  <1>5. w.e \notin OnTheWay BY <1>1 DEF Sending
  <1> QED BY <1>2, <1>4, <1>5

LEMMA TurnIs ==
  ASSUME Typed, left # {}
  PROVE  /\ Turn \in left
         /\ left \cap seen # {} => Turn \in seen
         /\ Min(left) \in left
PROOF
  <1>1. left \in SUBSET Nat BY ExpertsAssumption DEF Typed
  <1>2. Min(left) \in left BY <1>1, MinIs
  <1>3. (left \cap seen) \in SUBSET Nat BY <1>1
  <1>4. left \cap seen # {} => Min(left \cap seen) \in left \cap seen BY <1>3, MinIs
  <1> QED BY <1>2, <1>4 DEF Turn

LEMMA HaltsKeeps ==
  ASSUME HostInv, Halts
  PROVE  StepKeeps
PROOF
  <1>1. /\ on /\ at = "free" /\ on' = FALSE
        /\ UNCHANGED <<seq, row, answer, tag, posts, at, seen, left, reg, stale, misled>>
    BY DEF Halts, dram, past
  <1>2. CardStep BY DEF Halts, dram, CardStep
  <1>3. UNCHANGED <<served, dir, bytes, dma, done, slotOf, pending, fresh, armed, used, placed>>
    BY <1>2 DEF CardStep, host
  <1>4. /\ Slotted' /\ Polled' /\ Directed' /\ Sending' /\ Landed'
        /\ Writes' = Writes
        /\ \A s : (TagSent(s)' <=> TagSent(s)) /\ (Clearing(s)' <=> Clearing(s))
        /\ OnTheWay' = OnTheWay
    BY <1>2, CardKeeps
  <1>5. ~ Running /\ ~ Running' BY <1>1 DEF Running
  <1>6. Over /\ Over' BY <1>1 DEF Over
  <1>7. Typed /\ Counted BY DEF HostInv
  <1>8. Typed' BY <1>1, <1>3, <1>7 DEF Typed
  <1>9. Counted' BY <1>1, <1>3, <1>4, <1>5, <1>7 DEF Counted
  <1>10. HostInv' BY <1>4, <1>8, <1>9 DEF HostInv
  <1> SUFFICES ASSUME CardInv, ~ misled' PROVE CardInv'
    BY <1>10 DEF StepKeeps
  <1>11. Tagged /\ AnswerOwn /\ Freshly /\ Early
    BY DEF CardInv
  <1>12. Tagged' BY <1>1, <1>3, <1>4, <1>6, <1>7, <1>11 DEF Tagged
  <1>13. Placed' /\ Zeroed' /\ Coming' BY <1>5 DEF Placed, Zeroed, Coming
  <1>14. AnswerOwn'
    <2>1. Told' = Told /\ NoAnswer' = NoAnswer BY <1>1, SameTold
    <2>2. Places' = Places /\ \A p : Own(p)' = Own(p) BY <1>1, <1>3 DEF Places, Own
    <2> QED BY <2>1, <2>2, <1>4, <1>5, <1>7, <1>11 DEF AnswerOwn
  <1>15. AtPlace' BY <1>1, <1>5 DEF AtPlace
  <1>16. Freshly'
    <2>1. (Unserved' <=> Unserved) /\ Ids' = Ids BY <1>1, <1>3 DEF Unserved, Ids
    <2> QED BY <2>1, <1>1, <1>3, <1>4, <1>5, <1>7, <1>11 DEF Freshly
  <1>17. Early'
    <2>1. Ids' = Ids BY <1>1 DEF Ids
    <2> QED BY <2>1, <1>1, <1>3, <1>4, <1>7, <1>11 DEF Early, Unserved
  <1> QED BY <1>12, <1>13, <1>14, <1>15, <1>16, <1>17 DEF CardInv

LEMMA PostsKeeps ==
  ASSUME HostInv, Posts
  PROVE  StepKeeps
PROOF
  <1>1. at = "row" /\ posts' = posts + 1 /\ seen' = {} /\ UNCHANGED <<row, answer, tag, on, reg, stale, misled>>
    BY DEF Posts, past
  <1>2. CardStep BY DEF Posts, CardStep
  <1>3. UNCHANGED <<served, dir, bytes, dma, done, slotOf, pending, fresh, armed, used, placed>>
    BY <1>2 DEF CardStep, host
  <1>4. /\ Slotted' /\ Polled' /\ Directed' /\ Sending' /\ Landed'
        /\ Writes' = Writes
        /\ \A s : (TagSent(s)' <=> TagSent(s)) /\ (Clearing(s)' <=> Clearing(s))
        /\ \A p : AnswerSent(p)' <=> AnswerSent(p)
        /\ OnTheWay' = OnTheWay
    BY <1>2, CardKeeps
  <1>5. Typed /\ Counted /\ Polled BY DEF HostInv
  <1>6. ~ Running BY <1>1 DEF Running
  <1>7. /\ on /\ row.ids # <<>> /\ row.kind \in {"hint", "request"} /\ row.ids \in Seq(Expert)
        /\ posts < PostsPerRun /\ served = seq /\ done = seq /\ seq <= RebaseAt + posts
        /\ seq \in Nat /\ posts \in Nat /\ done \in Nat /\ served \in Nat
    <2>1. seq \in Nat /\ posts \in Nat /\ done \in Nat /\ served \in Nat BY <1>5 DEF Typed
    <2>2. /\ on /\ row.ids # <<>> /\ posts < PostsPerRun /\ served = seq /\ row.kind # "none"
          /\ served <= done /\ done <= seq /\ seq <= RebaseAt + posts
      BY <1>1, <1>5 DEF Counted
    <2>3. row.kind \in {"hint", "request"} /\ row.ids \in Seq(Expert) BY <2>2, <1>5 DEF Typed
    <2> QED BY <2>1, <2>2, <2>3
  <1>8. seq' = seq + 1
    <2>1. seq < Exact BY <1>7, ExpertsAssumption
    <2> QED BY <2>1 DEF Posts
  <1>9. seq' # done' /\ Over /\ Over' BY <1>1, <1>3, <1>7, <1>8 DEF Over
  <1>10. at' = (IF row.kind = "hint" THEN "free" ELSE "flags")
         /\ left' = (IF row.kind = "hint" THEN left ELSE Places)
    BY DEF Posts
  <1>11. Places' = Places /\ Ids' = Ids /\ \A p : Own(p)' = Own(p) BY <1>1, <1>3 DEF Places, Ids, Own
  <1>12. Running' => at' = "flags" /\ row.kind = "request" /\ left' = Places
    BY <1>7, <1>10 DEF Running
  <1>13. Typed'
    <2>1. left' \subseteq 1..MaxIds BY <1>5, <1>10, PlaceIs DEF Typed
    <2>2. at' \in {"free", "flags"} BY <1>10
    <2>3. posts' \in Nat /\ seq' \in Nat /\ on' \in BOOLEAN BY <1>1, <1>7, <1>8
    <2> QED BY <1>1, <1>3, <1>5, <2>1, <2>2, <2>3 DEF Typed
  <1>14. Counted'
    <2>1. /\ served' <= done' /\ done' <= seq' /\ seq' <= done' + 1 /\ served' = done'
          /\ seq' <= RebaseAt + posts' /\ posts' <= PostsPerRun
      BY <1>1, <1>3, <1>7, <1>8, ExpertsAssumption
    <2>2. \A w \in Writes : w.op # "served" BY <1>5, <1>7 DEF Counted
    <2>3. at' # "row" /\ on' /\ row'.ids # <<>> BY <1>1, <1>7, <1>10
    <2>4. Running' => row'.kind = "request" /\ seen' \subseteq Places' /\ left' = Places'
      BY <1>1, <1>11, <1>12
    <2>5. Places # {}
      <3>1. Len(row.ids) \in Nat /\ Len(row.ids) # 0 BY <1>7
      <3>2. 1 \in Places BY <3>1 DEF Places
      <3> QED BY <3>2
    <2>6. at' = "flags" => left' # {} /\ left' \cap seen' = {} BY <2>5, <1>1, <1>10, <1>7
    <2> QED BY <2>1, <2>2, <2>3, <2>4, <2>6, <1>4 DEF Counted
  <1>15. HostInv' BY <1>4, <1>13, <1>14 DEF HostInv
  <1> SUFFICES ASSUME CardInv, ~ misled' PROVE CardInv'
    BY <1>15 DEF StepKeeps
  <1>16. Tagged /\ AnswerOwn /\ Freshly
    BY DEF CardInv
  <1>17. Tagged' BY <1>1, <1>3, <1>4, <1>5, <1>16, <1>9 DEF Tagged
  <1>18. Placed' BY <1>1, <1>9, <1>11, <1>12 DEF Placed
  <1>19. AnswerOwn'
    <2>1. Told = NoAnswer /\ Told' = Told BY <1>1, <1>5, <1>16, <1>6, SameTold DEF AnswerOwn
    <2>2. \A w \in Writes : w.op # "answer" BY <1>5, <1>16, <1>7, NoAnswerSent
    <2> QED BY <2>1, <2>2, <1>4, <1>5, <1>16, ToldIs DEF AnswerOwn
  <1>20. AtPlace' BY <1>10, <1>12 DEF AtPlace, Running
  <1>21. Zeroed' BY <1>12 DEF Zeroed, ToTake
  <1>22. Coming' BY <1>9, <1>11, <1>12 DEF Coming, Read
  <1>23. Freshly'
    <2>1. \A e \in fresh : /\ e \notin OnTheWay
                           /\ slotOf[e] = None \/ tag[slotOf[e]] # None \/ TagSent(slotOf[e])
      BY <1>1, <1>5, <1>16, <1>6 DEF Freshly, Unserved
    <2> QED BY <2>1, <1>1, <1>3, <1>4 DEF Freshly
  <1>24. Early' BY <1>1, <1>10 DEF Early, Unserved
  <1> QED BY <1>17, <1>18, <1>19, <1>20, <1>21, <1>22, <1>23, <1>24 DEF CardInv

(* What an entry of the request says while the card is in it.              *)
LEMMA EntryIs ==
  ASSUME HostInv, Placed, Running, NEW e \in Ids
  PROVE  /\ dir[e] # None => dir[e] = slotOf[e] /\ e \notin OnTheWay
         /\ dir[e] = None /\ seq # done => slotOf[e] = None \/ e \in OnTheWay \/ e \in fresh
PROOF
  <1>1. Typed /\ Counted /\ Polled /\ Directed /\ Placed BY DEF HostInv
  <1>2. e \in Expert BY <1>1, PlaceIs
  <1>3. CASE \A w \in Writes : w.op = "dir" => e \notin DOMAIN w.to
    <2>1. dir[e] = Home(e) BY <1>1, <1>2, <1>3 DEF Directed
    <2> QED BY <2>1 DEF Home
  <1>4. CASE \E w \in Writes : w.op = "dir" /\ e \in DOMAIN w.to
    <2>1. PICK w \in Writes : w.op = "dir" /\ e \in DOMAIN w.to BY <1>4
    <2>2. w.to[e] = Home(e) /\ (w.to[e] # None => dir[e] = None) BY <1>1, <2>1 DEF Directed
    <2>3. CASE seq # done
      <3>1. served = done BY <1>1, <2>3 DEF Counted
      <3>2. e \in fresh /\ w.to[e] # None BY <1>1, <2>1, <3>1 DEF Polled
      <3> QED BY <2>2, <3>2
    <2>4. CASE seq = done
      <3>1. slotOf[e] # None /\ e \notin OnTheWay BY <1>1, <2>4 DEF Placed
      <3> QED BY <2>2, <2>4, <3>1 DEF Home
    <2> QED BY <2>3, <2>4
  <1> QED BY <1>3, <1>4

LEMMA ReadsFlagKeeps ==
  ASSUME HostInv, ReadsFlag
  PROVE  StepKeeps
PROOF
  <1> DEFINE p == Min(left)
             e == row.ids[p]
  <1>1. at = "flags" /\ UNCHANGED <<seq, row, answer, tag, on, posts, reg, stale, misled>>
    BY DEF ReadsFlag, dram, past
  <1>2. CardStep BY DEF ReadsFlag, dram, CardStep
  <1>3. UNCHANGED <<served, dir, bytes, dma, done, slotOf, pending, fresh, armed, used, placed>>
    BY <1>2 DEF CardStep, host
  <1>4. /\ Slotted' /\ Polled' /\ Directed' /\ Sending' /\ Landed'
        /\ Writes' = Writes
        /\ \A s : (TagSent(s)' <=> TagSent(s)) /\ (Clearing(s)' <=> Clearing(s))
        /\ \A q : AnswerSent(q)' <=> AnswerSent(q)
        /\ OnTheWay' = OnTheWay
    BY <1>2, CardKeeps
  <1>5. /\ seen' = (IF dir[e] # None THEN seen \cup {p} ELSE seen)
        /\ left' = (IF left = {p} THEN Places ELSE left \ {p})
        /\ at' = (IF left = {p} THEN "experts" ELSE "flags")
    BY DEF ReadsFlag
  <1>6. Typed /\ Counted BY DEF HostInv
  <1>7. Running BY <1>1 DEF Running
  <1>8. Running' BY <1>5 DEF Running
  <1>9. /\ left # {} /\ left \cap seen = {} /\ seen \subseteq Places /\ left \subseteq Places
    BY <1>1, <1>6, <1>7 DEF Counted
  <1>10. p \in left /\ p \in Places BY <1>6, <1>9, TurnIs
  <1>11. e \in Ids BY <1>6, <1>10, PlaceIs
  <1> HIDE DEF p
  <1>12. /\ seen' \subseteq Places /\ left' \subseteq Places /\ seen \subseteq seen'
         /\ seen' \subseteq seen \cup {p} /\ (dir[e] # None => p \in seen')
         /\ (p \in seen' => dir[e] # None)
    BY <1>5, <1>9, <1>10
  <1>13. Places' = Places /\ Ids' = Ids /\ \A q : Own(q)' = Own(q) BY <1>1, <1>3 DEF Places, Ids, Own
  <1>14. \A q : Answers(q)' <=> Answers(q) BY <1>1, <1>4, SameTold DEF Answers
  <1>15. Over' <=> Over BY <1>1, <1>3, <1>5 DEF Over
  <1>16. Typed'
    <2>1. Places \subseteq 1..MaxIds BY <1>6, PlaceIs
    <2>2. seen' \subseteq 1..MaxIds /\ left' \subseteq 1..MaxIds BY <2>1, <1>12
    <2>3. at' \in {"experts", "flags"} BY <1>5
    <2> QED BY <1>1, <1>3, <1>6, <2>2, <2>3 DEF Typed
  <1>17. Counted'
    <2>1. at' \notin {"free", "row"} BY <1>5
    <2>2. at' = "flags" => left' # {} /\ left' \cap seen' = {} BY <1>5, <1>9, <1>10, <1>12
    <2> QED BY <2>1, <2>2, <1>1, <1>3, <1>4, <1>6, <1>7, <1>12, <1>13 DEF Counted
  <1>18. ToTake' = Places /\ ToTake = Places
    <2>1. at' = "experts" => left' = Places BY <1>5
    <2> QED BY <2>1, <1>1, <1>5, <1>13 DEF ToTake
  <1>19. \A q : Read(q)' /\ q \in Places => Read(q) \/ q = p
    <2>1. at' # "flags" => left = {p} BY <1>5
    <2>2. at' = "flags" => left' = left \ {p} BY <1>5
    <2> QED BY <2>1, <2>2 DEF Read
  <1>20. HostInv' BY <1>4, <1>16, <1>17 DEF HostInv
  <1> SUFFICES ASSUME CardInv, ~ misled' PROVE CardInv'
    BY <1>20 DEF StepKeeps
  <1>21. Tagged /\ Placed /\ AnswerOwn /\ Coming /\ Freshly
    BY DEF CardInv
  <1>22. /\ dir[e] # None => dir[e] = slotOf[e] /\ e \notin OnTheWay
         /\ dir[e] = None /\ seq # done => slotOf[e] = None \/ e \in OnTheWay \/ e \in fresh
    BY <1>6, <1>21, <1>7, <1>11, EntryIs
  <1>23. Tagged' BY <1>1, <1>3, <1>4, <1>6, <1>21, <1>15 DEF Tagged
  <1>24. Placed'
    <2>2. \A q \in seen : dir[row.ids[q]] # None /\ dir[row.ids[q]] = Own(q) /\ row.ids[q] \notin OnTheWay
      BY <1>6, <1>21, <1>7 DEF Placed
    <2>3. \A q \in seen' : dir[row.ids[q]] # None /\ dir[row.ids[q]] = Own(q) /\ row.ids[q] \notin OnTheWay
      BY <2>2, <1>22, <1>12 DEF Own
    <2> QED BY <2>3, <1>1, <1>3, <1>4, <1>6, <1>21, <1>7, <1>12, <1>13 DEF Placed
  <1>25. AnswerOwn'
    <2>1. Told' = Told /\ NoAnswer' = NoAnswer BY <1>1, SameTold
    <2> QED BY <2>1, <1>1, <1>3, <1>4, <1>6, <1>21, <1>7, <1>8, <1>13 DEF AnswerOwn
  <1>26. AtPlace' BY <1>5, <1>13 DEF AtPlace
  <1>27. Zeroed' BY <1>18, <1>13 DEF Zeroed
  <1>28. Coming'
    <2> SUFFICES ASSUME NEW q \in Places
        PROVE  /\ seq # done /\ Read(q)' /\ q \notin seen' =>
                    slotOf[row.ids[q]] = None \/ row.ids[q] \in OnTheWay \/ row.ids[q] \in fresh
               /\ seq = done => Answers(q) \/ (dir[row.ids[q]] # None /\ (Read(q)' => q \in seen'))
               /\ seq = done /\ q \notin seen' /\ Answers(q) =>
                    (tag[Own(q)] # None /\ ~ Clearing(Own(q))) \/ TagSent(Own(q))
      BY <1>1, <1>3, <1>4, <1>13, <1>14, <1>18 DEF Coming
    <2>1. /\ seq # done /\ Read(q) /\ q \notin seen =>
               slotOf[row.ids[q]] = None \/ row.ids[q] \in OnTheWay \/ row.ids[q] \in fresh
          /\ seq = done => Answers(q) \/ (dir[row.ids[q]] # None /\ (Read(q) => q \in seen))
          /\ seq = done /\ q \notin seen /\ Answers(q) =>
               (tag[Own(q)] # None /\ ~ Clearing(Own(q))) \/ TagSent(Own(q))
      BY <1>6, <1>21, <1>7, <1>18 DEF Coming
    <2>2. CASE q = p BY <2>1, <2>2, <1>22, <1>12
    <2>3. CASE q # p BY <2>1, <2>3, <1>12, <1>19
    <2> QED BY <2>2, <2>3
  <1>29. Freshly'
    BY <1>1, <1>3, <1>4, <1>6, <1>21, <1>7, <1>8, <1>12 DEF Freshly, Unserved, Running
  <1>30. Early' BY <1>5 DEF Early, Unserved
  <1> QED BY <1>23, <1>24, <1>25, <1>26, <1>27, <1>28, <1>29, <1>30 DEF CardInv

(* The card takes an expert whose bytes have landed, and zeroes its tag.   *)
TakesOwn ==
  /\ left # {} /\ Own(Turn) # None /\ reg' = Own(Turn) /\ tag' = [tag EXCEPT ![Own(Turn)] = None]
  /\ row.ids[Turn] \notin OnTheWay /\ ~ TagSent(Own(Turn))
  /\ \A q \in 1..Parts : bytes[Own(Turn)][q] = row.ids[Turn]
  /\ Turn \in seen \/ row.ids[Turn] \notin fresh
  /\ seq # done => left \cap seen # {}

LEMMA TakesKeeps ==
  ASSUME HostInv, CardStep, UNCHANGED <<seq, row, answer, on, posts, seen, left, stale, misled>>,
         at \in {"experts", "tag"}, at' = "computes",
         reg' \in SlotOrNone, tag' \in [Slot -> Expert \cup {None}],
         CardInv => TakesOwn
  PROVE  StepKeeps
PROOF
  <1> DEFINE p == Turn
             s == Own(p)
  <1>1. UNCHANGED <<served, dir, bytes, dma, done, slotOf, pending, fresh, armed, used, placed>>
    BY DEF CardStep, host
  <1>2. /\ Slotted' /\ Polled' /\ Directed' /\ Sending' /\ Landed'
        /\ Writes' = Writes
        /\ \A t : (TagSent(t)' <=> TagSent(t)) /\ (Clearing(t)' <=> Clearing(t))
        /\ \A q : AnswerSent(q)' <=> AnswerSent(q)
        /\ OnTheWay' = OnTheWay
    BY CardKeeps
  <1>3. Typed /\ Slotted /\ Counted BY DEF HostInv
  <1>4. Running /\ Running' BY DEF Running
  <1>5. /\ Places' = Places /\ Ids' = Ids /\ Turn' = Turn
        /\ \A q : Own(q)' = Own(q) /\ (Answers(q)' <=> Answers(q))
    BY <1>1, <1>2, SameTold DEF Places, Ids, Own, Turn, Answers
  <1>6. Over' <=> Over BY <1>1 DEF Over
  <1>7. tag \in [Slot -> Expert \cup {None}] BY <1>3 DEF Typed
  <1>8. Typed'
    <2> QED BY <1>1, <1>3 DEF Typed
  <1>9. Counted'
    <2>1. at \notin {"free", "row"} /\ at' \notin {"free", "row", "flags"} OBVIOUS
    <2> QED BY <2>1, <1>1, <1>2, <1>3, <1>4, <1>5 DEF Counted
  <1>10. ToTake' = left \ {p} /\ ToTake = left BY <1>5 DEF ToTake
  <1>11. HostInv' BY <1>2, <1>8, <1>9 DEF HostInv
  <1> SUFFICES ASSUME CardInv, ~ misled' PROVE CardInv'
    BY <1>11 DEF StepKeeps
  <1>12. Tagged /\ Placed /\ AnswerOwn /\ AtPlace /\ Zeroed /\ Coming /\ Freshly
    BY DEF CardInv
  <1>13. TakesOwn OBVIOUS
  <1>14. left # {} /\ p \in left /\ left \subseteq Places /\ seen \subseteq Places BY <1>3, <1>12, <1>4, <1>13, TurnIs DEF Counted, TakesOwn
  <1>15. s # None /\ s \in Slot BY <1>3, <1>12, <1>14, <1>13, OwnOnce DEF TakesOwn
  <1>16. tag'[s] = None /\ \A t \in Slot : t # s => tag'[t] = tag[t] BY <1>15, <1>7, <1>13 DEF TakesOwn
  <1>17. \A t \in Slot : tag'[t] = None \/ tag'[t] = tag[t] BY <1>16
  <1>18. Tagged'
    <2>1. \A e \in OnTheWay : slotOf[e] \in Slot
      <3>1. \A e \in OnTheWay : e \in Expert /\ slotOf[e] # None BY <1>3, <1>12 DEF Slotted, InSlots
      <3> QED BY <3>1, <1>3, <1>12 DEF Typed, SlotOrNone
    <2>2. used \subseteq Slot BY <1>3, <1>12 DEF Typed
    <2> QED BY <2>1, <2>2, <1>1, <1>2, <1>3, <1>12, <1>6, <1>17 DEF Tagged
  <1>19. Placed'
    <2>1. at' # "flags" OBVIOUS
    <2> QED BY <2>1, <1>1, <1>2, <1>3, <1>12, <1>4, <1>5 DEF Placed
  <1>20. AnswerOwn'
    <2>1. Told' = Told /\ NoAnswer' = NoAnswer BY SameTold
    <2> QED BY <2>1, <1>1, <1>2, <1>3, <1>12, <1>4, <1>5 DEF AnswerOwn
  <1>21. AtPlace'
    <2>1. at # "flags" /\ Places \ left = Places' \ left' BY <1>5
    <2>2. seq # done => Places \ left \subseteq seen BY <2>1, <1>3, <1>12, <1>4 DEF AtPlace
    <2> QED BY <2>1, <2>2, <1>1, <1>5, <1>13 DEF AtPlace, TakesOwn
  <1>22. \A q \in Places : q # p /\ Own(q) # None => Own(q) # s /\ tag'[Own(q)] = tag[Own(q)]
    BY <1>3, <1>12, <1>14, <1>16, OwnOnce
  <1>23. Zeroed'
    <2> SUFFICES ASSUME NEW q \in Places \ (left \ {p})
        PROVE  Own(q) # None /\ tag'[Own(q)] = None /\ ~ TagSent(Own(q))
      BY <1>2, <1>5, <1>10 DEF Zeroed
    <2>1. CASE q = p BY <2>1, <1>15, <1>16, <1>13 DEF TakesOwn
    <2>2. CASE q # p
      <3>1. q \in Places \ left BY <2>2
      <3>2. Own(q) # None /\ tag[Own(q)] = None /\ ~ TagSent(Own(q))
        BY <3>1, <1>3, <1>12, <1>4, <1>10 DEF Zeroed
      <3> QED BY <3>2, <2>2, <1>22
    <2> QED BY <2>1, <2>2
  <1>24. Coming'
    <2>1. \A q : Read(q)' <=> Read(q) BY DEF Read
    <2> SUFFICES ASSUME NEW q \in Places, seq = done, q \in left \ {p}, q \notin seen, Answers(q)
        PROVE  (tag'[Own(q)] # None /\ ~ Clearing(Own(q))) \/ TagSent(Own(q))
      BY <2>1, <1>1, <1>2, <1>3, <1>12, <1>4, <1>5, <1>10 DEF Coming
    <2>2. (tag[Own(q)] # None /\ ~ Clearing(Own(q))) \/ TagSent(Own(q))
      BY <1>3, <1>12, <1>4, <1>10 DEF Coming
    <2>3. Own(q) # None
      <3>1. row.ids[q] \in Ids BY <1>3, <1>12, PlaceIs
      <3> QED BY <3>1, <1>3, <1>12, <1>4 DEF Placed, Own
    <2>4. q # p OBVIOUS
    <2> QED BY <2>2, <2>3, <2>4, <1>22
  <1>25. Freshly'
    <2> SUFFICES ASSUME NEW e \in fresh
        PROVE  /\ e \notin OnTheWay
               /\ slotOf[e] = None \/ (\E q \in seen : row.ids[q] = e) \/ tag'[slotOf[e]] # None \/ TagSent(slotOf[e])
      BY <1>1, <1>2, <1>4 DEF Freshly
    <2>1. /\ e \notin OnTheWay
          /\ slotOf[e] = None \/ (\E q \in seen : row.ids[q] = e) \/ tag[slotOf[e]] # None \/ TagSent(slotOf[e])
      BY <1>3, <1>12, <1>4 DEF Freshly, Unserved, Running
    <2>2. e \in Expert /\ slotOf[e] \in SlotOrNone BY <1>3, <1>12 DEF Typed
    <2>3. CASE slotOf[e] = s
      <3>1. e = row.ids[p] BY <2>2, <2>3, <1>3, <1>12, <1>14, <1>15, OwnOnce
      <3>2. p \in seen BY <3>1, <1>13 DEF TakesOwn
      <3> QED BY <3>1, <3>2, <2>1
    <2>4. CASE slotOf[e] # s /\ slotOf[e] # None
      <3>1. tag'[slotOf[e]] = tag[slotOf[e]] BY <2>2, <2>4, <1>16 DEF SlotOrNone
      <3> QED BY <2>1, <3>1
    <2> QED BY <2>1, <2>3, <2>4
  <1>26. Early' BY DEF Early, Unserved
  <1> QED BY <1>18, <1>19, <1>20, <1>21, <1>23, <1>24, <1>25, <1>26 DEF CardInv

LEMMA TakesPresentKeeps ==
  ASSUME HostInv, TakesPresent
  PROVE  StepKeeps
PROOF
  <1> DEFINE e == row.ids[Turn]
  <1>1. /\ at = "experts" /\ left \cap seen # {} /\ dir[e] # None /\ reg' = dir[e]
        /\ tag' = [tag EXCEPT ![dir[e]] = None] /\ at' = "computes"
        /\ UNCHANGED <<seq, row, answer, on, posts, seen, left, stale, misled>>
    BY DEF TakesPresent, past
  <1>2. CardStep BY DEF TakesPresent, CardStep
  <1>3. Typed /\ Slotted /\ Counted /\ Landed /\ Sending BY DEF HostInv
  <1>4. Running BY <1>1 DEF Running
  <1>5. left # {} /\ Turn \in seen BY <1>1, <1>3, TurnIs
  <1>6. Turn \in Places BY <1>3, <1>4, <1>5 DEF Counted
  <1>7. dir[e] \in SlotOrNone BY <1>3, <1>6, PlaceIs DEF Typed
  <1>8. tag' \in [Slot -> Expert \cup {None}] BY <1>1, <1>3 DEF Typed
  <1>9. ASSUME CardInv PROVE TakesOwn
    <2>1. dir[e] = Own(Turn) /\ e \notin OnTheWay BY <1>4, <1>5, <1>9 DEF CardInv, Placed
    <2>2. ~ TagSent(Own(Turn)) BY <1>1, <1>3, <1>6, TagOwn
    <2>3. e \in InSlots \ OnTheWay /\ slotOf[e] = Own(Turn) BY <1>1, <1>3, <1>6, <2>1, OwnOnce DEF Own
    <2>4. ASSUME NEW q \in 1..Parts PROVE bytes[Own(Turn)][q] = e
      <3>1. There(e, q) BY <1>3, <2>3 DEF Landed
      <3>2. ASSUME Part(slotOf[e], q, e) \in Writes PROVE FALSE
        <4> DEFINE w == Part(slotOf[e], q, e)
        <4>1. w.op = "part" /\ w.e = e BY DEF Part
        <4>2. dir[w.e] = None BY <3>2, <4>1, <1>3 DEF Sending
        <4> QED BY <4>1, <4>2, <1>1
      <3> QED BY <3>1, <3>2, <2>3 DEF There
    <2> QED BY <1>1, <1>5, <2>1, <2>2, <2>4 DEF TakesOwn
  <1> QED BY <1>1, <1>2, <1>5, <1>7, <1>8, <1>9, TakesKeeps

LEMMA TakesTagKeeps ==
  ASSUME HostInv, TakesTag
  PROVE  StepKeeps
PROOF
  <1> DEFINE e == row.ids[Turn]
  <1>1. /\ at = "tag" /\ tag[reg] # None /\ reg' = reg
        /\ tag' = [tag EXCEPT ![reg] = None] /\ at' = "computes"
        /\ UNCHANGED <<seq, row, answer, on, posts, seen, left, stale, misled>>
    BY DEF TakesTag, past
  <1>2. CardStep BY DEF TakesTag, CardStep
  <1>3. Typed /\ Slotted /\ Counted /\ Landed /\ Sending BY DEF HostInv
  <1>4. Running BY <1>1 DEF Running
  <1>5. reg' \in SlotOrNone /\ tag' \in [Slot -> Expert \cup {None}] BY <1>1, <1>3 DEF Typed
  <1>6. ASSUME CardInv PROVE TakesOwn
    <2> USE <1>6
    <2>1. Placed /\ AtPlace /\ AnswerOwn /\ Tagged BY DEF CardInv
    <2>2. left # {} /\ Told[Turn] # None /\ reg = Told[Turn] BY <1>1, <2>1 DEF AtPlace
    <2>3. Turn \in Places /\ Turn \in 1..MaxIds BY <1>3, <1>4, <2>2, TurnIs, PlaceIs DEF Counted
    <2>4. reg = Own(Turn) /\ reg # None BY <2>1, <2>2, <2>3 DEF AnswerOwn
    <2>5. Told # NoAnswer BY <2>2, <2>3, <1>3, ToldIs
    <2>6. seq = done /\ \A w \in Writes : w.op # "notags" BY <2>1, <2>5 DEF AnswerOwn
    <2>7. e \in Ids BY <1>3, <2>3, PlaceIs
    <2>8. slotOf[e] # None /\ e \notin OnTheWay /\ e \notin fresh BY <2>1, <1>4, <2>6, <2>7 DEF Placed
    <2>9. e \in InSlots /\ slotOf[e] = Own(Turn) /\ Own(Turn) \in Slot
      BY <1>3, <2>3, <2>4, OwnOnce DEF Own
    <2>10. ~ TagSent(Own(Turn))
      <3>1. ~ Clearing(Own(Turn)) BY <2>6 DEF Clearing
      <3> QED BY <3>1, <1>1, <2>1, <2>4, <2>9 DEF Tagged
    <2>11. ASSUME NEW q \in 1..Parts PROVE bytes[Own(Turn)][q] = e
      <3>1. There(e, q) BY <1>3, <2>8, <2>9 DEF Landed
      <3>2. ASSUME Part(slotOf[e], q, e) \in Writes PROVE FALSE
        <4> DEFINE w == Part(slotOf[e], q, e)
        <4>1. w.op = "part" /\ w.e = e /\ w.slot = slotOf[e] BY DEF Part
        <4>2. w.e \in OnTheWay \/ TagSent(w.slot) BY <3>2, <4>1, <1>3 DEF Sending
        <4> QED BY <4>1, <4>2, <2>8, <2>9, <2>10
      <3> QED BY <3>1, <3>2, <2>9 DEF There
    <2> QED BY <1>1, <2>2, <2>4, <2>6, <2>8, <2>10, <2>11 DEF TakesOwn
  <1> QED BY <1>1, <1>2, <1>5, <1>6, TakesKeeps

LEMMA TakesAnswerKeeps ==
  ASSUME HostInv, TakesAnswer
  PROVE  StepKeeps
PROOF
  <1>1. /\ at = "experts" /\ left # {} /\ left \cap seen = {} /\ answer[Turn] # None
        /\ reg' = answer[Turn] /\ at' = "tag" /\ misled' = (misled \/ stale)
        /\ UNCHANGED <<seq, row, answer, tag, on, posts, seen, left, stale>>
    BY DEF TakesAnswer, dram
  <1>2. CardStep BY DEF TakesAnswer, dram, CardStep
  <1>3. UNCHANGED <<served, dir, bytes, dma, done, slotOf, pending, fresh, armed, used, placed>>
    BY <1>2 DEF CardStep, host
  <1>4. /\ Slotted' /\ Polled' /\ Directed' /\ Sending' /\ Landed'
        /\ Writes' = Writes
        /\ \A t : (TagSent(t)' <=> TagSent(t)) /\ (Clearing(t)' <=> Clearing(t))
        /\ \A q : AnswerSent(q)' <=> AnswerSent(q)
        /\ OnTheWay' = OnTheWay
    BY <1>2, CardKeeps
  <1>5. Typed /\ Counted BY DEF HostInv
  <1>6. Running /\ Running' BY <1>1 DEF Running
  <1>7. /\ Places' = Places /\ Ids' = Ids /\ Turn' = Turn
        /\ \A q : Own(q)' = Own(q) /\ (Answers(q)' <=> Answers(q))
    BY <1>1, <1>3, <1>4, SameTold DEF Places, Ids, Own, Turn, Answers
  <1>8. Over' <=> Over BY <1>1, <1>3 DEF Over
  <1>9. Turn \in 1..MaxIds BY <1>1, <1>5, TurnIs DEF Typed
  <1>10. Typed'
    <2>1. reg' \in SlotOrNone BY <1>1, <1>5, <1>9 DEF Typed
    <2> QED BY <2>1, <1>1, <1>3, <1>5 DEF Typed
  <1>11. Counted'
    <2>1. at \notin {"free", "row"} /\ at' \notin {"free", "row", "flags"} BY <1>1
    <2> QED BY <2>1, <1>1, <1>3, <1>4, <1>5, <1>6, <1>7 DEF Counted
  <1>12. ToTake' = left /\ ToTake = left BY <1>1, <1>7 DEF ToTake
  <1>13. \A q : Read(q)' <=> Read(q) BY <1>1 DEF Read
  <1>14. HostInv' BY <1>4, <1>10, <1>11 DEF HostInv
  <1> SUFFICES ASSUME CardInv, ~ misled' PROVE CardInv'
    BY <1>14 DEF StepKeeps
  <1>15. Tagged /\ Placed /\ AnswerOwn /\ AtPlace /\ Zeroed /\ Coming /\ Freshly
    BY DEF CardInv
  <1>16. Tagged' BY <1>1, <1>3, <1>4, <1>5, <1>15, <1>8 DEF Tagged
  <1>17. Placed' BY <1>1, <1>3, <1>4, <1>5, <1>15, <1>6, <1>7 DEF Placed
  <1>18. AnswerOwn'
    <2>1. Told' = Told /\ NoAnswer' = NoAnswer BY <1>1, SameTold
    <2> QED BY <2>1, <1>1, <1>3, <1>4, <1>5, <1>15, <1>6, <1>7 DEF AnswerOwn
  <1>19. AtPlace'
    <2>1. Told = answer /\ Told' = Told BY <1>1, SameTold DEF Told
    <2> QED BY <2>1, <1>1, <1>3, <1>5, <1>15, <1>6, <1>7 DEF AtPlace
  <1>20. Zeroed' BY <1>1, <1>4, <1>5, <1>15, <1>6, <1>7, <1>12 DEF Zeroed
  <1>21. Coming' BY <1>1, <1>3, <1>4, <1>5, <1>15, <1>6, <1>7, <1>12, <1>13 DEF Coming
  <1>22. Freshly' BY <1>1, <1>3, <1>4, <1>5, <1>15, <1>6 DEF Freshly, Unserved
  <1>23. Early' BY <1>1 DEF Early, Unserved
  <1> QED BY <1>16, <1>17, <1>18, <1>19, <1>20, <1>21, <1>22, <1>23 DEF CardInv

LEMMA ComputesKeeps ==
  ASSUME HostInv, Computes
  PROVE  StepKeeps
PROOF
  <1>1. /\ at = "computes" /\ left' = left \ {Turn} /\ reg' = None /\ at' = "experts"
        /\ UNCHANGED <<seq, row, answer, tag, on, posts, seen, stale, misled>>
    BY DEF Computes, dram, past
  <1>2. CardStep BY DEF Computes, dram, CardStep
  <1>3. UNCHANGED <<served, dir, bytes, dma, done, slotOf, pending, fresh, armed, used, placed>>
    BY <1>2 DEF CardStep, host
  <1>4. /\ Slotted' /\ Polled' /\ Directed' /\ Sending' /\ Landed'
        /\ Writes' = Writes
        /\ \A t : (TagSent(t)' <=> TagSent(t)) /\ (Clearing(t)' <=> Clearing(t))
        /\ \A q : AnswerSent(q)' <=> AnswerSent(q)
        /\ OnTheWay' = OnTheWay
    BY <1>2, CardKeeps
  <1>5. Typed /\ Counted BY DEF HostInv
  <1>6. Running /\ Running' BY <1>1 DEF Running
  <1>7. /\ Places' = Places /\ Ids' = Ids
        /\ \A q : Own(q)' = Own(q) /\ (Answers(q)' <=> Answers(q))
    BY <1>1, <1>3, <1>4, SameTold DEF Places, Ids, Own, Answers
  <1>8. Over' <=> Over BY <1>1, <1>3 DEF Over
  <1>9. Typed'
    <2>1. left' \subseteq 1..MaxIds BY <1>1, <1>5 DEF Typed
    <2>2. reg' \in SlotOrNone BY <1>1 DEF SlotOrNone
    <2> QED BY <2>1, <2>2, <1>1, <1>3, <1>5 DEF Typed
  <1>10. Counted'
    <2>1. at \notin {"free", "row"} /\ at' \notin {"free", "row", "flags"} BY <1>1
    <2>2. left' \subseteq Places BY <1>1, <1>5, <1>6 DEF Counted
    <2> QED BY <2>1, <2>2, <1>1, <1>3, <1>4, <1>5, <1>6, <1>7 DEF Counted
  <1>11. ToTake' = ToTake BY <1>1 DEF ToTake
  <1>12. \A q : Read(q)' <=> Read(q) BY <1>1 DEF Read
  <1>13. HostInv' BY <1>4, <1>9, <1>10 DEF HostInv
  <1> SUFFICES ASSUME CardInv, ~ misled' PROVE CardInv'
    BY <1>13 DEF StepKeeps
  <1>14. Tagged /\ Placed /\ AnswerOwn /\ AtPlace /\ Zeroed /\ Coming /\ Freshly
    BY DEF CardInv
  <1>15. Tagged' BY <1>1, <1>3, <1>4, <1>5, <1>14, <1>8 DEF Tagged
  <1>16. Placed'
    <2> QED BY <1>1, <1>3, <1>4, <1>5, <1>14, <1>6, <1>7 DEF Placed
  <1>17. AnswerOwn'
    <2>1. Told' = Told /\ NoAnswer' = NoAnswer BY <1>1, SameTold
    <2> QED BY <2>1, <1>1, <1>3, <1>4, <1>5, <1>14, <1>6, <1>7 DEF AnswerOwn
  <1>18. AtPlace'
    <2>1. left # {} /\ (seq # done => Places \ left \subseteq seen /\ left \cap seen # {})
      BY <1>1, <1>5, <1>14, <1>6 DEF AtPlace
    <2>2. seq # done => Turn \in seen BY <2>1, <1>5, <1>14, TurnIs
    <2>3. seq # done => Places \ left' \subseteq seen BY <2>1, <2>2, <1>1
    <2> QED BY <2>3, <1>1, <1>3, <1>7 DEF AtPlace
  <1>19. Zeroed' BY <1>1, <1>4, <1>5, <1>14, <1>6, <1>7, <1>11 DEF Zeroed
  <1>20. Coming' BY <1>1, <1>3, <1>4, <1>5, <1>14, <1>6, <1>7, <1>11, <1>12 DEF Coming
  <1>21. Freshly' BY <1>1, <1>3, <1>4, <1>5, <1>14, <1>6 DEF Freshly, Unserved
  <1>22. Early' BY <1>1 DEF Early, Unserved
  <1> QED BY <1>15, <1>16, <1>17, <1>18, <1>19, <1>20, <1>21, <1>22 DEF CardInv

LEMMA EndsKeeps ==
  ASSUME HostInv, Ends
  PROVE  StepKeeps
PROOF
  <1>1. /\ at = "experts" /\ left = {} /\ answer' = NoAnswer /\ stale' = FALSE
        /\ at' = "free" /\ seen' = {}
        /\ UNCHANGED <<seq, row, tag, on, posts, left, reg, misled>>
    BY DEF Ends
  <1>2. CardStep BY DEF Ends, CardStep
  <1>3. UNCHANGED <<served, dir, bytes, dma, done, slotOf, pending, fresh, armed, used, placed>>
    BY <1>2 DEF CardStep, host
  <1>4. /\ Slotted' /\ Polled' /\ Directed' /\ Sending' /\ Landed'
        /\ Writes' = Writes
        /\ \A t : (TagSent(t)' <=> TagSent(t)) /\ (Clearing(t)' <=> Clearing(t))
        /\ OnTheWay' = OnTheWay
    BY <1>2, CardKeeps
  <1>5. Typed /\ Slotted /\ Counted BY DEF HostInv
  <1>6. Running /\ ~ Running' BY <1>1 DEF Running
  <1>7. /\ Ids' = Ids /\ Places' = Places /\ (\A p : Own(p)' = Own(p))
        /\ (Unserved' <=> seq # done)
    BY <1>1, <1>3, <1>5, <1>6 DEF Ids, Places, Own, Unserved, Counted
  <1>8. ~ Unserved BY <1>1 DEF Unserved
  <1>9. ToTake = {} BY <1>1 DEF ToTake
  <1>10. Typed'
    <2>1. NoAnswer \in [1..MaxIds -> SlotOrNone] BY DEF NoAnswer, SlotOrNone
    <2> QED BY <2>1, <1>1, <1>3, <1>5 DEF Typed
  <1>11. Counted' BY <1>1, <1>3, <1>4, <1>5, <1>6 DEF Counted
  <1>12. HostInv' BY <1>4, <1>10, <1>11 DEF HostInv
  <1> SUFFICES ASSUME CardInv, ~ misled' PROVE CardInv'
    BY <1>12 DEF StepKeeps
  <1>13. Tagged /\ Placed /\ AnswerOwn /\ AtPlace /\ Zeroed /\ Coming /\ Freshly
    BY DEF CardInv
  <1>14. \A e \in Ids : /\ e \in Expert /\ slotOf[e] # None
                        /\ tag[slotOf[e]] = None /\ ~ TagSent(slotOf[e])
    <2>1. \A p \in Places : Own(p) # None /\ tag[Own(p)] = None /\ ~ TagSent(Own(p))
      BY <1>5, <1>13, <1>6, <1>9 DEF Zeroed
    <2> QED BY <2>1, <1>5, <1>13, PlaceIs DEF Own
  <1>15. ASSUME seq # done, NEW e \in Ids PROVE e \notin OnTheWay
    <2>1. PICK p \in Places : row.ids[p] = e BY <1>5, <1>13, PlaceIs
    <2>2. p \in seen BY <2>1, <1>1, <1>5, <1>13, <1>6, <1>15 DEF AtPlace
    <2> QED BY <2>1, <2>2, <1>5, <1>13, <1>6 DEF Placed
  <1>16. Tagged'
    <2>1. \A s \in used : tag[s] = None /\ ~ TagSent(s)
      <3>1. CASE seq # done BY <3>1, <1>5, <1>13 DEF Tagged, Over
      <3>2. CASE seq = done
        <4>1. used = {slotOf[e] : e \in Ids} BY <3>2, <1>5, <1>13, <1>6 DEF Placed
        <4> QED BY <4>1, <1>14
      <3> QED BY <3>1, <3>2
    <2> QED BY <2>1, <1>1, <1>3, <1>4, <1>5, <1>13 DEF Tagged
  <1>17. Placed' /\ Zeroed' /\ Coming' BY <1>6 DEF Placed, Zeroed, Coming
  <1>18. AnswerOwn'
    <2>1. Told' = NoAnswer' /\ NoAnswer' = NoAnswer BY <1>1 DEF Told, NoAnswer
    <2> QED BY <2>1, <1>1, <1>4, <1>5, <1>13, <1>7, ToldIs DEF AnswerOwn
  <1>19. AtPlace' BY <1>1, <1>6 DEF AtPlace
  <1>20. Freshly'
    <2> SUFFICES ASSUME NEW e \in fresh
        PROVE  /\ e \notin OnTheWay
               /\ \/ slotOf[e] = None \/ tag[slotOf[e]] # None \/ TagSent(slotOf[e])
                  \/ seq # done /\ e \in Ids
      BY <1>1, <1>3, <1>4, <1>7 DEF Freshly
    <2>1. /\ e \notin OnTheWay
          /\ \/ slotOf[e] = None \/ tag[slotOf[e]] # None \/ TagSent(slotOf[e])
             \/ \E p \in seen : row.ids[p] = e
      BY <1>5, <1>13, <1>8 DEF Freshly
    <2>2. \A p \in seen : row.ids[p] \in Ids BY <1>5, <1>13, <1>6, PlaceIs DEF Counted
    <2>3. seq = done => e \notin Ids BY <1>5, <1>13, <1>6 DEF Placed
    <2> QED BY <2>1, <2>2, <2>3
  <1>21. Early' BY <1>1, <1>3, <1>4, <1>7, <1>14, <1>15 DEF Early
  <1> QED BY <1>16, <1>17, <1>18, <1>19, <1>20, <1>21 DEF CardInv

----------------------------------------------------------------------------
(* The next of the host's writes: what is still to come, and what stays.   *)
LEMMA DmaFirst ==
  ASSUME HostInv, dma # <<>>
  PROVE  /\ Head(dma) \in Write /\ Tail(dma) \in Seq(Write) /\ InLine(Tail(dma))
         /\ Writes = {Head(dma)} \cup ToSet(Tail(dma)) /\ ToSet(Tail(dma)) \subseteq Write
         /\ \A v \in ToSet(Tail(dma)) : May(Head(dma), v)
PROOF
  <1>1. dma \in Seq(Write) /\ InLine(dma) BY DEF HostInv, Typed, Polled
  <1>2. /\ Head(dma) \in Write /\ Tail(dma) \in Seq(Write) /\ InLine(Tail(dma))
        /\ ToSet(dma) = {Head(dma)} \cup ToSet(Tail(dma))
        /\ \A v \in ToSet(Tail(dma)) : May(Head(dma), v)
    BY <1>1, FirstWrite
  <1> QED BY <1>2, WrittenIn DEF Writes

DmaStep == UNCHANGED <<seq, row, host, card, misled>>

LEMMA DmaSame ==
  ASSUME DmaStep
  PROVE  /\ UNCHANGED <<seq, row, done, slotOf, pending, fresh, armed, used, placed>>
         /\ UNCHANGED <<on, posts, at, seen, left, reg, misled>>
         /\ OnTheWay' = OnTheWay /\ InSlots' = InSlots /\ (\A e : Home(e)' = Home(e))
         /\ Ids' = Ids /\ Places' = Places /\ Turn' = Turn /\ ToTake' = ToTake
         /\ (\A p : Own(p)' = Own(p) /\ (Read(p)' <=> Read(p)))
         /\ (Running' <=> Running) /\ (Over' <=> Over) /\ (Unserved' <=> Unserved)
         /\ NoAnswer' = NoAnswer
PROOF
  <1>1. /\ UNCHANGED <<seq, row, done, slotOf, pending, fresh, armed, used, placed>>
        /\ UNCHANGED <<on, posts, at, seen, left, reg, misled>>
    BY DEF DmaStep, host, card
  <1>2. OnTheWay' = OnTheWay /\ InSlots' = InSlots /\ (\A e : Home(e)' = Home(e))
    BY <1>1, SameSlots
  <1>3. Ids' = Ids /\ Places' = Places /\ Turn' = Turn BY <1>1 DEF Ids, Places, Turn
  <1>4. ToTake' = ToTake BY <1>1, <1>3 DEF ToTake
  <1>5. \A p : Own(p)' = Own(p) /\ (Read(p)' <=> Read(p)) BY <1>1 DEF Own, Read
  <1>6. (Running' <=> Running) /\ (Over' <=> Over) /\ (Unserved' <=> Unserved)
        /\ NoAnswer' = NoAnswer
    BY <1>1 DEF Running, Over, Unserved, NoAnswer
  <1> QED BY <1>1, <1>2, <1>3, <1>4, <1>5, <1>6

(* A write that is neither a tag nor an answer: an entry becomes the host's.*)
LEMMA DmaCard ==
  ASSUME HostInv, CardInv, DmaStep, UNCHANGED <<answer, tag, stale>>,
         \A s : (TagSent(s)' <=> TagSent(s)) /\ (Clearing(s)' <=> Clearing(s)),
         \A p : AnswerSent(p)' <=> AnswerSent(p),
         \A w \in Writes' : w.op \in {"answer", "notags"} => w \in Writes,
         \A e \in Expert : dir'[e] = dir[e] \/ dir'[e] = Home(e)
  PROVE  Tagged' /\ Placed' /\ AnswerOwn' /\ Zeroed' /\ Coming' /\ Freshly' /\ Early'
PROOF
  <1>1. /\ UNCHANGED <<seq, row, done, slotOf, pending, fresh, armed, used, placed>>
        /\ UNCHANGED <<on, posts, at, seen, left, reg>>
        /\ OnTheWay' = OnTheWay /\ InSlots' = InSlots
        /\ Ids' = Ids /\ Places' = Places /\ ToTake' = ToTake
        /\ (\A p : Own(p)' = Own(p) /\ (Read(p)' <=> Read(p)))
        /\ (Running' <=> Running) /\ (Over' <=> Over) /\ (Unserved' <=> Unserved)
        /\ NoAnswer' = NoAnswer
    BY DmaSame
  <1>2. /\ Typed /\ Slotted /\ Tagged /\ Placed /\ AnswerOwn /\ Zeroed /\ Coming /\ Freshly /\ Early /\ Counted
    BY DEF HostInv, CardInv
  <1>3. Told' = Told /\ \A p : Answers(p)' <=> Answers(p) BY SameTold DEF Answers
  <1>4. Tagged' BY <1>1, <1>2 DEF Tagged
  <1>5. Placed'
    <2>1. ASSUME Running, NEW p \in seen
          PROVE  dir'[row.ids[p]] # None /\ dir'[row.ids[p]] = Own(p)
      <3>1. dir[row.ids[p]] # None /\ dir[row.ids[p]] = Own(p) /\ row.ids[p] \notin OnTheWay
        BY <2>1, <1>2 DEF Placed
      <3>2. row.ids[p] \in Expert BY <2>1, <1>2, OwnOnce DEF Counted
      <3> QED BY <3>1, <3>2 DEF Home, Own
    <2> QED BY <2>1, <1>1, <1>2 DEF Placed
  <1>6. AnswerOwn' BY <1>1, <1>2, <1>3 DEF AnswerOwn
  <1>7. Zeroed' BY <1>1, <1>2 DEF Zeroed
  <1>8. Coming'
    <2>1. ASSUME Running, seq = done, NEW p \in Places, dir[row.ids[p]] # None
          PROVE  dir'[row.ids[p]] # None
      <3>1. row.ids[p] \in Ids /\ row.ids[p] \in Expert BY <1>2, <2>1, PlaceIs
      <3>2. Home(row.ids[p]) # None BY <3>1, <2>1, <1>2 DEF Placed, Home
      <3> QED BY <3>1, <3>2, <2>1
    <2> QED BY <2>1, <1>1, <1>2, <1>3 DEF Coming
  <1>9. Freshly' BY <1>1, <1>2 DEF Freshly
  <1>10. Early' BY <1>1, <1>2 DEF Early
  <1> QED BY <1>4, <1>5, <1>6, <1>7, <1>8, <1>9, <1>10

LEMMA DmaPart ==
  ASSUME HostInv, dma # <<>>, DmaStep, Head(dma).op = "part",
         bytes' = [bytes EXCEPT ![Head(dma).slot][Head(dma).part] = Head(dma).e],
         dma' = Tail(dma), UNCHANGED <<answer, dir, tag, served, stale>>
  PROVE  StepKeeps
PROOF
  <1> DEFINE h == Head(dma)
             R == ToSet(Tail(dma))
  <1>1. /\ h \in Write /\ Tail(dma) \in Seq(Write) /\ InLine(Tail(dma))
        /\ Writes = {h} \cup R /\ \A v \in R : May(h, v)
    BY DmaFirst
  <1>2. Writes' = R BY DEF Writes
  <1>3. /\ UNCHANGED <<seq, row, done, slotOf, pending, fresh, armed, used, placed>>
        /\ UNCHANGED <<on, posts, at, seen, left, reg, misled>>
        /\ OnTheWay' = OnTheWay /\ InSlots' = InSlots /\ (\A e : Home(e)' = Home(e))
        /\ Places' = Places /\ Turn' = Turn /\ (\A p : Own(p)' = Own(p))
        /\ (Running' <=> Running)
    BY DmaSame
  <1> HIDE DEF h, R
  <1>4. h.op = "part" BY DEF h
  <1>5. /\ \A s : (TagSent(s)' <=> TagSent(s)) /\ (Clearing(s)' <=> Clearing(s))
        /\ \A p : AnswerSent(p)' <=> AnswerSent(p)
    BY <1>1, <1>2, <1>4 DEF TagSent, Clearing, AnswerSent
  <1>6. \A w \in Writes' : w \in Writes BY <1>1, <1>2
  <1>7. Typed /\ Slotted /\ Counted /\ Polled /\ Directed /\ Sending /\ Landed BY DEF HostInv
  <1>8. h \in Writes BY <1>1
  <1>9. /\ h.slot \in Slot /\ h.e \in InSlots /\ slotOf[h.e] = h.slot
        /\ h.part \in 1..Parts /\ h.e \in Expert
    <2>1. h.slot \in Slot /\ h.e \in InSlots /\ slotOf[h.e] = h.slot BY <1>4, <1>7, <1>8, SentIs
    <2>2. h.part \in 1..Parts BY <1>1, <1>4, WriteIs DEF PartWrite
    <2> QED BY <2>1, <2>2 DEF InSlots
  <1>10. bytes \in [Slot -> [1..Parts -> Expert \cup {None}]] BY <1>7 DEF Typed
  <1>11. bytes' = [bytes EXCEPT ![h.slot][h.part] = h.e] BY DEF h
  <1>12. /\ bytes'[h.slot][h.part] = h.e
         /\ \A s \in Slot, p \in 1..Parts : (s # h.slot \/ p # h.part) => bytes'[s][p] = bytes[s][p]
         /\ bytes' \in [Slot -> [1..Parts -> Expert \cup {None}]]
    <2> DEFINE P == 1..Parts
               C == Expert \cup {None}
    <2>1. bytes \in [Slot -> [P -> C]] /\ h.slot \in Slot /\ h.part \in P /\ h.e \in C
      BY <1>9, <1>10
    <2> HIDE DEF P, C
    <2> DEFINE r == [bytes[h.slot] EXCEPT ![h.part] = h.e]
    <2>2. bytes[h.slot] \in [P -> C] BY <2>1
    <2>3. r \in [P -> C] /\ r[h.part] = h.e /\ \A p \in P : p # h.part => r[p] = bytes[h.slot][p]
      BY <2>1, <2>2
    <2>4. bytes' = [bytes EXCEPT ![h.slot] = r] BY <1>11
    <2> HIDE DEF r
    <2>5. bytes' \in [Slot -> [P -> C]] BY <2>1, <2>3, <2>4
    <2>6. bytes'[h.slot] = r /\ \A s \in Slot : s # h.slot => bytes'[s] = bytes[s]
      BY <2>1, <2>4
    <2>7. ASSUME NEW s \in Slot, NEW p \in P, s # h.slot \/ p # h.part
          PROVE  bytes'[s][p] = bytes[s][p]
      <3>1. CASE s = h.slot BY <3>1, <2>7, <2>3, <2>6
      <3>2. CASE s # h.slot BY <3>2, <2>6
      <3> QED BY <3>1, <3>2
    <2> QED BY <2>3, <2>5, <2>6, <2>7 DEF P, C
  <1>13. Typed' BY <1>1, <1>3, <1>7, <1>12 DEF Typed
  <1>14. Slotted' BY <1>3, <1>7 DEF Slotted
  <1>15. Counted' BY <1>1, <1>2, <1>3, <1>4, <1>7 DEF Counted
  <1>16. Polled' BY <1>1, <1>3, <1>6, <1>7 DEF Polled
  <1>17. Directed' BY <1>1, <1>2, <1>3, <1>4, <1>7 DEF Directed
  <1>18. Sending' BY <1>3, <1>5, <1>6, <1>7 DEF Sending
  <1>19. ASSUME NEW e \in InSlots, NEW p \in 1..Parts, There(e, p) PROVE There(e, p)'
    <2>1. e \in Expert /\ slotOf[e] \in Slot BY <1>7 DEF InSlots, Typed, SlotOrNone
    <2>2. CASE slotOf[e] = h.slot /\ p = h.part
      <3>1. e = h.e BY <2>1, <2>2, <1>7, <1>9 DEF Slotted
      <3> QED BY <2>2, <3>1, <1>3, <1>12 DEF There
    <2>3. CASE slotOf[e] # h.slot \/ p # h.part
      <3>1. Part(slotOf[e], p, e) # h BY <2>3 DEF Part
      <3>2. bytes'[slotOf[e]][p] = bytes[slotOf[e]][p] BY <2>1, <2>3, <1>12
      <3> QED BY <3>1, <3>2, <1>1, <1>2, <1>3, <1>19 DEF There
    <2> QED BY <2>2, <2>3
  <1>20. Landed'
    <2>1. \A q \in ToSet(pending) : q.e \in InSlots BY <1>7 DEF Slotted, OnTheWay
    <2> QED BY <2>1, <1>3, <1>7, <1>19 DEF Landed
  <1>21. HostInv' BY <1>13, <1>14, <1>15, <1>16, <1>17, <1>18, <1>20 DEF HostInv
  <1> SUFFICES ASSUME CardInv, ~ misled' PROVE CardInv'
    BY <1>21 DEF StepKeeps
  <1>22. AtPlace
    BY DEF CardInv
  <1>23. Tagged' /\ Placed' /\ AnswerOwn' /\ Zeroed' /\ Coming' /\ Freshly' /\ Early'
    BY <1>5, <1>6, DmaCard
  <1>24. AtPlace'
    <2>1. ASSUME at = "computes" PROVE \A p \in 1..Parts : bytes'[reg][p] = row.ids[Turn]
      <3>1. reg # None /\ reg = Own(Turn) /\ \A p \in 1..Parts : bytes[reg][p] = row.ids[Turn]
        BY <2>1, <1>7, <1>22 DEF AtPlace
      <3>2. Turn \in Places
        <4>1. Running BY <2>1 DEF Running
        <4>2. left # {} BY <2>1, <1>7, <1>22 DEF AtPlace
        <4> QED BY <4>1, <4>2, <1>7, <1>22, TurnIs DEF Counted
      <3>3. reg \in Slot BY <3>1, <3>2, <1>7, <1>22, OwnOnce
      <3>4. reg = h.slot => h.e = row.ids[Turn] BY <3>1, <3>2, <1>7, <1>22, <1>9, OwnOnce
      <3> QED BY <3>1, <3>3, <3>4, <1>12
    <2> QED BY <2>1, <1>3, <1>7, <1>22, SameTold DEF AtPlace
  <1> QED BY <1>23, <1>24 DEF CardInv

LEMMA DmaServed ==
  ASSUME HostInv, dma # <<>>, DmaStep, Head(dma).op = "served",
         served' = Head(dma).n,
         dma' = Tail(dma), UNCHANGED <<answer, dir, bytes, tag, stale>>
  PROVE  StepKeeps
PROOF
  <1> DEFINE h == Head(dma)
             R == ToSet(Tail(dma))
  <1>1. /\ h \in Write /\ Tail(dma) \in Seq(Write) /\ InLine(Tail(dma))
        /\ Writes = {h} \cup R /\ \A v \in R : May(h, v)
    BY DmaFirst
  <1>2. Writes' = R /\ served' = h.n /\ h.op = "served" BY DEF Writes
  <1>3. /\ UNCHANGED <<seq, row, done, slotOf, pending, fresh, armed, used, placed>>
        /\ UNCHANGED <<on, posts, at, seen, left, reg, misled>>
        /\ OnTheWay' = OnTheWay /\ InSlots' = InSlots /\ (\A e : Home(e)' = Home(e))
        /\ Places' = Places /\ Turn' = Turn /\ (\A p : Own(p)' = Own(p))
        /\ (Running' <=> Running)
    BY DmaSame
  <1> HIDE DEF h, R
  <1>4. R = {} BY <1>1, <1>2 DEF May
  <1>5. Writes = {h} /\ Writes' = {} BY <1>1, <1>2, <1>4
  <1>6. /\ \A s : (TagSent(s)' <=> TagSent(s)) /\ (Clearing(s)' <=> Clearing(s))
        /\ \A p : AnswerSent(p)' <=> AnswerSent(p)
    BY <1>2, <1>5 DEF TagSent, Clearing, AnswerSent
  <1>7. Typed /\ Slotted /\ Counted /\ Polled /\ Directed /\ Landed BY DEF HostInv
  <1>8. h.n = done /\ served # done BY <1>2, <1>5, <1>7 DEF Counted
  <1>9. seq \in Nat /\ done \in Nat /\ served \in Nat BY <1>7 DEF Typed
  <1>10. served <= done /\ done <= seq BY <1>7 DEF Counted
  <1>11. Typed' BY <1>1, <1>2, <1>3, <1>7, <1>8 DEF Typed
  <1>12. Slotted' BY <1>3, <1>7 DEF Slotted
  <1>13. Counted'
    <2>1. at # "row" BY <1>7, <1>8, <1>9, <1>10 DEF Counted
    <2> QED BY <2>1, <1>2, <1>3, <1>5, <1>7, <1>8, <1>9, <1>10 DEF Counted
  <1>14. Polled' BY <1>1, <1>2, <1>3, <1>5, <1>8 DEF Polled
  <1>15. Directed' BY <1>2, <1>3, <1>5, <1>7 DEF Directed
  <1>16. Sending' BY <1>5 DEF Sending
  <1>17. \A e, p : There(e, p) => There(e, p)' BY <1>2, <1>3, <1>5 DEF There, Part
  <1>18. Landed' BY <1>3, <1>7, <1>17 DEF Landed
  <1>19. HostInv' BY <1>11, <1>12, <1>13, <1>14, <1>15, <1>16, <1>18 DEF HostInv
  <1> SUFFICES ASSUME CardInv, ~ misled' PROVE CardInv'
    BY <1>19 DEF StepKeeps
  <1>20. AtPlace
    BY DEF CardInv
  <1>21. Tagged' /\ Placed' /\ AnswerOwn' /\ Zeroed' /\ Coming' /\ Freshly' /\ Early'
    BY <1>5, <1>6, DmaCard
  <1>22. AtPlace' BY <1>3, <1>7, <1>20, SameTold DEF AtPlace
  <1> QED BY <1>21, <1>22 DEF CardInv

LEMMA DmaTag ==
  ASSUME HostInv, dma # <<>>, DmaStep, Head(dma).op = "tag",
         tag' = [tag EXCEPT ![Head(dma).slot] = Head(dma).e],
         dma' = Tail(dma), UNCHANGED <<answer, dir, bytes, served, stale>>
  PROVE  StepKeeps
PROOF
  <1> DEFINE h == Head(dma)
             R == ToSet(Tail(dma))
  <1>1. /\ h \in Write /\ Tail(dma) \in Seq(Write) /\ InLine(Tail(dma))
        /\ Writes = {h} \cup R /\ R \subseteq Write /\ \A v \in R : May(h, v)
    BY DmaFirst
  <1>2. Writes' = R /\ h.op = "tag" /\ tag' = [tag EXCEPT ![h.slot] = h.e] BY DEF Writes
  <1>3. /\ UNCHANGED <<seq, row, done, slotOf, pending, fresh, armed, used, placed>>
        /\ UNCHANGED <<on, posts, at, seen, left, reg, misled>>
        /\ OnTheWay' = OnTheWay /\ InSlots' = InSlots /\ (\A e : Home(e)' = Home(e))
        /\ Ids' = Ids /\ Places' = Places /\ Turn' = Turn /\ ToTake' = ToTake
        /\ (\A p : Own(p)' = Own(p) /\ (Read(p)' <=> Read(p)))
        /\ (Running' <=> Running) /\ (Over' <=> Over) /\ (Unserved' <=> Unserved)
        /\ NoAnswer' = NoAnswer
    BY DmaSame
  <1> HIDE DEF h, R
  <1>4. h \in Writes /\ \A w \in Writes' : w \in Writes BY <1>1, <1>2
  <1>5. Typed /\ Slotted /\ Counted /\ Polled /\ Directed /\ Sending /\ Landed BY DEF HostInv
  <1>6. /\ h.slot \in Slot /\ h.e \in InSlots /\ slotOf[h.e] = h.slot /\ h.e \in Expert
        /\ h.slot \in armed /\ h.e \notin OnTheWay
    <2>1. h.slot \in Slot /\ h.e \in InSlots /\ slotOf[h.e] = h.slot BY <1>2, <1>4, <1>5, SentIs
    <2>2. h.slot \in armed /\ h.e \notin OnTheWay BY <1>2, <1>4, <1>5 DEF Sending
    <2> QED BY <2>1, <2>2 DEF InSlots
  <1>7. h.e # None /\ h.slot # None BY <1>6, ExpertsAssumption
  <1>8. tag \in [Slot -> Expert \cup {None}] BY <1>5 DEF Typed
  <1>9. tag'[h.slot] = h.e /\ \A s \in Slot : s # h.slot => tag'[s] = tag[s] BY <1>2, <1>6, <1>8
  <1>10. TagSent(h.slot) BY <1>2, <1>4 DEF TagSent
  <1>11. \A v \in R : v.op \in {"part", "tag"} => v.e # h.e /\ v.slot # h.slot
    <2> SUFFICES ASSUME NEW v \in R, v.op \in {"part", "tag"}
        PROVE  v.e # h.e /\ v.slot # h.slot
      OBVIOUS
    <2>1. v.e # h.e BY <1>1, <1>2 DEF May
    <2>2. v \in Writes BY <1>1
    <2>3. v.e \in InSlots /\ slotOf[v.e] = v.slot BY <2>2, <1>5, SentIs
    <2> QED BY <2>1, <2>3, <1>5, <1>6 DEF Slotted
  <1>12. \A s : TagSent(s)' <=> TagSent(s) /\ s # h.slot
    <2>1. \A s : TagSent(s)' <=> \E v \in R : v.op = "tag" /\ v.slot = s BY <1>2 DEF TagSent
    <2>2. \A s : TagSent(s) <=> h.slot = s \/ \E v \in R : v.op = "tag" /\ v.slot = s
      BY <1>1, <1>2 DEF TagSent
    <2> QED BY <2>1, <2>2, <1>11
  <1>13. \A v \in R : v.op # "notags" BY <1>1 DEF May
  <1>14. \A s : ~ Clearing(s) /\ ~ Clearing(s)'
    <2>1. \A v \in Writes : v.op # "notags" BY <1>1, <1>2, <1>13
    <2> QED BY <2>1, <1>4 DEF Clearing
  <1>15. Told' = Told BY SameTold
  <1>16. \A p : (AnswerSent(p)' <=> AnswerSent(p)) /\ (Answers(p)' <=> Answers(p))
    BY <1>1, <1>2, <1>15 DEF AnswerSent, Answers
  <1>17. Typed'
    <2>1. tag' \in [Slot -> Expert \cup {None}] BY <1>2, <1>6, <1>8
    <2> QED BY <2>1, <1>1, <1>3, <1>5 DEF Typed
  <1>18. Slotted' BY <1>3, <1>5 DEF Slotted
  <1>19. Counted' BY <1>1, <1>2, <1>3, <1>5 DEF Counted
  <1>20. Polled' BY <1>1, <1>3, <1>4, <1>5 DEF Polled
  <1>21. Directed' BY <1>1, <1>2, <1>3, <1>5 DEF Directed
  <1>22. Sending'
    <2> SUFFICES ASSUME NEW w \in R, w.op \in {"part", "tag"}
        PROVE  /\ slotOf[w.e] = w.slot /\ dir[w.e] = None
               /\ w.op = "tag" => w.slot \in armed /\ w.e \notin OnTheWay
               /\ w.op = "part" => w.e \in OnTheWay \/ TagSent(w.slot)'
      BY <1>2, <1>3 DEF Sending
    <2>1. /\ slotOf[w.e] = w.slot /\ dir[w.e] = None
          /\ w.op = "tag" => w.slot \in armed /\ w.e \notin OnTheWay
          /\ w.op = "part" => w.e \in OnTheWay \/ TagSent(w.slot)
      BY <1>1, <1>5 DEF Sending
    <2>2. w.slot # h.slot BY <1>11
    <2> QED BY <2>1, <2>2, <1>12
  <1>23. Landed'
    <2>1. \A e, p : Part(slotOf[e], p, e) # h BY <1>2 DEF Part
    <2>2. \A e, p : There(e, p)' <=> There(e, p) BY <2>1, <1>1, <1>2, <1>3 DEF There
    <2> QED BY <2>2, <1>3, <1>5 DEF Landed
  <1>24. HostInv' BY <1>17, <1>18, <1>19, <1>20, <1>21, <1>22, <1>23 DEF HostInv
  <1> SUFFICES ASSUME CardInv, ~ misled' PROVE CardInv'
    BY <1>24 DEF StepKeeps
  <1>25. Tagged /\ Placed /\ AnswerOwn /\ AtPlace /\ Zeroed /\ Coming /\ Freshly /\ Early
    BY DEF CardInv
  <1>26. Tagged'
    <2>1. \A s \in Slot : tag'[s] # None => s \in armed BY <1>5, <1>25, <1>6, <1>9, <1>14 DEF Tagged
    <2>2. \A e \in OnTheWay : tag'[slotOf[e]] = None
      <3> SUFFICES ASSUME NEW e \in OnTheWay PROVE tag'[slotOf[e]] = None OBVIOUS
      <3>1. e \in InSlots /\ e # h.e BY <1>5, <1>25, <1>6 DEF Slotted
      <3>2. slotOf[e] # h.slot BY <3>1, <1>5, <1>25, <1>6 DEF Slotted
      <3>3. slotOf[e] \in Slot BY <3>1, <1>5, <1>25 DEF InSlots, Typed, SlotOrNone
      <3> QED BY <3>2, <3>3, <1>5, <1>25, <1>9, <1>14 DEF Tagged
    <2>3. \A s \in Slot : TagSent(s)' => tag'[s] = None BY <1>5, <1>25, <1>9, <1>12, <1>14 DEF Tagged
    <2>4. \A e \in OnTheWay : slotOf[e] \notin used BY <1>5, <1>25 DEF Tagged
    <2>5. Over => \A s \in used : tag'[s] = None /\ ~ TagSent(s)'
      <3> SUFFICES ASSUME Over, NEW s \in used PROVE tag'[s] = None /\ ~ TagSent(s)' OBVIOUS
      <3>1. tag[s] = None /\ ~ TagSent(s) BY <1>5, <1>25 DEF Tagged
      <3>2. s \in Slot /\ s # h.slot BY <3>1, <1>10, <1>5, <1>25 DEF Typed
      <3> QED BY <3>1, <3>2, <1>9, <1>12
    <2> QED BY <2>1, <2>2, <2>3, <2>4, <2>5, <1>3 DEF Tagged
  <1>27. Placed' BY <1>3, <1>5, <1>25 DEF Placed
  <1>28. AnswerOwn' BY <1>15, <1>3, <1>4, <1>5, <1>25 DEF AnswerOwn
  <1>29. AtPlace' BY <1>15, <1>3, <1>5, <1>25 DEF AtPlace
  <1>30. Zeroed'
    <2> SUFFICES ASSUME Running, NEW p \in Places \ ToTake
        PROVE  Own(p) # None /\ tag'[Own(p)] = None /\ ~ TagSent(Own(p))'
      BY <1>3 DEF Zeroed
    <2>1. Own(p) # None /\ tag[Own(p)] = None /\ ~ TagSent(Own(p)) BY <1>5, <1>25 DEF Zeroed
    <2>2. Own(p) # h.slot BY <2>1, <1>10
    <2>3. Own(p) \in Slot BY <2>1, <1>5, <1>25, OwnOnce
    <2> QED BY <2>1, <2>2, <2>3, <1>3, <1>9, <1>12
  <1>31. \A s \in Slot : tag[s] # None \/ TagSent(s) => tag'[s] # None \/ TagSent(s)'
    BY <1>7, <1>9, <1>12
  <1>32. Coming'
    <2>1. ASSUME Running, NEW p \in Places, seq = done, p \in ToTake, p \notin seen, Answers(p)
          PROVE  tag'[Own(p)] # None \/ TagSent(Own(p))'
      <3>1. tag[Own(p)] # None \/ TagSent(Own(p)) BY <2>1, <1>5, <1>25 DEF Coming
      <3>2. row.ids[p] \in Ids BY <1>5, <1>25, PlaceIs
      <3>3. Own(p) # None BY <3>2, <2>1, <1>5, <1>25 DEF Placed, Own
      <3>4. Own(p) \in Slot BY <3>3, <1>5, <1>25, OwnOnce
      <3> QED BY <3>1, <3>4, <1>3, <1>31
    <2> QED BY <2>1, <1>3, <1>5, <1>25, <1>14, <1>16 DEF Coming
  <1>33. Freshly'
    <2>1. \A e \in fresh : slotOf[e] # None => slotOf[e] \in Slot BY <1>5, <1>25 DEF Typed, SlotOrNone
    <2> QED BY <2>1, <1>3, <1>5, <1>25, <1>31 DEF Freshly
  <1>34. Early'
    <2> SUFFICES ASSUME Unserved, NEW e \in Ids
        PROVE  /\ slotOf[e] # None /\ e \notin OnTheWay
               /\ tag'[slotOf[e]] = None /\ ~ TagSent(slotOf[e])'
      BY <1>3 DEF Early
    <2>1. /\ slotOf[e] # None /\ e \notin OnTheWay
          /\ tag[slotOf[e]] = None /\ ~ TagSent(slotOf[e])
      BY <1>5, <1>25 DEF Early
    <2>2. slotOf[e] \in Slot BY <2>1, <1>5, <1>25, PlaceIs DEF Typed, SlotOrNone
    <2>3. slotOf[e] # h.slot BY <2>1, <1>10
    <2> QED BY <2>1, <2>2, <2>3, <1>3, <1>9, <1>12
  <1> QED BY <1>26, <1>27, <1>28, <1>29, <1>30, <1>32, <1>33, <1>34 DEF CardInv

LEMMA DmaNoTags ==
  ASSUME HostInv, dma # <<>>, DmaStep, Head(dma).op = "notags", NEW s \in Head(dma).slots,
         tag' = [tag EXCEPT ![s] = None],
         dma' = NoTagsIn(Head(dma).slots \ {s}) \o Tail(dma), UNCHANGED <<answer, dir, bytes, served, stale>>
  PROVE  StepKeeps
PROOF
  <1> DEFINE h == Head(dma)
             R == ToSet(Tail(dma))
             S == h.slots \ {s}
             g == NoTags(S)
             t == Tail(dma)
  <1>1. /\ h \in Write /\ t \in Seq(Write) /\ InLine(t)
        /\ Writes = {h} \cup R /\ R \subseteq Write /\ \A v \in R : May(h, v)
    BY DmaFirst
  <1>2. h.op = "notags" /\ tag' = [tag EXCEPT ![s] = None] /\ s \in h.slots /\ dma' = NoTagsIn(S) \o t
    OBVIOUS
  <1>3. /\ UNCHANGED <<seq, row, done, slotOf, pending, fresh, armed, used, placed>>
        /\ UNCHANGED <<on, posts, at, seen, left, reg, misled>>
        /\ OnTheWay' = OnTheWay /\ InSlots' = InSlots /\ (\A e : Home(e)' = Home(e))
        /\ Ids' = Ids /\ Places' = Places /\ Turn' = Turn /\ ToTake' = ToTake
        /\ (\A p : Own(p)' = Own(p) /\ (Read(p)' <=> Read(p)))
        /\ (Running' <=> Running) /\ (Over' <=> Over) /\ (Unserved' <=> Unserved)
        /\ NoAnswer' = NoAnswer
    BY DmaSame
  <1>4. h.slots \subseteq Slot BY <1>1, <1>2, WriteIs DEF NoTagsWrite
  <1>5. g \in Write /\ g.op = "notags" /\ g.slots = S
    <2>1. S \subseteq Slot BY <1>4
    <2> QED BY <2>1 DEF NoTags, Write, NoTagsWrite
  <1>6. ToSet(t) = R OBVIOUS
  <1> HIDE DEF h, R, t, g
  <1>7. \A v \in R : v.op # "notags" BY <1>1 DEF May
  <1>8. \A v \in R : May(g, v) BY <1>2, <1>5, <1>7 DEF May
  <1>9. /\ dma' \in Seq(Write) /\ InLine(dma')
        /\ Writes' = (IF S = {} THEN {} ELSE {g}) \cup R
    <2>1. CASE S = {}
      <3>1. NoTagsIn(S) = <<>> BY <2>1 DEF NoTagsIn
      <3>2. <<>> \o t = t BY <1>1
      <3>3. dma' = t BY <1>2, <3>1, <3>2
      <3> QED BY <1>1, <1>6, <2>1, <3>3 DEF Writes
    <2>2. CASE S # {}
      <3>1. NoTagsIn(S) = <<g>> BY <2>2 DEF NoTagsIn, g
      <3>2. <<g>> \in Seq(Write) /\ InLine(<<g>>) /\ ToSet(<<g>>) = {g} BY <1>5, OneWrite
      <3>3. \A w \in ToSet(<<g>>), v \in ToSet(t) : May(w, v) BY <3>2, <1>6, <1>8
      <3>4. /\ <<g>> \o t \in Seq(Write) /\ InLine(<<g>> \o t)
            /\ ToSet(<<g>> \o t) = ToSet(<<g>>) \cup ToSet(t)
        BY <1>1, <3>2, <3>3, ConcatWrites
      <3> QED BY <3>1, <3>2, <3>4, <1>2, <1>6, <2>2 DEF Writes
    <2> QED BY <2>1, <2>2
  <1>10. \A w \in Writes' : w \in R \/ (w = g /\ S # {}) BY <1>9
  <1>11. \A w \in R : w \in Writes /\ w \in Writes' BY <1>1, <1>9
  <1>12. h \in Writes BY <1>1
  <1>13. \A w \in Writes : w = h \/ w \in R BY <1>1
  <1>14. \A x : TagSent(x)' <=> TagSent(x) BY <1>2, <1>5, <1>10, <1>11, <1>13 DEF TagSent
  <1>15. Told' = Told BY SameTold
  <1>16. \A p : AnswerSent(p)' <=> AnswerSent(p) BY <1>2, <1>5, <1>10, <1>11, <1>13 DEF AnswerSent
  <1>17. \A x : Clearing(x)' <=> Clearing(x) /\ x # s
    <2>1. \A x : Clearing(x) <=> x \in h.slots BY <1>2, <1>7, <1>12, <1>13 DEF Clearing
    <2>2. \A x : Clearing(x)' <=> x \in S
      <3>1. CASE S = {} BY <3>1, <1>7, <1>10 DEF Clearing
      <3>2. CASE S # {}
        <4>1. g \in Writes' BY <3>2, <1>9
        <4> QED BY <4>1, <1>5, <1>7, <1>10 DEF Clearing
      <3> QED BY <3>1, <3>2
    <2> QED BY <2>1, <2>2
  <1> HIDE DEF S
  <1>18. Typed /\ Slotted /\ Counted /\ Polled /\ Directed /\ Sending /\ Landed BY DEF HostInv
  <1>19. served # done /\ fresh = {}
    <2>1. served # done BY <1>2, <1>12, <1>18 DEF Polled
    <2> QED BY <2>1, <1>18 DEF Polled
  <1>20. tag \in [Slot -> Expert \cup {None}] /\ s \in Slot BY <1>2, <1>4, <1>18 DEF Typed
  <1>21. tag'[s] = None /\ (\A x \in Slot : x # s => tag'[x] = tag[x])
    BY <1>2, <1>20
  <1>22. \A x \in Slot : tag'[x] = None \/ (tag'[x] = tag[x] /\ x # s) BY <1>21
  <1>23. \A w \in Writes' : w.op # "notags" => w \in Writes BY <1>5, <1>10, <1>11
  <1>24. \A w \in Writes : w.op # "notags" => w \in Writes' BY <1>2, <1>11, <1>13
  <1>25. Typed'
    <2>1. tag' \in [Slot -> Expert \cup {None}] BY <1>2, <1>20
    <2> QED BY <2>1, <1>3, <1>9, <1>18 DEF Typed
  <1>26. Slotted' BY <1>3, <1>18 DEF Slotted
  <1>27. Counted' BY <1>3, <1>23, <1>24, <1>18 DEF Counted
  <1>28. Polled' BY <1>3, <1>9, <1>19 DEF Polled
  <1>29. Directed' BY <1>3, <1>23, <1>24, <1>18 DEF Directed
  <1>30. Sending' BY <1>3, <1>14, <1>23, <1>18 DEF Sending
  <1>31. Landed'
    <2>1. \A e, p : Part(slotOf[e], p, e).op # "notags" BY DEF Part
    <2>2. \A e, p : There(e, p) => There(e, p)' BY <2>1, <1>3, <1>24 DEF There
    <2> QED BY <2>2, <1>3, <1>18 DEF Landed
  <1>32. HostInv' BY <1>25, <1>26, <1>27, <1>28, <1>29, <1>30, <1>31 DEF HostInv
  <1> SUFFICES ASSUME CardInv, ~ misled' PROVE CardInv'
    BY <1>32 DEF StepKeeps
  <1>33. Tagged /\ Placed /\ AnswerOwn /\ AtPlace /\ Zeroed /\ Coming /\ Freshly /\ Early
    BY DEF CardInv
  <1>34. Tagged'
    <2>1. \A e \in OnTheWay : slotOf[e] \in Slot
      <3>1. \A e \in OnTheWay : e \in Expert /\ slotOf[e] # None BY <1>18, <1>33 DEF Slotted, InSlots
      <3> QED BY <3>1, <1>18, <1>33 DEF Typed, SlotOrNone
    <2>2. used \subseteq Slot BY <1>18, <1>33 DEF Typed
    <2> QED BY <2>1, <2>2, <1>3, <1>14, <1>17, <1>18, <1>33, <1>22 DEF Tagged
  <1>35. Placed' BY <1>3, <1>18, <1>33 DEF Placed
  <1>36. AnswerOwn' BY <1>15, <1>2, <1>3, <1>12, <1>18, <1>33, <1>23 DEF AnswerOwn
  <1>37. AtPlace' BY <1>15, <1>3, <1>18, <1>33 DEF AtPlace
  <1>38. Zeroed'
    <2>1. \A p \in Places : Own(p) # None => Own(p) \in Slot BY <1>18, <1>33, OwnOnce
    <2> QED BY <2>1, <1>3, <1>14, <1>18, <1>33, <1>22 DEF Zeroed
  <1>39. Coming'
    <2>1. ASSUME Running, NEW p \in Places, seq = done,
                 (tag[Own(p)] # None /\ ~ Clearing(Own(p))) \/ TagSent(Own(p))
          PROVE  (tag'[Own(p)] # None /\ ~ Clearing(Own(p))') \/ TagSent(Own(p))'
      <3>1. row.ids[p] \in Ids BY <1>18, <1>33, PlaceIs
      <3>2. Own(p) # None BY <3>1, <2>1, <1>18, <1>33 DEF Placed, Own
      <3>3. Own(p) \in Slot BY <3>2, <1>18, <1>33, OwnOnce
      <3>4. Clearing(s) BY <1>2, <1>12 DEF Clearing
      <3> QED BY <2>1, <3>3, <3>4, <1>3, <1>14, <1>17, <1>21
    <2>2. \A p : Answers(p)' <=> Answers(p) BY <1>15, <1>16 DEF Answers
    <2> QED BY <2>1, <2>2, <1>3, <1>18, <1>33 DEF Coming
  <1>40. Freshly' BY <1>3, <1>19 DEF Freshly
  <1>41. Early'
    <2>1. \A e \in Ids : slotOf[e] # None => slotOf[e] \in Slot
      BY <1>18, <1>33, PlaceIs DEF Typed, SlotOrNone
    <2> QED BY <2>1, <1>3, <1>14, <1>18, <1>33, <1>22 DEF Early
  <1> QED BY <1>34, <1>35, <1>36, <1>37, <1>38, <1>39, <1>40, <1>41 DEF CardInv

LEMMA DmaAnswer ==
  ASSUME HostInv, dma # <<>>, DmaStep, Head(dma).op = "answer",
         answer' = Head(dma).to, stale' = (at = "free"),
         dma' = Tail(dma), UNCHANGED <<dir, bytes, tag, served>>
  PROVE  StepKeeps
PROOF
  <1> DEFINE h == Head(dma)
             R == ToSet(Tail(dma))
  <1>1. /\ h \in Write /\ Tail(dma) \in Seq(Write) /\ InLine(Tail(dma))
        /\ Writes = {h} \cup R /\ R \subseteq Write /\ \A v \in R : May(h, v)
    BY DmaFirst
  <1>2. Writes' = R /\ h.op = "answer" /\ answer' = h.to /\ stale' = (at = "free") BY DEF Writes
  <1>3. /\ UNCHANGED <<seq, row, done, slotOf, pending, fresh, armed, used, placed>>
        /\ UNCHANGED <<on, posts, at, seen, left, reg, misled>>
        /\ OnTheWay' = OnTheWay /\ InSlots' = InSlots /\ (\A e : Home(e)' = Home(e))
        /\ Ids' = Ids /\ Places' = Places /\ Turn' = Turn /\ ToTake' = ToTake
        /\ (\A p : Own(p)' = Own(p) /\ (Read(p)' <=> Read(p)))
        /\ (Running' <=> Running) /\ (Over' <=> Over) /\ (Unserved' <=> Unserved)
        /\ NoAnswer' = NoAnswer
    BY DmaSame
  <1> HIDE DEF h, R
  <1>4. h \in Writes /\ (\A w \in Writes' : w \in Writes) /\ \A w \in Writes : w = h \/ w \in Writes'
    BY <1>1, <1>2
  <1>5. \A v \in Writes' : v.op # "notags" /\ v.op # "answer" BY <1>1, <1>2 DEF May
  <1>6. Typed /\ Slotted /\ Counted /\ Polled /\ Directed /\ Sending /\ Landed BY DEF HostInv
  <1>7. seq = done
    <2>1. served # done BY <1>2, <1>4, <1>6 DEF Polled
    <2> QED BY <2>1, <1>6 DEF Counted
  <1>8. at # "row"
    <2>1. served # done BY <1>2, <1>4, <1>6 DEF Polled
    <2>2. served # seq BY <2>1, <1>7
    <2> QED BY <2>2, <1>6 DEF Counted
  <1>9. IF at = "free" THEN Told' = NoAnswer ELSE Running /\ Told' = h.to
    <2>1. at # "free" => Running BY <1>8, <1>6 DEF Typed, Running
    <2> QED BY <2>1, <1>2, <1>3 DEF Told
  <1>10. \A s : (TagSent(s)' <=> TagSent(s)) /\ (Clearing(s)' <=> Clearing(s))
    BY <1>2, <1>4 DEF TagSent, Clearing
  <1>11. Typed'
    <2>1. h.to \in [1..MaxIds -> SlotOrNone] BY <1>1, <1>2, WriteIs DEF AnswerWrite
    <2>2. stale' \in BOOLEAN BY <1>2
    <2> QED BY <2>1, <2>2, <1>1, <1>2, <1>3, <1>6 DEF Typed
  <1>12. Slotted' BY <1>3, <1>6 DEF Slotted
  <1>13. Counted' BY <1>2, <1>3, <1>4, <1>6 DEF Counted
  <1>14. Polled' BY <1>1, <1>3, <1>4, <1>6 DEF Polled
  <1>15. Directed' BY <1>2, <1>3, <1>4, <1>6 DEF Directed
  <1>16. Sending' BY <1>3, <1>4, <1>6, <1>10 DEF Sending
  <1>17. Landed'
    <2>1. \A e, p : Part(slotOf[e], p, e) # h BY <1>2 DEF Part
    <2>2. \A e, p : There(e, p)' <=> There(e, p) BY <2>1, <1>3, <1>4 DEF There
    <2> QED BY <2>2, <1>3, <1>6 DEF Landed
  <1>18. HostInv' BY <1>11, <1>12, <1>13, <1>14, <1>15, <1>16, <1>17 DEF HostInv
  <1> SUFFICES ASSUME CardInv, ~ misled' PROVE CardInv'
    BY <1>18 DEF StepKeeps
  <1>19. Tagged /\ Placed /\ AnswerOwn /\ AtPlace /\ Zeroed /\ Coming /\ Freshly /\ Early
    BY DEF CardInv
  <1>20. Told = NoAnswer BY <1>2, <1>4, <1>6, <1>19 DEF AnswerOwn
  <1>21. \A p \in 1..MaxIds : h.to[p] # None => p \in Places /\ h.to[p] = Own(p)
    BY <1>2, <1>4, <1>6, <1>19 DEF AnswerOwn
  <1>22. Running => \A p \in 1..MaxIds : Answers(p)' <=> Answers(p)
    <2>1. \A p \in 1..MaxIds : Told[p] = None BY <1>20 DEF NoAnswer
    <2>2. \A p : ~ AnswerSent(p)' BY <1>5 DEF AnswerSent
    <2>3. \A p : AnswerSent(p) <=> h.to[p] # None BY <1>2, <1>4, <1>5 DEF AnswerSent
    <2>4. Running => Told' = h.to BY <1>9 DEF Running
    <2> QED BY <2>1, <2>2, <2>3, <2>4 DEF Answers
  <1>23. Tagged' BY <1>3, <1>6, <1>19, <1>10 DEF Tagged
  <1>24. Placed' BY <1>3, <1>6, <1>19 DEF Placed
  <1>25. AnswerOwn'
    <2>1. \A p \in 1..MaxIds : NoAnswer[p] = None BY DEF NoAnswer
    <2> QED BY <2>1, <1>9, <1>2, <1>3, <1>5, <1>21, <1>7 DEF AnswerOwn, Running
  <1>26. AtPlace'
    <2>1. at # "tag"
      <3>1. ASSUME at = "tag" PROVE FALSE
        <4>1. left # {} /\ Told[Turn] # None BY <3>1, <1>6, <1>19 DEF AtPlace
        <4>2. Turn \in 1..MaxIds BY <4>1, <1>6, <1>19, TurnIs DEF Typed
        <4> QED BY <4>1, <4>2, <1>20 DEF NoAnswer
      <3> QED BY <3>1
    <2> QED BY <2>1, <1>3, <1>6, <1>19 DEF AtPlace
  <1>27. Zeroed' BY <1>3, <1>6, <1>19, <1>10 DEF Zeroed
  <1>28. Coming'
    <2>1. Places \subseteq 1..MaxIds BY <1>6, <1>19, PlaceIs
    <2>2. Running => \A p \in Places : Answers(p)' <=> Answers(p) BY <2>1, <1>22
    <2> QED BY <2>2, <1>3, <1>6, <1>19, <1>10 DEF Coming
  <1>29. Freshly' BY <1>3, <1>6, <1>19, <1>10 DEF Freshly
  <1>30. Early' BY <1>3, <1>6, <1>19, <1>10 DEF Early
  <1> QED BY <1>23, <1>24, <1>25, <1>26, <1>27, <1>28, <1>29, <1>30 DEF CardInv

LEMMA DmaDir ==
  ASSUME HostInv, dma # <<>>, DmaStep, Head(dma).op = "dir", NEW e \in DOMAIN Head(dma).to,
         dir' = [dir EXCEPT ![e] = Head(dma).to[e]],
         dma' = Dirs([x \in DOMAIN Head(dma).to \ {e} |-> Head(dma).to[x]]) \o Tail(dma),
         UNCHANGED <<answer, bytes, tag, served, stale>>
  PROVE  StepKeeps
PROOF
  <1> DEFINE h == Head(dma)
             R == ToSet(Tail(dma))
             D == DOMAIN h.to \ {e}
             d == [x \in D |-> h.to[x]]
             g == Dir(d)
             t == Tail(dma)
  <1>1. /\ h \in Write /\ t \in Seq(Write) /\ InLine(t)
        /\ Writes = {h} \cup R /\ R \subseteq Write /\ \A v \in R : May(h, v)
    BY DmaFirst
  <1>2. /\ h.op = "dir" /\ dir' = [dir EXCEPT ![e] = h.to[e]] /\ e \in DOMAIN h.to
        /\ dma' = Dirs(d) \o t
    OBVIOUS
  <1>3. /\ UNCHANGED <<seq, row, done, slotOf, pending, fresh, armed, used, placed>>
        /\ UNCHANGED <<on, posts, at, seen, left, reg, misled>>
        /\ OnTheWay' = OnTheWay /\ InSlots' = InSlots /\ (\A x : Home(x)' = Home(x))
        /\ (Running' <=> Running) /\ Turn' = Turn /\ Places' = Places /\ \A p : Own(p)' = Own(p)
    BY DmaSame
  <1>4. DOMAIN d = D /\ (\A x \in D : d[x] = h.to[x]) /\ ToSet(t) = R OBVIOUS
  <1>5. D \subseteq DOMAIN h.to /\ e \notin D /\ \A x \in DOMAIN h.to : x = e \/ x \in D OBVIOUS
  <1>6. DOMAIN h.to \subseteq Expert /\ \A x \in DOMAIN h.to : h.to[x] \in SlotOrNone
    <2>1. h \in DirWrite BY <1>1, <1>2, WriteIs
    <2>2. PICK E \in SUBSET Expert : h.to \in [E -> SlotOrNone] BY <2>1 DEF DirWrite
    <2> QED BY <2>2
  <1>7. g \in Write /\ g.op = "dir" /\ g.to = d
    <2>1. D \in SUBSET Expert /\ d \in [D -> SlotOrNone] BY <1>6
    <2> HIDE DEF D, d
    <2>2. g.op = "dir" /\ g.to = d BY DEF Dir
    <2>3. g \in DirWrite BY <2>1 DEF DirWrite, Dir
    <2> QED BY <2>2, <2>3 DEF Write
  <1> HIDE DEF h, R, t, g, d, D
  <1>8. \A v \in R : v.op = "served" BY <1>1, <1>2 DEF May
  <1>9. \A v \in R : May(g, v) BY <1>7, <1>8 DEF May
  <1>10. /\ dma' \in Seq(Write) /\ InLine(dma')
         /\ Writes' = (IF D = {} THEN {} ELSE {g}) \cup R
    <2>1. CASE D = {}
      <3>1. Dirs(d) = <<>> BY <2>1, <1>4 DEF Dirs
      <3>2. <<>> \o t = t BY <1>1
      <3>3. dma' = t BY <1>2, <3>1, <3>2
      <3> QED BY <1>1, <1>4, <2>1, <3>3 DEF Writes
    <2>2. CASE D # {}
      <3>1. Dirs(d) = <<g>> BY <2>2, <1>4 DEF Dirs, g
      <3>2. <<g>> \in Seq(Write) /\ InLine(<<g>>) /\ ToSet(<<g>>) = {g} BY <1>7, OneWrite
      <3>3. \A w \in ToSet(<<g>>), v \in ToSet(t) : May(w, v) BY <3>2, <1>4, <1>9
      <3>4. /\ <<g>> \o t \in Seq(Write) /\ InLine(<<g>> \o t)
            /\ ToSet(<<g>> \o t) = ToSet(<<g>>) \cup ToSet(t)
        BY <1>1, <3>2, <3>3, ConcatWrites
      <3> QED BY <3>1, <3>2, <3>4, <1>2, <1>4, <2>2 DEF Writes
    <2> QED BY <2>1, <2>2
  <1>11. /\ \A w \in Writes' : w \in R \/ (w = g /\ D # {})
         /\ \A w \in R : w \in Writes /\ w \in Writes'
         /\ h \in Writes /\ (\A w \in Writes : w = h \/ w \in R)
         /\ D # {} => g \in Writes'
    BY <1>1, <1>10
  <1>12. /\ \A w \in Writes' : w.op \in {"dir", "served"} /\ (w.op = "dir" => w = g /\ D # {})
         /\ \A w \in Writes : w.op \in {"dir", "served"} /\ (w.op = "dir" => w = h)
    BY <1>2, <1>7, <1>8, <1>11
  <1>13. /\ \A s : (TagSent(s)' <=> TagSent(s)) /\ (Clearing(s)' <=> Clearing(s))
         /\ \A p : AnswerSent(p)' <=> AnswerSent(p)
    BY <1>12 DEF TagSent, Clearing, AnswerSent
  <1>14. Typed /\ Slotted /\ Counted /\ Polled /\ Directed /\ Sending /\ Landed BY DEF HostInv
  <1>15. \A x \in DOMAIN h.to : h.to[x] = Home(x) /\ (h.to[x] # None => dir[x] = None)
    BY <1>2, <1>11, <1>14 DEF Directed
  <1>16. dir \in [Expert -> SlotOrNone] /\ e \in Expert BY <1>2, <1>6, <1>14 DEF Typed
  <1>17. dir'[e] = Home(e) /\ \A x \in Expert : x # e => dir'[x] = dir[x] BY <1>2, <1>15, <1>16
  <1>18. Typed'
    <2>1. dir' \in [Expert -> SlotOrNone] BY <1>2, <1>6, <1>16
    <2> QED BY <2>1, <1>3, <1>10, <1>14 DEF Typed
  <1>19. Slotted' BY <1>3, <1>14 DEF Slotted
  <1>20. Counted'
    <2>1. \A w \in Writes' : w.op = "served" => w \in Writes BY <1>7, <1>11
    <2>2. \A w \in Writes : w.op = "served" => w \in Writes' BY <1>2, <1>11
    <2> QED BY <2>1, <2>2, <1>3, <1>14 DEF Counted
  <1>21. Polled'
    <2>1. ASSUME served = done, NEW w \in Writes'
          PROVE  /\ w.op \in {"part", "tag", "dir"}
                 /\ w.op = "dir" => \A x \in DOMAIN w.to : x \in fresh /\ w.to[x] # None
      <3>1. \A x \in DOMAIN h.to : x \in fresh /\ h.to[x] # None BY <2>1, <1>2, <1>11, <1>14 DEF Polled
      <3>2. w \notin R
        <4>1. \A v \in Writes : v.op # "served" BY <2>1, <1>14 DEF Polled
        <4> QED BY <4>1, <1>8, <1>11
      <3>3. w = g BY <3>2, <1>11
      <3> QED BY <3>1, <3>3, <1>4, <1>5, <1>7
    <2> QED BY <2>1, <1>3, <1>10, <1>14 DEF Polled
  <1>22. Directed'
    <2>1. ASSUME NEW w \in Writes', w.op = "dir", NEW x \in DOMAIN w.to
          PROVE  w.to[x] = Home(x) /\ (w.to[x] # None => dir'[x] = None)
      <3>1. w = g /\ x \in D BY <2>1, <1>4, <1>7, <1>12
      <3>2. x \in DOMAIN h.to /\ w.to[x] = h.to[x] /\ x # e BY <3>1, <1>4, <1>5, <1>7
      <3>3. dir'[x] = dir[x] BY <3>2, <1>6, <1>17
      <3> QED BY <3>2, <3>3, <1>15
    <2>2. ASSUME NEW x \in Expert, \A w \in Writes' : w.op = "dir" => x \notin DOMAIN w.to
          PROVE  dir'[x] = Home(x)
      <3>1. CASE x = e BY <3>1, <1>17
      <3>2. CASE x # e
        <4>1. x \notin D BY <2>2, <1>4, <1>7, <1>11
        <4>2. x \notin DOMAIN h.to BY <4>1, <3>2, <1>5
        <4>3. \A w \in Writes : w.op = "dir" => x \notin DOMAIN w.to BY <4>2, <1>12
        <4>4. dir[x] = Home(x) BY <4>3, <1>14 DEF Directed
        <4> QED BY <4>4, <3>2, <1>17
      <3> QED BY <3>1, <3>2
    <2> QED BY <2>1, <2>2, <1>3 DEF Directed
  <1>23. Sending' BY <1>12 DEF Sending
  <1>24. Landed'
    <2>1. \A x, p : Part(slotOf[x], p, x).op = "part" BY DEF Part
    <2>2. \A x, p : There(x, p) => There(x, p)' BY <2>1, <1>3, <1>12 DEF There
    <2> QED BY <2>2, <1>3, <1>14 DEF Landed
  <1>25. HostInv' BY <1>18, <1>19, <1>20, <1>21, <1>22, <1>23, <1>24 DEF HostInv
  <1> SUFFICES ASSUME CardInv, ~ misled' PROVE CardInv'
    BY <1>25 DEF StepKeeps
  <1>26. AtPlace
    BY DEF CardInv
  <1>27. Tagged' /\ Placed' /\ AnswerOwn' /\ Zeroed' /\ Coming' /\ Freshly' /\ Early'
    <2>1. \A x \in Expert : dir'[x] = dir[x] \/ dir'[x] = Home(x) BY <1>17
    <2>2. \A w \in Writes' : w.op \in {"answer", "notags"} => w \in Writes BY <1>12
    <2> QED BY <2>1, <2>2, <1>13, DmaCard
  <1>28. AtPlace' BY SameTold, <1>3, <1>14, <1>26 DEF AtPlace
  <1> QED BY <1>27, <1>28 DEF CardInv

LEMMA DmaKeeps ==
  ASSUME HostInv, Dma
  PROVE  StepKeeps
PROOF
  <1>1. dma # <<>> /\ DmaStep BY DEF Dma, DmaStep
  <1> QED BY <1>1, DmaPart, DmaTag, DmaNoTags, DmaAnswer, DmaDir, DmaServed DEF Dma

----------------------------------------------------------------------------
(* With no write on its way, the DRAM is as the host takes it to be.       *)
LEMMA Quiet ==
  ASSUME HostInv, dma = <<>>
  PROVE  /\ Writes = {} /\ served = done
         /\ \A e \in Expert : dir[e] = Home(e)
         /\ \A s : ~ TagSent(s) /\ ~ Clearing(s)
         /\ \A p : ~ AnswerSent(p) /\ (Answers(p) <=> Told[p] # None)
         /\ \A e \in InSlots \ OnTheWay, p \in 1..Parts : bytes[slotOf[e]][p] = e
         /\ \A q \in ToSet(pending), p \in 1..Parts : p <= q.sent => bytes[slotOf[q.e]][p] = q.e
PROOF
  <1>1. Writes = {} BY DEF Writes, ToSet
  <1>2. served = done BY <1>1 DEF HostInv, Counted
  <1>3. \A e \in Expert : dir[e] = Home(e) BY <1>1 DEF HostInv, Directed
  <1>4. \A s : ~ TagSent(s) /\ ~ Clearing(s) BY <1>1 DEF TagSent, Clearing
  <1>5. \A p : ~ AnswerSent(p) /\ (Answers(p) <=> Told[p] # None) BY <1>1 DEF AnswerSent, Answers
  <1>6. \A e, p : There(e, p) <=> bytes[slotOf[e]][p] = e BY <1>1 DEF There
  <1>7. Landed BY DEF HostInv
  <1> QED BY <1>1, <1>2, <1>3, <1>4, <1>5, <1>6, <1>7 DEF Landed

LEMMA NoneWritten ==
  ASSUME dma' = <<>>
  PROVE  /\ Writes' = {} /\ dma' \in Seq(Write) /\ InLine(dma')
         /\ \A s : ~ TagSent(s)' /\ ~ Clearing(s)'
         /\ \A p : ~ AnswerSent(p)'
PROOF
  <1>1. Writes' = {} /\ dma' \in Seq(Write) /\ InLine(dma') BY NoWrite DEF Writes
  <1> QED BY <1>1 DEF TagSent, Clearing, AnswerSent

LEMMA PollHoldsKeeps ==
  ASSUME HostInv, PollHolds
  PROVE  StepKeeps
PROOF
  <1>1. /\ dma = <<>> /\ dma' = dma /\ seq = done /\ fresh' = {}
        /\ UNCHANGED <<seq, row, served, answer, dir, bytes, tag>>
        /\ UNCHANGED <<done, slotOf, pending, armed, used, placed>>
        /\ UNCHANGED <<on, posts, at, seen, left, reg, stale, misled>>
    BY DEF PollHolds, dram, card, past
  <1>2. /\ Writes' = Writes /\ Writes = {}
        /\ \A s : (TagSent(s)' <=> TagSent(s)) /\ (Clearing(s)' <=> Clearing(s))
        /\ \A p : AnswerSent(p)' <=> AnswerSent(p)
    BY <1>1, SameWrites, Quiet
  <1>3. OnTheWay' = OnTheWay /\ InSlots' = InSlots /\ \A e : Home(e)' = Home(e)
    BY <1>1, SameSlots
  <1>4. /\ Ids' = Ids /\ Places' = Places /\ Turn' = Turn
        /\ (\A p : Own(p)' = Own(p) /\ (Read(p)' <=> Read(p)) /\ (Answers(p)' <=> Answers(p)))
        /\ (Running' <=> Running) /\ (Over' <=> Over) /\ NoAnswer' = NoAnswer /\ Told' = Told
    BY <1>1, <1>2, SameTold DEF Ids, Places, Turn, Own, Read, Answers, Running, Over
  <1>5. ToTake' = ToTake BY <1>1, <1>4 DEF ToTake
  <1>6. Typed /\ Slotted /\ Counted /\ Polled /\ Directed /\ Sending /\ Landed BY DEF HostInv
  <1>7. Typed' BY <1>1, <1>6 DEF Typed
  <1>8. Slotted' BY <1>1, <1>3, <1>6 DEF Slotted
  <1>9. Counted' BY <1>1, <1>2, <1>4, <1>6 DEF Counted
  <1>10. Polled' BY <1>1, <1>2, <1>6 DEF Polled
  <1>11. Directed' BY <1>1, <1>2, <1>3, <1>6 DEF Directed
  <1>12. Sending' BY <1>2 DEF Sending
  <1>13. \A e, p : There(e, p)' <=> There(e, p) BY <1>1, <1>2 DEF There
  <1>14. Landed' BY <1>1, <1>3, <1>6, <1>13 DEF Landed
  <1>15. HostInv' BY <1>7, <1>8, <1>9, <1>10, <1>11, <1>12, <1>14 DEF HostInv
  <1> SUFFICES ASSUME CardInv, ~ misled' PROVE CardInv'
    BY <1>15 DEF StepKeeps
  <1>16. Tagged /\ Placed /\ AnswerOwn /\ AtPlace /\ Zeroed /\ Coming /\ Freshly /\ Early
    BY DEF CardInv
  <1>17. Tagged' BY <1>1, <1>2, <1>3, <1>4, <1>6, <1>16 DEF Tagged
  <1>18. Placed' BY <1>1, <1>3, <1>4, <1>6, <1>16 DEF Placed
  <1>19. AnswerOwn' BY <1>1, <1>2, <1>4, <1>6, <1>16 DEF AnswerOwn
  <1>20. AtPlace' BY <1>1, <1>4, <1>6, <1>16 DEF AtPlace
  <1>21. Zeroed' BY <1>1, <1>2, <1>4, <1>5, <1>6, <1>16 DEF Zeroed
  <1>22. Coming' BY <1>1, <1>2, <1>3, <1>4, <1>5, <1>6, <1>16 DEF Coming
  <1>23. Freshly' BY <1>1 DEF Freshly
  <1>24. Early' BY <1>1 DEF Early, Unserved
  <1> QED BY <1>17, <1>18, <1>19, <1>20, <1>21, <1>22, <1>23, <1>24 DEF CardInv

LEMMA ReleaseKeeps ==
  ASSUME HostInv, Release
  PROVE  StepKeeps
PROOF
  <1>1. /\ ~ on /\ placed' = {} /\ dma' = dma
        /\ UNCHANGED <<seq, row, served, answer, dir, bytes, tag>>
        /\ UNCHANGED <<done, slotOf, pending, fresh, armed, used>>
        /\ UNCHANGED <<on, posts, at, seen, left, reg, stale, misled>>
    BY DEF Release, dram, card, past
  <1>2. /\ Writes' = Writes
        /\ \A s : (TagSent(s)' <=> TagSent(s)) /\ (Clearing(s)' <=> Clearing(s))
    BY <1>1, SameWrites
  <1>3. OnTheWay' = OnTheWay /\ InSlots' = InSlots /\ \A e : Home(e)' = Home(e)
    BY <1>1, SameSlots
  <1>4. Typed /\ Slotted /\ Counted /\ Polled /\ Directed /\ Sending /\ Landed BY DEF HostInv
  <1>5. at = "free" BY <1>1, <1>4 DEF Counted
  <1>6. ~ Running /\ ~ Running' BY <1>1, <1>5 DEF Running
  <1>7. (Over' <=> Over) /\ (Unserved' <=> Unserved) /\ Ids' = Ids BY <1>1 DEF Over, Unserved, Ids
  <1>8. Typed' BY <1>1, <1>4 DEF Typed
  <1>9. Slotted' BY <1>1, <1>3, <1>4 DEF Slotted
  <1>10. Counted' BY <1>1, <1>2, <1>4, <1>6 DEF Counted
  <1>11. Polled' BY <1>1, <1>2, <1>4 DEF Polled
  <1>12. Directed' BY <1>1, <1>2, <1>3, <1>4 DEF Directed
  <1>13. Sending' BY <1>1, <1>2, <1>3, <1>4 DEF Sending
  <1>14. \A e, p : There(e, p)' <=> There(e, p) BY <1>1, <1>2 DEF There
  <1>15. Landed' BY <1>1, <1>3, <1>4, <1>14 DEF Landed
  <1>16. HostInv' BY <1>8, <1>9, <1>10, <1>11, <1>12, <1>13, <1>15 DEF HostInv
  <1> SUFFICES ASSUME CardInv, ~ misled' PROVE CardInv'
    BY <1>16 DEF StepKeeps
  <1>17. Tagged /\ AnswerOwn /\ Freshly /\ Early
    BY DEF CardInv
  <1>18. Tagged' BY <1>1, <1>2, <1>3, <1>4, <1>17, <1>7 DEF Tagged
  <1>19. Placed' /\ Zeroed' /\ Coming' BY <1>6 DEF Placed, Zeroed, Coming
  <1>20. AnswerOwn'
    <2>1. Told' = Told /\ NoAnswer' = NoAnswer BY <1>1, SameTold
    <2>2. Places' = Places /\ \A p : Own(p)' = Own(p) BY <1>1 DEF Places, Own
    <2> QED BY <2>1, <2>2, <1>1, <1>2, <1>4, <1>17, <1>6 DEF AnswerOwn
  <1>21. AtPlace' BY <1>1, <1>5, <1>6 DEF AtPlace
  <1>22. Freshly' BY <1>1, <1>2, <1>3, <1>4, <1>17, <1>6, <1>7 DEF Freshly
  <1>23. Early' BY <1>1, <1>2, <1>3, <1>4, <1>17, <1>7 DEF Early
  <1> QED BY <1>18, <1>19, <1>20, <1>21, <1>22, <1>23 DEF CardInv

LEMMA StartsKeeps ==
  ASSUME HostInv, Starts
  PROVE  StepKeeps
PROOF
  <1>1. /\ ~ on /\ dma = <<>> /\ dma' = dma /\ on' = TRUE /\ posts' = 0
        /\ UNCHANGED <<row, answer, dir, bytes, tag>>
        /\ UNCHANGED <<slotOf, pending, fresh, armed, used, placed>>
        /\ UNCHANGED <<at, seen, left, reg, stale, misled>>
    BY DEF Starts, past
  <1>2. /\ Writes = {} /\ Writes' = Writes /\ served = done
        /\ \A s : (TagSent(s)' <=> TagSent(s)) /\ (Clearing(s)' <=> Clearing(s))
    BY <1>1, SameWrites, Quiet
  <1>3. OnTheWay' = OnTheWay /\ InSlots' = InSlots /\ \A e : Home(e)' = Home(e)
    BY <1>1, SameSlots
  <1>4. Typed /\ Slotted /\ Counted /\ Polled /\ Directed /\ Sending /\ Landed BY DEF HostInv
  <1>5. at = "free" BY <1>1, <1>4 DEF Counted
  <1>6. ~ Running /\ ~ Running' BY <1>1, <1>5 DEF Running
  <1>7. Over /\ Over' /\ Ids' = Ids BY <1>1, <1>5 DEF Over, Ids
  <1>8. seq \in Nat /\ done \in Nat /\ served \in Nat /\ done <= seq /\ seq <= done + 1
    BY <1>4 DEF Typed, Counted
  <1>9. \/ seq' = 0 /\ served' = 0 /\ done' = 0
        \/ done < RebaseAt /\ seq' = seq /\ served' = served /\ done' = done
    BY <1>8, ExpertsAssumption DEF Starts
  <1>10. seq' # done' <=> seq # done BY <1>8, <1>9 DEF Starts, Settled
  <1>11. /\ seq' \in Nat /\ done' \in Nat /\ served' = done' /\ done' <= seq' /\ seq' <= done' + 1
         /\ seq' <= RebaseAt /\ (seq' # done' => seq # done)
    BY <1>2, <1>8, <1>9, ExpertsAssumption
  <1>12. Typed'
    <2>1. posts' \in Nat /\ on' \in BOOLEAN BY <1>1
    <2> QED BY <2>1, <1>1, <1>4, <1>11 DEF Typed
  <1>13. Slotted' BY <1>1, <1>3, <1>4 DEF Slotted
  <1>14. Counted'
    <2>1. seq' <= RebaseAt + posts' /\ posts' <= PostsPerRun /\ served' <= done'
      BY <1>1, <1>11, ExpertsAssumption
    <2> QED BY <2>1, <1>1, <1>2, <1>5, <1>6, <1>11 DEF Counted
  <1>15. Polled' BY <1>1, <1>2, <1>4, <1>11 DEF Polled
  <1>16. Directed' BY <1>1, <1>2, <1>3, <1>4 DEF Directed
  <1>17. Sending' BY <1>2 DEF Sending
  <1>18. \A e, p : There(e, p)' <=> There(e, p) BY <1>1, <1>2 DEF There
  <1>19. Landed' BY <1>1, <1>3, <1>4, <1>18 DEF Landed
  <1>20. Unserved' <=> Unserved BY <1>1, <1>5, <1>8, <1>9, <1>10 DEF Unserved
  <1>21. HostInv' BY <1>12, <1>13, <1>14, <1>15, <1>16, <1>17, <1>19 DEF HostInv
  <1> SUFFICES ASSUME CardInv, ~ misled' PROVE CardInv'
    BY <1>21 DEF StepKeeps
  <1>22. Tagged /\ AnswerOwn /\ Freshly /\ Early
    BY DEF CardInv
  <1>23. Tagged' BY <1>1, <1>2, <1>3, <1>4, <1>22, <1>7 DEF Tagged
  <1>24. Placed' /\ Zeroed' /\ Coming' BY <1>6 DEF Placed, Zeroed, Coming
  <1>25. AnswerOwn'
    <2>1. Told = NoAnswer /\ Told' = Told BY <1>1, <1>4, <1>22, <1>6, SameTold DEF AnswerOwn
    <2> QED BY <2>1, <1>2, <1>4, <1>22, ToldIs DEF AnswerOwn
  <1>26. AtPlace' BY <1>1, <1>5, <1>6 DEF AtPlace
  <1>27. Freshly' BY <1>1, <1>2, <1>3, <1>4, <1>22, <1>6, <1>7, <1>20 DEF Freshly
  <1>28. Early' BY <1>1, <1>2, <1>3, <1>4, <1>22, <1>7, <1>20 DEF Early
  <1> QED BY <1>23, <1>24, <1>25, <1>26, <1>27, <1>28 DEF CardInv

LEMMA PlaceKeeps ==
  ASSUME HostInv, NEW s \in Slot, Place(s)
  PROVE  StepKeeps
PROOF
  <1> DEFINE out == {e \in InSlots : slotOf[e] = s}
  <1>1. /\ ~ on /\ dma = <<>> /\ seq = done /\ placed = {} /\ dma' = dma
        /\ slotOf' = [e \in Expert |-> IF e \in OnTheWay \cup out THEN None ELSE slotOf[e]]
        /\ dir' = [e \in Expert |-> IF e \in out THEN None ELSE dir[e]]
        /\ tag' = (IF s \in armed \ used THEN [tag EXCEPT ![s] = None] ELSE tag)
        /\ armed' = (armed \ used) \ {s} /\ used' = {}
        /\ bytes' = [bytes EXCEPT ![s] = NoBytes]
        /\ placed' = {s} /\ pending' = <<>>
        /\ UNCHANGED <<seq, row, served, answer, done, fresh>>
        /\ UNCHANGED <<on, posts, at, seen, left, reg, stale, misled>>
    BY DEF Place, Settled, card, past
  <1>2. /\ Writes = {} /\ served = done
        /\ \A e \in Expert : dir[e] = Home(e)
        /\ \A t : ~ TagSent(t) /\ ~ Clearing(t)
        /\ \A e \in InSlots \ OnTheWay, p \in 1..Parts : bytes[slotOf[e]][p] = e
    BY <1>1, Quiet
  <1>3. /\ Writes' = {} /\ dma' \in Seq(Write) /\ InLine(dma')
        /\ \A t : ~ TagSent(t)' /\ ~ Clearing(t)'
    BY <1>1, NoneWritten
  <1>4. Typed /\ Slotted /\ Counted BY DEF HostInv
  <1>5. at = "free" BY <1>1, <1>4 DEF Counted
  <1>6. ~ Running /\ ~ Running' /\ Over BY <1>1, <1>5 DEF Running, Over
  <1>7. OnTheWay' = {} BY <1>1 DEF OnTheWay, ToSet
  <1>8. \A e \in Expert : slotOf'[e] = (IF e \in OnTheWay \cup out THEN None ELSE slotOf[e])
    BY <1>1
  <1>9. \A e \in InSlots' : e \in InSlots \ OnTheWay /\ slotOf'[e] = slotOf[e] /\ slotOf[e] # s
    <2> SUFFICES ASSUME NEW e \in Expert, slotOf'[e] # None
        PROVE  e \in InSlots \ OnTheWay /\ slotOf'[e] = slotOf[e] /\ slotOf[e] # s
      BY DEF InSlots
    <2>1. e \notin OnTheWay /\ e \notin out /\ slotOf'[e] = slotOf[e] BY <1>8
    <2> QED BY <2>1 DEF InSlots
  <1>10. \A e \in Expert : Home(e)' = slotOf'[e] BY <1>7 DEF Home
  <1>11. tag \in [Slot -> Expert \cup {None}] BY <1>4 DEF Typed
  <1>12. \A t \in Slot : /\ t # s => tag'[t] = tag[t]
                         /\ tag'[t] = None \/ (tag'[t] = tag[t] /\ (t = s => s \notin armed \ used))
    <2>1. CASE s \in armed \ used
      <3>1. tag' = [tag EXCEPT ![s] = None] BY <2>1, <1>1
      <3> QED BY <3>1, <1>11
    <2>2. CASE s \notin armed \ used
      <3>1. tag' = tag BY <2>2, <1>1
      <3> QED BY <2>2, <3>1
    <2> QED BY <2>1, <2>2
  <1>13. Typed'
    <2>1. slotOf' \in [Expert -> SlotOrNone]
      <3>1. \A e \in Expert : slotOf'[e] \in SlotOrNone BY <1>4, <1>8 DEF Typed, SlotOrNone
      <3> QED BY <3>1, <1>1
    <2>2. dir' \in [Expert -> SlotOrNone]
      <3>1. dir \in [Expert -> SlotOrNone] BY <1>4 DEF Typed
      <3> QED BY <3>1, <1>1 DEF SlotOrNone
    <2>3. tag' \in [Slot -> Expert \cup {None}] BY <1>1, <1>11
    <2>4. bytes' \in [Slot -> [1..Parts -> Expert \cup {None}]]
      <3>1. bytes \in [Slot -> [1..Parts -> Expert \cup {None}]] BY <1>4 DEF Typed
      <3>2. NoBytes \in [1..Parts -> Expert \cup {None}] BY DEF NoBytes
      <3> QED BY <3>1, <3>2, <1>1
    <2>5. pending' \in Seq(Hint) BY <1>1
    <2>6. armed' \subseteq Slot /\ used' \subseteq Slot /\ placed' \subseteq Slot BY <1>1, <1>4 DEF Typed
    <2> QED BY <2>1, <2>2, <2>3, <2>4, <2>5, <2>6, <1>1, <1>3, <1>4 DEF Typed
  <1>14. Slotted'
    <2>1. DOMAIN pending' = {} BY <1>1
    <2>2. \A e, f \in InSlots' : slotOf'[e] = slotOf'[f] => e = f BY <1>4, <1>9 DEF Slotted
    <2>3. \A e \in InSlots' : slotOf'[e] \notin placed' BY <1>1, <1>9
    <2> QED BY <2>1, <2>2, <2>3, <1>7 DEF Slotted
  <1>15. Counted' BY <1>1, <1>2, <1>3, <1>4, <1>6 DEF Counted
  <1>16. Polled' BY <1>1, <1>2, <1>3 DEF Polled
  <1>17. Directed'
    <2>1. ASSUME NEW e \in Expert PROVE dir'[e] = slotOf'[e]
      <3>1. dir[e] = (IF e \in OnTheWay THEN None ELSE slotOf[e]) BY <1>2 DEF Home
      <3>2. dir'[e] = (IF e \in out THEN None ELSE dir[e]) BY <1>1
      <3> QED BY <3>1, <3>2, <1>8
    <2> QED BY <2>1, <1>3, <1>10 DEF Directed
  <1>18. Sending' BY <1>3 DEF Sending
  <1>19. Landed'
    <2>1. ASSUME NEW e \in InSlots', NEW p \in 1..Parts PROVE There(e, p)'
      <3>1. e \in InSlots \ OnTheWay /\ slotOf'[e] = slotOf[e] /\ slotOf[e] # s BY <1>9
      <3>2. slotOf[e] \in Slot BY <3>1, <1>4 DEF InSlots, Typed, SlotOrNone
      <3>3. bytes'[slotOf[e]] = bytes[slotOf[e]] BY <3>1, <3>2, <1>1, <1>4 DEF Typed
      <3> QED BY <3>1, <3>3, <1>2 DEF There
    <2>2. ToSet(pending') = {} BY <1>1 DEF ToSet
    <2> QED BY <2>1, <2>2 DEF Landed
  <1>20. HostInv' BY <1>13, <1>14, <1>15, <1>16, <1>17, <1>18, <1>19 DEF HostInv
  <1> SUFFICES ASSUME CardInv, ~ misled' PROVE CardInv'
    BY <1>20 DEF StepKeeps
  <1>21. Tagged /\ AnswerOwn /\ Freshly
    BY DEF CardInv
  <1>22. Tagged'
    <2>1. ASSUME NEW t \in Slot, tag'[t] # None PROVE t \in armed'
      <3>1. tag[t] # None /\ (t = s => s \notin armed \ used) BY <2>1, <1>12
      <3>2. t \in armed /\ t \notin used BY <3>1, <1>2, <1>4, <1>21, <1>6 DEF Tagged
      <3> QED BY <3>1, <3>2, <1>1
    <2> QED BY <2>1, <1>1, <1>3, <1>7 DEF Tagged
  <1>23. Placed' /\ Zeroed' /\ Coming' BY <1>6 DEF Placed, Zeroed, Coming
  <1>24. AnswerOwn'
    <2>1. Told = NoAnswer /\ Told' = Told BY <1>1, <1>4, <1>21, <1>6, SameTold DEF AnswerOwn
    <2> QED BY <2>1, <1>3, <1>4, <1>21, ToldIs DEF AnswerOwn
  <1>25. AtPlace' BY <1>1, <1>5, <1>6 DEF AtPlace
  <1>26. Freshly'
    <2> SUFFICES ASSUME NEW e \in fresh
        PROVE  slotOf'[e] = None \/ tag'[slotOf'[e]] # None
      BY <1>1, <1>7 DEF Freshly
    <2>1. e \in Expert BY <1>4, <1>21 DEF Typed
    <2>2. CASE slotOf'[e] # None
      <3>1. e \in InSlots' BY <2>1, <2>2 DEF InSlots
      <3>2. e \in InSlots /\ slotOf'[e] = slotOf[e] /\ slotOf[e] # s BY <3>1, <1>9
      <3>3. slotOf[e] \in Slot /\ slotOf[e] # None BY <3>2, <1>4, <1>21 DEF InSlots, Typed, SlotOrNone
      <3>4. tag[slotOf[e]] # None BY <3>3, <1>1, <1>2, <1>4, <1>21, <1>6 DEF Freshly, Unserved
      <3> QED BY <3>2, <3>3, <3>4, <1>12
    <2> QED BY <2>2
  <1>27. Early' BY <1>1 DEF Early, Unserved
  <1> QED BY <1>22, <1>23, <1>24, <1>25, <1>26, <1>27 DEF CardInv

LEMMA InitHolds == Init => ExpertsInv
PROOF
  <1> SUFFICES ASSUME Init PROVE ExpertsInv OBVIOUS
  <1>1. /\ seq = 0 /\ served = 0 /\ done = 0 /\ row = [kind |-> "none", ids |-> <<>>]
        /\ answer = NoAnswer /\ tag = [s \in Slot |-> None] /\ dir = slotOf
        /\ dma = <<>> /\ pending = <<>> /\ fresh = {} /\ armed = {} /\ used = {} /\ placed = {}
        /\ on = FALSE /\ posts = 0 /\ at = "free" /\ seen = {} /\ left = {} /\ reg = None
        /\ stale = FALSE /\ misled = FALSE
        /\ bytes = [s \in Slot |-> [p \in 1..Parts |->
                       IF \E e \in Expert : slotOf[e] = s THEN CHOOSE e \in Expert : slotOf[e] = s
                       ELSE None]]
    BY DEF Init
  <1>2. PICK warm \in SUBSET Expert : \E to \in [warm -> Slot] :
            /\ IsInjective(to)
            /\ slotOf = [e \in Expert |-> IF e \in warm THEN to[e] ELSE None]
    BY DEF Init
  <1>3. PICK to \in [warm -> Slot] :
            /\ IsInjective(to)
            /\ slotOf = [e \in Expert |-> IF e \in warm THEN to[e] ELSE None]
    BY <1>2
  <1>4. slotOf \in [Expert -> SlotOrNone] BY <1>3 DEF SlotOrNone
  <1>5. \A e \in Expert : slotOf[e] # None => e \in warm /\ slotOf[e] = to[e] /\ slotOf[e] \in Slot
    BY <1>3
  <1>6. \A e, f \in Expert : slotOf[e] # None /\ slotOf[e] = slotOf[f] => e = f
    BY <1>3, <1>5 DEF IsInjective
  <1>7. Writes = {} /\ dma \in Seq(Write) /\ InLine(dma) BY <1>1, NoWrite DEF Writes
  <1>8. \A s : ~ TagSent(s) /\ ~ Clearing(s) BY <1>7 DEF TagSent, Clearing
  <1>9. OnTheWay = {} /\ ToSet(pending) = {} BY <1>1 DEF OnTheWay, ToSet
  <1>10. ~ Running BY <1>1 DEF Running
  <1>11. Typed
    <2>1. /\ seq \in Nat /\ done \in Nat /\ served \in Nat /\ posts \in Nat /\ on \in BOOLEAN BY <1>1
    <2>2. row \in [kind : {"none", "hint", "request"}, ids : Seq(Expert)] BY <1>1
    <2>3. Len(row.ids) <= MaxIds /\ IsInjective(row.ids) BY <1>1, ExpertsAssumption DEF IsInjective
    <2>4. answer \in [1..MaxIds -> SlotOrNone] /\ tag \in [Slot -> Expert \cup {None}]
      BY <1>1 DEF NoAnswer, SlotOrNone
    <2>5. bytes \in [Slot -> [1..Parts -> Expert \cup {None}]]
      <3>1. \A s \in Slot : (IF \E e \in Expert : slotOf[e] = s THEN CHOOSE e \in Expert : slotOf[e] = s
                             ELSE None) \in Expert \cup {None}
        OBVIOUS
      <3> QED BY <3>1, <1>1
    <2>6. pending \in Seq(Hint) BY <1>1
    <2>7. /\ fresh \subseteq Expert /\ armed \subseteq Slot /\ used \subseteq Slot /\ placed \subseteq Slot
          /\ at \in {"free", "row", "flags", "experts", "tag", "computes"}
          /\ seen \subseteq 1..MaxIds /\ left \subseteq 1..MaxIds /\ reg \in SlotOrNone
      BY <1>1 DEF SlotOrNone
    <2> QED BY <2>1, <2>2, <2>3, <2>4, <2>5, <2>6, <2>7, <1>1, <1>4, <1>7 DEF Typed
  <1>12. Slotted BY <1>1, <1>6, <1>9 DEF Slotted, InSlots
  <1>13. Counted BY <1>1, <1>7, <1>10 DEF Counted
  <1>14. Polled BY <1>1, <1>7 DEF Polled
  <1>15. Directed BY <1>1, <1>7, <1>9 DEF Directed, Home
  <1>16. Sending BY <1>7 DEF Sending
  <1>17. Landed
    <2> SUFFICES ASSUME NEW e \in InSlots, NEW p \in 1..Parts PROVE There(e, p)
      BY <1>9 DEF Landed
    <2>1. e \in Expert /\ slotOf[e] # None /\ slotOf[e] \in Slot BY <1>5 DEF InSlots
    <2>2. (CHOOSE f \in Expert : slotOf[f] = slotOf[e]) = e BY <2>1, <1>6
    <2>3. bytes[slotOf[e]][p] = e BY <1>1, <2>1, <2>2
    <2> QED BY <2>3 DEF There
  <1>18. Tagged BY <1>1, <1>8, <1>9 DEF Tagged
  <1>19. Placed /\ Zeroed /\ Coming BY <1>10 DEF Placed, Zeroed, Coming
  <1>20. AnswerOwn
    <2>1. \A p \in 1..MaxIds : NoAnswer[p] = None BY DEF NoAnswer
    <2> QED BY <2>1, <1>1, <1>7 DEF AnswerOwn, Told
  <1>21. AtPlace BY <1>1, <1>10 DEF AtPlace
  <1>22. Freshly /\ Early BY <1>1 DEF Freshly, Early, Unserved
  <1> QED BY <1>11, <1>12, <1>13, <1>14, <1>15, <1>16, <1>17, <1>18, <1>19, <1>20, <1>21, <1>22
      DEF ExpertsInv, HostInv, CardInv

(* The hinted experts, when the oldest has one more part, or all.          *)
LEMMA MoreSent ==
  ASSUME NEW s \in Seq(Hint), s # <<>>, NEW n \in 0..(Parts - 1)
  PROVE  LET r == <<[e |-> Head(s).e, sent |-> n]>> \o Tail(s)
         IN /\ r \in Seq(Hint) /\ DOMAIN r = DOMAIN s
            /\ 1 \in DOMAIN s /\ r[1] = [e |-> Head(s).e, sent |-> n]
            /\ \A i \in DOMAIN s : r[i].e = s[i].e /\ (i # 1 => r[i] = s[i])
PROOF
  <1> DEFINE q == [e |-> Head(s).e, sent |-> n]
             t == Tail(s)
             r == <<q>> \o t
  <1>1. /\ Head(s) \in Hint /\ Head(s) = s[1] /\ t \in Seq(Hint) /\ Len(s) \in Nat /\ Len(s) # 0
        /\ Len(t) = Len(s) - 1 /\ \A i \in 1..(Len(s) - 1) : t[i] = s[i + 1]
    OBVIOUS
  <1>2. q \in Hint /\ q.e = s[1].e BY <1>1 DEF Hint
  <1> HIDE DEF q, t, r
  <1>3. r = <<q>> \o t BY DEF r
  <1>4. /\ r \in Seq(Hint) /\ Len(r) = 1 + Len(t) /\ r[1] = q
        /\ \A i \in 2..(1 + Len(t)) : r[i] = t[i - 1]
    BY <1>1, <1>2, <1>3
  <1>5. \A i \in 2..Len(s) : r[i] = s[i]
    <2> SUFFICES ASSUME NEW i \in 2..Len(s) PROVE r[i] = s[i] OBVIOUS
    <2>1. i - 1 \in 1..(Len(s) - 1) /\ (i - 1) + 1 = i /\ i \in 2..(1 + Len(t)) BY <1>1
    <2> QED BY <2>1, <1>1, <1>4
  <1>6. DOMAIN r = 1..Len(s) /\ DOMAIN s = 1..Len(s) /\ \A i \in 1..Len(s) : i = 1 \/ i \in 2..Len(s)
    BY <1>1, <1>4
  <1>7. /\ r \in Seq(Hint) /\ DOMAIN r = DOMAIN s
        /\ 1 \in DOMAIN s /\ r[1] = q
        /\ \A i \in DOMAIN s : r[i].e = s[i].e /\ (i # 1 => r[i] = s[i])
    BY <1>1, <1>2, <1>4, <1>5, <1>6
  <1> QED BY <1>7 DEF q, t, r

LEMMA AllSent ==
  ASSUME NEW s \in Seq(Hint), s # <<>>, \A i, j \in DOMAIN s : s[i].e = s[j].e => i = j
  PROVE  LET t == Tail(s)
         IN /\ t \in Seq(Hint) /\ \A i, j \in DOMAIN t : t[i].e = t[j].e => i = j
            /\ \A q \in ToSet(t) : q \in ToSet(s) /\ q.e # Head(s).e
            /\ \A q \in ToSet(s) : q = Head(s) \/ q \in ToSet(t)
PROOF
  <1> DEFINE t == Tail(s)
  <1>1. /\ Head(s) = s[1] /\ t \in Seq(Hint) /\ Len(s) \in Nat /\ Len(s) # 0
        /\ DOMAIN t = 1..(Len(s) - 1) /\ DOMAIN s = 1..Len(s)
        /\ \A i \in 1..(Len(s) - 1) : t[i] = s[i + 1]
    OBVIOUS
  <1> HIDE DEF t
  <1>2. \A i \in 1..(Len(s) - 1) : i + 1 \in 1..Len(s) /\ i + 1 # 1 BY <1>1
  <1>3. ASSUME NEW i \in 1..(Len(s) - 1), NEW j \in 1..(Len(s) - 1), t[i].e = t[j].e PROVE i = j
    <2> DEFINE a == i + 1
               b == j + 1
    <2>1. a \in DOMAIN s /\ b \in DOMAIN s /\ t[i] = s[a] /\ t[j] = s[b] BY <1>1, <1>2
    <2>2. a = b => i = j OBVIOUS
    <2> HIDE DEF a, b
    <2> QED BY <2>1, <2>2, <1>3
  <1>4. \A i, j \in DOMAIN t : t[i].e = t[j].e => i = j BY <1>1, <1>3
  <1>5. \A i \in DOMAIN t : t[i] \in ToSet(s) /\ t[i].e # s[1].e
    <2>1. 1 \in DOMAIN s BY <1>1
    <2> QED BY <2>1, <1>1, <1>2, SMTT(40) DEF ToSet
  <1>6. \A i \in 1..Len(s) : i = 1 \/ (i - 1 \in 1..(Len(s) - 1) /\ (i - 1) + 1 = i) BY <1>1
  <1>7. \A i \in DOMAIN s : s[i] = s[1] \/ s[i] \in ToSet(t)
    <2> SUFFICES ASSUME NEW i \in DOMAIN s, i # 1 PROVE s[i] \in ToSet(t) OBVIOUS
    <2> DEFINE k == i - 1
    <2>1. k \in 1..(Len(s) - 1) /\ k + 1 = i BY <1>1, <1>6
    <2> HIDE DEF k
    <2>2. k \in DOMAIN t /\ t[k] = s[i] BY <2>1, <1>1
    <2> QED BY <2>2 DEF ToSet
  <1> QED BY <1>1, <1>4, <1>5, <1>7 DEF ToSet, t

(* The oldest of the hinted experts.                                       *)
LEMMA OldestIs ==
  ASSUME Typed, Slotted, pending # <<>>
  PROVE  /\ Head(pending) \in Hint /\ Head(pending) \in ToSet(pending)
         /\ Head(pending).e \in OnTheWay /\ Head(pending).e \in InSlots /\ Head(pending).e \in Expert
         /\ slotOf[Head(pending).e] \in Slot /\ Head(pending).sent \in 0..(Parts - 1)
PROOF
  <1>1. pending \in Seq(Hint) BY DEF Typed
  <1>2. Head(pending) \in Hint /\ Head(pending) = pending[1] /\ 1 \in DOMAIN pending BY <1>1
  <1>3. Head(pending) \in ToSet(pending) BY <1>2 DEF ToSet
  <1>4. Head(pending).e \in OnTheWay BY <1>3 DEF OnTheWay
  <1>5. Head(pending).e \in InSlots /\ Head(pending).e \in Expert BY <1>4 DEF Slotted, InSlots
  <1>6. slotOf[Head(pending).e] \in Slot BY <1>5 DEF Typed, SlotOrNone, InSlots
  <1> QED BY <1>2, <1>3, <1>4, <1>5, <1>6 DEF Hint

LEMMA StepsPartKeeps ==
  ASSUME HostInv, PollSteps, Head(pending).sent + 1 < Parts
  PROVE  StepKeeps
PROOF
  <1> DEFINE e == Head(pending).e
             n == Head(pending).sent + 1
             s == slotOf[e]
             g == Part(s, n, e)
  <1>1. /\ dma = <<>> /\ on /\ seq = done /\ pending # <<>>
        /\ dma' = <<g>> /\ pending' = <<[e |-> e, sent |-> n]>> \o Tail(pending)
        /\ fresh' = {} /\ UNCHANGED <<done, slotOf, armed, used, placed>>
        /\ UNCHANGED <<seq, row, served, answer, dir, bytes, tag>>
        /\ UNCHANGED <<on, posts, at, seen, left, reg, stale, misled>>
    BY DEF PollSteps, dram, card, past
  <1>2. Typed /\ Slotted /\ Counted /\ Polled /\ Directed /\ Sending /\ Landed BY DEF HostInv
  <1>3. /\ Writes = {} /\ served = done
        /\ \A x \in Expert : dir[x] = Home(x)
        /\ \A t : ~ TagSent(t) /\ ~ Clearing(t)
        /\ \A p : ~ AnswerSent(p) /\ (Answers(p) <=> Told[p] # None)
        /\ \A x \in InSlots \ OnTheWay, p \in 1..Parts : bytes[slotOf[x]][p] = x
        /\ \A q \in ToSet(pending), p \in 1..Parts : p <= q.sent => bytes[slotOf[q.e]][p] = q.e
    BY <1>1, Quiet
  <1>4. /\ Head(pending) \in ToSet(pending) /\ e \in OnTheWay /\ e \in InSlots /\ e \in Expert
        /\ s \in Slot /\ Head(pending).sent \in 0..(Parts - 1)
    BY <1>1, <1>2, OldestIs
  <1>5. Parts \in Nat /\ n \in 1..Parts /\ n \in 0..(Parts - 1) BY <1>4, ExpertsAssumption
  <1>6. pending \in Seq(Hint) BY <1>2 DEF Typed
  <1>7. /\ pending' \in Seq(Hint) /\ DOMAIN pending' = DOMAIN pending
        /\ 1 \in DOMAIN pending /\ pending'[1] = [e |-> e, sent |-> n]
        /\ \A i \in DOMAIN pending : pending'[i].e = pending[i].e /\ (i # 1 => pending'[i] = pending[i])
    <2> HIDE DEF n
    <2> DEFINE r == <<[e |-> Head(pending).e, sent |-> n]>> \o Tail(pending)
    <2>1. /\ r \in Seq(Hint) /\ DOMAIN r = DOMAIN pending
          /\ 1 \in DOMAIN pending /\ r[1] = [e |-> Head(pending).e, sent |-> n]
          /\ \A i \in DOMAIN pending : r[i].e = pending[i].e /\ (i # 1 => r[i] = pending[i])
      BY <1>1, <1>5, <1>6, MoreSent
    <2> QED BY <2>1, <1>1
  <1>8. \A p \in 1..Parts : p <= n => p <= Head(pending).sent \/ p = n BY <1>4, <1>5
  <1>9. g \in Write /\ g.op = "part" /\ g.slot = s /\ g.e = e
    BY <1>4, <1>5 DEF Part, Write, PartWrite
  <1> HIDE DEF n, g
  <1>10. dma' \in Seq(Write) /\ InLine(dma') /\ Writes' = {g} BY <1>1, <1>9, OneWrite DEF Writes
  <1>11. /\ \A t : ~ TagSent(t)' /\ ~ Clearing(t)'
         /\ \A p : ~ AnswerSent(p)'
    BY <1>9, <1>10 DEF TagSent, Clearing, AnswerSent
  <1>12. OnTheWay' = OnTheWay
    <2>1. OnTheWay = {pending[i].e : i \in DOMAIN pending} BY DEF OnTheWay, ToSet
    <2>2. OnTheWay' = {pending'[i].e : i \in DOMAIN pending} BY <1>7 DEF OnTheWay, ToSet
    <2> QED BY <2>1, <2>2, <1>7
  <1>13. /\ InSlots' = InSlots /\ (\A x : Home(x)' = Home(x))
         /\ Ids' = Ids /\ Places' = Places /\ Turn' = Turn
         /\ (\A p : Own(p)' = Own(p) /\ (Read(p)' <=> Read(p)) /\ (Answers(p)' <=> Answers(p)))
         /\ (Running' <=> Running) /\ (Over' <=> Over) /\ Told' = Told /\ NoAnswer' = NoAnswer
    BY SameTold, <1>1, <1>3, <1>11, <1>12 DEF InSlots, Home, Ids, Places, Turn, Own, Read, Answers, Running, Over
  <1>14. ToTake' = ToTake BY <1>1, <1>13 DEF ToTake
  <1>15. Typed'
    <2>1. fresh' \subseteq Expert BY <1>1
    <2> QED BY <2>1, <1>1, <1>2, <1>7, <1>10 DEF Typed
  <1>16. Slotted' BY <1>1, <1>2, <1>7, <1>12, <1>13 DEF Slotted
  <1>17. Counted' BY <1>1, <1>2, <1>3, <1>9, <1>10, <1>13 DEF Counted
  <1>18. Polled' BY <1>1, <1>9, <1>10 DEF Polled
  <1>19. Directed' BY <1>1, <1>3, <1>9, <1>10, <1>13 DEF Directed
  <1>20. Sending'
    <2>1. dir[e] = None BY <1>3, <1>4 DEF Home
    <2> QED BY <2>1, <1>1, <1>4, <1>9, <1>10, <1>12 DEF Sending
  <1>21. Landed'
    <2>1. ASSUME NEW x \in InSlots \ OnTheWay, NEW p \in 1..Parts PROVE There(x, p)'
      BY <1>1, <1>3 DEF There
    <2>2. ASSUME NEW q \in ToSet(pending'), NEW p \in 1..Parts, p <= q.sent PROVE There(q.e, p)'
      <3>1. PICK i \in DOMAIN pending : q = pending'[i] BY <1>7 DEF ToSet
      <3>2. CASE i = 1
        <4>1. q.e = e /\ q.sent = n BY <3>1, <3>2, <1>7
        <4>2. CASE p <= Head(pending).sent
          <5>1. bytes[s][p] = e BY <4>2, <1>3, <1>4
          <5> QED BY <5>1, <4>1, <1>1 DEF There
        <4>3. CASE p = n
          <5>1. Part(s, p, e) = g BY <4>3 DEF g
          <5> QED BY <5>1, <4>1, <1>1, <1>10 DEF There
        <4> QED BY <4>1, <4>2, <4>3, <2>2, <1>8
      <3>3. CASE i # 1
        <4>1. q \in ToSet(pending) BY <3>1, <3>3, <1>7 DEF ToSet
        <4>2. bytes[slotOf[q.e]][p] = q.e BY <4>1, <2>2, <1>3
        <4> QED BY <4>2, <1>1 DEF There
      <3> QED BY <3>2, <3>3
    <2>3. \A q \in ToSet(pending)', p \in 1..Parts : p <= q.sent => There(q.e, p)' BY <2>2
    <2> QED BY <2>1, <2>3, <1>12, <1>13 DEF Landed
  <1>22. HostInv' BY <1>15, <1>16, <1>17, <1>18, <1>19, <1>20, <1>21 DEF HostInv
  <1> SUFFICES ASSUME CardInv, ~ misled' PROVE CardInv'
    BY <1>22 DEF StepKeeps
  <1>23. Tagged /\ Placed /\ AnswerOwn /\ AtPlace /\ Zeroed /\ Coming
    BY DEF CardInv
  <1>24. Tagged' BY <1>1, <1>2, <1>23, <1>3, <1>11, <1>12, <1>13 DEF Tagged
  <1>25. Placed' BY <1>1, <1>2, <1>23, <1>12, <1>13 DEF Placed
  <1>26. AnswerOwn' BY <1>1, <1>2, <1>23, <1>9, <1>10, <1>13 DEF AnswerOwn
  <1>27. AtPlace' BY <1>1, <1>2, <1>23, <1>13 DEF AtPlace
  <1>28. Zeroed' BY <1>1, <1>2, <1>23, <1>11, <1>13, <1>14 DEF Zeroed
  <1>29. Coming' BY <1>1, <1>2, <1>23, <1>3, <1>11, <1>13, <1>14 DEF Coming
  <1>30. Freshly' BY <1>1 DEF Freshly
  <1>31. Early' BY <1>1 DEF Early, Unserved
  <1> QED BY <1>24, <1>25, <1>26, <1>27, <1>28, <1>29, <1>30, <1>31 DEF CardInv

LEMMA StepsLastKeeps ==
  ASSUME HostInv, PollSteps, ~ Head(pending).sent + 1 < Parts
  PROVE  StepKeeps
PROOF
  <1> DEFINE e == Head(pending).e
             n == Head(pending).sent + 1
             s == slotOf[e]
             d == [x \in {e} |-> s]
             g == Part(s, n, e)
             t == Tag(s, e)
             h == Dir(d)
  <1>1. /\ dma = <<>> /\ on /\ seq = done /\ pending # <<>>
        /\ dma' = <<g, t, h>> /\ pending' = Tail(pending)
        /\ fresh' = {e} /\ armed' = armed \cup {s} /\ UNCHANGED <<done, slotOf, used, placed>>
        /\ UNCHANGED <<seq, row, served, answer, dir, bytes, tag>>
        /\ UNCHANGED <<on, posts, at, seen, left, reg, stale, misled>>
    BY DEF PollSteps, dram, card, past
  <1>2. Typed /\ Slotted /\ Counted /\ Polled /\ Directed /\ Sending /\ Landed BY DEF HostInv
  <1>3. /\ Writes = {} /\ served = done
        /\ \A x \in Expert : dir[x] = Home(x)
        /\ \A r : ~ TagSent(r) /\ ~ Clearing(r)
        /\ \A p : ~ AnswerSent(p) /\ (Answers(p) <=> Told[p] # None)
        /\ \A x \in InSlots \ OnTheWay, p \in 1..Parts : bytes[slotOf[x]][p] = x
        /\ \A q \in ToSet(pending), p \in 1..Parts : p <= q.sent => bytes[slotOf[q.e]][p] = q.e
    BY <1>1, Quiet
  <1>4. /\ Head(pending) \in ToSet(pending) /\ e \in OnTheWay /\ e \in InSlots /\ e \in Expert
        /\ s \in Slot /\ Head(pending).sent \in 0..(Parts - 1)
    BY <1>1, <1>2, OldestIs
  <1>5. n = Parts /\ n \in 1..Parts /\ \A p \in 1..Parts : p <= Head(pending).sent \/ p = n
    BY <1>4, ExpertsAssumption
  <1>6. pending \in Seq(Hint) /\ \A i, j \in DOMAIN pending : pending[i].e = pending[j].e => i = j
    BY <1>2 DEF Typed, Slotted
  <1>7. /\ pending' \in Seq(Hint)
        /\ \A i, j \in DOMAIN pending' : pending'[i].e = pending'[j].e => i = j
        /\ \A q \in ToSet(pending') : q \in ToSet(pending) /\ q.e # e
        /\ \A q \in ToSet(pending) : q = Head(pending) \/ q \in ToSet(pending')
    BY <1>1, <1>6, AllSent
  <1>8. /\ g \in Write /\ g.op = "part" /\ g.slot = s /\ g.e = e
        /\ t \in Write /\ t.op = "tag" /\ t.slot = s /\ t.e = e
        /\ h \in Write /\ h.op = "dir" /\ h.to = d /\ DOMAIN d = {e} /\ d[e] = s
    <2>1. g \in Write /\ g.op = "part" /\ g.slot = s /\ g.e = e
      BY <1>4, <1>5 DEF Part, Write, PartWrite
    <2>2. t \in Write /\ t.op = "tag" /\ t.slot = s /\ t.e = e
      BY <1>4 DEF Tag, Write, TagWrite
    <2>3. d \in [{e} -> SlotOrNone] /\ {e} \in SUBSET Expert BY <1>4 DEF SlotOrNone
    <2>4. h.op = "dir" /\ h.to = d /\ DOMAIN d = {e} /\ d[e] = s BY DEF Dir
    <2> HIDE DEF d
    <2>5. h \in DirWrite BY <2>3 DEF Dir, DirWrite
    <2> QED BY <2>1, <2>2, <2>4, <2>5 DEF Write
  <1> HIDE DEF n, g, t, h, d
  <1>9. dma' \in Seq(Write) /\ Writes' = {g, t, h}
    <2>1. dma' \in Seq(Write) BY <1>1, <1>8
    <2>2. ToSet(<<g, t, h>>) = {g, t, h} BY DEF ToSet
    <2> QED BY <2>1, <2>2, <1>1 DEF Writes
  <1>10. InLine(dma')
    <2>1. May(g, t) /\ May(g, h) /\ May(t, h) BY <1>8 DEF May
    <2>2. \A i, j \in 1..3 : i < j => (i = 1 /\ j = 2) \/ (i = 1 /\ j = 3) \/ (i = 2 /\ j = 3) OBVIOUS
    <2>3. dma'[1] = g /\ dma'[2] = t /\ dma'[3] = h /\ DOMAIN dma' = 1..3 BY <1>1
    <2> QED BY <2>1, <2>2, <2>3 DEF InLine
  <1>11. /\ \A r : (TagSent(r)' <=> r = s) /\ ~ Clearing(r)'
         /\ \A p : ~ AnswerSent(p)'
    BY <1>8, <1>9 DEF TagSent, Clearing, AnswerSent
  <1>12. OnTheWay' = OnTheWay \ {e} BY <1>7 DEF OnTheWay
  <1>13. /\ InSlots' = InSlots
         /\ Ids' = Ids /\ Places' = Places /\ Turn' = Turn
         /\ (\A p : Own(p)' = Own(p) /\ (Read(p)' <=> Read(p)) /\ (Answers(p)' <=> Answers(p)))
         /\ (Running' <=> Running) /\ (Over' <=> Over) /\ Told' = Told /\ NoAnswer' = NoAnswer
    BY SameTold, <1>1, <1>3, <1>11 DEF InSlots, Ids, Places, Turn, Own, Read, Answers, Running, Over
  <1>14. ToTake' = ToTake BY <1>1, <1>13 DEF ToTake
  <1>15. \A x : Home(x)' = (IF x = e THEN s ELSE Home(x)) BY <1>1, <1>12 DEF Home
  <1>16. Typed'
    <2>1. fresh' \subseteq Expert /\ armed' \subseteq Slot BY <1>1, <1>2, <1>4 DEF Typed
    <2> QED BY <2>1, <1>1, <1>2, <1>7, <1>9 DEF Typed
  <1>17. Slotted' BY <1>1, <1>2, <1>7, <1>12, <1>13 DEF Slotted
  <1>18. Counted' BY <1>1, <1>2, <1>3, <1>8, <1>9, <1>13 DEF Counted
  <1>19. Polled'
    <2>1. s # None BY <1>4, ExpertsAssumption
    <2> QED BY <2>1, <1>1, <1>3, <1>8, <1>9, <1>10 DEF Polled
  <1>20. dir[e] = None BY <1>3, <1>4 DEF Home
  <1>21. Directed'
    <2>1. \A w \in Writes' : w.op = "dir" => w = h BY <1>8, <1>9
    <2>2. h \in Writes' BY <1>9
    <2> QED BY <2>1, <2>2, <1>1, <1>3, <1>8, <1>15, <1>20 DEF Directed
  <1>22. Sending' BY <1>1, <1>4, <1>8, <1>9, <1>11, <1>12, <1>20 DEF Sending
  <1>23. Landed'
    <2>1. ASSUME NEW x \in InSlots \ (OnTheWay \ {e}), NEW p \in 1..Parts PROVE There(x, p)'
      <3>1. CASE x # e
        <4>1. bytes[slotOf[x]][p] = x BY <3>1, <1>3
        <4> QED BY <4>1, <1>1 DEF There
      <3>2. CASE x = e /\ p <= Head(pending).sent
        <4>1. bytes[s][p] = e BY <3>2, <1>3, <1>4
        <4> QED BY <4>1, <3>2, <1>1 DEF There
      <3>3. CASE x = e /\ p = n
        <4>1. Part(s, p, e) = g BY <3>3 DEF g
        <4> QED BY <4>1, <3>3, <1>1, <1>9 DEF There
      <3> QED BY <3>1, <3>2, <3>3, <1>5
    <2>2. ASSUME NEW q \in ToSet(pending'), NEW p \in 1..Parts, p <= q.sent PROVE There(q.e, p)'
      <3>1. bytes[slotOf[q.e]][p] = q.e BY <2>2, <1>3, <1>7
      <3> QED BY <3>1, <1>1 DEF There
    <2>3. \A q \in ToSet(pending)', p \in 1..Parts : p <= q.sent => There(q.e, p)' BY <2>2
    <2> QED BY <2>1, <2>3, <1>12, <1>13 DEF Landed
  <1>24. HostInv' BY <1>16, <1>17, <1>18, <1>19, <1>21, <1>22, <1>23 DEF HostInv
  <1> SUFFICES ASSUME CardInv, ~ misled' PROVE CardInv'
    BY <1>24 DEF StepKeeps
  <1>25. Tagged /\ Placed /\ AnswerOwn /\ AtPlace /\ Zeroed /\ Coming
    BY DEF CardInv
  <1>26. Running => e \notin Ids BY <1>1, <1>2, <1>25, <1>4 DEF Placed
  <1>27. \A p \in Places : Running => Own(p) # s
    <2> SUFFICES ASSUME NEW p \in Places, Running, Own(p) = s PROVE FALSE OBVIOUS
    <2>1. Own(p) # None BY <1>4, ExpertsAssumption
    <2>2. e = row.ids[p] BY <2>1, <1>2, <1>25, <1>4, OwnOnce
    <2> QED BY <2>2, <1>2, <1>25, <1>26, PlaceIs
  <1>28. tag[s] = None /\ s \notin used BY <1>2, <1>25, <1>3, <1>4 DEF Tagged
  <1>29. Tagged' BY <1>1, <1>2, <1>25, <1>3, <1>11, <1>12, <1>13, <1>28 DEF Tagged
  <1>30. Placed' BY <1>1, <1>2, <1>25, <1>12, <1>13, <1>26 DEF Placed
  <1>31. AnswerOwn' BY <1>1, <1>2, <1>25, <1>8, <1>9, <1>13 DEF AnswerOwn
  <1>32. AtPlace' BY <1>1, <1>2, <1>25, <1>13 DEF AtPlace
  <1>33. Zeroed' BY <1>1, <1>2, <1>25, <1>11, <1>13, <1>14, <1>27 DEF Zeroed
  <1>34. Coming' BY <1>1, <1>2, <1>25, <1>3, <1>11, <1>13, <1>14 DEF Coming
  <1>35. Freshly' BY <1>1, <1>11, <1>12 DEF Freshly
  <1>36. Early' BY <1>1 DEF Early, Unserved
  <1> QED BY <1>29, <1>30, <1>31, <1>32, <1>33, <1>34, <1>35, <1>36 DEF CardInv

LEMMA PollStepsKeeps ==
  ASSUME HostInv, PollSteps
  PROVE  StepKeeps
BY StepsPartKeeps, StepsLastKeeps

----------------------------------------------------------------------------
(* What a poll finds: whose slots are given to others ...                  *)
Assigned(M, ids, to, gone) ==
  LET out    == Victims(to)
      slotIn == Replaced(to, out \cup gone)
  IN /\ to \in [M -> Slot] /\ DOMAIN to = M /\ Range(to) \subseteq Slot
     /\ out \subseteq InSlots /\ out \cap ids = {}
     /\ slotIn \in [Expert -> SlotOrNone]
     /\ \A e \in M : slotIn[e] = to[e] /\ slotIn[e] \in Slot /\ slotIn[e] \in Range(to)
     /\ \A e \in Expert \ M : slotIn[e] = (IF e \in out \cup gone THEN None ELSE slotOf[e])
     /\ \A e \in ids \ M : slotIn[e] = slotOf[e]
     /\ \A e \in Expert \ M : slotIn[e] \notin Range(to)
     /\ \A e, f \in Expert : slotIn[e] # None /\ slotIn[e] = slotIn[f] => e = f
     /\ \A e \in Expert : slotIn[e] \notin placed

LEMMA SlotsForIs ==
  ASSUME Typed, Slotted, NEW ids \in SUBSET Expert, NEW M \in SUBSET ids, \A e \in M : slotOf[e] = None,
         NEW to \in SlotsFor(M, ids), NEW gone \in SUBSET Expert, gone \cap ids = {}
  PROVE  Assigned(M, ids, to, gone)
PROOF
  <1> DEFINE out    == Victims(to)
             slotIn == Replaced(to, out \cup gone)
  <1>1. /\ to \in [M -> Slot \ placed] /\ IsInjective(to)
        /\ \A e \in ids \cap InSlots, m \in M : to[m] # slotOf[e]
    BY DEF SlotsFor
  <1>0. slotIn \in [Expert -> {slotIn[e] : e \in Expert}] BY DEF Replaced
  <1>2. None \notin Slot /\ placed \subseteq Slot BY ExpertsAssumption DEF Typed
  <1>3. to \in [M -> Slot] /\ DOMAIN to = M /\ Range(to) = {to[m] : m \in M} /\ Range(to) \subseteq Slot
    BY <1>1 DEF Range
  <1>4. out \subseteq InSlots /\ \A e \in InSlots : e \in out <=> slotOf[e] \in Range(to)
    BY DEF Victims
  <1>5. out \cap ids = {} BY <1>1, <1>3, <1>4
  <1>6. \A e \in Expert : slotIn[e] = (IF e \in M THEN to[e] ELSE IF e \in out \cup gone THEN None ELSE slotOf[e])
    BY <1>3 DEF Replaced
  <1> HIDE DEF out, slotIn
  <1>7. \A e \in M : slotIn[e] = to[e] /\ slotIn[e] \in Slot /\ slotIn[e] \in Range(to) BY <1>3, <1>6
  <1>8. \A e \in Expert \ M : slotIn[e] = (IF e \in out \cup gone THEN None ELSE slotOf[e]) BY <1>6
  <1>9. \A e \in ids \ M : slotIn[e] = slotOf[e] BY <1>5, <1>8
  <1>10. \A e \in Expert : slotOf[e] \in SlotOrNone /\ (slotOf[e] # None => e \in InSlots)
    BY DEF Typed, InSlots
  <1>11. ASSUME NEW e \in Expert \ M PROVE slotIn[e] \notin Range(to)
    <2>1. CASE slotIn[e] = None BY <2>1, <1>2, <1>3
    <2>2. CASE slotIn[e] # None
      <3>1. e \notin out /\ slotIn[e] = slotOf[e] BY <2>2, <1>8
      <3>2. e \in InSlots BY <3>1, <2>2, <1>10
      <3> QED BY <3>1, <3>2, <1>4
    <2> QED BY <2>1, <2>2
  <1>12. slotIn \in [Expert -> SlotOrNone]
    <2>1. \A e \in Expert : slotIn[e] \in SlotOrNone BY <1>7, <1>8, <1>10 DEF SlotOrNone
    <2> QED BY <2>1, <1>0
  <1>13. \A e, f \in Expert : slotIn[e] # None /\ slotIn[e] = slotIn[f] => e = f
    <2> SUFFICES ASSUME NEW e \in Expert, NEW f \in Expert, slotIn[e] # None, slotIn[e] = slotIn[f]
        PROVE  e = f
      OBVIOUS
    <2>1. CASE e \in M /\ f \in M BY <2>1, <1>1, <1>7 DEF IsInjective
    <2>2. CASE e \in M /\ f \notin M BY <2>2, <1>7, <1>11
    <2>3. CASE e \notin M /\ f \in M BY <2>3, <1>7, <1>11
    <2>4. CASE e \notin M /\ f \notin M
      <3>1. slotIn[e] = slotOf[e] /\ slotIn[f] = slotOf[f] BY <2>4, <1>8
      <3> QED BY <3>1, <1>10 DEF Slotted
    <2> QED BY <2>1, <2>2, <2>3, <2>4
  <1>14. \A e \in Expert : slotIn[e] \notin placed
    <2>1. \A e \in M : slotIn[e] \notin placed BY <1>1, <1>7
    <2>2. \A e \in Expert \ M : slotIn[e] \notin placed BY <1>2, <1>8, <1>10 DEF Slotted
    <2> QED BY <2>1, <2>2
  <1> QED BY <1>3, <1>4, <1>5, <1>7, <1>8, <1>9, <1>11, <1>12, <1>13, <1>14 DEF Assigned, out, slotIn

(* ... which hinted experts stay on their way ...                          *)
LEMMA KeptIs ==
  ASSUME Typed, Slotted, NEW X
  PROVE  /\ Kept(X) \in Seq(Hint)
         /\ \A i, j \in DOMAIN Kept(X) : Kept(X)[i].e = Kept(X)[j].e => i = j
         /\ \A q : q \in ToSet(Kept(X)) <=> q \in ToSet(pending) /\ q.e \notin X
PROOF
  <1> DEFINE S == {p \in ToSet(pending) : p.e \in X}
             r == Kept(X)
  <1>1. /\ pending \in Seq(Hint) /\ \A i, j \in DOMAIN pending : pending[i].e = pending[j].e => i = j
    BY DEF Typed, Slotted
  <1>2. IsInjective(pending) BY <1>1 DEF IsInjective
  <1>3. r = Without(pending, S) BY DEF Kept
  <1> HIDE DEF r, S
  <1>4. r \in Seq(Hint) /\ Range(r) = Range(pending) \ S /\ IsInjective(r)
    BY <1>1, <1>2, <1>3, WithoutIs
  <1>5. ToSet(r) = Range(r) /\ ToSet(pending) = Range(pending) BY DEF ToSet, Range
  <1>6. \A q : q \in ToSet(r) <=> q \in ToSet(pending) /\ q.e \notin X BY <1>4, <1>5 DEF S
  <1>7. \A i, j \in DOMAIN r : r[i].e = r[j].e => i = j
    <2> SUFFICES ASSUME NEW i \in DOMAIN r, NEW j \in DOMAIN r, r[i].e = r[j].e PROVE i = j
      OBVIOUS
    <2>1. r[i] \in ToSet(pending) /\ r[j] \in ToSet(pending) BY <1>6 DEF ToSet
    <2>2. PICK a \in DOMAIN pending, b \in DOMAIN pending : r[i] = pending[a] /\ r[j] = pending[b]
      BY <2>1 DEF ToSet
    <2>3. r[i] = r[j] BY <2>2, <1>1
    <2> QED BY <2>3, <1>4 DEF IsInjective
  <1> QED BY <1>4, <1>6, <1>7 DEF r

LEMMA SentOf ==
  ASSUME Typed, NEW e \in OnTheWay
  PROVE  \E q \in ToSet(pending) : q.e = e /\ Sent(e) = q.sent /\ Sent(e) \in 0..(Parts - 1)
PROOF
  <1> DEFINE q == CHOOSE p \in ToSet(pending) : p.e = e
  <1>1. \E p \in ToSet(pending) : p.e = e BY DEF OnTheWay
  <1>2. q \in ToSet(pending) /\ q.e = e BY <1>1
  <1>3. Sent(e) = q.sent BY DEF Sent
  <1> HIDE DEF q
  <1>4. ToSet(pending) \subseteq Hint BY WrittenIn DEF Typed
  <1> QED BY <1>2, <1>3, <1>4 DEF Hint

(* ... and what it writes.                                                 *)
LEMMA ReusesIs ==
  ASSUME NEW S \in SUBSET Slot
  PROVE  /\ Reuses(S) \in Seq(Write) /\ InLine(Reuses(S))
         /\ ToSet(Reuses(S)) = (IF S \cap armed = {} THEN {} ELSE {NoTags(S \cap armed)})
PROOF
  <1> DEFINE A == S \cap armed
             g == NoTags(A)
  <1>1. g \in Write BY DEF NoTags, Write, NoTagsWrite
  <1>2. CASE A = {}
    <2>1. Reuses(S) = <<>> BY <1>2 DEF Reuses, NoTagsIn
    <2> QED BY <2>1, <1>2, NoWrite
  <1>3. CASE A # {}
    <2>1. Reuses(S) = <<g>> BY <1>3 DEF Reuses, NoTagsIn
    <2> HIDE DEF g
    <2>2. <<g>> \in Seq(Write) /\ InLine(<<g>>) /\ ToSet(<<g>>) = {g} BY <1>1, OneWrite
    <2>3. ToSet(Reuses(S)) = {NoTags(S \cap armed)} BY <2>1, <2>2 DEF g
    <2> QED BY <2>1, <2>2, <2>3, <1>3
  <1> QED BY <1>2, <1>3

LEMMA DirsIs ==
  ASSUME NEW D \in SUBSET Expert, NEW d \in [D -> SlotOrNone]
  PROVE  /\ Dirs(d) \in Seq(Write) /\ InLine(Dirs(d))
         /\ ToSet(Dirs(d)) = (IF D = {} THEN {} ELSE {Dir(d)})
PROOF
  <1>1. Dir(d) \in Write
    <2>1. Dir(d) \in DirWrite BY DEF Dir, DirWrite
    <2> QED BY <2>1 DEF Write
  <1>2. CASE D = {}
    <2>1. Dirs(d) = <<>> BY <1>2 DEF Dirs
    <2> QED BY <2>1, <1>2, NoWrite
  <1>3. CASE D # {}
    <2>1. Dirs(d) = <<Dir(d)>> BY <1>3 DEF Dirs
    <2> QED BY <2>1, <1>1, <1>3, OneWrite
  <1> QED BY <1>2, <1>3

Lined(S, data, d, n) ==
  LET s == InTurn(Reuses(S), data, Dirs(d), n)
  IN /\ s \in Seq(Write) /\ InLine(s)
     /\ ToSet(s) = ToSet(Reuses(S)) \cup ToSet(data) \cup ToSet(Dirs(d)) \cup {Served(n)}

LEMMA InTurnIs ==
  ASSUME NEW S \in SUBSET Slot, NEW data \in Seq(Write), InLine(data),
         \A w \in ToSet(data) : w.op \in {"part", "tag", "answer"},
         NEW D \in SUBSET Expert, NEW d \in [D -> SlotOrNone], NEW n \in Nat
  PROVE  Lined(S, data, d, n)
PROOF
  <1> DEFINE a == Reuses(S)
             b == Dirs(d)
             c == <<Served(n)>>
  <1>1. /\ a \in Seq(Write) /\ InLine(a) /\ \A w \in ToSet(a) : w.op = "notags"
    BY ReusesIs DEF NoTags
  <1>2. /\ b \in Seq(Write) /\ InLine(b) /\ \A w \in ToSet(b) : w.op = "dir"
    BY DirsIs DEF Dir
  <1>3. Served(n) \in Write /\ Served(n).op = "served" BY DEF Served, Write, ServedWrite
  <1>4. c \in Seq(Write) /\ InLine(c) /\ ToSet(c) = {Served(n)} BY <1>3, OneWrite
  <1>5. InTurn(Reuses(S), data, Dirs(d), n) = ((a \o data) \o b) \o c BY DEF InTurn
  <1> HIDE DEF a, b, c
  <1>6. \A w \in ToSet(a), v \in ToSet(data) : May(w, v) BY <1>1 DEF May
  <1>7. /\ a \o data \in Seq(Write) /\ InLine(a \o data)
        /\ ToSet(a \o data) = ToSet(a) \cup ToSet(data)
    BY <1>1, <1>6, ConcatWrites
  <1> DEFINE ab == a \o data
  <1> HIDE DEF ab
  <1>8. \A w \in ToSet(ab) : w.op \in {"notags", "part", "tag", "answer"} BY <1>1, <1>7 DEF ab
  <1>9. \A w \in ToSet(ab), v \in ToSet(b) : May(w, v) BY <1>2, <1>8 DEF May
  <1>10. /\ ab \o b \in Seq(Write) /\ InLine(ab \o b) /\ ToSet(ab \o b) = ToSet(ab) \cup ToSet(b)
    BY <1>2, <1>7, <1>9, ConcatWrites DEF ab
  <1> DEFINE abc == ab \o b
  <1> HIDE DEF abc
  <1>11. \A w \in ToSet(abc) : w.op \in {"notags", "part", "tag", "answer", "dir"}
    BY <1>2, <1>8, <1>10 DEF abc
  <1>12. \A w \in ToSet(abc), v \in ToSet(c) : May(w, v) BY <1>3, <1>4, <1>11 DEF May
  <1>13. /\ abc \o c \in Seq(Write) /\ InLine(abc \o c) /\ ToSet(abc \o c) = ToSet(abc) \cup ToSet(c)
    BY <1>4, <1>10, <1>12, ConcatWrites DEF abc
  <1>14. ToSet(abc \o c) = ToSet(a) \cup ToSet(data) \cup ToSet(b) \cup {Served(n)}
    BY <1>4, <1>7, <1>10, <1>13 DEF ab, abc
  <1> QED BY <1>5, <1>13, <1>14 DEF Lined, a, b, ab, abc

(* Lists of hinted experts, each of them there once.                       *)
Apart(s) == \A i, j \in DOMAIN s : s[i].e = s[j].e => i = j

LEMMA ConcatApart ==
  ASSUME NEW s \in Seq(Hint), NEW t \in Seq(Hint), Apart(s), Apart(t),
         \A q \in ToSet(s), r \in ToSet(t) : q.e # r.e
  PROVE  Apart(s \o t)
PROOF
  <1> DEFINE u == s \o t
  <1>1. /\ Len(u) = Len(s) + Len(t) /\ DOMAIN u = 1..Len(u)
        /\ \A i \in 1..Len(s) : u[i] = s[i]
        /\ \A i \in 1..Len(u) : i > Len(s) => i - Len(s) \in 1..Len(t) /\ u[i] = t[i - Len(s)]
    OBVIOUS
  <1>2. Len(s) \in Nat /\ Len(t) \in Nat /\ DOMAIN s = 1..Len(s) /\ DOMAIN t = 1..Len(t) OBVIOUS
  <1>3. /\ \A i, j \in 1..Len(s) : s[i].e = s[j].e => i = j
        /\ \A i, j \in 1..Len(t) : t[i].e = t[j].e => i = j
    BY <1>2 DEF Apart
  <1>4. \A i \in 1..Len(s), j \in 1..Len(t) : s[i].e # t[j].e
    BY WrittenIn
  <1> HIDE DEF u
  <1>5. ASSUME NEW i \in 1..Len(u), NEW j \in 1..Len(u), u[i].e = u[j].e, i <= Len(s)
        PROVE  i = j
    <2>1. i \in 1..Len(s) /\ u[i] = s[i] BY <1>5, <1>1, <1>2
    <2>2. CASE j <= Len(s)
      <3>1. j \in 1..Len(s) /\ u[j] = s[j] BY <2>2, <1>1, <1>2
      <3> QED BY <3>1, <2>1, <1>3, <1>5
    <2>3. CASE j > Len(s)
      <3> DEFINE b == j - Len(s)
      <3>1. b \in 1..Len(t) /\ u[j] = t[b] BY <2>3, <1>1, <1>2
      <3> HIDE DEF b
      <3> QED BY <3>1, <2>1, <1>4, <1>5
    <2> QED BY <2>2, <2>3, <1>1, <1>2
  <1>6. ASSUME NEW i \in 1..Len(u), NEW j \in 1..Len(u), u[i].e = u[j].e, i > Len(s), j > Len(s)
        PROVE  i = j
    <2> DEFINE a == i - Len(s)
               b == j - Len(s)
    <2>1. a \in 1..Len(t) /\ u[i] = t[a] /\ b \in 1..Len(t) /\ u[j] = t[b] BY <1>6, <1>1, <1>2
    <2>2. a = b => i = j BY <1>1, <1>2
    <2> HIDE DEF a, b
    <2> QED BY <2>1, <2>2, <1>3, <1>6
  <1>7. ASSUME NEW i \in 1..Len(u), NEW j \in 1..Len(u), u[i].e = u[j].e PROVE i = j
    <2>1. CASE i <= Len(s) BY <2>1, <1>5, <1>7
    <2>2. CASE j <= Len(s) BY <2>2, <1>5, <1>7
    <2>3. CASE i > Len(s) /\ j > Len(s) BY <2>3, <1>6, <1>7
    <2> QED BY <2>1, <2>2, <2>3, <1>1, <1>2
  <1>8. Apart(u) BY <1>1, <1>7 DEF Apart
  <1> QED BY <1>8 DEF u

(* A hint: its experts with no slot, and what becomes of them.             *)
LEMMA HintedIs ==
  ASSUME Typed, Slotted, NEW want \in Seq(Expert), IsInjective(want),
         ToSet(want) \cap InSlots = {}, NEW out
  PROVE  LET new == [i \in DOMAIN want |-> [e |-> want[i], sent |-> 0]]
             all == Kept(out) \o new
         IN /\ all \in Seq(Hint) /\ Apart(all)
            /\ \A q \in ToSet(all) : (q \in ToSet(pending) /\ q.e \notin out) \/ (q.e \in ToSet(want) /\ q.sent = 0)
            /\ {q.e : q \in ToSet(all)} = (OnTheWay \ out) \cup ToSet(want)
PROOF
  <1> DEFINE new == [i \in DOMAIN want |-> [e |-> want[i], sent |-> 0]]
             old == Kept(out)
             all == old \o new
  <1>1. /\ old \in Seq(Hint) /\ Apart(old)
        /\ \A q : q \in ToSet(old) <=> q \in ToSet(pending) /\ q.e \notin out
    BY KeptIs DEF Apart
  <1>2. Parts - 1 \in Nat /\ 0 \in 0..(Parts - 1) BY ExpertsAssumption
  <1>3. DOMAIN want = 1..Len(want) /\ Len(want) \in Nat /\ \A i \in 1..Len(want) : want[i] \in Expert
    OBVIOUS
  <1>4. new \in Seq(Hint) /\ DOMAIN new = DOMAIN want /\ Len(new) = Len(want)
        /\ \A i \in DOMAIN want : new[i].e = want[i] /\ new[i].sent = 0
    <2>1. \A i \in DOMAIN want : [e |-> want[i], sent |-> 0] \in Hint BY <1>2, <1>3 DEF Hint
    <2> QED BY <2>1, <1>3
  <1>5. Apart(new) BY <1>4 DEF Apart, IsInjective
  <1> HIDE DEF new, old
  <1>6. /\ \A q \in ToSet(new) : q.e \in ToSet(want) /\ q.sent = 0
        /\ \A e \in ToSet(want) : \E q \in ToSet(new) : q.e = e
    BY <1>4 DEF ToSet
  <1>7. \A q \in ToSet(pending) : q.e \in OnTheWay /\ q.e \in InSlots BY DEF Slotted, OnTheWay
  <1>8. \A q \in ToSet(old), r \in ToSet(new) : q.e # r.e BY <1>1, <1>6, <1>7
  <1>9. Apart(all) BY <1>1, <1>4, <1>5, <1>8, ConcatApart
  <1>10. all \in Seq(Hint) /\ ToSet(all) = ToSet(old) \cup ToSet(new) BY <1>1, <1>4, ConcatSet
  <1> HIDE DEF all
  <1>11. \A q \in ToSet(all) : (q \in ToSet(pending) /\ q.e \notin out) \/ (q.e \in ToSet(want) /\ q.sent = 0)
    BY <1>1, <1>6, <1>10
  <1>12. {q.e : q \in ToSet(all)} = (OnTheWay \ out) \cup ToSet(want)
    <2>1. \A q \in ToSet(all) : q.e \in (OnTheWay \ out) \cup ToSet(want) BY <1>7, <1>11
    <2>2. \A e \in OnTheWay \ out : \E q \in ToSet(all) : q.e = e BY <1>1, <1>10 DEF OnTheWay
    <2>3. \A e \in ToSet(want) : \E q \in ToSet(all) : q.e = e BY <1>6, <1>10
    <2> QED BY <2>1, <2>2, <2>3
  <1> QED BY <1>9, <1>10, <1>11, <1>12 DEF all, old, new

LEMMA PollHintKeeps ==
  ASSUME HostInv, PollHint
  PROVE  StepKeeps
PROOF
  <1> DEFINE no == Without(row.ids, InSlots)
  <1>1. PICK n \in 0..MaxIds : /\ n <= Len(no)
           /\ \E to \in SlotsFor(ToSet(SubSeq(no, 1, n)), Ids) :
                /\ slotOf' = Replaced(to, Victims(to))
                /\ pending' = Kept(Victims(to)) \o
                     [i \in DOMAIN SubSeq(no, 1, n) |-> [e |-> SubSeq(no, 1, n)[i], sent |-> 0]]
                /\ dma' = Reuses(Range(to)) \o Dirs(Changed({}, Victims(to), slotOf')) \o <<Served(seq)>>
                /\ armed' = (armed \ used) \ Range(to)
    BY DEF PollHint
  <1> DEFINE want == SubSeq(no, 1, n)
             M    == ToSet(want)
  <1>2. PICK to \in SlotsFor(M, Ids) :
                /\ slotOf' = Replaced(to, Victims(to))
                /\ pending' = Kept(Victims(to)) \o [i \in DOMAIN want |-> [e |-> want[i], sent |-> 0]]
                /\ dma' = Reuses(Range(to)) \o Dirs(Changed({}, Victims(to), slotOf')) \o <<Served(seq)>>
                /\ armed' = (armed \ used) \ Range(to)
    BY <1>1
  <1> DEFINE out == Victims(to)
             D   == out \ OnTheWay
             d   == Changed({}, out, slotOf')
  <1>3. /\ dma = <<>> /\ seq # done /\ row.kind = "hint"
        /\ used' = {} /\ fresh' = {} /\ done' = seq
        /\ UNCHANGED <<seq, row, served, answer, dir, bytes, tag, placed>>
        /\ UNCHANGED <<on, posts, at, seen, left, reg, stale, misled>>
    BY DEF PollHint, Asked, dram, card, past
  <1>4. Typed /\ Slotted /\ Counted BY DEF HostInv
  <1>5. /\ Writes = {} /\ served = done
        /\ \A x \in Expert : dir[x] = Home(x)
        /\ \A s : ~ TagSent(s) /\ ~ Clearing(s)
        /\ \A x \in InSlots \ OnTheWay, p \in 1..Parts : bytes[slotOf[x]][p] = x
        /\ \A q \in ToSet(pending), p \in 1..Parts : p <= q.sent => bytes[slotOf[q.e]][p] = q.e
    BY <1>3, Quiet
  <1>6. /\ seq \in Nat /\ done \in Nat /\ served \in Nat /\ row.ids \in Seq(Expert)
        /\ IsInjective(row.ids) /\ Ids \subseteq Expert /\ MaxIds \in Nat /\ Ids = Range(row.ids)
    BY <1>4, ExpertsAssumption DEF Typed, Ids, ToSet, Range
  <1>7. ~ Running BY <1>3, <1>4 DEF Counted
  <1>8. at = "free"
    <2>1. at # "row" BY <1>3, <1>4, <1>5 DEF Counted
    <2> QED BY <2>1, <1>4, <1>7 DEF Typed, Running
  <1>9. /\ want \in Seq(Expert) /\ IsInjective(want) /\ M \subseteq Ids /\ M \cap InSlots = {}
    <2>1. no \in Seq(Expert) /\ Range(no) = Range(row.ids) \ InSlots /\ IsInjective(no)
      BY <1>6, WithoutIs
    <2> HIDE DEF no
    <2>2. want = Take(no, n) BY DEF Take
    <2>3. n \in 0..Len(no) BY <1>1, <1>6, <2>1
    <2>4. want \in Seq(Expert) /\ Len(want) = n /\ \A i \in 1..n : want[i] = no[i]
      BY <2>1, <2>2, <2>3, TakeIs
    <2>5. DOMAIN want = 1..n /\ \A i \in 1..n : i \in DOMAIN no BY <2>1, <2>3, <2>4
    <2> HIDE DEF want
    <2>6. IsInjective(want) BY <2>1, <2>4, <2>5 DEF IsInjective
    <2>7. M \subseteq Range(no) BY <2>4, <2>5 DEF ToSet, Range
    <2> QED BY <2>1, <2>4, <2>6, <2>7, <1>6
  <1> HIDE DEF no, want
  <1>10. \A e \in M : slotOf[e] = None BY <1>6, <1>9 DEF InSlots
  <1> HIDE DEF M
  <1>11. out \cup {} = out /\ {} \cap Ids = {} OBVIOUS
  <1>12. /\ to \in [M -> Slot] /\ DOMAIN to = M /\ Range(to) \subseteq Slot
         /\ out \subseteq InSlots /\ out \cap Ids = {}
         /\ slotOf' \in [Expert -> SlotOrNone]
         /\ \A e \in M : slotOf'[e] = to[e] /\ slotOf'[e] \in Slot /\ slotOf'[e] \in Range(to)
         /\ \A e \in Expert \ M : slotOf'[e] = (IF e \in out THEN None ELSE slotOf[e])
         /\ \A e \in Expert \ M : slotOf'[e] \notin Range(to)
         /\ \A e, f \in Expert : slotOf'[e] # None /\ slotOf'[e] = slotOf'[f] => e = f
         /\ \A e \in Expert : slotOf'[e] \notin placed
    <2>1. Victims(to) \cup {} = Victims(to) /\ {} \cap Ids = {} /\ {} \in SUBSET Expert OBVIOUS
    <2>2. slotOf' = Replaced(to, Victims(to)) BY <1>2
    <2>3. M \in SUBSET Ids /\ Ids \in SUBSET Expert BY <1>6, <1>9
    <2> DEFINE N == {}
    <2> HIDE DEF N
    <2>5. N \in SUBSET Expert /\ N \cap Ids = {} BY <2>1 DEF N
    <2>6. Typed /\ Slotted BY <1>4
    <2>4. Assigned(M, Ids, to, N)
      BY <1>10, <2>3, <2>5, <2>6, SlotsForIs
    <2> QED BY <2>1, <2>2, <2>4 DEF Assigned, out, N
  <1>13. /\ pending' \in Seq(Hint) /\ Apart(pending')
         /\ \A q \in ToSet(pending') : (q \in ToSet(pending) /\ q.e \notin out) \/ (q.e \in M /\ q.sent = 0)
         /\ OnTheWay' = (OnTheWay \ out) \cup M
    <2>1. M = ToSet(want) BY DEF M
    <2> HIDE DEF out
    <2>2. /\ pending' \in Seq(Hint) /\ Apart(pending')
          /\ \A q \in ToSet(pending') : (q \in ToSet(pending) /\ q.e \notin out) \/ (q.e \in M /\ q.sent = 0)
          /\ {q.e : q \in ToSet(pending')} = (OnTheWay \ out) \cup M
      <3>1. pending' = Kept(out) \o [i \in DOMAIN want |-> [e |-> want[i], sent |-> 0]] BY <1>2 DEF out
      <3> QED BY <1>4, <1>9, <2>1, <3>1, HintedIs
    <2> QED BY <2>2 DEF OnTheWay
  <1>14. d \in [D -> SlotOrNone] /\ D \in SUBSET Expert /\ \A e \in D : d[e] = None
    <2>1. d = [e \in D |-> None] BY DEF Changed
    <2>2. D \in SUBSET Expert BY <1>12 DEF InSlots
    <2> QED BY <2>1, <2>2 DEF SlotOrNone
  <1>15. /\ dma' \in Seq(Write) /\ InLine(dma')
         /\ Writes' = ToSet(Reuses(Range(to))) \cup ToSet(Dirs(d)) \cup {Served(seq)}
    <2> HIDE DEF d, D
    <2>1. Reuses(Range(to)) \in Seq(Write) BY <1>12, ReusesIs
    <2>2. dma' = InTurn(Reuses(Range(to)), <<>>, Dirs(d), seq)
      <3>1. Reuses(Range(to)) \o <<>> = Reuses(Range(to)) BY <2>1
      <3>2. dma' = Reuses(Range(to)) \o Dirs(d) \o <<Served(seq)>> BY <1>2 DEF d
      <3> QED BY <3>1, <3>2 DEF InTurn
    <2>3. <<>> \in Seq(Write) /\ InLine(<<>>) /\ ToSet(<<>>) = {} BY NoWrite
    <2>4. LET s == InTurn(Reuses(Range(to)), <<>>, Dirs(d), seq)
          IN /\ s \in Seq(Write) /\ InLine(s)
             /\ ToSet(s) = ToSet(Reuses(Range(to))) \cup ToSet(<<>>) \cup ToSet(Dirs(d)) \cup {Served(seq)}
      <3>1. \A w \in ToSet(<<>>) : w.op \in {"part", "tag", "answer"} BY <2>3
      <3>2. Range(to) \in SUBSET Slot /\ seq \in Nat BY <1>6, <1>12
      <3>3. D \in SUBSET Expert /\ d \in [D -> SlotOrNone] BY <1>14
      <3> DEFINE R == Range(to)
                 Z == <<>>
      <3> HIDE DEF R, Z
      <3>4. Z \in Seq(Write) /\ InLine(Z) BY <2>3 DEF Z
      <3>5. \A w \in ToSet(Z) : w.op \in {"part", "tag", "answer"} BY <3>1 DEF Z
      <3>6. R \in SUBSET Slot BY <3>2 DEF R
      <3>7. Lined(R, Z, d, seq)
        BY <3>2, <3>3, <3>4, <3>5, <3>6, InTurnIs
      <3> QED BY <3>7 DEF Lined, R, Z
    <2> QED BY <2>2, <2>3, <2>4 DEF Writes
  <1>16. /\ \A w \in Writes' : w.op \in {"notags", "dir", "served"}
         /\ \A w \in Writes' : w.op = "notags" => w.slots = Range(to) \cap armed
         /\ Range(to) \cap armed # {} => \E w \in Writes' : w.op = "notags" /\ w.slots = Range(to) \cap armed
         /\ \A w \in Writes' : w.op = "dir" => w.to = d
         /\ D # {} => \E w \in Writes' : w.op = "dir" /\ w.to = d
         /\ \A w \in Writes' : w.op = "served" => w.n = seq
         /\ \E w \in Writes' : w.op = "served"
    <2> HIDE DEF d, D
    <2>1. ToSet(Reuses(Range(to))) = (IF Range(to) \cap armed = {} THEN {} ELSE {NoTags(Range(to) \cap armed)})
      BY <1>12, ReusesIs
    <2>2. ToSet(Dirs(d)) = (IF D = {} THEN {} ELSE {Dir(d)}) BY <1>14, DirsIs
    <2>3. /\ NoTags(Range(to) \cap armed).op = "notags" /\ NoTags(Range(to) \cap armed).slots = Range(to) \cap armed
          /\ Dir(d).op = "dir" /\ Dir(d).to = d /\ Served(seq).op = "served" /\ Served(seq).n = seq
      BY DEF NoTags, Dir, Served
    <2> QED BY <1>15, <2>1, <2>2, <2>3
  <1>17. DOMAIN d = D BY <1>14
  <1>18. /\ \A s : ~ TagSent(s)'
         /\ \A s : Clearing(s)' <=> s \in Range(to) /\ s \in armed
    <2>1. \A s : ~ TagSent(s)' BY <1>16 DEF TagSent
    <2>2. \A s : Clearing(s)' <=> s \in Range(to) /\ s \in armed BY <1>16 DEF Clearing
    <2> QED BY <2>1, <2>2
  <1> HIDE DEF d, D, out
  <1>19. ~ Running' BY <1>3, <1>8 DEF Running
  <1>20. \A e \in Expert : Home(e)' = (IF e \in M \cup out THEN None ELSE Home(e))
    <2> SUFFICES ASSUME NEW e \in Expert
        PROVE  (IF e \in OnTheWay' THEN None ELSE slotOf'[e]) = (IF e \in M \cup out THEN None ELSE Home(e))
      BY DEF Home
    <2>1. CASE e \in M BY <2>1, <1>13
    <2>2. CASE e \notin M BY <2>2, <1>12, <1>13 DEF Home
    <2> QED BY <2>1, <2>2
  <1>21. \A e \in InSlots : e \notin M BY <1>10 DEF InSlots
  <1>22. \A e \in InSlots' : e \in M \/ (e \in InSlots /\ e \notin out /\ slotOf'[e] = slotOf[e])
    BY <1>12 DEF InSlots
  <1>23. Typed'
    <2>1. /\ fresh' \subseteq Expert /\ armed' \subseteq Slot /\ used' \subseteq Slot
      BY <1>2, <1>3, <1>4 DEF Typed
    <2> QED BY <2>1, <1>3, <1>4, <1>6, <1>12, <1>13, <1>15 DEF Typed
  <1>24. Slotted'
    <2>1. OnTheWay' \subseteq InSlots'
      <3>1. \A e \in M : e \in Expert /\ slotOf'[e] # None BY <1>6, <1>9, <1>12, ExpertsAssumption
      <3>2. \A e \in OnTheWay \ out : e \in Expert /\ slotOf'[e] # None
        BY <1>4, <1>12, <1>21 DEF Slotted, InSlots
      <3> QED BY <3>1, <3>2, <1>13 DEF InSlots
    <2>2. \A e, f \in InSlots' : slotOf'[e] = slotOf'[f] => e = f BY <1>12 DEF InSlots
    <2>3. \A e \in InSlots' : slotOf'[e] \notin placed' BY <1>3, <1>12 DEF InSlots
    <2> QED BY <2>1, <2>2, <2>3, <1>13 DEF Slotted, Apart
  <1>25. Counted'
    <2>1. served' <= done' /\ done' <= seq' /\ seq' <= done' + 1 /\ served' # done' /\ seq' = done'
      BY <1>3, <1>4, <1>5, <1>6 DEF Counted
    <2>2. on' => seq' <= RebaseAt + posts' /\ posts' <= PostsPerRun BY <1>3, <1>4 DEF Counted
    <2>3. at' = "free" BY <1>3, <1>8
    <2> QED BY <2>1, <2>2, <2>3, <1>3, <1>16, <1>19 DEF Counted
  <1>26. Polled' BY <1>3, <1>5, <1>15 DEF Polled
  <1>27. Directed'
    <2>1. ASSUME NEW w \in Writes', w.op = "dir", NEW e \in DOMAIN w.to
          PROVE  w.to[e] = Home(e)' /\ w.to[e] = None
      <3>1. w.to = d /\ e \in D BY <2>1, <1>16, <1>17
      <3>2. e \in out /\ e \in Expert BY <3>1, <1>14 DEF D
      <3> QED BY <3>1, <3>2, <1>14, <1>20
    <2>2. ASSUME NEW e \in Expert, \A w \in Writes' : w.op = "dir" => e \notin DOMAIN w.to
          PROVE  dir'[e] = Home(e)'
      <3>1. e \notin D BY <2>2, <1>16, <1>17
      <3>2. dir'[e] = Home(e) BY <1>3, <1>5
      <3>3. CASE e \in M BY <3>2, <3>3, <1>10, <1>20 DEF Home
      <3>4. CASE e \in out BY <3>1, <3>2, <3>4, <1>20 DEF Home, D
      <3>5. CASE e \notin M \cup out BY <3>2, <3>5, <1>20
      <3> QED BY <3>3, <3>4, <3>5
    <2> QED BY <2>1, <2>2, <1>3 DEF Directed
  <1>28. Sending' BY <1>16 DEF Sending
  <1>29. Landed'
    <2>1. ASSUME NEW e \in InSlots' \ OnTheWay', NEW p \in 1..Parts PROVE There(e, p)'
      <3>1. e \in InSlots /\ e \notin OnTheWay /\ slotOf'[e] = slotOf[e] BY <1>13, <1>22
      <3> QED BY <3>1, <1>3, <1>5 DEF There
    <2>2. ASSUME NEW q \in ToSet(pending'), NEW p \in 1..Parts, p <= q.sent PROVE There(q.e, p)'
      <3>1. CASE q \in ToSet(pending) /\ q.e \notin out
        <4>1. q.e \in OnTheWay BY <3>1 DEF OnTheWay
        <4>2. q.e \in InSlots /\ q.e \in Expert BY <4>1, <1>4 DEF Slotted, InSlots
        <4>3. slotOf'[q.e] = slotOf[q.e] BY <3>1, <4>2, <1>12, <1>21
        <4> QED BY <2>2, <3>1, <4>3, <1>3, <1>5 DEF There
      <3>2. CASE q.e \in M /\ q.sent = 0 BY <3>2, <2>2
      <3> QED BY <3>1, <3>2, <1>13
    <2>3. \A q \in ToSet(pending)', p \in 1..Parts : p <= q.sent => There(q.e, p)' BY <2>2
    <2> QED BY <2>1, <2>3 DEF Landed
  <1>30. HostInv' BY <1>23, <1>24, <1>25, <1>26, <1>27, <1>28, <1>29 DEF HostInv
  <1> SUFFICES ASSUME CardInv, ~ misled' PROVE CardInv'
    BY <1>30 DEF StepKeeps
  <1>31. Tagged /\ AnswerOwn
    BY DEF CardInv
  <1>32. \A s \in Slot : tag[s] # None => s \in armed /\ s \notin used
    BY <1>3, <1>4, <1>31, <1>5 DEF Tagged, Over
  <1>33. Tagged'
    <2>1. \A s \in Slot : tag'[s] # None => s \in armed' \/ Clearing(s)'
      BY <1>2, <1>3, <1>18, <1>32
    <2>2. \A e \in OnTheWay' : tag'[slotOf'[e]] = None \/ (slotOf'[e] \in Range(to) /\ slotOf'[e] \in armed)
      <3> SUFFICES ASSUME NEW e \in OnTheWay'
          PROVE  tag'[slotOf'[e]] = None \/ (slotOf'[e] \in Range(to) /\ slotOf'[e] \in armed)
        OBVIOUS
      <3>1. CASE e \in M BY <3>1, <1>3, <1>12, <1>32
      <3>2. CASE e \in OnTheWay \ out
        <4>1. e \in Expert /\ e \in InSlots BY <3>2, <1>4, <1>31 DEF Slotted, InSlots
        <4>2. slotOf'[e] = slotOf[e] BY <3>2, <4>1, <1>12, <1>21
        <4> QED BY <3>2, <4>2, <1>3, <1>4, <1>31, <1>5 DEF Tagged
      <3> QED BY <3>1, <3>2, <1>13
    <2>3. \A e \in OnTheWay' : tag'[slotOf'[e]] = None \/ Clearing(slotOf[e])' BY <2>2, <1>18
    <2> QED BY <2>1, <2>3, <1>3, <1>18 DEF Tagged
  <1>34. Placed' /\ Zeroed' /\ Coming' BY <1>19 DEF Placed, Zeroed, Coming
  <1>35. AnswerOwn'
    <2>1. Told = NoAnswer BY <1>4, <1>31, <1>7 DEF AnswerOwn
    <2>2. Told' = Told /\ NoAnswer' = NoAnswer BY <1>3, SameTold
    <2>3. \A p \in 1..MaxIds : NoAnswer[p] = None BY <1>4, <1>31, ToldIs
    <2> QED BY <2>1, <2>2, <2>3, <1>16 DEF AnswerOwn
  <1>36. AtPlace' BY <1>3, <1>8, <1>19 DEF AtPlace
  <1>37. Freshly' /\ Early' BY <1>3 DEF Freshly, Early, Unserved
  <1> QED BY <1>33, <1>34, <1>35, <1>36, <1>37 DEF CardInv

(* What a missing expert is sent: the parts that are still to come, and its*)
(* tag.                                                                    *)
LEMMA SendsIs ==
  ASSUME NEW e \in Expert, NEW s \in Slot, NEW a \in 0..Parts
  PROVE  /\ Sends(e, s, a) \in Seq(Write) /\ InLine(Sends(e, s, a))
         /\ \A w \in ToSet(Sends(e, s, a)) : w.op \in {"part", "tag"} /\ w.e = e /\ w.slot = s
         /\ Tag(s, e) \in ToSet(Sends(e, s, a))
         /\ \A p \in 1..Parts : p <= a \/ Part(s, p, e) \in ToSet(Sends(e, s, a))
PROOF
  <1> DEFINE x == [p \in 1..(Parts - a) |-> Part(s, a + p, e)]
             t == Tag(s, e)
  <1>1. Parts \in Nat /\ a \in Nat /\ a <= Parts /\ Parts - a \in Nat BY ExpertsAssumption
  <1>2. \A p \in 1..(Parts - a) : a + p \in 1..Parts BY <1>1
  <1>3. \A p \in 1..Parts : /\ Part(s, p, e) \in Write /\ Part(s, p, e).op = "part"
                            /\ Part(s, p, e).e = e /\ Part(s, p, e).slot = s
    BY DEF Part, Write, PartWrite
  <1>4. t \in Write /\ t.op = "tag" /\ t.e = e /\ t.slot = s BY DEF Tag, Write, TagWrite
  <1>5. /\ x \in Seq(Write) /\ DOMAIN x = 1..(Parts - a)
        /\ \A p \in 1..(Parts - a) : x[p].op = "part" /\ x[p].e = e /\ x[p].slot = s
    BY <1>1, <1>2, <1>3
  <1>6. InLine(x) BY <1>5 DEF InLine, May
  <1>7. \A w \in ToSet(x) : w.op = "part" /\ w.e = e /\ w.slot = s BY <1>5 DEF ToSet
  <1>8. \A p \in 1..Parts : p <= a \/ Part(s, p, e) \in ToSet(x)
    <2> SUFFICES ASSUME NEW p \in 1..Parts, ~ (p <= a) PROVE Part(s, p, e) \in ToSet(x)
      OBVIOUS
    <2>1. p - a \in 1..(Parts - a) /\ a + (p - a) = p BY <1>1
    <2>2. x[p - a] = Part(s, p, e) BY <2>1
    <2> HIDE DEF x
    <2> QED BY <2>1, <2>2, <1>5 DEF ToSet
  <1>9. Sends(e, s, a) = x \o <<t>> BY DEF Sends
  <1> HIDE DEF x, t
  <1>10. <<t>> \in Seq(Write) /\ InLine(<<t>>) /\ ToSet(<<t>>) = {t} BY <1>4, OneWrite
  <1>11. \A w \in ToSet(x), v \in ToSet(<<t>>) : May(w, v) BY <1>4, <1>7, <1>10 DEF May
  <1>12. x \o <<t>> \in Seq(Write) /\ InLine(x \o <<t>>) /\ ToSet(x \o <<t>>) = ToSet(x) \cup {t}
    BY <1>5, <1>6, <1>10, <1>11, ConcatWrites
  <1> QED BY <1>4, <1>7, <1>8, <1>9, <1>12 DEF t

(* The slot a missing expert is sent to, and the parts it was sent already.*)
SlotAt(e, to) == IF e \in OnTheWay THEN slotOf[e] ELSE to[e]
From(e)       == IF e \in OnTheWay THEN Sent(e) ELSE 0

LEMMA DataIs ==
  ASSUME Typed, Slotted, NEW plan \in Seq(Expert), IsInjective(plan),
         NEW to, \A e \in ToSet(plan) : e \in OnTheWay \/ to[e] \in Slot,
         NEW a \in [1..MaxIds -> SlotOrNone]
  PROVE  LET d == Data(plan, to, a)
         IN /\ d \in Seq(Write) /\ InLine(d)
            /\ \A w \in ToSet(d) :
                 \/ w = Answer(a)
                 \/ w.op \in {"part", "tag"} /\ w.e \in ToSet(plan) /\ w.slot = SlotAt(w.e, to)
            /\ \A e \in ToSet(plan) : Tag(SlotAt(e, to), e) \in ToSet(d)
            /\ \A e \in ToSet(plan), p \in 1..Parts :
                 p <= From(e) \/ Part(SlotAt(e, to), p, e) \in ToSet(d)
            /\ Answer(a) \in ToSet(d) \/ (a = NoAnswer /\ ToSet(d) = {})
            /\ ToSet(plan) = {} /\ a = NoAnswer => ToSet(d) = {}
PROOF
  <1> DEFINE sends == [n \in DOMAIN plan |->
                  IF plan[n] \in OnTheWay THEN Sends(plan[n], slotOf[plan[n]], Sent(plan[n]))
                                          ELSE Sends(plan[n], to[plan[n]], 0)]
             all   == FlattenSeq(sends)
             d     == Data(plan, to, a)
  <1>1. \A e \in ToSet(plan) : e \in Expert /\ SlotAt(e, to) \in Slot /\ From(e) \in 0..Parts
    <2> SUFFICES ASSUME NEW e \in ToSet(plan)
        PROVE  e \in Expert /\ SlotAt(e, to) \in Slot /\ From(e) \in 0..Parts
      OBVIOUS
    <2>1. e \in Expert BY WrittenIn
    <2>2. Parts \in Nat \ {0} BY ExpertsAssumption
    <2>3. CASE e \in OnTheWay
      <3>1. SlotAt(e, to) = slotOf[e] /\ From(e) = Sent(e) BY <2>3 DEF SlotAt, From
      <3>2. Sent(e) \in 0..(Parts - 1) BY <2>3, SentOf
      <3>3. Sent(e) \in 0..Parts BY <3>2, <2>2
      <3>4. slotOf[e] \in Slot BY <2>1, <2>3 DEF Slotted, InSlots, Typed, SlotOrNone
      <3> QED BY <2>1, <3>1, <3>3, <3>4
    <2>4. CASE e \notin OnTheWay
      <3>1. SlotAt(e, to) = to[e] /\ From(e) = 0 BY <2>4 DEF SlotAt, From
      <3>2. to[e] \in Slot BY <2>4
      <3>3. 0 \in 0..Parts BY <2>2
      <3> QED BY <2>1, <3>1, <3>2, <3>3
    <2> QED BY <2>3, <2>4
  <1>2. /\ Len(plan) \in Nat /\ DOMAIN plan = 1..Len(plan)
        /\ \A n \in 1..Len(plan) : plan[n] \in ToSet(plan)
    BY WrittenIn
  <1>3. /\ DOMAIN sends = 1..Len(plan)
        /\ \A n \in 1..Len(plan) : sends[n] = Sends(plan[n], SlotAt(plan[n], to), From(plan[n]))
    BY <1>2 DEF SlotAt, From
  <1>4. \A e \in ToSet(plan) :
          LET x == Sends(e, SlotAt(e, to), From(e))
          IN /\ x \in Seq(Write) /\ InLine(x)
             /\ \A w \in ToSet(x) : w.op \in {"part", "tag"} /\ w.e = e /\ w.slot = SlotAt(e, to)
             /\ Tag(SlotAt(e, to), e) \in ToSet(x)
             /\ \A p \in 1..Parts : p <= From(e) \/ Part(SlotAt(e, to), p, e) \in ToSet(x)
    BY <1>1, SendsIs
  <1>5. sends \in Seq(Seq(Write)) /\ Len(sends) = Len(plan)
    <2>1. sends = [n \in 1..Len(plan) |-> sends[n]] BY <1>2
    <2>2. \A n \in 1..Len(plan) : sends[n] \in Seq(Write) BY <1>2, <1>3, <1>4
    <2> HIDE DEF sends
    <2>3. sends \in [1..Len(plan) -> Seq(Write)] BY <2>1, <2>2
    <2> QED BY <2>3, <1>2
  <1>6. d = IF all = <<>> THEN (IF a = NoAnswer THEN <<>> ELSE <<Answer(a)>>)
            ELSE <<Head(all), Answer(a)>> \o Tail(all)
    BY DEF Data
  <1> HIDE DEF sends, all, d
  <1>7. \A n \in 1..Len(plan) :
          /\ InLine(sends[n])
          /\ \A w \in ToSet(sends[n]) : /\ w.op \in {"part", "tag"} /\ w.e = plan[n]
                                        /\ w.slot = SlotAt(plan[n], to)
          /\ Tag(SlotAt(plan[n], to), plan[n]) \in ToSet(sends[n])
          /\ \A p \in 1..Parts : p <= From(plan[n]) \/ Part(SlotAt(plan[n], to), p, plan[n]) \in ToSet(sends[n])
    BY <1>2, <1>3, <1>4
  <1>8. \A i, j \in 1..Len(sends) : i < j => \A w \in ToSet(sends[i]), v \in ToSet(sends[j]) : May(w, v)
    <2> SUFFICES ASSUME NEW i \in 1..Len(plan), NEW j \in 1..Len(plan), i < j,
                        NEW w \in ToSet(sends[i]), NEW v \in ToSet(sends[j])
        PROVE  May(w, v)
      BY <1>5
    <2>1. i # j BY <1>2
    <2>2. plan[i] # plan[j] BY <2>1, <1>2 DEF IsInjective
    <2>3. w.op \in {"part", "tag"} /\ v.op \in {"part", "tag"} /\ w.e # v.e BY <2>2, <1>7
    <2> QED BY <2>3 DEF May
  <1>9. /\ all \in Seq(Write) /\ InLine(all)
        /\ \A w : w \in ToSet(all) <=> \E i \in 1..Len(plan) : w \in ToSet(sends[i])
    BY <1>5, <1>7, <1>8, FlattenWrites DEF all
  <1>10. \A w \in ToSet(all) : w.op \in {"part", "tag"} /\ w.e \in ToSet(plan) /\ w.slot = SlotAt(w.e, to)
    BY <1>2, <1>7, <1>9
  <1>11. \A e \in ToSet(plan) : \E n \in 1..Len(plan) : e = plan[n] BY WrittenIn
  <1>12. /\ \A e \in ToSet(plan) : Tag(SlotAt(e, to), e) \in ToSet(all)
         /\ \A e \in ToSet(plan), p \in 1..Parts : p <= From(e) \/ Part(SlotAt(e, to), p, e) \in ToSet(all)
    BY <1>7, <1>9, <1>11
  <1>13. Answer(a) \in Write /\ Answer(a).op = "answer" BY DEF Answer, Write, AnswerWrite
  <1>14. (all = <<>>) <=> (ToSet(all) = {}) BY <1>9, WrittenIn
  <1>15. CASE all = <<>>
    <2>1. ToSet(plan) = {} BY <1>12, <1>14, <1>15
    <2>2. CASE a = NoAnswer
      <3>1. d = <<>> BY <1>6, <1>15, <2>2
      <3> QED BY <3>1, <2>1, <2>2, NoWrite DEF d
    <2>3. CASE a # NoAnswer
      <3>1. d = <<Answer(a)>> BY <1>6, <1>15, <2>3
      <3>2. d \in Seq(Write) /\ InLine(d) /\ ToSet(d) = {Answer(a)} BY <3>1, <1>13, OneWrite
      <3> QED BY <3>2, <2>1, <2>3 DEF d
    <2> QED BY <2>2, <2>3
  <1>16. CASE all # <<>>
    <2> DEFINE h == Head(all)
               t == Tail(all)
               g == <<Answer(a)>>
    <2>1. /\ h \in Write /\ t \in Seq(Write) /\ InLine(t) /\ ToSet(all) = {h} \cup ToSet(t)
          /\ \A v \in ToSet(t) : May(h, v)
      BY <1>9, <1>16, FirstWrite
    <2>2. d = <<h, Answer(a)>> \o t BY <1>6, <1>16
    <2>3. <<h, Answer(a)>> = <<h>> \o g OBVIOUS
    <2>4. g \in Seq(Write) /\ InLine(g) /\ ToSet(g) = {Answer(a)} BY <1>13, OneWrite
    <2> HIDE DEF h, t, g
    <2>5. <<h>> \in Seq(Write) /\ InLine(<<h>>) /\ ToSet(<<h>>) = {h} BY <2>1, OneWrite
    <2>6. h.op \in {"part", "tag"} BY <1>10, <2>1
    <2>7. \A w \in ToSet(<<h>>), v \in ToSet(g) : May(w, v) BY <1>13, <2>4, <2>5, <2>6 DEF May
    <2> DEFINE hg == <<h>> \o g
    <2>8. hg \in Seq(Write) /\ InLine(hg) /\ ToSet(hg) = {h, Answer(a)}
      <3>1. <<h>> \o g \in Seq(Write) /\ InLine(<<h>> \o g) /\ ToSet(<<h>> \o g) = ToSet(<<h>>) \cup ToSet(g)
        BY <2>4, <2>5, <2>7, ConcatWrites
      <3> QED BY <3>1, <2>4, <2>5
    <2> HIDE DEF hg
    <2>9. \A v \in ToSet(t) : May(Answer(a), v)
      <3>1. \A v \in ToSet(t) : v.op \in {"part", "tag"} BY <1>10, <2>1
      <3> QED BY <3>1, <1>13 DEF May
    <2>10. \A w \in ToSet(hg), v \in ToSet(t) : May(w, v) BY <2>1, <2>8, <2>9
    <2>11. hg \o t \in Seq(Write) /\ InLine(hg \o t) /\ ToSet(hg \o t) = ToSet(hg) \cup ToSet(t)
      BY <2>1, <2>8, <2>10, ConcatWrites
    <2>12. d = hg \o t BY <2>2, <2>3 DEF hg
    <2>13. ToSet(d) = ToSet(all) \cup {Answer(a)} BY <2>1, <2>8, <2>11, <2>12
    <2>14. ToSet(plan) # {} BY <1>10, <1>14, <1>16
    <2> QED BY <1>10, <1>12, <2>11, <2>12, <2>13, <2>14 DEF d
  <1> QED BY <1>15, <1>16

LEMMA PollServesKeeps ==
  ASSUME HostInv, PollServes
  PROVE  StepKeeps
PROOF
  <1> DEFINE plan == Without(row.ids, InSlots \ OnTheWay)
             late == Late(Ids)
             M    == {e \in Ids : slotOf[e] = None}
             P    == ToSet(plan)
  <1>1. PICK to \in SlotsFor(M, Ids), drop \in Drops :
          LET out    == Victims(to)
              gone   == IF drop THEN (OnTheWay \ out) \ Ids ELSE {}
              slotIn == Replaced(to, out \cup gone)
              a      == [p \in 1..MaxIds |->
                           IF p \in Places /\ row.ids[p] \in ToSet(plan) \cup late
                           THEN slotIn[row.ids[p]] ELSE None]
          IN /\ slotOf' = slotIn
             /\ pending' = Kept(out \cup gone \cup Ids)
             /\ dma' = InTurn(Reuses(Range(to)), Data(plan, to, a), Dirs(Changed(ToSet(plan), out, slotIn)), seq)
             /\ armed' = ((armed \ used) \ Range(to)) \cup {slotIn[e] : e \in ToSet(plan)}
             /\ used' = {slotIn[e] : e \in Ids}
    BY DEF PollServes
  <1> DEFINE out  == Victims(to)
             gone == IF drop THEN (OnTheWay \ out) \ Ids ELSE {}
             a    == [p \in 1..MaxIds |->
                        IF p \in Places /\ row.ids[p] \in P \cup late THEN slotOf'[row.ids[p]] ELSE None]
             d    == Changed(P, out, slotOf')
             D    == P \cup (out \ OnTheWay)
             data == Data(plan, to, a)
  <1>2. /\ slotOf' = Replaced(to, out \cup gone)
        /\ pending' = Kept(out \cup gone \cup Ids)
        /\ dma' = InTurn(Reuses(Range(to)), data, Dirs(d), seq)
        /\ armed' = ((armed \ used) \ Range(to)) \cup {slotOf'[e] : e \in P}
        /\ used' = {slotOf'[e] : e \in Ids}
    BY <1>1
  <1>3. /\ dma = <<>> /\ seq # done /\ row.kind = "request"
        /\ fresh' = {} /\ done' = seq
        /\ UNCHANGED <<seq, row, served, answer, dir, bytes, tag, placed>>
        /\ UNCHANGED <<on, posts, at, seen, left, reg, stale, misled>>
    BY DEF PollServes, Asked, dram, card, past
  <1>4. Typed /\ Slotted /\ Counted BY DEF HostInv
  <1>5. /\ Writes = {} /\ served = done
        /\ \A x \in Expert : dir[x] = Home(x)
        /\ \A s : ~ TagSent(s) /\ ~ Clearing(s)
        /\ \A x \in InSlots \ OnTheWay, p \in 1..Parts : bytes[slotOf[x]][p] = x
        /\ \A q \in ToSet(pending), p \in 1..Parts : p <= q.sent => bytes[slotOf[q.e]][p] = q.e
    BY <1>3, Quiet
  <1>6. /\ seq \in Nat /\ done \in Nat /\ served \in Nat /\ row.ids \in Seq(Expert)
        /\ IsInjective(row.ids) /\ Ids \subseteq Expert /\ Ids = Range(row.ids)
    BY <1>4, ExpertsAssumption DEF Typed, Ids, ToSet, Range
  <1>7. at # "row" BY <1>3, <1>4, <1>5 DEF Counted
  <1>8. plan \in Seq(Expert) /\ IsInjective(plan) /\ P = Ids \ (InSlots \ OnTheWay)
    <2>1. plan \in Seq(Expert) /\ Range(plan) = Range(row.ids) \ (InSlots \ OnTheWay) /\ IsInjective(plan)
      BY <1>6, WithoutIs
    <2> HIDE DEF plan
    <2>2. P = Range(plan) BY DEF ToSet, Range
    <2> QED BY <2>1, <2>2, <1>6
  <1> HIDE DEF plan
  <1>9. /\ \A e \in Ids : e \in InSlots <=> slotOf[e] # None
        /\ OnTheWay \subseteq InSlots /\ InSlots \subseteq Expert
        /\ \A e \in InSlots : slotOf[e] # None
    BY <1>4, <1>6 DEF InSlots, Slotted
  <1>10. /\ P \subseteq Ids /\ \A e \in P : e \in M \/ e \in OnTheWay
         /\ \A e \in Ids \ P : slotOf[e] # None /\ e \notin OnTheWay /\ e \in InSlots
         /\ M \subseteq P /\ M \subseteq Ids /\ \A e \in M : slotOf[e] = None
         /\ \A e \in M : e \notin OnTheWay
    BY <1>8, <1>9
  <1>11. gone \subseteq OnTheWay /\ gone \cap Ids = {} OBVIOUS
  <1> HIDE DEF M, P, gone
  <1>12. /\ to \in [M -> Slot] /\ DOMAIN to = M /\ Range(to) \subseteq Slot
         /\ out \subseteq InSlots /\ out \cap Ids = {}
         /\ slotOf' \in [Expert -> SlotOrNone]
         /\ \A e \in M : slotOf'[e] = to[e] /\ slotOf'[e] \in Slot /\ slotOf'[e] \in Range(to)
         /\ \A e \in Expert \ M : slotOf'[e] = (IF e \in out \cup gone THEN None ELSE slotOf[e])
         /\ \A e \in Ids \ M : slotOf'[e] = slotOf[e]
         /\ \A e \in Expert \ M : slotOf'[e] \notin Range(to)
         /\ \A e, f \in Expert : slotOf'[e] # None /\ slotOf'[e] = slotOf'[f] => e = f
         /\ \A e \in Expert : slotOf'[e] \notin placed
    <2>1. M \in SUBSET Ids /\ Ids \in SUBSET Expert BY <1>6, <1>10
    <2>2. gone \in SUBSET Expert /\ gone \cap Ids = {} BY <1>9, <1>11
    <2>3. Typed /\ Slotted /\ \A e \in M : slotOf[e] = None BY <1>4, <1>10
    <2>4. Assigned(M, Ids, to, gone)
      BY <2>1, <2>2, <2>3, SlotsForIs
    <2> QED BY <1>2, <2>4 DEF Assigned, out
  <1>13. \A e \in P : /\ e \in Expert /\ SlotAt(e, to) = slotOf'[e] /\ slotOf'[e] \in Slot /\ slotOf'[e] # None
                      /\ e \in OnTheWay => slotOf'[e] = slotOf[e]
    <2> SUFFICES ASSUME NEW e \in P
        PROVE  /\ e \in Expert /\ SlotAt(e, to) = slotOf'[e] /\ slotOf'[e] \in Slot /\ slotOf'[e] # None
               /\ e \in OnTheWay => slotOf'[e] = slotOf[e]
      OBVIOUS
    <2>1. e \in Expert /\ e \in Ids /\ None \notin Slot BY <1>6, <1>10, ExpertsAssumption
    <2>2. CASE e \in M BY <2>1, <2>2, <1>10, <1>12 DEF SlotAt
    <2>3. CASE e \in OnTheWay
      <3>1. e \notin M /\ slotOf[e] # None BY <2>3, <1>9, <1>10
      <3>2. slotOf'[e] = slotOf[e] /\ slotOf'[e] \in SlotOrNone BY <2>1, <3>1, <1>12
      <3> QED BY <2>1, <2>3, <3>1, <3>2 DEF SlotAt, SlotOrNone
    <2> QED BY <2>2, <2>3, <1>10
  <1>14. \A e \in Ids \ P : e \in Expert /\ slotOf'[e] = slotOf[e] /\ slotOf'[e] # None /\ slotOf'[e] \notin Range(to)
    BY <1>6, <1>10, <1>12
  <1>15. \A e \in Expert \ Ids : slotOf'[e] = (IF e \in out \cup gone THEN None ELSE slotOf[e])
    BY <1>10, <1>12
  <1>16. a \in [1..MaxIds -> SlotOrNone]
    <2>1. \A p \in Places : row.ids[p] \in Expert BY <1>4, <1>6, PlaceIs
    <2> QED BY <2>1, <1>12 DEF SlotOrNone
  <1>17. \A p \in 1..MaxIds : /\ p \in Places /\ row.ids[p] \in P \cup late => a[p] = slotOf'[row.ids[p]]
                              /\ a[p] # None => p \in Places /\ row.ids[p] \in P \cup late
    OBVIOUS
  <1>18. late \subseteq Ids /\ \A e \in late : e \in fresh /\ e \notin OnTheWay /\ slotOf[e] # None
    BY DEF Late
  <1>19. \A e \in Ids : slotOf[e] # None /\ e \notin OnTheWay /\ e \in fresh => e \in late
    BY DEF Late
  <1>20. d \in [D -> SlotOrNone] /\ D \in SUBSET Expert /\ DOMAIN d = D
         /\ \A e \in D : d[e] = (IF e \in P THEN slotOf'[e] ELSE None)
    <2>1. d = [e \in D |-> IF e \in P THEN slotOf'[e] ELSE None] BY DEF Changed
    <2>2. D \in SUBSET Expert BY <1>6, <1>9, <1>10, <1>12
    <2>3. \A e \in D : (IF e \in P THEN slotOf'[e] ELSE None) \in SlotOrNone BY <1>13 DEF SlotOrNone
    <2> HIDE DEF d, D
    <2> QED BY <2>1, <2>2, <2>3
  <1> HIDE DEF a, late, d
  <1>21. /\ data \in Seq(Write) /\ InLine(data)
         /\ \A w \in ToSet(data) :
              \/ w = Answer(a)
              \/ w.op \in {"part", "tag"} /\ w.e \in P /\ w.slot = slotOf'[w.e]
         /\ \A e \in P : Tag(slotOf'[e], e) \in ToSet(data)
         /\ \A e \in P, p \in 1..Parts : p <= From(e) \/ Part(slotOf'[e], p, e) \in ToSet(data)
         /\ Answer(a) \in ToSet(data) \/ (a = NoAnswer /\ ToSet(data) = {})
         /\ P = {} /\ a = NoAnswer => ToSet(data) = {}
    <2>1. \A e \in ToSet(plan) : e \in OnTheWay \/ to[e] \in Slot BY <1>10, <1>12 DEF P
    <2>2. LET x == Data(plan, to, a)
          IN /\ x \in Seq(Write) /\ InLine(x)
             /\ \A w \in ToSet(x) :
                  \/ w = Answer(a)
                  \/ w.op \in {"part", "tag"} /\ w.e \in ToSet(plan) /\ w.slot = SlotAt(w.e, to)
             /\ \A e \in ToSet(plan) : Tag(SlotAt(e, to), e) \in ToSet(x)
             /\ \A e \in ToSet(plan), p \in 1..Parts :
                  p <= From(e) \/ Part(SlotAt(e, to), p, e) \in ToSet(x)
             /\ Answer(a) \in ToSet(x) \/ (a = NoAnswer /\ ToSet(x) = {})
             /\ ToSet(plan) = {} /\ a = NoAnswer => ToSet(x) = {}
      BY <1>4, <1>8, <1>16, <2>1, DataIs
    <2>3. ToSet(plan) = P BY DEF P
    <2> HIDE DEF data
    <2>4. data = Data(plan, to, a) BY DEF data
    <2> QED BY <1>13, <2>2, <2>3, <2>4
  <1> HIDE DEF data, D, out
  <1>22. /\ dma' \in Seq(Write) /\ InLine(dma')
         /\ Writes' = ToSet(Reuses(Range(to))) \cup ToSet(data) \cup ToSet(Dirs(d)) \cup {Served(seq)}
    <2> DEFINE R == Range(to)
    <2> HIDE DEF R
    <2>1. R \in SUBSET Slot BY <1>12 DEF R
    <2>2. \A w \in ToSet(data) : w.op \in {"part", "tag", "answer"} BY <1>21 DEF Answer
    <2>3. D \in SUBSET Expert /\ d \in [D -> SlotOrNone] /\ seq \in Nat BY <1>6, <1>20
    <2>4. data \in Seq(Write) /\ InLine(data) BY <1>21
    <2>5. Lined(R, data, d, seq)
      BY <2>1, <2>2, <2>3, <2>4, InTurnIs
    <2>6. dma' = InTurn(Reuses(R), data, Dirs(d), seq) BY <1>2 DEF R
    <2> QED BY <2>5, <2>6 DEF Lined, Writes, R
  <1>23. /\ ToSet(Reuses(Range(to))) = (IF Range(to) \cap armed = {} THEN {} ELSE {NoTags(Range(to) \cap armed)})
         /\ ToSet(Dirs(d)) = (IF D = {} THEN {} ELSE {Dir(d)})
    <2>1. ToSet(Reuses(Range(to))) = (IF Range(to) \cap armed = {} THEN {} ELSE {NoTags(Range(to) \cap armed)})
      BY <1>12, ReusesIs
    <2>2. ToSet(Dirs(d)) = (IF D = {} THEN {} ELSE {Dir(d)}) BY <1>20, DirsIs
    <2> QED BY <2>1, <2>2
  <1>24. /\ NoTags(Range(to) \cap armed).op = "notags" /\ NoTags(Range(to) \cap armed).slots = Range(to) \cap armed
         /\ Dir(d).op = "dir" /\ Dir(d).to = d /\ Served(seq).op = "served" /\ Served(seq).n = seq
         /\ Answer(a).op = "answer" /\ Answer(a).to = a
    BY DEF NoTags, Dir, Served, Answer
  <1>25. \A w \in Writes' : /\ w.op = "notags" => w.slots = Range(to) \cap armed
                            /\ w.op = "dir" => w.to = d /\ D # {}
                            /\ w.op = "served" => w.n = seq
                            /\ w.op = "answer" => w = Answer(a) /\ w \in ToSet(data)
                            /\ w.op \in {"part", "tag"} => w.e \in P /\ w.slot = slotOf'[w.e]
    BY <1>21, <1>22, <1>23, <1>24
  <1>26. /\ Range(to) \cap armed # {} => NoTags(Range(to) \cap armed) \in Writes'
         /\ D # {} => Dir(d) \in Writes'
         /\ Served(seq) \in Writes'
         /\ ToSet(data) \subseteq Writes'
    BY <1>22, <1>23
  <1>27. \A s : TagSent(s)' <=> \E e \in P : slotOf'[e] = s
    <2>1. \A e, s : Tag(s, e).op = "tag" /\ Tag(s, e).slot = s /\ Tag(s, e).e = e BY DEF Tag
    <2>2. ASSUME NEW s, NEW e \in P, slotOf'[e] = s PROVE \E w \in Writes' : w.op = "tag" /\ w.slot = s
      <3>1. Tag(s, e) \in Writes' BY <2>2, <1>21, <1>26
      <3> QED BY <2>1, <3>1
    <2>3. \A s : (\E w \in Writes' : w.op = "tag" /\ w.slot = s) => \E e \in P : slotOf'[e] = s
      BY <1>25
    <2> QED BY <2>2, <2>3 DEF TagSent
  <1>28. \A s : Clearing(s)' <=> s \in Range(to) /\ s \in armed
    <2>1. \A s : (\E w \in Writes' : w.op = "notags" /\ s \in w.slots) <=> s \in Range(to) /\ s \in armed
      BY <1>24, <1>25, <1>26
    <2> QED BY <2>1 DEF Clearing
  <1>29. \A p \in 1..MaxIds : AnswerSent(p)' <=> a[p] # None
    <2> SUFFICES ASSUME NEW p \in 1..MaxIds
        PROVE  (\E w \in Writes' : w.op = "answer" /\ w.to[p] # None) <=> a[p] # None
      BY DEF AnswerSent
    <2>1. a[p] # None => a # NoAnswer BY DEF NoAnswer
    <2>2. a[p] # None => Answer(a) \in Writes' BY <2>1, <1>21, <1>26
    <2> QED BY <2>2, <1>24, <1>25
  <1>30. /\ pending' \in Seq(Hint) /\ Apart(pending')
         /\ \A q : q \in ToSet(pending') <=> q \in ToSet(pending) /\ q.e \notin out \cup gone \cup Ids
    <2> DEFINE X == out \cup gone \cup Ids
    <2>1. pending' = Kept(X) BY <1>2
    <2> HIDE DEF X
    <2>2. /\ Kept(X) \in Seq(Hint)
          /\ \A i, j \in DOMAIN Kept(X) : Kept(X)[i].e = Kept(X)[j].e => i = j
          /\ \A q : q \in ToSet(Kept(X)) <=> q \in ToSet(pending) /\ q.e \notin X
      BY <1>4, KeptIs
    <2> QED BY <2>1, <2>2 DEF X, Apart
  <1>31. OnTheWay' = OnTheWay \ (out \cup gone \cup Ids)
    <2>1. {q.e : q \in ToSet(pending')} = OnTheWay \ (out \cup gone \cup Ids)
      BY <1>30 DEF OnTheWay
    <2> QED BY <2>1 DEF OnTheWay
  <1>32. \A e \in Expert : Home(e)' = (IF e \in P THEN slotOf'[e] ELSE IF e \in out \cup gone THEN None ELSE Home(e))
    <2> SUFFICES ASSUME NEW e \in Expert
        PROVE  (IF e \in OnTheWay' THEN None ELSE slotOf'[e])
                 = (IF e \in P THEN slotOf'[e] ELSE IF e \in out \cup gone THEN None ELSE Home(e))
      BY DEF Home
    <2>1. CASE e \in P BY <2>1, <1>10, <1>31
    <2>2. CASE e \in Ids \ P BY <2>2, <1>10, <1>11, <1>12, <1>14, <1>31 DEF Home
    <2>3. CASE e \notin Ids BY <2>3, <1>10, <1>15, <1>31 DEF Home
    <2> QED BY <2>1, <2>2, <2>3
  <1>33. \A e \in InSlots' : /\ e \in Expert /\ slotOf'[e] # None
                             /\ e \in P \/ (e \in InSlots /\ e \notin out \cup gone /\ slotOf'[e] = slotOf[e])
    <2> SUFFICES ASSUME NEW e \in Expert, slotOf'[e] # None, e \notin P
        PROVE  e \in InSlots /\ e \notin out \cup gone /\ slotOf'[e] = slotOf[e]
      BY DEF InSlots
    <2>1. CASE e \in Ids BY <2>1, <1>10, <1>11, <1>12, <1>14
    <2>2. CASE e \notin Ids BY <2>2, <1>15 DEF InSlots
    <2> QED BY <2>1, <2>2
  <1>34. \A p \in Places : p \in 1..MaxIds /\ row.ids[p] \in Ids /\ row.ids[p] \in Expert
    BY <1>4, <1>6, PlaceIs
  <1>35. (Running' <=> Running) /\ Places' = Places /\ Ids' = Ids
         /\ ToTake' = ToTake /\ Turn' = Turn /\ \A p : (Read(p)' <=> Read(p)) /\ Own(p)' = slotOf'[row.ids[p]]
    <2>1. Turn' = Turn BY <1>3 DEF Turn
    <2>2. (Running' <=> Running) /\ Places' = Places /\ Ids' = Ids BY <1>3 DEF Running, Places, Ids
    <2>3. ToTake' = ToTake BY <1>3, <2>1, <2>2 DEF ToTake
    <2>4. \A p : (Read(p)' <=> Read(p)) /\ Own(p)' = slotOf'[row.ids[p]] BY <1>3 DEF Read, Own
    <2> QED BY <2>1, <2>2, <2>3, <2>4
  <1>36. ~ Running => at = "free" BY <1>4, <1>7 DEF Running, Typed
  <1>37. Typed'
    <2>1. armed' \subseteq Slot
      <3>1. {slotOf'[e] : e \in P} \subseteq Slot BY <1>13
      <3>2. armed \subseteq Slot BY <1>4 DEF Typed
      <3> QED BY <3>1, <3>2, <1>2
    <2>2. used' \subseteq Slot
      <3>1. \A e \in Ids : slotOf'[e] \in SlotOrNone /\ slotOf'[e] # None BY <1>6, <1>12, <1>13, <1>14
      <3> QED BY <3>1, <1>2 DEF SlotOrNone
    <2>3. fresh' \subseteq Expert BY <1>3
    <2> QED BY <2>1, <2>2, <2>3, <1>3, <1>4, <1>6, <1>12, <1>22, <1>30 DEF Typed
  <1>38. Slotted'
    <2>1. OnTheWay' \subseteq InSlots'
      <3>1. ASSUME NEW e \in OnTheWay' PROVE e \in Expert /\ slotOf'[e] # None
        <4>1. e \in OnTheWay /\ e \notin out \cup gone /\ e \notin Ids /\ e \in Expert BY <1>9, <1>31
        <4> QED BY <4>1, <1>9, <1>15
      <3> QED BY <3>1 DEF InSlots
    <2>2. \A e, f \in InSlots' : slotOf'[e] = slotOf'[f] => e = f BY <1>12 DEF InSlots
    <2>3. \A e \in InSlots' : slotOf'[e] \notin placed' BY <1>3, <1>12 DEF InSlots
    <2> QED BY <2>1, <2>2, <2>3, <1>30 DEF Slotted, Apart
  <1>39. Counted'
    <2>1. served' <= done' /\ done' <= seq' /\ seq' <= done' + 1 /\ served' # done' /\ seq' = done'
      BY <1>3, <1>4, <1>5, <1>6 DEF Counted
    <2>2. on' => seq' <= RebaseAt + posts' /\ posts' <= PostsPerRun BY <1>3, <1>4 DEF Counted
    <2>3. at' # "free" => on' /\ row.ids # <<>> BY <1>3, <1>4 DEF Counted
    <2>4. at' # "row" BY <1>3, <1>7
    <2>5. \E w \in Writes' : w.op = "served" BY <1>24, <1>26
    <2>6. \A w \in Writes' : w.op = "served" => w.n = done' BY <1>3, <1>25
    <2>7. Running => /\ row.kind = "request" /\ seen \subseteq Places /\ left \subseteq Places
      BY <1>4 DEF Counted
    <2>8. at = "flags" => left # {} /\ left \cap seen = {} BY <1>4 DEF Counted
    <2> QED BY <2>1, <2>2, <2>3, <2>4, <2>5, <2>6, <2>7, <2>8, <1>3, <1>35 DEF Counted
  <1>40. Polled'
    <2>1. served' # done' BY <1>3, <1>5
    <2> QED BY <2>1, <1>3, <1>22 DEF Polled
  <1>41. Directed'
    <2>1. ASSUME NEW w \in Writes', w.op = "dir", NEW e \in DOMAIN w.to
          PROVE  w.to[e] = Home(e)' /\ (w.to[e] # None => dir[e] = None)
      <3>1. w.to = d /\ e \in D /\ e \in Expert BY <2>1, <1>20, <1>25
      <3>2. CASE e \in P
        <4>1. w.to[e] = Home(e)' BY <3>1, <3>2, <1>20, <1>32
        <4>2. Home(e) = None BY <3>2, <1>10 DEF Home
        <4> QED BY <4>1, <4>2, <3>1, <1>5
      <3>3. CASE e \notin P
        <4>1. e \in out BY <3>1, <3>3 DEF D
        <4> QED BY <3>1, <3>3, <4>1, <1>20, <1>32
      <3> QED BY <3>2, <3>3
    <2>2. ASSUME NEW e \in Expert, \A w \in Writes' : w.op = "dir" => e \notin DOMAIN w.to
          PROVE  dir'[e] = Home(e)'
      <3>1. e \notin D BY <2>2, <1>20, <1>24, <1>26
      <3>2. dir'[e] = Home(e) /\ e \notin P BY <3>1, <1>3, <1>5 DEF D
      <3>3. CASE e \in out \cup gone
        <4>1. e \in OnTheWay BY <3>1, <3>3, <1>11 DEF D
        <4> QED BY <3>2, <3>3, <4>1, <1>32 DEF Home
      <3>4. CASE e \notin out \cup gone BY <3>2, <3>4, <1>32
      <3> QED BY <3>3, <3>4
    <2> QED BY <2>1, <2>2, <1>3 DEF Directed
  <1>42. Sending'
    <2>1. ASSUME NEW w \in Writes', w.op \in {"part", "tag"}
          PROVE  /\ slotOf'[w.e] = w.slot /\ dir[w.e] = None
                 /\ w.slot \in armed' /\ w.e \notin OnTheWay' /\ TagSent(w.slot)'
      <3>1. w.e \in P /\ w.slot = slotOf'[w.e] BY <2>1, <1>25
      <3>2. dir[w.e] = Home(w.e) BY <3>1, <1>5, <1>13
      <3>3. Home(w.e) = None BY <3>1, <1>10 DEF Home
      <3>4. w.slot \in armed' BY <3>1, <1>2
      <3>5. w.e \notin OnTheWay' BY <3>1, <1>10, <1>31
      <3>6. TagSent(w.slot)' BY <3>1, <1>27
      <3> QED BY <3>1, <3>2, <3>3, <3>4, <3>5, <3>6
    <2> QED BY <2>1, <1>3 DEF Sending
  <1>43. Landed'
    <2>1. ASSUME NEW e \in InSlots' \ OnTheWay', NEW p \in 1..Parts PROVE There(e, p)'
      <3>1. CASE e \in P
        <4>1. CASE p <= From(e)
          <5>1. e \in OnTheWay
            <6>1. p >= 1 /\ p \in Nat BY ExpertsAssumption
            <6> QED BY <4>1, <6>1 DEF From
          <5>2. PICK q \in ToSet(pending) : q.e = e /\ Sent(e) = q.sent BY <5>1, <1>4, SentOf
          <5>3. p <= q.sent BY <4>1, <5>1, <5>2 DEF From
          <5>4. bytes[slotOf[e]][p] = e BY <5>2, <5>3, <1>5
          <5>5. slotOf'[e] = slotOf[e] BY <3>1, <5>1, <1>13
          <5> QED BY <5>4, <5>5, <1>3 DEF There
        <4>2. CASE ~ (p <= From(e))
          <5>1. Part(slotOf'[e], p, e) \in Writes' BY <3>1, <4>2, <1>21, <1>26
          <5> QED BY <5>1 DEF There
        <4> QED BY <4>1, <4>2
      <3>2. CASE e \notin P
        <4>1. e \in InSlots /\ e \notin out \cup gone /\ slotOf'[e] = slotOf[e] BY <3>2, <1>33
        <4>2. e \notin OnTheWay BY <3>2, <4>1, <1>10, <1>31
        <4> QED BY <4>1, <4>2, <1>3, <1>5 DEF There
      <3> QED BY <3>1, <3>2
    <2>2. ASSUME NEW q \in ToSet(pending'), NEW p \in 1..Parts, p <= q.sent PROVE There(q.e, p)'
      <3>1. q \in ToSet(pending) /\ q.e \notin out \cup gone /\ q.e \notin Ids BY <1>30
      <3>2. q.e \in Expert BY <3>1, <1>9 DEF OnTheWay
      <3>3. slotOf'[q.e] = slotOf[q.e] BY <3>1, <3>2, <1>15
      <3> QED BY <2>2, <3>1, <3>3, <1>3, <1>5 DEF There
    <2>3. \A q \in ToSet(pending)', p \in 1..Parts : p <= q.sent => There(q.e, p)' BY <2>2
    <2> QED BY <2>1, <2>3 DEF Landed
  <1>44. HostInv' BY <1>37, <1>38, <1>39, <1>40, <1>41, <1>42, <1>43 DEF HostInv
  <1> SUFFICES ASSUME CardInv, ~ misled' PROVE CardInv'
    BY <1>44 DEF StepKeeps
  <1>45. Tagged /\ Placed /\ AnswerOwn /\ AtPlace /\ Zeroed /\ Coming /\ Freshly /\ Early
    BY DEF CardInv
  <1>46. Told = NoAnswer BY <1>3, <1>4, <1>45 DEF AnswerOwn
  <1>47. \A s \in Slot : tag[s] # None => s \in armed /\ s \notin used
    BY <1>3, <1>4, <1>45, <1>5 DEF Tagged, Over
  <1>48. Told' = Told /\ NoAnswer' = NoAnswer /\ \A p \in 1..MaxIds : Told[p] = None
    BY <1>3, <1>4, <1>45, <1>46, SameTold, ToldIs
  <1>49. at = "free" => P = {}
    <2> SUFFICES ASSUME at = "free" PROVE P = {}
      OBVIOUS
    <2>1. \A e \in Ids : slotOf[e] # None /\ e \notin OnTheWay BY <1>3, <1>4, <1>45 DEF Early, Unserved
    <2> QED BY <2>1, <1>9, <1>10
  <1>50. Tagged'
    <2>1. \A s \in Slot : tag'[s] # None => s \in armed' \/ Clearing(s)'
      BY <1>2, <1>3, <1>28, <1>47
    <2>2. \A e \in OnTheWay' : tag'[slotOf'[e]] = None /\ slotOf'[e] \notin used'
      <3> SUFFICES ASSUME NEW e \in OnTheWay' PROVE tag'[slotOf'[e]] = None /\ slotOf'[e] \notin used'
        OBVIOUS
      <3>1. e \in OnTheWay /\ e \notin out \cup gone /\ e \notin Ids /\ e \in Expert BY <1>9, <1>31
      <3>2. slotOf'[e] = slotOf[e] /\ slotOf'[e] # None BY <3>1, <1>9, <1>15
      <3>3. tag'[slotOf'[e]] = None BY <3>1, <3>2, <1>3, <1>4, <1>45, <1>5 DEF Tagged
      <3>4. slotOf'[e] \notin used' BY <3>1, <3>2, <1>2, <1>6, <1>12
      <3> QED BY <3>3, <3>4
    <2>3. \A s \in Slot : TagSent(s)' => tag'[s] = None \/ Clearing(s)'
      <3> SUFFICES ASSUME NEW s \in Slot, NEW e \in P, slotOf'[e] = s
          PROVE  tag'[s] = None \/ Clearing(s)'
        BY <1>27
      <3>1. CASE e \in M
        <4>1. s \in Range(to) BY <3>1, <1>12
        <4> QED BY <4>1, <1>3, <1>28, <1>47
      <3>2. CASE e \in OnTheWay
        <4>1. slotOf[e] = s BY <3>2, <1>13
        <4> QED BY <3>2, <4>1, <1>3, <1>4, <1>45, <1>5 DEF Tagged
      <3> QED BY <3>1, <3>2, <1>10
    <2>4. Over' => \A s \in used' : tag'[s] = None /\ ~ TagSent(s)'
      <3> SUFFICES ASSUME Over', NEW e \in Ids
          PROVE  tag'[slotOf'[e]] = None /\ ~ TagSent(slotOf[e])'
        BY <1>2
      <3>1. at = "free" BY <1>3, <1>7 DEF Over
      <3>2. P = {} BY <3>1, <1>49
      <3>3. slotOf'[e] = slotOf[e] BY <3>2, <1>14
      <3>4. tag[slotOf[e]] = None BY <3>1, <1>3, <1>4, <1>45 DEF Early, Unserved
      <3>5. \A s : ~ TagSent(s)' BY <3>2, <1>27
      <3> QED BY <3>3, <3>4, <3>5, <1>3
    <2>5. /\ \A e \in OnTheWay' : tag'[slotOf'[e]] = None
          /\ \A e \in OnTheWay' : slotOf'[e] \notin used'
      BY <2>2
    <2> QED BY <2>1, <2>3, <2>4, <2>5 DEF Tagged
  <1>51. Placed'
    <2> SUFFICES ASSUME Running PROVE Placed'
      BY <1>35 DEF Placed
    <2>1. \A p \in seen : dir[row.ids[p]] # None /\ dir[row.ids[p]] = slotOf'[row.ids[p]] /\ row.ids[p] \notin OnTheWay'
      <3> SUFFICES ASSUME NEW p \in seen
          PROVE  dir[row.ids[p]] # None /\ dir[row.ids[p]] = slotOf'[row.ids[p]] /\ row.ids[p] \notin OnTheWay'
        OBVIOUS
      <3>1. p \in Places /\ dir[row.ids[p]] # None /\ dir[row.ids[p]] = slotOf[row.ids[p]] /\ row.ids[p] \notin OnTheWay
        BY <1>4, <1>45 DEF Placed, Counted, Own
      <3>2. row.ids[p] \in Ids \ P BY <3>1, <1>10, <1>34
      <3> QED BY <3>1, <3>2, <1>14, <1>31
    <2>2. \A e \in Ids : slotOf'[e] # None /\ e \notin OnTheWay' /\ e \notin fresh'
      BY <1>3, <1>13, <1>14, <1>31
    <2>3. used' = {slotOf'[e] : e \in Ids'} BY <1>2, <1>35
    <2>4. \A p \in seen' : dir'[row'.ids[p]] # None /\ dir'[row'.ids[p]] = Own(p)' /\ row'.ids[p] \notin OnTheWay'
      BY <2>1, <1>3, <1>35
    <2> QED BY <2>2, <2>3, <2>4, <1>3, <1>35 DEF Placed
  <1>52. AnswerOwn'
    <2>1. \A w \in Writes' : w.op = "answer" =>
            \A p \in 1..MaxIds : w.to[p] # None => p \in Places' /\ w.to[p] = Own(p)'
      BY <1>17, <1>24, <1>25, <1>35
    <2>2. Told' = NoAnswer' /\ \A p \in 1..MaxIds : Told'[p] = None BY <1>46, <1>48
    <2> QED BY <2>1, <2>2 DEF AnswerOwn
  <1>53. at # "tag"
    <2> SUFFICES ASSUME at = "tag" PROVE FALSE
      OBVIOUS
    <2>1. left # {} /\ Told[Turn] # None BY <1>4, <1>45 DEF AtPlace
    <2>2. Turn \in left BY <2>1, <1>4, <1>45, TurnIs
    <2>3. Turn \in 1..MaxIds BY <2>2, <1>4, <1>45 DEF Typed
    <2> QED BY <2>1, <2>3, <1>48
  <1>54. AtPlace'
    <2>1. at = "computes" => left # {} BY <1>4, <1>45 DEF AtPlace
    <2>2. at = "computes" => /\ reg # None /\ reg = slotOf'[row.ids[Turn]]
                             /\ \A p \in 1..Parts : bytes[reg][p] = row.ids[Turn]
      <3> SUFFICES ASSUME at = "computes"
          PROVE  /\ reg # None /\ reg = slotOf'[row.ids[Turn]]
                 /\ \A p \in 1..Parts : bytes[reg][p] = row.ids[Turn]
        OBVIOUS
      <3>1. /\ reg # None /\ reg = slotOf[row.ids[Turn]]
            /\ \A p \in 1..Parts : bytes[reg][p] = row.ids[Turn]
        BY <1>4, <1>45 DEF AtPlace, Own
      <3>2. Turn \in left BY <2>1, <1>4, <1>45, TurnIs
      <3>3. left \subseteq Places BY <1>4, <1>45 DEF Counted, Running
      <3>4. row.ids[Turn] \in Ids BY <3>2, <3>3, <1>34
      <3>5. row.ids[Turn] \in Ids \ M BY <3>1, <3>4, <1>10
      <3>6. slotOf'[row.ids[Turn]] = slotOf[row.ids[Turn]] BY <3>5, <1>12
      <3> QED BY <3>1, <3>6
    <2>3. Own(Turn)' = slotOf'[row.ids[Turn]] BY <1>3, <1>35 DEF Own
    <2>4. at' = "computes" => /\ reg' # None /\ reg' = Own(Turn)'
                              /\ \A p \in 1..Parts : bytes'[reg'][p] = row'.ids[Turn']
      BY <2>2, <2>3, <1>3, <1>35
    <2> QED BY <2>1, <2>4, <1>3, <1>53 DEF AtPlace
  <1>55. Zeroed'
    <2> SUFFICES ASSUME Running, NEW p \in Places \ ToTake
        PROVE  Own(p)' # None /\ tag'[Own(p)'] = None /\ ~ TagSent(Own(p))'
      BY <1>35 DEF Zeroed
    <2>1. slotOf[row.ids[p]] # None /\ tag[slotOf[row.ids[p]]] = None BY <1>4, <1>45 DEF Zeroed, Own
    <2>2. p \in seen
      <3>1. at # "flags" BY DEF ToTake
      <3>2. Places \ left \subseteq seen /\ (at = "computes" => left \cap seen # {})
        BY <3>1, <1>3, <1>4, <1>45 DEF AtPlace
      <3>3. CASE p \notin left BY <3>2, <3>3
      <3>4. CASE p \in left
        <4>1. at = "computes" /\ p = Turn BY <3>1, <3>4 DEF ToTake
        <4>2. Turn \in seen BY <3>2, <3>4, <4>1, <1>4, <1>45, TurnIs
        <4> QED BY <4>1, <4>2
      <3> QED BY <3>3, <3>4
    <2>3. row.ids[p] \notin OnTheWay BY <2>2, <1>4, <1>45 DEF Placed
    <2>4. row.ids[p] \in Ids \ P BY <2>1, <2>3, <1>10, <1>34
    <2>5. slotOf'[row.ids[p]] = slotOf[row.ids[p]] BY <2>4, <1>14
    <2>6. \A e \in P : slotOf'[e] # slotOf'[row.ids[p]]
      BY <2>4, <1>12, <1>13, <1>14
    <2>7. ~ \E e \in P : slotOf'[e] = slotOf'[row.ids[p]] BY <2>6
    <2>8. \A s : s = slotOf'[row.ids[p]] => ~ TagSent(s)' BY <2>7, <1>27
    <2>9. Own(p)' = slotOf'[row.ids[p]] BY <1>35
    <2> QED BY <2>1, <2>5, <2>8, <2>9, <1>3
  <1>56. Coming'
    <2> SUFFICES ASSUME Running, NEW p \in Places
        PROVE  /\ Answers(p)' \/ (dir'[row'.ids[p]] # None /\ (Read(p)' => p \in seen'))
               /\ p \in ToTake' /\ p \notin seen' /\ Answers(p)' =>
                    (tag'[Own(p)'] # None /\ ~ Clearing(Own(p))') \/ TagSent(Own(p))'
      <3>1. seq' = done' BY <1>3
      <3> QED BY <3>1, <1>35 DEF Coming
    <2> DEFINE x == row.ids[p]
    <2>1. x \in Ids /\ x \in Expert /\ p \in 1..MaxIds BY <1>34
    <2>2. Own(p)' = slotOf'[x] BY <1>35
    <2>3. Answers(p)' <=> a[p] # None
      <3>1. Told'[p] = None BY <2>1, <1>48
      <3>2. AnswerSent(p)' <=> a[p] # None BY <2>1, <1>29
      <3> QED BY <3>1, <3>2 DEF Answers
    <2>4. seq # done /\ Read(p) /\ p \notin seen =>
            slotOf[x] = None \/ x \in OnTheWay \/ x \in fresh
      BY <1>4, <1>45 DEF Coming
    <2> HIDE DEF x
    <2>5. x \in P \cup late => a[p] = slotOf'[x] /\ a[p] # None
      <3>1. x \in P \cup late => a[p] = slotOf'[x] BY <2>1, <1>17 DEF x
      <3>2. slotOf'[x] # None BY <2>1, <1>13, <1>14
      <3> QED BY <3>1, <3>2
    <2>6. CASE x \in P
      <3>1. Answers(p)' BY <2>3, <2>5, <2>6
      <3>2. \A s : s = slotOf'[x] => TagSent(s)' BY <2>6, <1>27
      <3> QED BY <3>1, <3>2, <2>2
    <2>7. CASE x \in late /\ x \notin P
      <3>1. Answers(p)' BY <2>3, <2>5, <2>7
      <3>2. ASSUME p \notin seen PROVE tag'[slotOf'[x]] # None
        <4>1. x \in fresh /\ x \notin OnTheWay /\ slotOf[x] # None BY <2>7, <1>18
        <4>2. ~ (\E q \in seen : row.ids[q] = x)
          <5> SUFFICES ASSUME NEW q \in seen, row.ids[q] = x PROVE FALSE
            OBVIOUS
          <5>1. q \in Places BY <1>4, <1>45 DEF Counted
          <5>2. q = p BY <5>1, <1>4, <1>45, PlaceIs DEF x
          <5> QED BY <5>2, <3>2
        <4>u. ~ Unserved BY DEF Unserved, Running
        <4>3. tag[slotOf[x]] # None BY <4>u, <4>1, <4>2, <1>4, <1>45, <1>5 DEF Freshly
        <4>4. slotOf'[x] = slotOf[x] BY <2>1, <2>7, <1>14
        <4> QED BY <4>3, <4>4, <1>3
      <3>3. slotOf'[x] \notin Range(to) BY <2>1, <2>7, <1>14
      <3>4. \A s : s = slotOf'[x] => ~ Clearing(s)' BY <3>3, <1>28
      <3> QED BY <3>1, <3>2, <3>4, <2>2, <1>3
    <2>8. CASE x \notin P /\ x \notin late
      <3>1. a[p] = None BY <2>1, <2>8, <1>17 DEF x
      <3>2. slotOf[x] # None /\ x \notin OnTheWay BY <2>1, <2>8, <1>10
      <3>3. x \notin fresh BY <3>2, <2>1, <2>8, <1>19
      <3>4. dir[x] # None BY <3>2, <2>1, <1>5 DEF Home
      <3>5. Read(p) => p \in seen BY <3>2, <3>3, <2>4, <1>3
      <3>6. dir'[row'.ids[p]] # None BY <3>4, <1>3 DEF x
      <3>7. Read(p)' => p \in seen' BY <3>5, <1>3, <1>35
      <3> QED BY <3>1, <3>6, <3>7, <2>3
    <2> QED BY <2>6, <2>7, <2>8
  <1>57. Freshly' /\ Early' BY <1>3 DEF Freshly, Early, Unserved
  <1> QED BY <1>50, <1>51, <1>52, <1>54, <1>55, <1>56, <1>57 DEF CardInv

----------------------------------------------------------------------------
(* Every step keeps the invariant; a card that was misled stays so.        *)
LEMMA StutterKeeps ==
  ASSUME HostInv, UNCHANGED vars
  PROVE  StepKeeps
PROOF
  <1>1. /\ UNCHANGED <<seq, row, served, answer, dir, bytes, tag, dma, done, slotOf, pending, fresh,
                       armed, used, placed, on, posts, at, seen, left, reg, stale, misled>>
    BY DEF vars, dram, host, card, past
  <1>2. CardStep BY <1>1 DEF CardStep, host
  <1>3. /\ Slotted' /\ Polled' /\ Directed' /\ Sending' /\ Landed'
        /\ Writes' = Writes
        /\ \A s : (TagSent(s)' <=> TagSent(s)) /\ (Clearing(s)' <=> Clearing(s))
        /\ \A p : AnswerSent(p)' <=> AnswerSent(p)
        /\ OnTheWay' = OnTheWay /\ InSlots' = InSlots
    BY <1>2, CardKeeps
  <1>4. /\ (Running' <=> Running) /\ (Over' <=> Over) /\ Places' = Places /\ Ids' = Ids /\ Turn' = Turn
        /\ (Unserved' <=> Unserved)
    BY <1>1 DEF Running, Over, Places, Ids, Turn, Unserved
  <1>5. ToTake' = ToTake /\ \A p : (Own(p)' = Own(p)) /\ (Read(p)' <=> Read(p))
    BY <1>1, <1>4 DEF ToTake, Own, Read
  <1>6. Told' = Told /\ NoAnswer' = NoAnswer BY <1>1, SameTold
  <1>7. Typed /\ Counted BY DEF HostInv
  <1>8. Typed' BY <1>1, <1>7 DEF Typed
  <1>9. Counted' BY <1>1, <1>3, <1>4, <1>7 DEF Counted
  <1>10. HostInv' BY <1>3, <1>8, <1>9 DEF HostInv
  <1> SUFFICES ASSUME CardInv PROVE CardInv'
    BY <1>10 DEF StepKeeps
  <1>11. Tagged /\ Placed /\ AnswerOwn /\ AtPlace /\ Zeroed /\ Coming /\ Freshly /\ Early
    BY DEF CardInv
  <1>12. Tagged' BY <1>1, <1>3, <1>4, <1>11 DEF Tagged
  <1>13. Placed' BY <1>1, <1>3, <1>4, <1>5, <1>11 DEF Placed
  <1>14. AnswerOwn' BY <1>6, <1>1, <1>3, <1>4, <1>5, <1>11 DEF AnswerOwn
  <1>15. AtPlace'
    <2>1. Own(Turn)' = Own(Turn) BY <1>1, <1>4 DEF Own
    <2> QED BY <1>6, <1>1, <1>4, <1>11, <2>1 DEF AtPlace
  <1>16. Zeroed'
    <2>1. \A p : TagSent(Own(p))' <=> TagSent(Own(p)) BY <1>3, <1>5
    <2> QED BY <1>1, <1>4, <1>5, <1>11, <2>1 DEF Zeroed
  <1>17. Coming'
    <2>1. \A p : /\ TagSent(Own(p))' <=> TagSent(Own(p))
                 /\ Clearing(Own(p))' <=> Clearing(Own(p))
                 /\ Answers(p)' <=> Answers(p)
      BY <1>6, <1>1, <1>3, <1>5 DEF Answers
    <2> QED BY <1>1, <1>3, <1>4, <1>5, <1>11, <2>1 DEF Coming
  <1>18. Freshly'
    <2>1. \A e : TagSent(slotOf[e])' <=> TagSent(slotOf[e]) BY <1>1, <1>3
    <2> QED BY <1>1, <1>3, <1>4, <1>11, <2>1 DEF Freshly
  <1>19. Early'
    <2>1. \A e : TagSent(slotOf[e])' <=> TagSent(slotOf[e]) BY <1>1, <1>3
    <2> QED BY <1>1, <1>3, <1>4, <1>11, <2>1 DEF Early
  <1> QED BY <1>12, <1>13, <1>14, <1>15, <1>16, <1>17, <1>18, <1>19 DEF CardInv

LEMMA EachKeeps ==
  ASSUME HostInv, [Next]_vars
  PROVE  StepKeeps
PROOF
  <1>2. CASE Poll
    <2>1. CASE PollSteps BY <2>1, PollStepsKeeps
    <2>2. CASE PollHolds BY <2>2, PollHoldsKeeps
    <2>3. CASE PollHint BY <2>3, PollHintKeeps
    <2>4. CASE PollServes BY <2>4, PollServesKeeps
    <2> QED BY <1>2, <2>1, <2>2, <2>3, <2>4 DEF Poll
  <1>3. CASE Dma BY <1>3, DmaKeeps
  <1>4. CASE Starts BY <1>4, StartsKeeps
  <1>5. CASE Release BY <1>5, ReleaseKeeps
  <1>6. ASSUME NEW s \in Slot, Place(s) PROVE StepKeeps BY <1>6, PlaceKeeps
  <1>7. ASSUME NEW kind \in {"hint", "request"}, NEW ids \in Lists, Asks(kind, ids) PROVE StepKeeps
    BY <1>7, AsksKeeps
  <1>8. CASE Program
    <2>1. CASE Posts BY <2>1, PostsKeeps
    <2>2. CASE ReadsFlag BY <2>2, ReadsFlagKeeps
    <2>3. CASE TakesPresent BY <2>3, TakesPresentKeeps
    <2>4. CASE TakesAnswer BY <2>4, TakesAnswerKeeps
    <2>5. CASE TakesTag BY <2>5, TakesTagKeeps
    <2>6. CASE Computes BY <2>6, ComputesKeeps
    <2>7. CASE Ends BY <2>7, EndsKeeps
    <2> QED BY <1>8, <2>1, <2>2, <2>3, <2>4, <2>5, <2>6, <2>7 DEF Program
  <1>9. CASE Halts BY <1>9, HaltsKeeps
  <1>10. CASE UNCHANGED vars BY <1>10, StutterKeeps
  <1> QED BY <1>2, <1>3, <1>4, <1>5, <1>6, <1>7, <1>8, <1>9, <1>10 DEF Next

LEMMA StaysMisled ==
  ASSUME [Next]_vars, misled
  PROVE  misled'
PROOF
  <1>1. CASE Poll BY <1>1 DEF Poll, PollSteps, PollHolds, PollHint, PollServes, past
  <1>2. CASE Dma BY <1>2 DEF Dma
  <1>3. CASE Starts BY <1>3 DEF Starts, past
  <1>4. CASE Release BY <1>4 DEF Release, past
  <1>5. ASSUME NEW s \in Slot, Place(s) PROVE misled' BY <1>5 DEF Place, past
  <1>6. ASSUME NEW kind \in {"hint", "request"}, NEW ids \in Lists, Asks(kind, ids) PROVE misled'
    BY <1>6 DEF Asks, past
  <1>7. CASE Program
    BY <1>7 DEF Program, Posts, ReadsFlag, TakesPresent, TakesAnswer, TakesTag, Computes, Ends, past
  <1>8. CASE Halts BY <1>8 DEF Halts, past
  <1>9. CASE UNCHANGED vars BY <1>9 DEF vars, past
  <1> QED BY <1>1, <1>2, <1>3, <1>4, <1>5, <1>6, <1>7, <1>8, <1>9 DEF Next

LEMMA NextKeeps ==
  ASSUME ExpertsInv, [Next]_vars
  PROVE  ExpertsInv'
PROOF
  <1>1. HostInv /\ (misled \/ CardInv) BY DEF ExpertsInv
  <1>2. StepKeeps BY <1>1, EachKeeps
  <1>3. HostInv' BY <1>2 DEF StepKeeps
  <1>4. misled => misled' BY StaysMisled
  <1>5. CardInv /\ ~ misled' => CardInv' BY <1>2 DEF StepKeeps
  <1> QED BY <1>1, <1>3, <1>4, <1>5 DEF ExpertsInv

LEMMA ExpertsHold == Spec => []ExpertsInv
PROOF
  <1>1. Init => ExpertsInv BY InitHolds
  <1>2. ExpertsInv /\ [Next]_vars => ExpertsInv' BY NextKeeps
  <1> QED BY <1>1, <1>2, PTL DEF Spec

(* Once the host's writes are in the card's DRAM, the entries are the      *)
(* host's slots, of the experts that have landed and of no other           *)
(* (_write_directory), also after the card took a slot from an old answer, *)
THEOREM ExpertsDirectoryAgrees == Spec => []DirectoryAgrees
PROOF
  <1>1. Spec => []ExpertsInv BY ExpertsHold
  <1>2. ExpertsInv => DirectoryAgrees BY Quiet DEF ExpertsInv, DirectoryAgrees, Home
  <1> QED BY <1>1, <1>2, PTL

(* ... the slot the card computes with holds its expert's bytes, each of   *)
(* them, whatever the host hinted, replaced, placed or sent meanwhile: it  *)
(* may be another's only once a slot was taken from an old answer,         *)
THEOREM ExpertsComputesOwn == Spec => []ComputesOwn
PROOF
  <1>1. Spec => []ExpertsInv BY ExpertsHold
  <1>2. ExpertsInv => ComputesOwn BY DEF ExpertsInv, CardInv, AtPlace, ComputesOwn
  <1> QED BY <1>1, <1>2, PTL

(* ... until then a post finds no answer but an old one, and no tag that   *)
(* the host does not know of (_reuse, and the card's zeroing of what it    *)
(* took),                                                                  *)
THEOREM ExpertsClearAtPost == Spec => []ClearAtPost
PROOF
  <1>1. Spec => []ExpertsInv BY ExpertsHold
  <1>2. ASSUME ExpertsInv PROVE ClearAtPost
    <2> SUFFICES ASSUME at = "row", ~ misled
        PROVE  /\ ~ stale => answer = NoAnswer
               /\ \A s \in Slot : tag[s] # None => s \in armed
      BY DEF ClearAtPost
    <2>1. Typed /\ Counted /\ Polled /\ Tagged /\ AnswerOwn BY <1>2 DEF ExpertsInv, HostInv, CardInv
    <2>2. ~ stale => answer = NoAnswer BY <2>1 DEF AnswerOwn, Running, Told
    <2>3. served = done
      <3>1. served = seq /\ served <= done /\ done <= seq BY <2>1 DEF Counted
      <3>2. seq \in Nat /\ done \in Nat /\ served \in Nat BY <2>1 DEF Typed
      <3> QED BY <3>1, <3>2
    <2>4. \A w \in Writes : w.op # "notags" BY <2>1, <2>3 DEF Polled
    <2>5. \A s : ~ Clearing(s) BY <2>4 DEF Clearing
    <2> QED BY <2>1, <2>2, <2>5 DEF Tagged
  <1> QED BY <1>1, <1>2, PTL

(* ... and no request waits for an answer or a tag that is not to come:    *)
(* when the host has served it and its writes are there, what the card     *)
(* waits for is there (serve() answers what the card may not have read),   *)
(* with or without an old answer that it took nothing from.                *)
THEOREM ExpertsWaitsEnd == Spec => []WaitsEnd
PROOF
  <1>1. Spec => []ExpertsInv BY ExpertsHold
  <1>2. ASSUME ExpertsInv PROVE WaitsEnd
    <2> SUFFICES ASSUME dma = <<>>, seq = done, ~ misled
        PROVE  /\ at = "experts" /\ left # {} /\ left \cap seen = {} => answer[Turn] # None
               /\ at = "tag" => tag[reg] # None
      BY DEF WaitsEnd
    <2>1. Typed /\ Counted /\ Placed /\ AnswerOwn /\ AtPlace /\ Coming
      BY <1>2 DEF ExpertsInv, HostInv, CardInv
    <2>2. /\ \A s : ~ TagSent(s) /\ ~ Clearing(s)
          /\ \A p : Answers(p) <=> Told[p] # None
      BY <1>2, Quiet DEF ExpertsInv
    <2>3. ASSUME at \in {"experts", "tag"}, left # {}, left \cap seen = {}
          PROVE  /\ Turn \in Places /\ Told[Turn] # None /\ tag[Own(Turn)] # None
      <3>1. Turn \in left BY <2>1, <2>3, TurnIs
      <3>2. Running BY <2>3 DEF Running
      <3>3. Turn \in Places /\ Turn \notin seen /\ Turn \in ToTake
        BY <2>1, <2>3, <3>1, <3>2 DEF Counted, ToTake
      <3>4. Read(Turn) BY <2>3 DEF Read
      <3>5. Told[Turn] # None BY <2>1, <2>2, <3>2, <3>3, <3>4 DEF Coming
      <3>6. tag[Own(Turn)] # None BY <2>1, <2>2, <3>2, <3>3, <3>5 DEF Coming
      <3> QED BY <3>3, <3>5, <3>6
    <2>4. \A p \in Places : Told[p] # None => answer[p] # None
      <3>1. \A p \in Places : p \in 1..MaxIds BY <2>1, PlaceIs
      <3> QED BY <2>1, <3>1, ToldIs
    <2>5. at = "tag" => tag[reg] # None
      <3> SUFFICES ASSUME at = "tag" PROVE tag[reg] # None
        OBVIOUS
      <3>1. left # {} /\ left \cap seen = {} /\ Told[Turn] # None /\ reg = Told[Turn]
        BY <2>1 DEF AtPlace
      <3>2. Turn \in Places /\ tag[Own(Turn)] # None BY <2>3, <3>1
      <3>3. Turn \in 1..MaxIds BY <3>2, <2>1, PlaceIs
      <3>4. reg = Own(Turn) BY <2>1, <3>1, <3>3 DEF AnswerOwn
      <3> QED BY <3>2, <3>4
    <2> QED BY <2>3, <2>4, <2>5
  <1> QED BY <1>1, <1>2, PTL
=============================================================================
