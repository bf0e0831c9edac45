-------------------------- MODULE SequencerProofs --------------------------
(***************************************************************************)
(* Proofs about Sequencer: for every run, window, mask and width of the    *)
(* counters (twice the window at least), the wait entries keep the memory  *)
(* accesses in program order, though the sequencer compares no addresses;  *)
(* and the run goes on, while the counts are within half their range of    *)
(* what is waited for.                                                     *)
(***************************************************************************)
EXTENDS Sequencer, FiniteSetTheorems, SequenceTheorems, WellFoundedInduction, TLAPS

(* How many instructions of unit u come before the p-th.                   *)
Nth(u, p) == Cardinality(Before(u, p))

(* The slots with instructions of unit u.                                  *)
At(u) == {s \in Slot : Full(s) /\ UnitAt(s) = u}
----------------------------------------------------------------------------
(* Numbers.                                                                *)

LEMMA Basics ==
  /\ WIN \in Nat \ {0} /\ VMW \in Nat \ {0} /\ Wrap \in Nat \ {0} /\ 2 * WIN <= Wrap
  /\ VN = VMW + 1 /\ VN \in Nat \ {0} /\ KMAX = WIN - 1
  /\ IsFiniteSet(Slot) /\ Cardinality(Slot) = WIN /\ Slot \subseteq Nat \ {0}
PROOF
  <1>1. WIN \in Nat \ {0} /\ VMW \in Nat \ {0} /\ Wrap \in Nat /\ 2 * WIN <= Wrap
    BY SequencerAssumption
  <1>2. IsFiniteSet(1..WIN) /\ Cardinality(1..WIN) = IF 1 > WIN THEN 0 ELSE WIN - 1 + 1
    <2>1. 1 \in Int /\ WIN \in Int BY <1>1
    <2> QED BY <2>1, FS_Interval
  <1>3. Cardinality(1..WIN) = WIN BY <1>1, <1>2
  <1> QED BY <1>1, <1>2, <1>3 DEF VN, KMAX, Slot

(* A set of numbers has a least one.                                       *)
LEMMA LeastExists ==
  ASSUME NEW S \in SUBSET Nat, S # {}
  PROVE  \E m \in S : \A k \in S : m <= k
PROOF
  <1> DEFINE less == OpToRel(<, Nat)
  <1>1. IsWellFoundedOn(less, Nat) BY NatLessThanWellFounded
  <1>2. PICK m \in S : \A k \in S : <<k, m>> \notin less
    <2> HIDE DEF less
    <2> QED BY <1>1, WFMin
  <1>3. \A k \in S : ~ (k < m) BY <1>2 DEF OpToRel
  <1> QED BY <1>3

LEMMA LeastIs ==
  ASSUME NEW S \in SUBSET Nat, S # {}
  PROVE  Least(S) \in S /\ \A k \in S : Least(S) <= k
BY LeastExists DEF Least

LEMMA OldestIs ==
  ASSUME NEW S \in SUBSET Slot, S # {}, \A s \in Slot : pos[s] \in Nat
  PROVE  Oldest(S) \in S /\ \A t \in S : pos[Oldest(S)] <= pos[t]
PROOF
  <1> DEFINE P == {pos[s] : s \in S}
  <1>1. P \in SUBSET Nat /\ P # {} OBVIOUS
  <1>2. \E m \in P : \A k \in P : m <= k
    <2> HIDE DEF P
    <2> QED BY <1>1, LeastExists
  <1>3. \E s \in S : \A t \in S : pos[s] <= pos[t] BY <1>2
  <1> QED BY <1>3 DEF Oldest

LEMMA TakesIs ==
  ASSUME FreeSlots # {}
  PROVE  Takes \in Slot /\ ~ Full(Takes)
PROOF
  <1>1. FreeSlots \in SUBSET Nat BY Basics DEF FreeSlots
  <1>2. \E s \in FreeSlots : \A t \in FreeSlots : s <= t BY <1>1, LeastExists
  <1>3. Takes \in FreeSlots BY <1>2 DEF Takes
  <1> QED BY <1>3 DEF FreeSlots

(* Indices modulo VN, counts modulo Wrap.                                  *)
LEMMA ModAdds ==
  ASSUME NEW m \in Nat \ {0}, NEW a \in Int
  PROVE  (a + m) % m = a % m
PROOF
  <1> DEFINE p == a \div m
             q == (a + m) \div m
             r == a % m
             t == (a + m) % m
             x == q - p - 1
  <1>1. a = p * m + r /\ p \in Int
    <2>1. a = (a \div m) * m + (a % m) BY SMTT(30)
    <2> QED BY <2>1
  <1>2. a + m = q * m + t /\ q \in Int
    <2> DEFINE b == a + m
    <2>1. b \in Int OBVIOUS
    <2> HIDE DEF b
    <2>2. b = (b \div m) * m + (b % m) BY <2>1, SMTT(30)
    <2>3. b \div m \in Int BY <2>1
    <2> QED BY <2>2, <2>3 DEF b
  <1>3. r \in 0..(m - 1) OBVIOUS
  <1>4. t \in 0..(m - 1)
    <2> DEFINE b == a + m
    <2>1. b \in Int OBVIOUS
    <2> HIDE DEF b
    <2>2. b % m \in 0..(m - 1) BY <2>1
    <2> QED BY <2>2 DEF b
  <1> HIDE DEF p, q, r, t
  <1>5. x \in Int /\ q = (p + 1) + x BY <1>1, <1>2
  <1> HIDE DEF x
  <1>6. /\ ((p + 1) + x) * m = (p + 1) * m + x * m /\ (p + 1) * m = p * m + m
        /\ p * m \in Int /\ x * m \in Int
    BY <1>1, <1>5
  <1>7. r - t = x * m BY <1>1, <1>2, <1>3, <1>4, <1>5, <1>6
  <1>8. r - t < m /\ - m < r - t BY <1>3, <1>4
  <1>9. x >= 1 => x * m >= m BY <1>5
  <1>10. x <= -1 => x * m <= - m BY <1>5
  <1>11. x = 0 BY <1>5, <1>6, <1>7, <1>8, <1>9, <1>10
  <1>12. x * m = 0 BY <1>11
  <1> QED BY <1>3, <1>4, <1>7, <1>12 DEF r, t

LEMMA ModOnce ==
  ASSUME NEW m \in Nat \ {0}, NEW a \in Int, NEW b \in Int, a - b < m, b - a < m, a % m = b % m
  PROVE  a = b
PROOF
  <1> DEFINE p == a \div m
             q == b \div m
             r == a % m
             x == p - q
  <1>1. a = p * m + r /\ p \in Int
    <2>1. a = (a \div m) * m + (a % m) BY SMTT(30)
    <2> QED BY <2>1
  <1>2. b = q * m + r /\ q \in Int
    <2>1. b = (b \div m) * m + (b % m) BY SMTT(30)
    <2> QED BY <2>1
  <1>3. r \in Int OBVIOUS
  <1> HIDE DEF p, q, r
  <1>4. x \in Int /\ p = q + x BY <1>1, <1>2
  <1> HIDE DEF x
  <1>5. (q + x) * m = q * m + x * m /\ q * m \in Int /\ x * m \in Int BY <1>2, <1>4
  <1>6. x * m < m /\ - m < x * m
    <2>1. a - b = x * m BY <1>1, <1>2, <1>3, <1>4, <1>5
    <2> QED BY <1>5, <2>1
  <1>7. ~ (x >= 1)
    <2>1. x >= 1 => x * m >= m BY <1>4
    <2> QED BY <1>5, <1>6, <2>1
  <1>8. ~ (x <= -1)
    <2>1. x <= -1 => x * m <= - m BY <1>4
    <2> QED BY <1>5, <1>6, <2>1
  <1>9. x = 0 BY <1>4, <1>7, <1>8
  <1>10. p = q BY <1>2, <1>4, <1>9
  <1> QED BY <1>1, <1>2, <1>10

LEMMA ModBelow ==
  ASSUME NEW m \in Nat \ {0}, NEW a \in Int, a < 0, 0 <= a + m
  PROVE  a % m = a + m
OBVIOUS

(* A count short of its target, by the window at most, does not read as    *)
(* reached.                                                                *)
LEMMA NotReached ==
  ASSUME NEW c \in Int, NEW t \in Int, c < t, t <= c + WIN
  PROVE  ~ Reached(c, t)
PROOF
  <1>1. (c - t) % Wrap = c - t + Wrap
    <2> DEFINE a == c - t
    <2>1. a \in Int /\ a < 0 /\ 0 <= a + Wrap BY Basics
    <2>2. Wrap \in Nat \ {0} BY Basics
    <2> HIDE DEF a
    <2>3. a % Wrap = a + Wrap BY <2>1, <2>2, ModBelow
    <2> QED BY <2>3 DEF a
  <1>2. 2 * (c - t + Wrap) >= Wrap BY Basics
  <1>3. Wrap \in Nat BY Basics
  <1> QED BY <1>1, <1>2, <1>3 DEF Reached
----------------------------------------------------------------------------
(* Instructions of a unit before another.                                  *)

LEMMA BeforeIs ==
  ASSUME NEW u, NEW p \in Nat
  PROVE  /\ IsFiniteSet(Before(u, p)) /\ Nth(u, p) \in Nat
         /\ \A q \in Nat : p <= q => Nth(u, p) <= Nth(u, q)
PROOF
  <1>1. \A q \in Nat : IsFiniteSet(Before(u, q))
    <2> TAKE q \in Nat
    <2>1. IsFiniteSet(1..(q - 1))
      <3>1. 1 \in Int /\ q - 1 \in Int OBVIOUS
      <3> QED BY <3>1, FS_Interval
    <2>2. Before(u, q) \in SUBSET (1..(q - 1)) BY DEF Before
    <2> QED BY <2>1, <2>2, FS_Subset
  <1>2. Nth(u, p) \in Nat BY <1>1, FS_CardinalityType DEF Nth
  <1>3. ASSUME NEW q \in Nat, p <= q PROVE Nth(u, p) <= Nth(u, q)
    <2>1. Before(u, p) \in SUBSET Before(u, q) BY <1>3 DEF Before
    <2> QED BY <1>1, <2>1, FS_Subset DEF Nth
  <1> QED BY <1>1, <1>2, <1>3

LEMMA NthStarts == ASSUME NEW u PROVE Nth(u, 1) = 0
PROOF
  <1>1. Before(u, 1) = {}
    <2>1. 1..(1 - 1) = {} OBVIOUS
    <2> QED BY <2>1 DEF Before
  <1> QED BY <1>1, FS_EmptySet DEF Nth

LEMMA NthGoesOn ==
  ASSUME NEW u, NEW p \in Nat \ {0}
  PROVE  Nth(u, p + 1) = IF run[p].unit = u THEN Nth(u, p) + 1 ELSE Nth(u, p)
PROOF
  <1>1. 1..((p + 1) - 1) = (1..(p - 1)) \cup {p} /\ p \notin 1..(p - 1) OBVIOUS
  <1>2. IsFiniteSet(Before(u, p)) BY BeforeIs
  <1>3. p \notin Before(u, p) BY <1>1 DEF Before
  <1>4. CASE run[p].unit = u
    <2>1. Before(u, p + 1) = Before(u, p) \cup {p} BY <1>1, <1>4 DEF Before
    <2>2. Cardinality(Before(u, p) \cup {p}) = Cardinality(Before(u, p)) + 1
      BY <1>2, <1>3, FS_AddElement
    <2> QED BY <1>4, <2>1, <2>2 DEF Nth
  <1>5. CASE run[p].unit # u
    <2>1. Before(u, p + 1) = Before(u, p) BY <1>1, <1>5 DEF Before
    <2> QED BY <1>5, <2>1 DEF Nth
  <1> QED BY <1>4, <1>5

(* A unit's instructions are numbered in program order.                    *)
LEMMA NthRises ==
  ASSUME NEW q \in Nat \ {0}, NEW p \in Nat, q < p
  PROVE  Nth(run[q].unit, q) < Nth(run[q].unit, p)
PROOF
  <1> DEFINE u == run[q].unit
  <1>1. Nth(u, q + 1) = Nth(u, q) + 1 BY NthGoesOn
  <1>2. q + 1 \in Nat /\ q + 1 <= p OBVIOUS
  <1> HIDE DEF u
  <1>3. Nth(u, q + 1) <= Nth(u, p) BY <1>2, BeforeIs
  <1>4. Nth(u, q) \in Nat /\ Nth(u, p) \in Nat BY BeforeIs
  <1>5. Nth(u, q) < Nth(u, p) BY <1>1, <1>3, <1>4
  <1> QED BY <1>5 DEF u

(* How far back, in its unit, the q-th is from the p-th.                   *)
LEMMA BackIs ==
  ASSUME NEW q \in Nat \ {0}, NEW p \in Nat, q < p
  PROVE  Back(p, q) = Nth(run[q].unit, p) - Nth(run[q].unit, q)
PROOF
  <1> DEFINE u == run[q].unit
             R == {r \in q..(p - 1) : run[r].unit = u}
  <1>1. Before(u, p) = Before(u, q) \cup R /\ Before(u, q) \cap R = {}
    <2>1. 1..(p - 1) = (1..(q - 1)) \cup (q..(p - 1)) /\ (1..(q - 1)) \cap (q..(p - 1)) = {} OBVIOUS
    <2> QED BY <2>1 DEF Before
  <1>2. Back(p, q) = Cardinality(R) BY DEF Back
  <1> HIDE DEF u, R
  <1>3. IsFiniteSet(Before(u, q)) /\ IsFiniteSet(Before(u, p)) BY BeforeIs
  <1>4. R \in SUBSET Before(u, p) BY <1>1
  <1>5. IsFiniteSet(R) BY <1>3, <1>4, FS_Subset
  <1>6. Cardinality(Before(u, p)) = Cardinality(Before(u, q)) + Cardinality(R) - Cardinality({})
    BY <1>1, <1>3, <1>5, FS_Union
  <1>7. Cardinality({}) = 0 BY FS_EmptySet
  <1>8. Cardinality(R) \in Nat /\ Nth(u, q) \in Nat BY <1>3, <1>5, FS_CardinalityType DEF Nth
  <1>9. Cardinality(R) = Nth(u, p) - Nth(u, q)
    BY <1>6, <1>7, <1>8 DEF Nth
  <1> QED BY <1>2, <1>9 DEF u

----------------------------------------------------------------------------
(* The invariant.                                                          *)

Typed ==
  /\ run \in Seq(Ins) /\ next \in 1..(Len(run) + 1)
  /\ pos \in [Slot -> 0..Len(run)] /\ idx \in [Slot -> Nat]
  /\ wt \in [Slot -> [InOrder -> Int]] /\ wtd \in [Slot -> [Streams -> Int]]
  /\ allq \subseteq Slot /\ dramq \subseteq Slot
  /\ queue \in [Unit -> Seq(Slot)] /\ released \in Nat
  /\ wd \in [Unit -> Nat] /\ wc \in [InOrder -> Nat]

(* The window's instructions are some of those dispatched, once each, and  *)
(* are counted as in program order.                                        *)
Numbered ==
  /\ \A u \in Unit : wd[u] = Nth(u, next)
  /\ \A s \in Slot : Full(s) => pos[s] < next /\ idx[s] = Nth(UnitAt(s), pos[s])
  /\ \A s, t \in Slot : Full(s) /\ pos[s] = pos[t] => s = t

(* A unit that works in order has in the window what it has not completed. *)
Flight ==
  \A u \in InOrder :
    /\ \A s \in At(u) : idx[s] >= wc[u]
    /\ \A k \in wc[u]..(wd[u] - 1) : \E s \in At(u) : idx[s] = k
    /\ wd[u] = wc[u] + Cardinality(At(u))

(* vout is the VPU's in the window, the last VMW dispatched at the most.   *)
VpuFlight ==
  /\ vout = {idx[s] % VN : s \in At("VPU")}
  /\ \A s \in At("VPU") : wd["VPU"] <= idx[s] + VMW

(* A unit's queue has instructions of its own, once each: its oldest, in   *)
(* order, but for the VPU.                                                 *)
Lined ==
  /\ \A u \in Unit : \A n \in DOMAIN queue[u] : queue[u][n] \in At(u)
  /\ \A u \in InOrder : \A n \in DOMAIN queue[u] : idx[queue[u][n]] = wc[u] + n - 1
  /\ \A n, m \in DOMAIN queue["VPU"] : queue["VPU"][n] = queue["VPU"][m] => n = m
  /\ released <= Len(queue["MXU"])

(* What keeps slot s from starting before slot t's instruction completes.  *)
WaitsFor(s, t) ==
  IF UnitAt(t) = "VPU" THEN idx[t] % VN \in vpend[s]
  ELSE /\ wt[s][UnitAt(t)] # 0
       /\ idx[t] < wt[s][UnitAt(t)] /\ wt[s][UnitAt(t)] <= wd[UnitAt(t)]
StreamWaitsFor(s, t) ==
  /\ UnitAt(t) \in Streams
  /\ wtd[s][UnitAt(t)] # 0
  /\ idx[t] < wtd[s][UnitAt(t)] /\ wtd[s][UnitAt(t)] <= wd[UnitAt(t)]

(* Every older instruction in the window that one conflicts with is waited *)
(* for, unless their unit keeps them in order.                             *)
Waits ==
  \A s, t \in Slot : Full(s) /\ Full(t) /\ pos[t] < pos[s] =>
    /\ Conflict(run[pos[s]], run[pos[t]]) /\ (UnitAt(t) = UnitAt(s) => UnitAt(s) = "VPU")
         => WaitsFor(s, t)
    /\ UnitAt(s) = "MXU" /\ Overlap(run[pos[s]], run[pos[t]], Dram) => StreamWaitsFor(s, t)

(* What was ready a cycle ago is clear.                                    *)
Ready ==
  /\ \A s \in allq : Full(s) => Clear(s)
  /\ \A s \in dramq : Full(s) /\ UnitAt(s) = "MXU" => ClearStream(s)

SeqInv ==
  /\ Typed /\ Numbered /\ Flight /\ VpuFlight /\ Lined /\ Waits /\ Ready /\ AsInOrder
----------------------------------------------------------------------------
(* A state of the invariant.                                               *)

LEMMA RunIs ==
  ASSUME Typed, NEW p \in 1..Len(run)
  PROVE  run[p] \in Ins /\ run[p].unit \in Unit /\ p \in DOMAIN run
BY SequencerAssumption DEF Typed

LEMMA FullIs ==
  ASSUME Typed, NEW s \in Slot, Full(s)
  PROVE  /\ pos[s] \in 1..Len(run) /\ pos[s] \in Nat \ {0}
         /\ UnitAt(s) \in Unit /\ s \in At(UnitAt(s))
PROOF
  <1>1. pos[s] \in 1..Len(run) /\ pos[s] \in Nat \ {0} BY DEF Typed, Full
  <1>2. UnitAt(s) \in Unit BY <1>1, RunIs DEF UnitAt
  <1> QED BY <1>1, <1>2 DEF At

LEMMA IdxBelow ==
  ASSUME Typed, Numbered, NEW u \in Unit, NEW s \in At(u)
  PROVE  idx[s] < wd[u] /\ idx[s] \in Nat /\ wd[u] \in Nat
PROOF
  <1>1. s \in Slot /\ Full(s) /\ UnitAt(s) = u BY DEF At
  <1>2. pos[s] \in Nat \ {0} /\ pos[s] < next /\ next \in Nat
    BY <1>1, FullIs DEF Numbered, Typed
  <1>3. Nth(run[pos[s]].unit, pos[s]) < Nth(run[pos[s]].unit, next) BY <1>2, NthRises
  <1>4. run[pos[s]].unit = u BY <1>1 DEF UnitAt
  <1>5. idx[s] = Nth(u, pos[s]) /\ wd[u] = Nth(u, next) BY <1>1 DEF Numbered
  <1> QED BY <1>1, <1>3, <1>4, <1>5 DEF Typed

LEMMA IdxOnce ==
  ASSUME Typed, Numbered, NEW u \in Unit, NEW s \in At(u), NEW t \in At(u), idx[s] = idx[t]
  PROVE  s = t
PROOF
  <1>1. /\ s \in Slot /\ Full(s) /\ UnitAt(s) = u /\ t \in Slot /\ Full(t) /\ UnitAt(t) = u
    BY DEF At
  <1>2. pos[s] \in Nat \ {0} /\ pos[t] \in Nat \ {0} BY <1>1, FullIs
  <1>3. run[pos[s]].unit = u /\ run[pos[t]].unit = u BY <1>1 DEF UnitAt
  <1>4. Nth(u, pos[s]) = Nth(u, pos[t]) /\ Nth(u, pos[s]) \in Nat
    <2>1. idx[s] = Nth(u, pos[s]) /\ idx[t] = Nth(u, pos[t]) BY <1>1 DEF Numbered
    <2> QED BY <1>1, <2>1 DEF Typed
  <1>5. ~ (pos[s] < pos[t]) BY <1>2, <1>3, <1>4, NthRises
  <1>6. ~ (pos[t] < pos[s]) BY <1>2, <1>3, <1>4, NthRises
  <1>7. pos[s] = pos[t] BY <1>2, <1>5, <1>6
  <1> QED BY <1>1, <1>7 DEF Numbered

(* No more of a unit's is on its way than the window has slots.            *)
LEMMA AtMost ==
  ASSUME Typed, Flight, NEW u \in InOrder
  PROVE  /\ IsFiniteSet(At(u)) /\ wd[u] <= wc[u] + WIN
         /\ FreeSlots # {} => wd[u] <= wc[u] + KMAX
PROOF
  <1>1. At(u) \in SUBSET Slot BY DEF At
  <1>2. IsFiniteSet(At(u)) /\ Cardinality(At(u)) <= WIN BY <1>1, Basics, FS_Subset
  <1>3. Cardinality(At(u)) \in Nat BY <1>2, FS_CardinalityType
  <1>4. wd[u] = wc[u] + Cardinality(At(u)) /\ wd[u] \in Nat /\ wc[u] \in Nat
    BY DEF Flight, Typed, Unit
  <1>5. ASSUME FreeSlots # {} PROVE Cardinality(At(u)) <= KMAX
    <2>1. PICK f \in Slot : ~ Full(f) BY <1>5 DEF FreeSlots
    <2>2. At(u) \in SUBSET (Slot \ {f}) BY <2>1 DEF At
    <2>3. IsFiniteSet(Slot \ {f}) /\ Cardinality(Slot \ {f}) = Cardinality(Slot) - 1
      BY <2>1, Basics, FS_RemoveElement
    <2>4. Cardinality(At(u)) <= Cardinality(Slot \ {f}) BY <2>2, <2>3, FS_Subset
    <2> QED BY <2>3, <2>4, Basics
  <1> QED BY <1>2, <1>3, <1>4, <1>5, Basics

(* A slot whose waits are met has no older conflict in the window.         *)
LEMMA MetIsClear ==
  ASSUME Typed, Numbered, Flight, Waits, NEW s \in Slot, Full(s)
  PROVE  /\ WaitsMet(s) => Clear(s)
         /\ StreamMet(s) /\ UnitAt(s) = "MXU" => ClearStream(s)
PROOF
  <1>1. ASSUME NEW u \in InOrder, NEW t \in At(u), NEW n \in Int, idx[t] < n, n <= wd[u]
        PROVE  ~ Reached(wc[u], n)
    <2>1. idx[t] >= wc[u] /\ wc[u] \in Nat /\ wd[u] \in Nat /\ idx[t] \in Nat
      BY <1>1 DEF Flight, Typed, At, Unit
    <2>2. wd[u] <= wc[u] + WIN BY AtMost
    <2>3. wc[u] < n /\ n <= wc[u] + WIN BY <1>1, <2>1, <2>2, Basics
    <2> QED BY <2>1, <2>3, NotReached
  <1>2. ASSUME WaitsMet(s), NEW t \in Slot, Full(t), pos[t] < pos[s],
               UnitAt(t) = UnitAt(s) => UnitAt(s) = "VPU", Conflict(run[pos[s]], run[pos[t]])
        PROVE  FALSE
    <2>1. WaitsFor(s, t) BY <1>2 DEF Waits
    <2>2. UnitAt(t) # "VPU" BY <1>2, <2>1 DEF WaitsFor, WaitsMet
    <2>3. UnitAt(t) \in InOrder /\ t \in At(UnitAt(t)) BY <1>2, <2>2, FullIs DEF Unit
    <2>4. Reached(wc[UnitAt(t)], wt[s][UnitAt(t)]) BY <1>2, <2>1, <2>2, <2>3 DEF WaitsFor, WaitsMet
    <2>5. wt[s][UnitAt(t)] \in Int BY <2>3 DEF Typed
    <2> QED BY <1>1, <2>1, <2>2, <2>3, <2>4, <2>5 DEF WaitsFor
  <1>3. ASSUME StreamMet(s), UnitAt(s) = "MXU", NEW t \in Slot, Full(t), pos[t] < pos[s],
               Overlap(run[pos[s]], run[pos[t]], Dram)
        PROVE  FALSE
    <2>1. StreamWaitsFor(s, t) BY <1>3 DEF Waits
    <2>2. UnitAt(t) \in Streams /\ UnitAt(t) \in InOrder /\ t \in At(UnitAt(t))
      BY <1>3, <2>1, FullIs DEF StreamWaitsFor, Streams, InOrder
    <2>3. Reached(wc[UnitAt(t)], wtd[s][UnitAt(t)]) BY <1>3, <2>1, <2>2 DEF StreamWaitsFor, StreamMet
    <2>4. wtd[s][UnitAt(t)] \in Int BY <2>2 DEF Typed
    <2> QED BY <1>1, <2>1, <2>2, <2>3, <2>4 DEF StreamWaitsFor
  <1>4. WaitsMet(s) => Clear(s) BY <1>2 DEF Clear
  <1>5. StreamMet(s) /\ UnitAt(s) = "MXU" => ClearStream(s) BY <1>3 DEF ClearStream
  <1> QED BY <1>4, <1>5

----------------------------------------------------------------------------
(* A cycle.                                                                *)

CycleOf(fin, starts, go) ==
  /\ fin \in SUBSET {u \in Unit : Finishes(u)}
  /\ starts \in SUBSET {u \in Unit : Starts(u)}
  /\ go \in {g \in BOOLEAN : g => Goes}
  /\ Cycle(fin, starts, go)

(* What a slot becomes: the one taken, or as it was.                       *)
New(s, go) == go /\ s = Takes
Same(s) ==
  /\ Full(s) /\ pos'[s] = pos[s] /\ idx'[s] = idx[s]
  /\ wt'[s] = wt[s] /\ wtd'[s] = wtd[s]

(* A unit that finishes does so with the first of its queue.               *)
LEMMA Leaves ==
  ASSUME Typed, Lined, NEW fin, NEW starts, NEW go, CycleOf(fin, starts, go)
  PROVE  /\ \A u \in fin : /\ u \in Unit /\ Len(queue[u]) \in Nat \ {0} /\ 1 \in DOMAIN queue[u]
                           /\ queue[u][1] \in At(u) /\ queue[u][1] \in Done(fin)
                           /\ u = "MXU" => released > 0
         /\ \A u \in Unit : \A s \in At(u) : s \in Done(fin) <=> u \in fin /\ s = queue[u][1]
         /\ \A s \in Done(fin) : s \in Slot /\ Full(s) /\ Started(s)
PROOF
  <1>1. ASSUME NEW u \in fin
        PROVE  /\ u \in Unit /\ Len(queue[u]) \in Nat \ {0} /\ 1 \in DOMAIN queue[u]
               /\ queue[u][1] \in At(u) /\ queue[u][1] \in Done(fin)
               /\ u = "MXU" => released > 0
    <2>1. u \in Unit /\ queue[u] # <<>> /\ (u = "MXU" => released > 0) BY <1>1 DEF CycleOf, Finishes
    <2>2. queue[u] \in Seq(Slot) BY <2>1 DEF Typed
    <2>3. Len(queue[u]) \in Nat \ {0} /\ 1 \in DOMAIN queue[u] BY <2>1, <2>2
    <2>4. queue[u][1] \in At(u) BY <2>1, <2>3 DEF Lined
    <2> QED BY <1>1, <2>1, <2>3, <2>4 DEF Done
  <1>2. ASSUME NEW u \in Unit, NEW s \in At(u)
        PROVE  s \in Done(fin) <=> u \in fin /\ s = queue[u][1]
    <2>1. ASSUME NEW v \in fin, s = queue[v][1] PROVE v = u
      <3>1. s \in At(v) BY <1>1, <2>1
      <3> QED BY <3>1, <1>2 DEF At
    <2> QED BY <2>1 DEF Done
  <1>3. ASSUME NEW s \in Done(fin) PROVE s \in Slot /\ Full(s) /\ Started(s)
    <2>1. PICK u \in fin : s = queue[u][1] BY <1>3 DEF Done
    <2> QED BY <1>1, <2>1 DEF At, Started
  <1> QED BY <1>1, <1>2, <1>3

LEMMA Moves ==
  ASSUME Typed, Numbered, Lined, NEW fin, NEW starts, NEW go, CycleOf(fin, starts, go)
  PROVE  /\ run' = run /\ next' = IF go THEN next + 1 ELSE next
         /\ go => /\ Takes \in Slot /\ ~ Full(Takes) /\ FreeSlots # {}
                  /\ next \in 1..Len(run) /\ next \in Nat \ {0} /\ ~ Hold
         /\ \A s \in Slot : Full(s)' /\ New(s, go) =>
              pos'[s] = next /\ idx'[s] = wd[run[next].unit]
         /\ \A s \in Slot : Full(s)' /\ ~ New(s, go) => Same(s) /\ s \notin Done(fin)
         /\ \A s \in Slot : Full(s) /\ s \notin Done(fin) => Same(s) /\ Full(s)' /\ ~ New(s, go)
PROOF
  <1> DEFINE taken == IF go THEN {Takes} ELSE {}
             i     == run[next]
  <1>1. /\ run' = run /\ next' = (IF go THEN next + 1 ELSE next)
        /\ pos' = [s \in Slot |-> IF s \in taken THEN next ELSE IF s \in Done(fin) THEN 0 ELSE pos[s]]
        /\ idx' = [s \in Slot |-> IF s \in taken THEN wd[i.unit] ELSE idx[s]]
        /\ wt' = [s \in Slot |-> IF s \in taken THEN [u \in InOrder |-> Target(u, Count(i, u))]
                                 ELSE wt[s]]
        /\ wtd' = [s \in Slot |-> IF s \in taken THEN [u \in Streams |-> Target(u, Stream(i, u))]
                                  ELSE wtd[s]]
    BY DEF CycleOf, Cycle
  <1>2. go => FreeSlots # {} /\ next <= Len(run) /\ ~ Hold BY DEF CycleOf, Goes
  <1>3. go => Takes \in Slot /\ ~ Full(Takes) BY <1>2, TakesIs
  <1>4. go => next \in 1..Len(run) /\ next \in Nat \ {0}
    <2>1. next \in 1..(Len(run) + 1) /\ Len(run) \in Nat BY DEF Typed
    <2> QED BY <1>2, <2>1
  <1>5. \A s \in Slot : s \in taken <=> New(s, go) BY DEF New
  <1>6. \A s \in Slot : New(s, go) => ~ Full(s) BY <1>3 DEF New
  <1> HIDE DEF taken, i
  <1>7. ASSUME NEW s \in Slot, New(s, go) PROVE pos'[s] = next /\ idx'[s] = wd[i.unit]
    BY <1>1, <1>5, <1>7
  <1>8. ASSUME NEW s \in Slot, ~ New(s, go)
        PROVE  /\ pos'[s] = IF s \in Done(fin) THEN 0 ELSE pos[s]
               /\ idx'[s] = idx[s] /\ wt'[s] = wt[s] /\ wtd'[s] = wtd[s]
    BY <1>1, <1>5, <1>8
  <1>9. ASSUME NEW s \in Slot, Full(s)', ~ New(s, go) PROVE Same(s) /\ s \notin Done(fin)
    BY <1>8, <1>9 DEF Full, Same
  <1>10. ASSUME NEW s \in Slot, Full(s), s \notin Done(fin) PROVE Same(s) /\ Full(s)' /\ ~ New(s, go)
    <2>1. ~ New(s, go) BY <1>6, <1>10
    <2> QED BY <2>1, <1>8, <1>10 DEF Full, Same
  <1>11. \A s \in Slot : Full(s)' /\ New(s, go) => pos'[s] = next /\ idx'[s] = wd[run[next].unit]
    BY <1>7 DEF i
  <1> QED BY <1>1, <1>2, <1>3, <1>4, <1>9, <1>10, <1>11

(* Same slots have the same instruction.                                   *)
LEMMA SameIs ==
  ASSUME run' = run, NEW s \in Slot, Same(s)
  PROVE  /\ UnitAt(s)' = UnitAt(s) /\ run'[pos'[s]] = run[pos[s]] /\ Full(s)
         /\ Full(s)' /\ \A u : s \in At(u) <=> (s \in At(u))'
PROOF
  <1>1. pos'[s] = pos[s] /\ Full(s) BY DEF Same
  <1>2. UnitAt(s)' = UnitAt(s) BY <1>1 DEF UnitAt
  <1>3. Full(s)' BY <1>1 DEF Full
  <1> QED BY <1>1, <1>2, <1>3 DEF At

LEMMA AtMoves ==
  ASSUME Typed, Numbered, Lined, NEW fin, NEW starts, NEW go, CycleOf(fin, starts, go),
         NEW u \in Unit
  PROVE  /\ \A s \in Slot : (s \in At(u))' /\ ~ New(s, go) => s \in At(u) /\ Same(s) /\ s \notin Done(fin)
         /\ \A s \in At(u) : s \notin Done(fin) => (s \in At(u))' /\ Same(s)
         /\ go => (\A s \in Slot : (s \in At(u))' /\ New(s, go) => run[next].unit = u /\ s = Takes)
         /\ go /\ run[next].unit = u => Takes \in At(u)' /\ idx'[Takes] = wd[u] /\ Takes \notin At(u)
         /\ At(u)' = (At(u) \ (IF u \in fin THEN {queue[u][1]} ELSE {}))
                     \cup (IF go /\ run[next].unit = u THEN {Takes} ELSE {})
PROOF
  <1>1. /\ run' = run
        /\ go => Takes \in Slot /\ ~ Full(Takes) /\ next \in Nat \ {0}
        /\ \A s \in Slot : Full(s)' /\ New(s, go) =>
              pos'[s] = next /\ idx'[s] = wd[run[next].unit]
        /\ \A s \in Slot : Full(s)' /\ ~ New(s, go) => Same(s) /\ s \notin Done(fin)
        /\ \A s \in Slot : Full(s) /\ s \notin Done(fin) => Same(s) /\ Full(s)' /\ ~ New(s, go)
    BY Moves
  <1>2. ASSUME NEW s \in Slot, (s \in At(u))', ~ New(s, go) PROVE s \in At(u) /\ Same(s) /\ s \notin Done(fin)
    <2>1. Full(s)' BY <1>2 DEF At
    <2>2. Same(s) /\ s \notin Done(fin) BY <1>1, <1>2, <2>1
    <2> QED BY <1>1, <1>2, <2>2, SameIs
  <1>3. ASSUME NEW s \in At(u), s \notin Done(fin) PROVE (s \in At(u))' /\ Same(s)
    <2>1. s \in Slot /\ Full(s) BY DEF At
    <2>2. Same(s) BY <1>1, <1>3, <2>1
    <2> QED BY <1>1, <2>1, <2>2, SameIs
  <1>4. ASSUME NEW s \in Slot, (s \in At(u))', New(s, go) PROVE run[next].unit = u /\ s = Takes
    <2>1. Full(s)' /\ UnitAt(s)' = u BY <1>4 DEF At
    <2>2. pos'[s] = next BY <1>1, <1>4, <2>1
    <2> QED BY <1>1, <1>4, <2>1, <2>2 DEF UnitAt, New
  <1>5. ASSUME go, run[next].unit = u PROVE Takes \in At(u)' /\ idx'[Takes] = wd[u] /\ Takes \notin At(u)
    <2>1. PICK x \in Slot : x = Takes BY <1>1, <1>5
    <2>2. pos'[x] = next /\ idx'[x] = wd[u] BY <1>5, <2>1 DEF CycleOf, Cycle
    <2>3. Full(x)' /\ UnitAt(x)' = u BY <1>1, <1>5, <2>2 DEF Full, UnitAt
    <2>4. x \in At(u)' BY <2>3 DEF At
    <2>5. x \notin At(u) BY <1>1, <1>5, <2>1 DEF At
    <2> QED BY <2>1, <2>2, <2>4, <2>5
  <1>6. \A s \in At(u) : s \in Done(fin) <=> u \in fin /\ s = queue[u][1] BY Leaves
  <1>7. At(u) \subseteq Slot /\ At(u)' \subseteq Slot BY DEF At
  <1> DEFINE out == IF u \in fin THEN {queue[u][1]} ELSE {}
             in  == IF go /\ run[next].unit = u THEN {Takes} ELSE {}
  <1>8. \A s \in At(u) : s \in Done(fin) <=> s \in out BY <1>6
  <1>9. \A s \in in : go /\ run[next].unit = u /\ s = Takes OBVIOUS
  <1>10. go /\ run[next].unit = u => Takes \in in OBVIOUS
  <1> HIDE DEF out, in
  <1>11. ASSUME NEW s, (s \in At(u))' PROVE s \in (At(u) \ out) \cup in
    <2>1. s \in Slot BY <1>7, <1>11
    <2>2. CASE New(s, go)
      <3>1. go BY <2>2 DEF New
      <3> QED BY <1>4, <1>10, <1>11, <2>1, <2>2, <3>1
    <2>3. CASE ~ New(s, go) BY <1>2, <1>8, <1>11, <2>1, <2>3
    <2> QED BY <2>2, <2>3
  <1>12. ASSUME NEW s \in (At(u) \ out) \cup in PROVE (s \in At(u))'
    BY <1>3, <1>5, <1>8, <1>9, <1>12
  <1>13. At(u)' = (At(u) \ out) \cup in BY <1>11, <1>12
  <1> QED BY <1>2, <1>3, <1>4, <1>5, <1>13 DEF out, in

----------------------------------------------------------------------------
(* What a cycle starts.                                                    *)
LEMMA StartIs ==
  ASSUME Typed, Numbered, Flight, Lined, NEW u \in Unit, Starts(u)
  PROVE  LET o == Oldest(Eligible(u))
         IN /\ o \in Slot /\ o \in At(u) /\ ~ Started(o)
            /\ o \in IF u = "MXU" THEN dramq ELSE allq
            /\ u \in InOrder => idx[o] = wc[u] + Len(queue[u])
PROOF
  <1> DEFINE o == Oldest(Eligible(u))
  <1>1. Eligible(u) # {} /\ Eligible(u) \in SUBSET Slot /\ Eligible(u) \subseteq Waiting(u)
    BY DEF Starts, Eligible, Waiting
  <1>2. \A s \in Slot : pos[s] \in Nat BY DEF Typed
  <1>3. o \in Eligible(u) /\ \A t \in Eligible(u) : pos[o] <= pos[t] BY <1>1, <1>2, OldestIs
  <1>4. o \in IF u = "MXU" THEN dramq ELSE allq BY DEF Starts
  <1> HIDE DEF o
  <1>5. o \in Slot /\ o \in At(u) /\ ~ Started(o) BY <1>1, <1>3 DEF Waiting, At
  <1>6. ASSUME u \in InOrder PROVE idx[o] = wc[u] + Len(queue[u])
    <2> DEFINE k == wc[u] + Len(queue[u])
    <2>1. queue[u] \in Seq(Slot) /\ Len(queue[u]) \in Nat /\ wc[u] \in Nat /\ k \in Nat
      BY <1>6 DEF Typed
    <2>2. idx[o] >= wc[u] /\ idx[o] < wd[u] /\ idx[o] \in Nat /\ wd[u] \in Nat
      BY <1>5, <1>6, IdxBelow DEF Flight
    <2>3. \A n \in 1..Len(queue[u]) : idx[queue[u][n]] = wc[u] + n - 1 /\ queue[u][n] \in At(u)
      BY <1>6, <2>1 DEF Lined
    <2>4. idx[o] >= k
      <3>1. SUFFICES ASSUME idx[o] < k PROVE FALSE BY <2>1, <2>2
      <3> DEFINE n == idx[o] - wc[u] + 1
      <3>2. n \in 1..Len(queue[u]) /\ wc[u] + n - 1 = idx[o] BY <2>1, <2>2, <3>1
      <3> HIDE DEF n
      <3>3. idx[queue[u][n]] = idx[o] /\ queue[u][n] \in At(u) BY <2>3, <3>2
      <3>4. queue[u][n] = o BY <1>5, <3>3, IdxOnce
      <3> QED BY <1>5, <2>1, <3>2, <3>4 DEF Started
    <2>5. PICK s \in At(u) : idx[s] = k
      <3>1. k \in wc[u]..(wd[u] - 1) BY <2>1, <2>2, <2>4
      <3> HIDE DEF k
      <3> QED BY <1>6, <3>1 DEF Flight
    <2>6. ~ Started(s)
      <3>1. ASSUME NEW v \in Unit, NEW n \in DOMAIN queue[v], queue[v][n] = s PROVE FALSE
        <4>1. s \in At(v) BY <3>1 DEF Lined
        <4>2. v = u BY <4>1, <2>5 DEF At
        <4>3. n \in 1..Len(queue[u]) BY <2>1, <3>1, <4>2
        <4>4. idx[s] = wc[u] + n - 1 BY <2>3, <3>1, <4>2, <4>3
        <4> QED BY <2>1, <2>5, <4>3, <4>4
      <3> QED BY <3>1 DEF Started
    <2>7. s \in Eligible(u)
      <3>1. u # "VPU" BY <1>6 DEF InOrder
      <3> QED BY <2>5, <2>6, <3>1 DEF Eligible, Waiting, At
    <2>8. pos[o] <= pos[s] BY <1>3, <2>7
    <2>9. Nth(u, pos[o]) <= Nth(u, pos[s])
      <3>1. s \in Slot BY <2>5 DEF At
      <3>2. pos[o] \in Nat /\ pos[s] \in Nat BY <1>2, <1>5, <3>1
      <3> QED BY <2>8, <3>2, BeforeIs
    <2>10. idx[o] = Nth(u, pos[o]) /\ idx[s] = Nth(u, pos[s])
      BY <1>5, <2>5 DEF At, Numbered
    <2> QED BY <2>1, <2>2, <2>4, <2>5, <2>9, <2>10
  <1> QED BY <1>4, <1>5, <1>6 DEF o

(* A unit's queue loses its first, if it finishes, and has what it starts  *)
(* at its end.                                                             *)
LEMMA Queues ==
  ASSUME Typed, Numbered, Flight, Lined, NEW fin, NEW starts, NEW go, CycleOf(fin, starts, go),
         NEW u \in Unit
  PROVE  LET d == IF u \in fin THEN 1 ELSE 0
             m == Len(queue[u]) - d
         IN /\ queue'[u] \in Seq(Slot) /\ m \in Nat
            /\ Len(queue'[u]) = IF u \in starts THEN m + 1 ELSE m
            /\ \A n \in 1..m : queue'[u][n] = queue[u][n + d]
            /\ u \in starts => queue'[u][m + 1] = Oldest(Eligible(u))
PROOF
  <1> DEFINE q == queue[u]
             d == IF u \in fin THEN 1 ELSE 0
             front == IF u \in fin THEN Tail(q) ELSE q
             o == Oldest(Eligible(u))
             m == Len(q) - d
  <1>1. queue'[u] = front \o (IF u \in starts THEN <<o>> ELSE <<>>)
    BY DEF CycleOf, Cycle
  <1>2. q \in Seq(Slot) BY DEF Typed
  <1>3. u \in fin => Len(q) \in Nat \ {0} BY Leaves
  <1>4. /\ front \in Seq(Slot) /\ Len(front) = m /\ m \in Nat
        /\ \A n \in 1..m : front[n] = q[n + d]
    <2>1. CASE u \in fin
      <3> HIDE DEF q
      <3>1. q # <<>> BY <1>2, <1>3, <2>1
      <3>2. Tail(q) \in Seq(Slot) /\ Len(Tail(q)) = Len(q) - 1 /\ Len(q) - 1 \in Nat
        BY <1>2, <3>1
      <3>3. \A n \in 1..(Len(q) - 1) : Tail(q)[n] = q[n + 1] BY <1>2, <3>1
      <3> QED BY <2>1, <3>2, <3>3
    <2>2. CASE u \notin fin
      <3> HIDE DEF q
      <3> QED BY <1>2, <2>2
    <2> QED BY <2>1, <2>2
  <1>5. CASE u \in starts
    <2>1. o \in Slot BY <1>5, StartIs DEF CycleOf
    <2>2. queue'[u] = front \o <<o>> BY <1>1, <1>5
    <2> HIDE DEF q, front, o, m, d
    <2>3. /\ front \o <<o>> \in Seq(Slot) /\ Len(front \o <<o>>) = m + 1
          /\ (front \o <<o>>)[m + 1] = o
          /\ \A n \in 1..m : (front \o <<o>>)[n] = front[n]
      BY <1>4, <2>1
    <2>4. /\ queue'[u] \in Seq(Slot) /\ m \in Nat /\ Len(queue'[u]) = m + 1
          /\ \A n \in 1..m : queue'[u][n] = q[n + d]
          /\ queue'[u][m + 1] = o
      BY <1>4, <2>2, <2>3
    <2> QED BY <1>5, <2>4 DEF q, o, m, d
  <1>6. CASE u \notin starts
    <2> HIDE DEF q, front, o, m, d
    <2>1. queue'[u] = front BY <1>1, <1>4, <1>6
    <2>2. /\ queue'[u] \in Seq(Slot) /\ m \in Nat /\ Len(queue'[u]) = m
          /\ \A n \in 1..m : queue'[u][n] = q[n + d]
      BY <1>4, <2>1
    <2> QED BY <1>6, <2>2 DEF q, o, m, d
  <1> QED BY <1>5, <1>6
----------------------------------------------------------------------------
(* Each part of the invariant, through a cycle.                            *)

LEMMA TypedNext ==
  ASSUME SeqInv, NEW fin, NEW starts, NEW go, CycleOf(fin, starts, go)
  PROVE  Typed'
PROOF
  <1>1. Typed /\ Numbered /\ Flight /\ Lined BY DEF SeqInv
  <1>2. /\ run' = run /\ next' = (IF go THEN next + 1 ELSE next)
        /\ go => Takes \in Slot /\ ~ Full(Takes) /\ next \in 1..Len(run)
    BY <1>1, Moves
  <1>3. Len(run) \in Nat /\ next \in 1..(Len(run) + 1) BY <1>1 DEF Typed
  <1>4. run' \in Seq(Ins) /\ next' \in 1..(Len(run') + 1) BY <1>1, <1>2, <1>3 DEF Typed
  <1> DEFINE taken == IF go THEN {Takes} ELSE {}
             i     == run[next]
  <1>5. /\ pos' = [s \in Slot |-> IF s \in taken THEN next ELSE IF s \in Done(fin) THEN 0 ELSE pos[s]]
        /\ idx' = [s \in Slot |-> IF s \in taken THEN wd[i.unit] ELSE idx[s]]
        /\ wt' = [s \in Slot |-> IF s \in taken THEN [u \in InOrder |-> Target(u, Count(i, u))]
                                 ELSE wt[s]]
        /\ wtd' = [s \in Slot |-> IF s \in taken THEN [u \in Streams |-> Target(u, Stream(i, u))]
                                  ELSE wtd[s]]
        /\ allq' = {s \in Slot : WaitsMet(s)} \ taken
        /\ dramq' = {s \in Slot : StreamMet(s)} \ taken
        /\ queue' = [u \in Unit |-> (IF u \in fin THEN Tail(queue[u]) ELSE queue[u])
                                    \o (IF u \in starts THEN <<Oldest(Eligible(u))>> ELSE <<>>)]
        /\ released' = released + (IF Releases THEN 1 ELSE 0) - (IF "MXU" \in fin THEN 1 ELSE 0)
        /\ wd' = [u \in Unit |-> IF go /\ u = i.unit THEN wd[u] + 1 ELSE wd[u]]
        /\ wc' = [u \in InOrder |-> IF u \in fin THEN wc[u] + 1 ELSE wc[u]]
    BY DEF CycleOf, Cycle, Latch
  <1>6. \A s \in taken : go BY DEF taken
  <1>7. go => i.unit \in Unit BY <1>1, <1>2, RunIs
  <1> HIDE DEF taken, i
  <1>8. pos' \in [Slot -> 0..Len(run')]
    <2>1. \A s \in taken : next \in 0..Len(run) BY <1>2, <1>3, <1>6
    <2> QED BY <1>1, <1>2, <1>3, <1>5, <2>1 DEF Typed
  <1>9. idx' \in [Slot -> Nat] BY <1>1, <1>5, <1>6, <1>7 DEF Typed
  <1>10. \A j, u : Count(j, u) \in Nat /\ Stream(j, u) \in Nat
    <2>1. ASSUME NEW S \in SUBSET (1..KMAX) PROVE Least(S) \in Nat
      <3>1. S \in SUBSET Nat OBVIOUS
      <3>2. CASE S = {} BY <3>2 DEF Least
      <3>3. CASE S # {} BY <3>1, <3>3, LeastIs
      <3> QED BY <3>2, <3>3
    <2>2. \A pc, u : Ranks(pc, u) \in SUBSET (1..KMAX) /\ DramRanks(pc, u) \in SUBSET (1..KMAX)
      BY DEF Ranks, DramRanks
    <2>3. \A pc, u : Least(Ranks(pc, u)) \in Nat /\ Least(DramRanks(pc, u)) \in Nat BY <2>1, <2>2
    <2> QED BY <2>3 DEF Count, Stream
  <1>11. \A u \in Unit : \A k \in Nat : Target(u, k) \in Int BY <1>1 DEF Typed, Target
  <1>12. InOrder \subseteq Unit /\ Streams \subseteq Unit BY DEF Unit, InOrder, Streams
  <1>13. wt' \in [Slot -> [InOrder -> Int]]
    <2>1. [u \in InOrder |-> Target(u, Count(i, u))] \in [InOrder -> Int] BY <1>10, <1>11, <1>12
    <2> QED BY <1>1, <1>5, <2>1 DEF Typed
  <1>14. wtd' \in [Slot -> [Streams -> Int]]
    <2>1. [u \in Streams |-> Target(u, Stream(i, u))] \in [Streams -> Int] BY <1>10, <1>11, <1>12
    <2> QED BY <1>1, <1>5, <2>1 DEF Typed
  <1>15. allq' \subseteq Slot /\ dramq' \subseteq Slot BY <1>5
  <1>16. queue' \in [Unit -> Seq(Slot)]
    <2>1. \A u \in Unit : queue'[u] \in Seq(Slot) BY <1>1, Queues
    <2> QED BY <1>5, <2>1
  <1>17. released' \in Nat
    <2>1. "MXU" \in fin => released > 0 BY <1>1, Leaves
    <2> QED BY <1>1, <1>5, <2>1 DEF Typed
  <1>18. wd' \in [Unit -> Nat] /\ wc' \in [InOrder -> Nat] BY <1>1, <1>5 DEF Typed
  <1> QED BY <1>4, <1>8, <1>9, <1>13, <1>14, <1>15, <1>16, <1>17, <1>18 DEF Typed

LEMMA NumberedNext ==
  ASSUME SeqInv, NEW fin, NEW starts, NEW go, CycleOf(fin, starts, go)
  PROVE  Numbered'
PROOF
  <1>1. Typed /\ Numbered /\ Lined BY DEF SeqInv
  <1>2. /\ run' = run /\ next' = (IF go THEN next + 1 ELSE next)
        /\ go => next \in 1..Len(run) /\ next \in Nat \ {0}
        /\ \A s \in Slot : Full(s)' /\ New(s, go) =>
              pos'[s] = next /\ idx'[s] = wd[run[next].unit]
        /\ \A s \in Slot : Full(s)' /\ ~ New(s, go) => Same(s)
    BY <1>1, Moves
  <1>3. next \in Nat /\ next' \in Nat BY <1>1, <1>2 DEF Typed
  <1>4. \A u, p : Nth(u, p)' = Nth(u, p) BY <1>2 DEF Nth, Before
  <1>5. ASSUME NEW u \in Unit PROVE wd'[u] = Nth(u, next)'
    <2>1. wd'[u] = IF go /\ u = run[next].unit THEN wd[u] + 1 ELSE wd[u] BY DEF CycleOf, Cycle
    <2>2. wd[u] = Nth(u, next) BY <1>1 DEF Numbered
    <2>3. CASE go
      <3>1. Nth(u, next + 1) = IF run[next].unit = u THEN Nth(u, next) + 1 ELSE Nth(u, next)
        BY <1>2, <2>3, NthGoesOn
      <3>2. Nth(u, next)' = Nth(u, next + 1) BY <1>2, <2>3 DEF Nth, Before
      <3> QED BY <2>1, <2>2, <2>3, <3>1, <3>2
    <2>4. CASE ~ go
      <3>1. Nth(u, next)' = Nth(u, next) BY <1>2, <2>4 DEF Nth, Before
      <3> QED BY <2>1, <2>2, <2>4, <3>1
    <2> QED BY <2>3, <2>4
  <1>6. ASSUME NEW s \in Slot, Full(s)' PROVE pos'[s] < next' /\ idx'[s] = Nth(UnitAt(s), pos[s])'
    <2>1. CASE New(s, go)
      <3>1. go BY <2>1 DEF New
      <3>2. pos'[s] = next /\ idx'[s] = wd[run[next].unit] BY <1>2, <1>6, <2>1
      <3>3. UnitAt(s)' = run[next].unit BY <1>2, <3>2 DEF UnitAt
      <3>4. run[next].unit \in Unit BY <1>1, <1>2, <3>1, RunIs
      <3>5. Nth(UnitAt(s), pos[s])' = Nth(run[next].unit, next)
        BY <1>2, <3>2, <3>3 DEF Nth, Before
      <3> QED BY <1>1, <1>2, <1>3, <3>1, <3>2, <3>4, <3>5 DEF Numbered
    <2>2. CASE ~ New(s, go)
      <3>1. Same(s) BY <1>2, <1>6, <2>2
      <3>2. UnitAt(s)' = UnitAt(s) /\ Full(s) BY <1>2, <3>1, SameIs
      <3>3. pos'[s] = pos[s] /\ idx'[s] = idx[s] BY <3>1 DEF Same
      <3>4. Nth(UnitAt(s), pos[s])' = Nth(UnitAt(s), pos[s])
        BY <1>2, <3>2, <3>3 DEF Nth, Before
      <3>5. pos[s] < next /\ idx[s] = Nth(UnitAt(s), pos[s]) BY <1>1, <3>2 DEF Numbered
      <3>6. pos[s] \in Nat BY <1>1 DEF Typed
      <3> QED BY <1>2, <1>3, <3>3, <3>4, <3>5, <3>6
    <2> QED BY <2>1, <2>2
  <1>7. ASSUME NEW s \in Slot, NEW t \in Slot, Full(s)', pos'[s] = pos'[t] PROVE s = t
    <2>1. Full(t)' BY <1>7 DEF Full
    <2>2. ASSUME NEW x \in Slot, NEW y \in Slot, New(x, go), ~ New(y, go), Full(x)', Full(y)'
          PROVE  pos'[x] # pos'[y]
      <3>1. pos'[x] = next BY <1>2, <2>2
      <3>2. Same(y) BY <1>2, <2>2
      <3>3. pos'[y] = pos[y] /\ pos[y] < next /\ pos[y] \in Nat BY <1>1, <3>2 DEF Same, Numbered, Typed
      <3> QED BY <1>3, <3>1, <3>3
    <2>3. CASE New(s, go) /\ New(t, go) BY <2>3 DEF New
    <2>4. CASE ~ New(s, go) /\ ~ New(t, go)
      <3>1. Same(s) /\ Same(t) BY <1>2, <1>7, <2>1, <2>4
      <3> QED BY <1>1, <1>7, <3>1 DEF Same, Numbered
    <2> QED BY <1>7, <2>1, <2>2, <2>3, <2>4
  <1> QED
    <2>1. (\A u \in Unit : wd[u] = Nth(u, next))' BY <1>5
    <2>2. (\A s \in Slot : Full(s) => pos[s] < next /\ idx[s] = Nth(UnitAt(s), pos[s]))' BY <1>6
    <2>3. (\A s, t \in Slot : Full(s) /\ pos[s] = pos[t] => s = t)' BY <1>7
    <2> QED BY <2>1, <2>2, <2>3 DEF Numbered

LEMMA FlightNext ==
  ASSUME SeqInv, NEW fin, NEW starts, NEW go, CycleOf(fin, starts, go)
  PROVE  Flight'
PROOF
  <1>1. Typed /\ Numbered /\ Flight /\ Lined BY DEF SeqInv
  <1> SUFFICES ASSUME NEW u \in InOrder
               PROVE  /\ \A s \in At(u)' : idx'[s] >= wc'[u]
                      /\ \A k \in wc'[u]..(wd'[u] - 1) : \E s \in At(u)' : idx'[s] = k
                      /\ wd'[u] = wc'[u] + Cardinality(At(u)')
    BY DEF Flight
  <1> DEFINE d == IF u \in fin THEN 1 ELSE 0
             a == IF go /\ run[next].unit = u THEN 1 ELSE 0
             h == queue[u][1]
  <1>2. u \in Unit BY DEF Unit
  <1>3. wc'[u] = wc[u] + d /\ wd'[u] = wd[u] + a /\ wc[u] \in Nat /\ wd[u] \in Nat
    <2>1. /\ wd'[u] = IF go /\ u = run[next].unit THEN wd[u] + 1 ELSE wd[u]
          /\ wc'[u] = IF u \in fin THEN wc[u] + 1 ELSE wc[u]
      BY <1>2 DEF CycleOf, Cycle
    <2>2. wc[u] \in Nat /\ wd[u] \in Nat BY <1>1, <1>2 DEF Typed
    <2> QED BY <2>1, <2>2
  <1>4. u \in fin => h \in At(u) /\ idx[h] = wc[u]
    <2>1. ASSUME u \in fin PROVE 1 \in DOMAIN queue[u] /\ h \in At(u) BY <1>1, <2>1, Leaves
    <2>2. ASSUME u \in fin PROVE idx[h] = wc[u] + 1 - 1 BY <1>1, <2>1, <2>2 DEF Lined
    <2> QED BY <1>3, <2>1, <2>2
  <1>5. \A s \in At(u) : idx[s] \in Nat /\ idx[s] >= wc[u] /\ idx[s] < wd[u]
    BY <1>1, <1>2, IdxBelow DEF Flight
  <1>6. \A s \in At(u) : s \in Done(fin) <=> u \in fin /\ s = h BY <1>1, <1>2, Leaves
  <1>7. /\ \A s \in Slot : (s \in At(u))' /\ ~ New(s, go) => s \in At(u) /\ Same(s) /\ s \notin Done(fin)
        /\ \A s \in At(u) : s \notin Done(fin) => (s \in At(u))' /\ Same(s)
        /\ go => (\A s \in Slot : (s \in At(u))' /\ New(s, go) => run[next].unit = u /\ s = Takes)
        /\ go /\ run[next].unit = u => Takes \in At(u)' /\ idx'[Takes] = wd[u] /\ Takes \notin At(u)
    BY <1>1, <1>2, AtMoves
  <1>8. At(u)' = (At(u) \ (IF u \in fin THEN {h} ELSE {}))
                 \cup (IF go /\ run[next].unit = u THEN {Takes} ELSE {})
    BY <1>1, <1>2, AtMoves
  <1>9. \A s \in At(u) : idx[s] = wc[u] /\ u \in fin => s = h BY <1>1, <1>2, <1>4, IdxOnce
  <1>14. wc[u] <= wd[u]
    <2>1. wd[u] = wc[u] + Cardinality(At(u)) BY <1>1 DEF Flight
    <2>2. Cardinality(At(u)) \in Nat BY <1>1, AtMost, FS_CardinalityType
    <2> QED BY <1>3, <2>1, <2>2
  <1> HIDE DEF h
  <1>10. ASSUME NEW s \in At(u)' PROVE idx'[s] >= wc'[u]
    <2>1. s \in Slot BY DEF At
    <2>2. CASE New(s, go)
      <3>1. go BY <2>2 DEF New
      <3>2. idx'[s] = wd[u] BY <1>7, <2>1, <2>2, <3>1
      <3>3. u \in fin => wc[u] < wd[u] BY <1>4, <1>5
      <3> QED BY <1>3, <1>14, <3>2, <3>3
    <2>3. CASE ~ New(s, go)
      <3>1. s \in At(u) /\ idx'[s] = idx[s] /\ s \notin Done(fin) BY <1>7, <2>1, <2>3 DEF Same
      <3>2. u \in fin => idx[s] # wc[u] BY <1>6, <1>9, <3>1
      <3> QED BY <1>3, <1>5, <3>1, <3>2
    <2> QED BY <2>2, <2>3
  <1>11. ASSUME NEW k \in wc'[u]..(wd'[u] - 1) PROVE \E s \in At(u)' : idx'[s] = k
    <2>1. CASE k = wd[u]
      <3>1. go /\ run[next].unit = u BY <1>3, <2>1
      <3> QED BY <1>7, <2>1, <3>1
    <2>2. CASE k # wd[u]
      <3>1. k \in wc[u]..(wd[u] - 1) /\ (u \in fin => k # wc[u]) BY <1>3, <2>2
      <3>2. PICK s \in At(u) : idx[s] = k BY <1>1, <3>1 DEF Flight
      <3>3. s \notin Done(fin) BY <1>4, <1>6, <3>1, <3>2
      <3>4. (s \in At(u))' /\ idx'[s] = idx[s] BY <1>7, <3>3 DEF Same
      <3> QED BY <3>2, <3>4
    <2> QED BY <2>1, <2>2
  <1>12. wd'[u] = wc'[u] + Cardinality(At(u)')
    <2> DEFINE rest == At(u) \ (IF u \in fin THEN {h} ELSE {})
    <2>1. IsFiniteSet(At(u)) /\ Cardinality(At(u)) \in Nat /\ wd[u] = wc[u] + Cardinality(At(u))
      BY <1>1, AtMost, FS_CardinalityType DEF Flight
    <2>2. IsFiniteSet(rest) /\ Cardinality(rest) = Cardinality(At(u)) - d
      <3>1. CASE u \in fin
        <4>1. IsFiniteSet(At(u) \ {h}) /\ Cardinality(At(u) \ {h}) = Cardinality(At(u)) - 1
          BY <1>4, <2>1, <3>1, FS_RemoveElement
        <4> QED BY <3>1, <4>1
      <3>2. CASE u \notin fin
        <4>1. rest = At(u) BY <3>2
        <4> QED BY <2>1, <3>2, <4>1
      <3> QED BY <3>1, <3>2
    <2>3. CASE go /\ run[next].unit = u
      <3>1. At(u)' = rest \cup {Takes} /\ Takes \notin rest BY <1>7, <1>8, <2>3
      <3> HIDE DEF rest
      <3>2. Cardinality(rest \cup {Takes}) = Cardinality(rest) + 1 BY <2>2, <3>1, FS_AddElement
      <3> QED BY <1>3, <2>1, <2>2, <2>3, <3>1, <3>2
    <2>4. CASE ~ (go /\ run[next].unit = u)
      <3>1. At(u)' = rest BY <1>8, <2>4
      <3> HIDE DEF rest
      <3> QED BY <1>3, <2>1, <2>2, <2>4, <3>1
    <2> QED BY <2>3, <2>4
  <1> QED BY <1>10, <1>11, <1>12

LEMMA VpuNext ==
  ASSUME SeqInv, NEW fin, NEW starts, NEW go, CycleOf(fin, starts, go)
  PROVE  /\ VpuFlight'
         /\ \A s \in At("VPU") : s \notin Done(fin) => idx[s] % VN \notin VFin(fin)
PROOF
  <1> DEFINE v == "VPU"
             h == queue[v][1]
             W == wd[v]
             out == VFin(fin)
  <1>1. Typed /\ Numbered /\ Flight /\ VpuFlight /\ Lined BY DEF SeqInv
  <1>2. v \in Unit BY DEF Unit
  <1>3. \A s \in At(v) : idx[s] \in Nat /\ idx[s] < W /\ W <= idx[s] + VMW /\ W \in Nat
    BY <1>1, <1>2, IdxBelow DEF VpuFlight
  <1>4. \A s \in At(v) : s \in Done(fin) <=> v \in fin /\ s = h BY <1>1, <1>2, Leaves
  <1>5. v \in fin => h \in At(v) BY <1>1, Leaves
  <1>6. out = IF v \in fin THEN {idx[h] % VN} ELSE {} BY DEF VFin
  <1>7. /\ \A s \in Slot : (s \in At(v))' /\ ~ New(s, go) => s \in At(v) /\ Same(s) /\ s \notin Done(fin)
        /\ \A s \in At(v) : s \notin Done(fin) => (s \in At(v))' /\ Same(s)
        /\ go => (\A s \in Slot : (s \in At(v))' /\ New(s, go) => run[next].unit = v /\ s = Takes)
        /\ go /\ run[next].unit = v => Takes \in At(v)' /\ idx'[Takes] = wd[v] /\ Takes \notin At(v)
    BY <1>1, <1>2, AtMoves
  <1>8. /\ vout' = (vout \ out) \cup (IF go /\ run[next].unit = v THEN {W % VN} ELSE {})
        /\ wd'[v] = IF go /\ run[next].unit = v THEN W + 1 ELSE W
        /\ W \in Nat
    BY <1>1, <1>2 DEF CycleOf, Cycle, Typed
  <1>9. VN = VMW + 1 /\ VN \in Nat \ {0} /\ VMW \in Nat BY Basics
  <1> HIDE DEF W, h, out, v
  <1>10. ASSUME NEW s \in At(v), NEW t \in At(v), idx[s] % VN = idx[t] % VN PROVE s = t
    <2>1. idx[s] - idx[t] < VN /\ idx[t] - idx[s] < VN /\ idx[s] \in Int /\ idx[t] \in Int
      BY <1>3, <1>9
    <2>2. idx[s] = idx[t] BY <1>9, <1>10, <2>1, ModOnce
    <2> QED BY <1>1, <1>2, <2>2, IdxOnce
  <1>11. ASSUME NEW s \in At(v), s \notin Done(fin) PROVE idx[s] % VN \notin out
    BY <1>4, <1>5, <1>6, <1>10, <1>11
  <1>12. ASSUME NEW s \in At(v), s \in Done(fin) PROVE idx[s] % VN \in out
    BY <1>4, <1>6, <1>12
  <1>13. vout = {idx[s] % VN : s \in At(v)} BY <1>1 DEF VpuFlight, v
  <1>14. vout' = {idx'[s] % VN : s \in At(v)'}
    <2>1. ASSUME NEW x \in vout' PROVE \E s \in At(v)' : x = idx'[s] % VN
      <3>1. CASE x \in vout \ out
        <4>1. PICK s \in At(v) : x = idx[s] % VN BY <1>13, <3>1
        <4>2. s \notin Done(fin) BY <1>12, <3>1, <4>1
        <4>3. (s \in At(v))' /\ idx'[s] = idx[s] BY <1>7, <4>2 DEF Same
        <4> QED BY <4>1, <4>3
      <3>2. CASE x \notin vout \ out
        <4>1. go /\ run[next].unit = v /\ x = W % VN BY <1>8, <2>1, <3>2
        <4> QED BY <1>7, <4>1 DEF W
      <3> QED BY <3>1, <3>2
    <2>2. ASSUME NEW s \in At(v)' PROVE idx'[s] % VN \in vout'
      <3>1. s \in Slot BY DEF At
      <3>2. CASE New(s, go)
        <4>1. go BY <3>2 DEF New
        <4>2. run[next].unit = v /\ idx'[s] = W BY <1>7, <3>1, <3>2, <4>1 DEF W
        <4> QED BY <1>8, <4>1, <4>2
      <3>3. CASE ~ New(s, go)
        <4>1. s \in At(v) /\ idx'[s] = idx[s] /\ s \notin Done(fin) BY <1>7, <3>1, <3>3 DEF Same
        <4>2. idx[s] % VN \in vout \ out BY <1>11, <1>13, <4>1
        <4> QED BY <1>8, <4>1, <4>2
      <3> QED BY <3>2, <3>3
    <2> QED BY <2>1, <2>2
  <1>15. ASSUME NEW s \in At(v)' PROVE wd'[v] <= idx'[s] + VMW
    <2>1. s \in Slot BY DEF At
    <2>2. CASE New(s, go)
      <3>1. go BY <2>2 DEF New
      <3>2. run[next].unit = v /\ idx'[s] = W BY <1>7, <2>1, <2>2, <3>1 DEF W
      <3>3. VMW >= 1 BY Basics
      <3> QED BY <1>8, <1>9, <3>1, <3>2, <3>3
    <2>3. CASE ~ New(s, go)
      <3>1. s \in At(v) /\ idx'[s] = idx[s] BY <1>7, <2>1, <2>3 DEF Same
      <3>2. W <= idx[s] + VMW /\ idx[s] \in Nat BY <1>3, <3>1
      <3>3. ASSUME go, run[next].unit = v PROVE W # idx[s] + VMW
        <4>1. ~ Hold BY <1>1, <3>3, Moves
        <4>2. (W + 1) % VN \notin vout BY <3>3, <4>1 DEF Hold, v, W
        <4>3. idx[s] % VN \in vout BY <1>13, <3>1
        <4>4. (idx[s] + VN) % VN = idx[s] % VN
          <5>1. PICK k \in Int : k = idx[s] BY <3>2
          <5>2. (k + VN) % VN = k % VN BY <1>9, ModAdds
          <5> QED BY <5>1, <5>2
        <4>5. ASSUME W = idx[s] + VMW PROVE W + 1 = idx[s] + VN BY <1>8, <1>9, <3>2, <4>5
        <4> QED BY <4>2, <4>3, <4>4, <4>5
      <3> QED BY <1>8, <1>9, <3>1, <3>2, <3>3
    <2> QED BY <2>2, <2>3
  <1>16. VpuFlight'
    <2>1. (vout = {idx[s] % VN : s \in At("VPU")})' BY <1>14 DEF v, VN
    <2>2. (\A s \in At("VPU") : wd["VPU"] <= idx[s] + VMW)' BY <1>15 DEF v
    <2> QED BY <2>1, <2>2 DEF VpuFlight
  <1> QED BY <1>11, <1>16 DEF v, out

LEMMA LinedNext ==
  ASSUME SeqInv, NEW fin, NEW starts, NEW go, CycleOf(fin, starts, go)
  PROVE  Lined'
PROOF
  <1>1. Typed /\ Numbered /\ Flight /\ Lined BY DEF SeqInv
  <1> DEFINE d(u) == IF u \in fin THEN 1 ELSE 0
             m(u) == Len(queue[u]) - d(u)
             o(u) == Oldest(Eligible(u))
  <1>2. ASSUME NEW u \in Unit
        PROVE  /\ queue'[u] \in Seq(Slot) /\ m(u) \in Nat
               /\ Len(queue'[u]) = IF u \in starts THEN m(u) + 1 ELSE m(u)
               /\ \A n \in 1..m(u) : queue'[u][n] = queue[u][n + d(u)]
               /\ u \in starts => queue'[u][m(u) + 1] = o(u)
    BY <1>1, Queues
  <1>3. ASSUME NEW u \in starts
        PROVE  /\ u \in Unit /\ o(u) \in At(u) /\ ~ Started(o(u))
               /\ u \in InOrder => idx[o(u)] = wc[u] + Len(queue[u])
    <2>1. u \in Unit /\ Starts(u) BY DEF CycleOf
    <2> QED BY <1>1, <2>1, StartIs
  <1>4. \A u \in Unit : queue[u] \in Seq(Slot) /\ Len(queue[u]) \in Nat /\ DOMAIN queue[u] = 1..Len(queue[u])
    BY <1>1 DEF Typed
  <1>5. \A u \in Unit : d(u) \in {0, 1} /\ m(u) + d(u) = Len(queue[u]) BY <1>4
  <1>6. ASSUME NEW u \in Unit, NEW n \in 1..m(u)
        PROVE  n + d(u) \in DOMAIN queue[u] /\ (u \in fin => n + d(u) # 1)
    <2>1. m(u) \in Nat BY <1>2
    <2> QED BY <1>4, <1>5, <2>1
  <1>7. ASSUME NEW u \in Unit, NEW n \in DOMAIN queue[u], NEW k \in DOMAIN queue[u], queue[u][n] = queue[u][k]
        PROVE  n = k
    <2>1. CASE u = "VPU" BY <1>1, <1>7, <2>1 DEF Lined
    <2>2. CASE u # "VPU"
      <3>1. u \in InOrder BY <2>2 DEF Unit
      <3>2. wc[u] + n - 1 = wc[u] + k - 1 BY <1>1, <1>7, <3>1 DEF Lined
      <3>3. wc[u] \in Nat BY <1>1, <3>1 DEF Typed
      <3>4. n \in 1..Len(queue[u]) /\ k \in 1..Len(queue[u]) /\ Len(queue[u]) \in Nat BY <1>4
      <3> QED BY <3>2, <3>3, <3>4
    <2> QED BY <2>1, <2>2
  <1>8. \A u \in Unit : \A s \in At(u) : s \notin Done(fin) => (s \in At(u))' /\ Same(s)
    BY <1>1, AtMoves
  <1>9. \A u \in Unit : \A s \in At(u) : s \in Done(fin) <=> u \in fin /\ s = queue[u][1]
    BY <1>1, Leaves
  <1>10. \A s \in Done(fin) : Started(s) BY <1>1, Leaves
  <1>11. \A u \in fin : u \in Unit /\ 1 \in DOMAIN queue[u] BY <1>1, Leaves
  <1>12. ASSUME NEW u \in Unit, NEW n \in 1..m(u)
         PROVE  /\ queue'[u][n] = queue[u][n + d(u)] /\ queue[u][n + d(u)] \in At(u)
                /\ queue'[u][n] \in At(u)' /\ Same(queue'[u][n])
    <2>1. queue'[u][n] = queue[u][n + d(u)] BY <1>2
    <2>2. queue[u][n + d(u)] \in At(u) BY <1>1, <1>6 DEF Lined
    <2>3. queue[u][n + d(u)] \notin Done(fin)
      <3>1. SUFFICES ASSUME u \in fin, queue[u][n + d(u)] = queue[u][1] PROVE FALSE BY <1>9, <2>2
      <3>2. n + d(u) = 1 BY <1>6, <1>7, <1>11, <3>1
      <3> QED BY <1>6, <3>1, <3>2
    <2> DEFINE x == queue[u][n + d(u)]
    <2>5. x \in At(u) /\ x \notin Done(fin) BY <2>2, <2>3
    <2>6. x \in At(u)' /\ Same(x) BY <1>8, <2>5
    <2> QED BY <2>1, <2>2, <2>6
  <1>13. ASSUME NEW u \in starts PROVE o(u) \in At(u)' /\ Same(o(u))
    BY <1>3, <1>8, <1>10
  <1> HIDE DEF d, m, o
  <1>14. ASSUME NEW u \in Unit, NEW n \in DOMAIN queue'[u]
         PROVE  n \in 1..m(u) \/ (u \in starts /\ n = m(u) + 1 /\ queue'[u][n] = o(u))
    <2>1. /\ queue'[u] \in Seq(Slot) /\ m(u) \in Nat
          /\ Len(queue'[u]) = IF u \in starts THEN m(u) + 1 ELSE m(u)
          /\ u \in starts => queue'[u][m(u) + 1] = o(u)
      BY <1>2
    <2>2. n \in 1..Len(queue'[u]) BY <1>14, <2>1
    <2> QED BY <2>1, <2>2
  <1>15. ASSUME NEW u \in Unit, NEW n \in DOMAIN queue'[u] PROVE queue'[u][n] \in At(u)'
    BY <1>12, <1>13, <1>14
  <1>16. ASSUME NEW u \in InOrder, NEW n \in DOMAIN queue'[u]
         PROVE  idx'[queue'[u][n]] = wc'[u] + n - 1
    <2>1. u \in Unit BY DEF Unit
    <2>2. wc'[u] = wc[u] + d(u) /\ wc[u] \in Nat BY <1>1 DEF CycleOf, Cycle, Typed, d
    <2>3. d(u) \in {0, 1} /\ m(u) + d(u) = Len(queue[u]) /\ m(u) \in Nat /\ Len(queue[u]) \in Nat
      BY <1>2, <1>4, <1>5, <2>1
    <2>4. CASE n \in 1..m(u)
      <3>1. idx'[queue'[u][n]] = idx[queue[u][n + d(u)]] BY <1>12, <2>1, <2>4 DEF Same
      <3>2. n + d(u) \in DOMAIN queue[u] BY <1>6, <2>1, <2>4
      <3>3. idx[queue[u][n + d(u)]] = wc[u] + (n + d(u)) - 1 BY <1>1, <3>2 DEF Lined
      <3> QED BY <2>2, <2>3, <2>4, <3>1, <3>3
    <2>5. CASE u \in starts /\ n = m(u) + 1 /\ queue'[u][n] = o(u)
      <3>1. idx'[o(u)] = idx[o(u)] BY <1>13, <2>5 DEF Same
      <3>2. idx[o(u)] = wc[u] + Len(queue[u]) BY <1>3, <2>5
      <3>3. wc[u] + Len(queue[u]) = wc'[u] + n - 1 BY <2>2, <2>3, <2>5
      <3> QED BY <2>5, <3>1, <3>2, <3>3
    <2> QED BY <1>14, <2>1, <2>4, <2>5
  <1>17. ASSUME NEW n \in DOMAIN queue'["VPU"], NEW k \in DOMAIN queue'["VPU"],
                queue'["VPU"][n] = queue'["VPU"][k]
         PROVE  n = k
    <2> DEFINE v == "VPU"
    <2>1. v \in Unit BY DEF Unit
    <2>2. d(v) \in {0, 1} /\ m(v) \in Nat BY <1>2, <1>5, <2>1
    <2>3. ASSUME NEW i \in 1..m(v), v \in starts PROVE queue'[v][i] # o(v)
      <3>1. queue'[v][i] = queue[v][i + d(v)] /\ i + d(v) \in DOMAIN queue[v] BY <1>6, <1>12, <2>1
      <3>2. Started(queue'[v][i]) BY <2>1, <3>1 DEF Started
      <3> QED BY <1>3, <2>3, <3>2
    <2>4. CASE n \in 1..m(v) /\ k \in 1..m(v)
      <3>1. queue[v][n + d(v)] = queue[v][k + d(v)] BY <1>12, <1>17, <2>1, <2>4
      <3>2. n + d(v) \in DOMAIN queue[v] /\ k + d(v) \in DOMAIN queue[v] BY <1>6, <2>1, <2>4
      <3>3. n + d(v) = k + d(v) BY <1>7, <2>1, <3>1, <3>2
      <3> QED BY <2>2, <2>4, <3>3
    <2> QED BY <1>14, <1>17, <2>1, <2>3, <2>4
  <1>18. released' <= Len(queue'["MXU"])
    <2> DEFINE x == "MXU"
    <2>1. x \in Unit BY DEF Unit, InOrder
    <2>2. released' = released + (IF Releases THEN 1 ELSE 0) - d(x) BY DEF CycleOf, Cycle, d
    <2>3. Releases => released < Len(queue[x]) BY DEF Releases
    <2>4. released \in Nat /\ released <= Len(queue[x]) BY <1>1 DEF Typed, Lined
    <2>5. d(x) \in {0, 1} /\ m(x) + d(x) = Len(queue[x]) /\ m(x) \in Nat /\ Len(queue[x]) \in Nat
      BY <1>2, <1>4, <1>5, <2>1
    <2>6. Len(queue'[x]) = IF x \in starts THEN m(x) + 1 ELSE m(x) BY <1>2, <2>1
    <2> QED BY <2>2, <2>3, <2>4, <2>5, <2>6
  <1> QED
    <2>1. (\A u \in Unit : \A n \in DOMAIN queue[u] : queue[u][n] \in At(u))' BY <1>15
    <2>2. (\A u \in InOrder : \A n \in DOMAIN queue[u] : idx[queue[u][n]] = wc[u] + n - 1)' BY <1>16
    <2>3. (\A n, k \in DOMAIN queue["VPU"] : queue["VPU"][n] = queue["VPU"][k] => n = k)' BY <1>17
    <2> QED BY <1>18, <2>1, <2>2, <2>3 DEF Lined

(* The instruction taken waits for every older one that it conflicts with: *)
(* its entry covers what this visit of its pc conflicts with, as far back  *)
(* as the window, or the VPU's mask, reaches.                              *)
LEMMA TakenWaits ==
  ASSUME SeqInv, NEW fin, NEW starts, NEW go, CycleOf(fin, starts, go), go,
         NEW t \in Slot, Full(t), t \notin Done(fin)
  PROVE  LET i == run[next]
             u == UnitAt(t)
         IN /\ Conflict(i, run[pos[t]]) /\ u = "VPU" => idx[t] % VN \in vpend'[Takes]
            /\ Conflict(i, run[pos[t]]) /\ u \in InOrder /\ u # i.unit =>
                 wt'[Takes][u] # 0 /\ idx[t] < wt'[Takes][u] /\ wt'[Takes][u] <= wd[u]
            /\ i.unit = "MXU" /\ Overlap(i, run[pos[t]], Dram) =>
                 u \in Streams /\ wtd'[Takes][u] # 0 /\ idx[t] < wtd'[Takes][u] /\ wtd'[Takes][u] <= wd[u]
PROOF
  <1> DEFINE i == run[next]
             u == UnitAt(t)
             e == run[pos[t]]
             b == wd[u] - idx[t]
  <1>1. Typed /\ Numbered /\ Flight /\ VpuFlight /\ Lined BY DEF SeqInv
  <1>2. /\ FreeSlots # {} /\ Takes \in Slot /\ ~ Full(Takes)
        /\ next \in 1..Len(run) /\ next \in Nat \ {0}
    BY <1>1, Moves
  <1>3. u \in Unit /\ t \in At(u) /\ pos[t] \in Nat \ {0} /\ pos[t] < next /\ e.unit = u
    BY <1>1, FullIs DEF Numbered, UnitAt
  <1>4. idx[t] < wd[u] /\ idx[t] \in Nat /\ wd[u] \in Nat BY <1>1, <1>3, IdxBelow
  <1>5. Back(next, pos[t]) = b /\ b \in Nat \ {0}
    <2>1. Back(next, pos[t]) = Nth(u, next) - Nth(u, pos[t]) BY <1>2, <1>3, BackIs
    <2>2. wd[u] = Nth(u, next) /\ idx[t] = Nth(u, pos[t]) BY <1>1, <1>3 DEF Numbered
    <2> QED BY <1>4, <2>1, <2>2
  <1>6. next \in Visits(i.pc) /\ pos[t] \in Before(u, next)
    <2>1. next \in DOMAIN run BY <1>1, <1>2, RunIs
    <2>2. pos[t] \in 1..(next - 1) BY <1>2, <1>3
    <2> QED BY <1>3, <2>1, <2>2 DEF Visits, Before
  <1>7. /\ vpend'[Takes] = Pending(i, VFin(fin))
        /\ \A x \in InOrder : wt'[Takes][x] = Target(x, Count(i, x))
        /\ \A x \in Streams : wtd'[Takes][x] = Target(x, Stream(i, x))
    <2> DEFINE taken == IF go THEN {Takes} ELSE {}
    <2>1. /\ wt' = [s \in Slot |-> IF s \in taken THEN [x \in InOrder |-> Target(x, Count(i, x))]
                                   ELSE wt[s]]
          /\ wtd' = [s \in Slot |-> IF s \in taken THEN [x \in Streams |-> Target(x, Stream(i, x))]
                                    ELSE wtd[s]]
          /\ vpend' = [s \in Slot |-> IF s \in taken THEN Pending(i, VFin(fin)) ELSE vpend[s] \ VFin(fin)]
      BY DEF CycleOf, Cycle
    <2>2. Takes \in taken OBVIOUS
    <2> HIDE DEF taken, i
    <2> QED BY <1>2, <2>1, <2>2
  <1>8. u \in InOrder => b <= KMAX
    <2>1. ASSUME u \in InOrder PROVE wd[u] <= wc[u] + KMAX /\ wc[u] <= idx[t] /\ wc[u] \in Nat
      BY <1>1, <1>2, <1>3, <2>1, AtMost DEF Flight, Typed
    <2> QED BY <1>4, <2>1, Basics
  <1> HIDE DEF i, u, e, b
  <1>9. ASSUME NEW S \in SUBSET (1..KMAX), b \in S, u \in InOrder
        PROVE  Target(u, Least(S)) # 0 /\ idx[t] < Target(u, Least(S)) /\ Target(u, Least(S)) <= wd[u]
    <2>1. S \in SUBSET Nat /\ S # {} BY <1>9
    <2>2. Least(S) \in S /\ Least(S) <= b BY <1>9, <2>1, LeastIs
    <2>3. Least(S) \in Nat /\ Least(S) >= 1
      <3>1. \A k \in S : k \in Nat /\ k >= 1 OBVIOUS
      <3> QED BY <2>2, <3>1
    <2>4. Target(u, Least(S)) = wd[u] - Least(S) + 1 BY <2>3 DEF Target
    <2>5. b = wd[u] - idx[t] BY DEF b
    <2> QED BY <1>4, <1>5, <2>2, <2>3, <2>4, <2>5
  <1>10. ASSUME Conflict(i, e), u = "VPU" PROVE idx[t] % VN \in vpend'[Takes]
    <2>1. wd["VPU"] <= idx[t] + VMW /\ idx[t] % VN \in vout BY <1>1, <1>3, <1>10 DEF VpuFlight
    <2>2. b \in 1..VMW /\ b <= wd["VPU"] /\ wd["VPU"] - b = idx[t]
      <3>1. b = wd["VPU"] - idx[t] BY <1>10 DEF b
      <3> QED BY <1>4, <1>5, <1>10, <2>1, <3>1, Basics
    <2>3. b \in Mask(i)
      <3>1. next \in Visits(i.pc) /\ pos[t] \in Before("VPU", next) BY <1>6, <1>10
      <3>2. Back(next, pos[t]) = b /\ Conflict(run[next], run[pos[t]]) BY <1>5, <1>10 DEF i, e
      <3> QED BY <2>2, <3>1, <3>2 DEF Mask
    <2>4. idx[t] % VN \in Named(i) BY <2>2, <2>3 DEF Named
    <2>5. idx[t] % VN \notin VFin(fin) BY <1>3, <1>10, VpuNext
    <2> QED BY <1>7, <2>1, <2>4, <2>5 DEF Pending
  <1>11. ASSUME Conflict(i, e), u \in InOrder, u # i.unit
         PROVE  wt'[Takes][u] # 0 /\ idx[t] < wt'[Takes][u] /\ wt'[Takes][u] <= wd[u]
    <2>1. b \in Ranks(i.pc, u)
      <3>1. b \in 1..KMAX BY <1>5, <1>8, <1>11, Basics
      <3>2. Back(next, pos[t]) = b /\ Conflict(run[next], run[pos[t]]) BY <1>5, <1>11 DEF i, e
      <3> QED BY <1>6, <3>1, <3>2 DEF Ranks
    <2>2. Count(i, u) = Least(Ranks(i.pc, u)) BY <1>11 DEF Count
    <2>3. Ranks(i.pc, u) \in SUBSET (1..KMAX) BY DEF Ranks
    <2> QED BY <1>7, <1>9, <1>11, <2>1, <2>2, <2>3
  <1>12. ASSUME i.unit = "MXU", Overlap(i, e, Dram)
         PROVE  u \in Streams /\ wtd'[Takes][u] # 0 /\ idx[t] < wtd'[Takes][u] /\ wtd'[Takes][u] <= wd[u]
    <2>1. i \in Ins /\ e \in Ins
      <3>1. pos[t] \in 1..Len(run) BY <1>1, FullIs
      <3> QED BY <1>1, <1>2, <3>1, RunIs DEF i, e
    <2>2. i.wr \cap Dram = {}
      <3>1. "MXU" \notin Streams BY DEF Streams
      <3> QED BY <1>12, <2>1, <3>1, SequencerAssumption
    <2>3. e.wr \cap Dram # {} BY <1>12, <2>2 DEF Overlap
    <2>4. u \in Streams /\ u \in InOrder
      <3>1. e.unit \in Streams BY <2>1, <2>3, SequencerAssumption
      <3> QED BY <1>3, <3>1 DEF Streams, InOrder, e, u
    <2>5. b \in DramRanks(i.pc, u)
      <3>1. b \in 1..KMAX BY <1>5, <1>8, <2>4, Basics
      <3>2. DramConflict(i, e) BY <1>12 DEF DramConflict
      <3>3. Back(next, pos[t]) = b /\ DramConflict(run[next], run[pos[t]]) BY <1>5, <3>2 DEF i, e
      <3> QED BY <1>6, <3>1, <3>3 DEF DramRanks
    <2>6. Stream(i, u) = Least(DramRanks(i.pc, u)) BY <1>12 DEF Stream
    <2>7. DramRanks(i.pc, u) \in SUBSET (1..KMAX) BY DEF DramRanks
    <2> QED BY <1>7, <1>9, <2>4, <2>5, <2>6, <2>7
  <1> QED BY <1>10, <1>11, <1>12 DEF i, u, e

LEMMA WaitsNext ==
  ASSUME SeqInv, NEW fin, NEW starts, NEW go, CycleOf(fin, starts, go)
  PROVE  Waits'
PROOF
  <1>1. Typed /\ Numbered /\ Flight /\ VpuFlight /\ Lined /\ Waits BY DEF SeqInv
  <1>2. /\ run' = run
        /\ go => Takes \in Slot /\ ~ Full(Takes) /\ next \in 1..Len(run)
        /\ \A s \in Slot : Full(s)' /\ New(s, go) => pos'[s] = next
        /\ \A s \in Slot : Full(s)' /\ ~ New(s, go) => Same(s) /\ s \notin Done(fin)
    BY <1>1, Moves
  <1> SUFFICES ASSUME NEW s \in Slot, NEW t \in Slot, Full(s)', Full(t)', pos'[t] < pos'[s]
               PROVE  /\ (Conflict(run[pos[s]], run[pos[t]]) /\ (UnitAt(t) = UnitAt(s) => UnitAt(s) = "VPU"))'
                           => WaitsFor(s, t)'
                      /\ (UnitAt(s) = "MXU" /\ Overlap(run[pos[s]], run[pos[t]], Dram))' => StreamWaitsFor(s, t)'
    BY DEF Waits
  <1>3. ~ New(t, go)
    <2>1. SUFFICES ASSUME New(t, go) PROVE FALSE OBVIOUS
    <2>2. pos'[t] = next BY <1>2, <2>1
    <2>3. CASE New(s, go) BY <1>2, <2>2, <2>3 DEF New
    <2>4. CASE ~ New(s, go)
      <3>1. Same(s) BY <1>2, <2>4
      <3>2. pos'[s] < next BY <1>1, <3>1 DEF Same, Numbered
      <3>3. next \in Nat /\ pos'[s] \in Nat BY <1>1, <3>1 DEF Same, Typed
      <3> QED BY <2>2, <3>2, <3>3
    <2> QED BY <2>3, <2>4
  <1>4. Same(t) /\ t \notin Done(fin) /\ Full(t) BY <1>2, <1>3 DEF Same
  <1>5. /\ UnitAt(t)' = UnitAt(t) /\ run'[pos'[t]] = run[pos[t]] /\ pos'[t] = pos[t] /\ idx'[t] = idx[t]
        /\ UnitAt(t) \in Unit /\ t \in At(UnitAt(t))
    BY <1>1, <1>2, <1>4, SameIs, FullIs DEF Same
  <1>6. \A x \in Unit : wd[x] \in Nat /\ wd'[x] \in Nat /\ wd[x] <= wd'[x]
    <2>1. \A x \in Unit : wd'[x] = IF go /\ x = run[next].unit THEN wd[x] + 1 ELSE wd[x]
      BY DEF CycleOf, Cycle
    <2>2. \A x \in Unit : wd[x] \in Nat BY <1>1 DEF Typed
    <2> QED BY <2>1, <2>2
  <1>7. UnitAt(t) = "VPU" => idx[t] % VN \notin VFin(fin) BY <1>4, <1>5, VpuNext
  <1>8. CASE New(s, go)
    <2>1. go /\ s = Takes BY <1>8 DEF New
    <2>2. pos'[s] = next BY <1>2, <1>8
    <2>3. run'[pos'[s]] = run[next] /\ UnitAt(s)' = run[next].unit BY <1>2, <2>2 DEF UnitAt
    <2> DEFINE i == run[next]
               u == UnitAt(t)
               e == run[pos[t]]
    <2>4. /\ Conflict(i, e) /\ u = "VPU" => idx[t] % VN \in vpend'[s]
          /\ Conflict(i, e) /\ u \in InOrder /\ u # i.unit =>
               wt'[s][u] # 0 /\ idx[t] < wt'[s][u] /\ wt'[s][u] <= wd[u]
          /\ i.unit = "MXU" /\ Overlap(i, e, Dram) =>
               u \in Streams /\ wtd'[s][u] # 0 /\ idx[t] < wtd'[s][u] /\ wtd'[s][u] <= wd[u]
      BY <1>4, <2>1, TakenWaits
    <2> HIDE DEF i, u, e
    <2>5. /\ run'[pos'[s]] = i /\ UnitAt(s)' = i.unit /\ UnitAt(t)' = u /\ run'[pos'[t]] = e
          /\ u \in Unit /\ \A x \in Unit : wd[x] \in Nat /\ wd'[x] \in Nat /\ wd[x] <= wd'[x]
      BY <1>5, <1>6, <2>3 DEF i, u, e
    <2>6. ASSUME Conflict(i, e), u = i.unit => i.unit = "VPU" PROVE WaitsFor(s, t)'
      <3>1. CASE u = "VPU"
        <4>1. idx'[t] % VN \in vpend'[s] BY <1>5, <2>4, <2>6, <3>1
        <4> QED BY <2>5, <3>1, <4>1 DEF WaitsFor, VN
      <3>2. CASE u # "VPU"
        <4>1. u \in InOrder /\ u # i.unit BY <2>5, <2>6, <3>2 DEF Unit
        <4>2. wt'[s][u] # 0 /\ idx[t] < wt'[s][u] /\ wt'[s][u] <= wd[u] BY <2>4, <2>6, <4>1
        <4>3. wt'[s][u] <= wd'[u]
          <5>1. wt'[s][u] \in Int
            <6>1. Typed' BY TypedNext
            <6> QED BY <4>1, <6>1 DEF Typed
          <5> QED BY <2>5, <4>2, <5>1
        <4> QED BY <1>5, <2>5, <3>2, <4>2, <4>3 DEF WaitsFor
      <3> QED BY <3>1, <3>2
    <2>7. ASSUME i.unit = "MXU", Overlap(i, e, Dram) PROVE StreamWaitsFor(s, t)'
      <3>1. u \in Streams /\ wtd'[s][u] # 0 /\ idx[t] < wtd'[s][u] /\ wtd'[s][u] <= wd[u] BY <2>4, <2>7
      <3>2. wtd'[s][u] <= wd'[u]
        <4>1. wtd'[s][u] \in Int
          <5>1. Typed' BY TypedNext
          <5> QED BY <3>1, <5>1 DEF Typed
        <4> QED BY <2>5, <3>1, <4>1
      <3> QED BY <1>5, <2>5, <3>1, <3>2 DEF StreamWaitsFor
    <2>9. (Conflict(run[pos[s]], run[pos[t]]))' => Conflict(i, e) BY <2>5 DEF Conflict, Overlap
    <2>10. (Overlap(run[pos[s]], run[pos[t]], Dram))' => Overlap(i, e, Dram) BY <2>5 DEF Overlap
    <2> QED BY <2>5, <2>6, <2>7, <2>9, <2>10
  <1>9. CASE ~ New(s, go)
    <2>1. Same(s) /\ Full(s) BY <1>2, <1>9 DEF Same
    <2>2. /\ UnitAt(s)' = UnitAt(s) /\ run'[pos'[s]] = run[pos[s]] /\ pos'[s] = pos[s]
          /\ wt'[s] = wt[s] /\ wtd'[s] = wtd[s]
      BY <1>2, <2>1, SameIs DEF Same
    <2>3. vpend'[s] = vpend[s] \ VFin(fin)
      BY <1>9 DEF CycleOf, Cycle, New
    <2>4. pos[t] < pos[s] BY <1>5, <2>2
    <2>5. /\ Conflict(run[pos[s]], run[pos[t]]) /\ (UnitAt(t) = UnitAt(s) => UnitAt(s) = "VPU")
               => WaitsFor(s, t)
          /\ UnitAt(s) = "MXU" /\ Overlap(run[pos[s]], run[pos[t]], Dram) => StreamWaitsFor(s, t)
      BY <1>1, <1>4, <2>1, <2>4 DEF Waits
    <2>6. WaitsFor(s, t) => WaitsFor(s, t)'
      <3>1. SUFFICES ASSUME WaitsFor(s, t) PROVE WaitsFor(s, t)' OBVIOUS
      <3>2. CASE UnitAt(t) = "VPU"
        <4>1. idx'[t] % VN \in vpend'[s] BY <1>5, <1>7, <2>3, <3>1, <3>2 DEF WaitsFor
        <4> QED BY <1>5, <3>2, <4>1 DEF WaitsFor, VN
      <3>3. CASE UnitAt(t) # "VPU"
        <4> DEFINE u == UnitAt(t)
        <4>1. u \in InOrder /\ u \in Unit BY <1>5, <3>3 DEF Unit
        <4>2. wt[s][u] # 0 /\ idx[t] < wt[s][u] /\ wt[s][u] <= wd[u] BY <3>1, <3>3 DEF WaitsFor
        <4>3. wt[s][u] \in Int BY <1>1, <4>1 DEF Typed
        <4>4. wt[s][u] <= wd'[u] BY <1>6, <4>1, <4>2, <4>3
        <4> QED BY <1>5, <2>2, <3>3, <4>2, <4>4 DEF WaitsFor
      <3> QED BY <3>2, <3>3
    <2>7. StreamWaitsFor(s, t) => StreamWaitsFor(s, t)'
      <3>1. SUFFICES ASSUME StreamWaitsFor(s, t) PROVE StreamWaitsFor(s, t)' OBVIOUS
      <3> DEFINE u == UnitAt(t)
      <3>2. u \in Streams /\ wtd[s][u] # 0 /\ idx[t] < wtd[s][u] /\ wtd[s][u] <= wd[u] BY <3>1 DEF StreamWaitsFor
      <3>3. wtd[s][u] \in Int BY <1>1, <3>2 DEF Typed
      <3>4. wtd[s][u] <= wd'[u] BY <1>5, <1>6, <3>2, <3>3
      <3> QED BY <1>5, <2>2, <3>2, <3>4 DEF StreamWaitsFor
    <2>8. (Conflict(run[pos[s]], run[pos[t]]))' => Conflict(run[pos[s]], run[pos[t]])
      BY <1>5, <2>2 DEF Conflict, Overlap
    <2>9. (Overlap(run[pos[s]], run[pos[t]], Dram))' => Overlap(run[pos[s]], run[pos[t]], Dram)
      BY <1>5, <2>2 DEF Overlap
    <2> QED BY <1>5, <2>2, <2>5, <2>6, <2>7, <2>8, <2>9
  <1> QED BY <1>8, <1>9

(* A clear slot stays clear: only younger instructions come.               *)
LEMMA ClearStays ==
  ASSUME SeqInv, NEW fin, NEW starts, NEW go, CycleOf(fin, starts, go), NEW s \in Slot, Same(s)
  PROVE  (Clear(s) => Clear(s)') /\ (ClearStream(s) => ClearStream(s)')
PROOF
  <1>1. Typed /\ Numbered /\ Flight /\ Lined BY DEF SeqInv
  <1>2. /\ run' = run
        /\ \A t \in Slot : Full(t)' /\ New(t, go) => pos'[t] = next
        /\ \A t \in Slot : Full(t)' /\ ~ New(t, go) => Same(t)
    BY <1>1, Moves
  <1>3. UnitAt(s)' = UnitAt(s) /\ run'[pos'[s]] = run[pos[s]] /\ pos'[s] = pos[s] /\ Full(s)
    BY <1>2, SameIs DEF Same
  <1>4. pos[s] < next /\ pos[s] \in Nat /\ next \in Nat BY <1>1, <1>3 DEF Numbered, Typed
  <1>5. ASSUME NEW t \in Slot, Full(t)', pos'[t] < pos'[s]
        PROVE  /\ Full(t) /\ pos[t] < pos[s] /\ UnitAt(t)' = UnitAt(t)
               /\ run'[pos'[t]] = run[pos[t]]
    <2>1. ~ New(t, go) BY <1>2, <1>3, <1>4, <1>5
    <2>2. Same(t) BY <1>2, <1>5, <2>1
    <2> QED BY <1>2, <1>3, <1>5, <2>2, SameIs DEF Same
  <1>6. ASSUME Clear(s) PROVE Clear(s)'
    <2>1. ASSUME NEW t \in Slot, Full(t)', pos'[t] < pos'[s],
                 (UnitAt(t) = UnitAt(s) => UnitAt(s) = "VPU")'
          PROVE  ~ Conflict(run[pos[s]], run[pos[t]])'
      <3>1. ~ Conflict(run[pos[s]], run[pos[t]]) BY <1>3, <1>5, <1>6, <2>1 DEF Clear
      <3>2. Conflict(run[pos[s]], run[pos[t]])' => Conflict(run[pos[s]], run[pos[t]])
        BY <1>3, <1>5, <2>1 DEF Conflict, Overlap
      <3> QED BY <3>1, <3>2
    <2> QED BY <2>1 DEF Clear
  <1>7. ASSUME ClearStream(s) PROVE ClearStream(s)'
    <2>1. ASSUME NEW t \in Slot, Full(t)', pos'[t] < pos'[s]
          PROVE  ~ Overlap(run[pos[s]], run[pos[t]], Dram)'
      <3>1. ~ Overlap(run[pos[s]], run[pos[t]], Dram) BY <1>5, <1>7, <2>1 DEF ClearStream
      <3>2. Overlap(run[pos[s]], run[pos[t]], Dram)' => Overlap(run[pos[s]], run[pos[t]], Dram)
        BY <1>3, <1>5, <2>1 DEF Overlap
      <3> QED BY <3>1, <3>2
    <2> QED BY <2>1 DEF ClearStream
  <1> QED BY <1>6, <1>7

LEMMA ReadyNext ==
  ASSUME SeqInv, NEW fin, NEW starts, NEW go, CycleOf(fin, starts, go)
  PROVE  Ready'
PROOF
  <1>1. Typed /\ Numbered /\ Flight /\ Lined /\ Waits BY DEF SeqInv
  <1>2. /\ run' = run
        /\ \A s \in Slot : Full(s)' /\ ~ New(s, go) => Same(s)
    BY <1>1, Moves
  <1>3. /\ \A s \in allq' : s \in Slot /\ WaitsMet(s) /\ ~ New(s, go)
        /\ \A s \in dramq' : s \in Slot /\ StreamMet(s) /\ ~ New(s, go)
    BY DEF CycleOf, Cycle, Latch, New
  <1>4. ASSUME NEW s \in allq', Full(s)' PROVE Clear(s)'
    <2>1. Same(s) /\ Full(s) /\ s \in Slot BY <1>2, <1>3, <1>4 DEF Same
    <2>2. Clear(s) BY <1>1, <1>3, <2>1, MetIsClear
    <2> QED BY <2>1, <2>2, ClearStays
  <1>5. ASSUME NEW s \in dramq', Full(s)', UnitAt(s)' = "MXU" PROVE ClearStream(s)'
    <2>1. Same(s) /\ Full(s) /\ s \in Slot BY <1>2, <1>3, <1>5 DEF Same
    <2>2. UnitAt(s) = "MXU" BY <1>2, <1>5, <2>1, SameIs
    <2>3. ClearStream(s) BY <1>1, <1>3, <2>1, <2>2, MetIsClear
    <2> QED BY <2>1, <2>3, ClearStays
  <1> QED BY <1>4, <1>5 DEF Ready

LEMMA OrderNext ==
  ASSUME SeqInv, NEW fin, NEW starts, NEW go, CycleOf(fin, starts, go)
  PROVE  AsInOrder'
PROOF
  <1>1. Typed /\ Numbered /\ Flight /\ Lined /\ Ready /\ AsInOrder BY DEF SeqInv
  <1>2. /\ run' = run
        /\ \A s \in Slot : Full(s)' /\ ~ New(s, go) => Same(s)
        /\ \A s \in Slot : Full(s) /\ s \notin Done(fin) => Same(s)
        /\ go => ~ Full(Takes)
    BY <1>1, Moves
  <1>3. ASSUME NEW u \in Unit, NEW n \in DOMAIN queue'[u], NEW x \in Slot, x = queue'[u][n]
        PROVE  IF u = "MXU" /\ n > released' THEN ClearStream(x)' ELSE Clear(x)'
    <2> DEFINE d == IF u \in fin THEN 1 ELSE 0
               m == Len(queue[u]) - d
               o == Oldest(Eligible(u))
    <2>1. /\ queue'[u] \in Seq(Slot) /\ m \in Nat
          /\ Len(queue'[u]) = IF u \in starts THEN m + 1 ELSE m
          /\ \A k \in 1..m : queue'[u][k] = queue[u][k + d]
          /\ u \in starts => queue'[u][m + 1] = o
      BY <1>1, Queues
    <2>2. queue[u] \in Seq(Slot) /\ Len(queue[u]) \in Nat /\ d \in {0, 1} /\ m + d = Len(queue[u])
      BY <1>1 DEF Typed
    <2>3. u = "MXU" => /\ released' = released + (IF Releases THEN 1 ELSE 0) - d
                       /\ released \in Nat /\ released <= Len(queue[u])
                       /\ Releases => released < Len(queue[u]) /\ queue[u][released + 1] \in allq
      BY <1>1 DEF CycleOf, Cycle, Typed, Lined, Releases
    <2> HIDE DEF d, m, o
    <2>4. n \in 1..m \/ (u \in starts /\ n = m + 1 /\ x = o)
      <3>1. n \in 1..Len(queue'[u]) BY <2>1
      <3> QED BY <1>3, <2>1, <3>1
    <2>5. CASE n \in 1..m
      <3>1. x = queue[u][n + d] /\ n + d \in DOMAIN queue[u] BY <1>3, <2>1, <2>2, <2>5
      <3>2. x \in At(u) /\ Full(x) BY <1>1, <3>1 DEF Lined, At
      <3>3. Same(x)
        <4>1. ~ New(x, go) BY <1>2, <3>2 DEF New
        <4>2. Full(x)'
          <5>1. Lined' BY LinedNext
          <5>2. x \in At(u)' BY <1>3, <5>1 DEF Lined
          <5> QED BY <5>2 DEF At
        <4> QED BY <1>2, <4>1, <4>2
      <3>4. (Clear(x) => Clear(x)') /\ (ClearStream(x) => ClearStream(x)') BY <3>3, ClearStays
      <3>5. CASE u # "MXU"
        <4>1. Clear(x) BY <1>1, <3>1, <3>5 DEF AsInOrder
        <4> QED BY <3>4, <3>5, <4>1
      <3>6. CASE u = "MXU" /\ n > released'
        <4>1. n + d > released BY <2>2, <2>3, <2>5, <3>6
        <4>2. ClearStream(x) BY <1>1, <3>1, <3>6, <4>1 DEF AsInOrder
        <4> QED BY <3>4, <3>6, <4>2
      <3>7. CASE u = "MXU" /\ ~ (n > released')
        <4>1. n + d <= released \/ (Releases /\ n + d = released + 1) BY <2>2, <2>3, <2>5, <3>7
        <4>2. CASE n + d <= released
          <5>1. ~ (n + d > released) BY <2>2, <2>3, <2>5, <3>7, <4>2
          <5>2. Clear(x) BY <1>1, <3>1, <3>7, <5>1 DEF AsInOrder
          <5> QED BY <3>4, <3>7, <5>2
        <4>3. CASE Releases /\ n + d = released + 1
          <5>1. x \in allq BY <2>3, <3>1, <3>7, <4>3
          <5>2. Clear(x) BY <1>1, <3>2, <5>1 DEF Ready
          <5> QED BY <3>4, <3>7, <5>2
        <4> QED BY <4>1, <4>2, <4>3
      <3> QED BY <3>5, <3>6, <3>7
    <2>6. CASE u \in starts /\ n = m + 1 /\ x = o
      <3>1. x \in Slot /\ x \in At(u) /\ ~ Started(x) /\ x \in IF u = "MXU" THEN dramq ELSE allq
        BY <1>1, <2>6, StartIs DEF CycleOf, o
      <3>2. Full(x) /\ UnitAt(x) = u BY <3>1 DEF At
      <3>3. x \notin Done(fin) BY <1>1, <3>1, Leaves
      <3>4. Same(x) BY <1>2, <3>1, <3>2, <3>3
      <3>5. (Clear(x) => Clear(x)') /\ (ClearStream(x) => ClearStream(x)') BY <3>4, ClearStays
      <3>6. CASE u = "MXU"
        <4>1. n > released' BY <2>1, <2>2, <2>3, <2>6, <3>6
        <4>2. ClearStream(x) BY <1>1, <3>1, <3>2, <3>6 DEF Ready
        <4> QED BY <3>5, <3>6, <4>1, <4>2
      <3>7. CASE u # "MXU"
        <4>1. Clear(x) BY <1>1, <3>1, <3>2, <3>7 DEF Ready
        <4> QED BY <3>5, <3>7, <4>1
      <3> QED BY <3>6, <3>7
    <2> QED BY <2>4, <2>5, <2>6
  <1>4. \A u \in Unit : \A n \in DOMAIN queue'[u] : queue'[u][n] \in Slot
    <2>1. Lined' BY LinedNext
    <2> QED BY <2>1 DEF Lined, At
  <1>5. ASSUME NEW u \in Unit, NEW n \in DOMAIN queue'[u]
        PROVE  IF u = "MXU" /\ n > released' THEN ClearStream(queue[u][n])' ELSE Clear(queue[u][n])'
    <2>1. PICK x \in Slot : x = queue'[u][n] BY <1>4
    <2>2. IF u = "MXU" /\ n > released' THEN ClearStream(x)' ELSE Clear(x)' BY <1>3, <2>1
    <2>3. ClearStream(x)' => ClearStream(queue[u][n])' BY <2>1 DEF ClearStream
    <2>4. Clear(x)' => Clear(queue[u][n])' BY <2>1 DEF Clear, UnitAt
    <2> QED BY <2>2, <2>3, <2>4
  <1> QED BY <1>5 DEF AsInOrder
----------------------------------------------------------------------------
LEMMA InitInv == Init => SeqInv
PROOF
  <1> SUFFICES ASSUME Init PROVE SeqInv
    OBVIOUS
  <1>1. /\ run \in Seq(Ins) /\ next = 1 /\ pos = [s \in Slot |-> 0]
        /\ queue = [u \in Unit |-> <<>>] /\ released = 0
        /\ wd = [u \in Unit |-> 0] /\ wc = [u \in InOrder |-> 0] /\ vout = {}
        /\ allq = {} /\ dramq = {}
    BY SequencerAssumption DEF Init
  <1>2. \A s \in Slot : ~ Full(s) BY <1>1 DEF Full
  <1>3. \A u : At(u) = {} BY <1>2 DEF At
  <1>4. Len(run) \in Nat BY <1>1
  <1>5. Typed
    <2>1. next \in 1..(Len(run) + 1) /\ pos \in [Slot -> 0..Len(run)] BY <1>1, <1>4
    <2>2. /\ idx \in [Slot -> Nat] /\ wt \in [Slot -> [InOrder -> Int]]
          /\ wtd \in [Slot -> [Streams -> Int]]
      BY DEF Init
    <2>3. queue \in [Unit -> Seq(Slot)] BY <1>1
    <2> QED BY <1>1, <2>1, <2>2, <2>3 DEF Typed
  <1>6. Numbered
    <2>1. \A u \in Unit : wd[u] = Nth(u, next) BY <1>1, NthStarts
    <2> QED BY <1>2, <2>1 DEF Numbered
  <1>7. Flight
    <2>1. \A u \in InOrder : wd[u] = 0 /\ wc[u] = 0 BY <1>1 DEF Unit
    <2>2. Cardinality({}) = 0 /\ 0..(0 - 1) = {} BY FS_EmptySet
    <2> QED BY <1>3, <2>1, <2>2 DEF Flight
  <1>8. VpuFlight BY <1>1, <1>3 DEF VpuFlight
  <1>9. \A u \in Unit : queue[u] = <<>> /\ DOMAIN queue[u] = {} BY <1>1
  <1>10. Lined
    <2>1. "VPU" \in Unit /\ "MXU" \in Unit /\ InOrder \subseteq Unit BY DEF Unit, InOrder
    <2>2. Len(queue["MXU"]) = 0 BY <1>9, <2>1
    <2> QED BY <1>1, <1>9, <2>1, <2>2 DEF Lined
  <1>11. Waits BY <1>2 DEF Waits
  <1>12. Ready BY <1>1 DEF Ready
  <1>13. AsInOrder BY <1>9 DEF AsInOrder
  <1> QED BY <1>5, <1>6, <1>7, <1>8, <1>10, <1>11, <1>12, <1>13 DEF SeqInv

LEMMA NextInv == SeqInv /\ [Next]_vars => SeqInv'
PROOF
  <1> SUFFICES ASSUME SeqInv, [Next]_vars PROVE SeqInv'
    OBVIOUS
  <1>1. CASE Next
    <2>1. PICK fin \in SUBSET {u \in Unit : Finishes(u)},
               starts \in SUBSET {u \in Unit : Starts(u)},
               go \in {g \in BOOLEAN : g => Goes} : Cycle(fin, starts, go)
      BY <1>1 DEF Next
    <2>2. CycleOf(fin, starts, go) BY <2>1 DEF CycleOf
    <2>3. Typed' /\ Numbered' /\ Flight' BY <2>2, TypedNext, NumberedNext, FlightNext
    <2>4. VpuFlight' /\ Lined' BY <2>2, VpuNext, LinedNext
    <2>5. Waits' /\ Ready' /\ AsInOrder' BY <2>2, WaitsNext, ReadyNext, OrderNext
    <2> QED BY <2>3, <2>4, <2>5 DEF SeqInv
  <1>2. CASE UNCHANGED vars
    <2>1. /\ run' = run /\ next' = next /\ pos' = pos /\ idx' = idx /\ wt' = wt /\ wtd' = wtd
          /\ vpend' = vpend /\ allq' = allq /\ dramq' = dramq /\ queue' = queue
          /\ released' = released /\ wd' = wd /\ wc' = wc /\ vout' = vout
      BY <1>2 DEF vars
    <2>2. /\ Typed /\ Numbered /\ Flight /\ VpuFlight /\ Lined /\ Waits /\ Ready /\ AsInOrder
      BY DEF SeqInv
    <2>3. Typed' BY <2>1, <2>2 DEF Typed
    <2>4. Numbered' BY <2>1, <2>2 DEF Numbered, Full, UnitAt, Nth, Before
    <2>5. \A u : At(u)' = At(u) BY <2>1 DEF At, Full, UnitAt
    <2>6. Flight' BY <2>1, <2>2, <2>5 DEF Flight
    <2>7. VpuFlight' BY <2>1, <2>2, <2>5 DEF VpuFlight, VN
    <2>8. Lined' BY <2>1, <2>2, <2>5 DEF Lined
    <2>9. Waits'
      <3>1. \A s : Full(s)' = Full(s) /\ UnitAt(s)' = UnitAt(s) BY <2>1 DEF Full, UnitAt
      <3>2. \A s, t : WaitsFor(s, t)' = WaitsFor(s, t) /\ StreamWaitsFor(s, t)' = StreamWaitsFor(s, t)
        BY <2>1, <3>1 DEF WaitsFor, StreamWaitsFor, VN
      <3>3. \A s, t : Conflict(run[pos[s]], run[pos[t]])' = Conflict(run[pos[s]], run[pos[t]])
        BY <2>1 DEF Conflict, Overlap
      <3>4. \A s, t : Overlap(run[pos[s]], run[pos[t]], Dram)' = Overlap(run[pos[s]], run[pos[t]], Dram)
        BY <2>1 DEF Overlap
      <3> QED BY <2>1, <2>2, <3>1, <3>2, <3>3, <3>4 DEF Waits
    <2>10. Ready' BY <2>1, <2>2 DEF Ready, Clear, ClearStream, Conflict, Overlap, Full, UnitAt
    <2>11. AsInOrder' BY <2>1, <2>2 DEF AsInOrder, Clear, ClearStream, Conflict, Overlap, Full, UnitAt
    <2> QED BY <2>3, <2>4, <2>6, <2>7, <2>8, <2>9, <2>10, <2>11 DEF SeqInv
  <1> QED BY <1>1, <1>2

(* For every run, the instructions access memory as in program order, by   *)
(* one wait entry per pc (waits.py) and counters that wrap (otpu_seq.sv):  *)
(* the counters need to hold twice the window and no more.                 *)
THEOREM SequencerInOrder == Spec => []AsInOrder
PROOF
  <1>1. SeqInv => AsInOrder BY DEF SeqInv
  <1> QED BY <1>1, InitInv, NextInv, PTL DEF Spec

----------------------------------------------------------------------------
(* The run goes on.  A slot waits for older instructions alone: no target  *)
(* lies past the slot's own place in the run, no VPU index it waits for is *)
(* one of a younger instruction.  A target is less than the window back.   *)
Aims ==
  \A s \in Slot : Full(s) =>
    /\ \A u \in InOrder : /\ wt[s][u] <= Nth(u, pos[s])
                          /\ wt[s][u] # 0 => wt[s][u] >= 2 - WIN
    /\ \A u \in Streams : /\ wtd[s][u] <= Nth(u, pos[s])
                          /\ wtd[s][u] # 0 => wtd[s][u] >= 2 - WIN
    /\ \A x \in vpend[s] : \E t \in At("VPU") : pos[t] < pos[s] /\ x = idx[t] % VN

(* No count is past a slot's target by half the counts' range: what the    *)
(* sign of a difference can tell (otpu_seq.sv: "a slot's target stays      *)
(* within WIN of the count").                                              *)
CountsNear ==
  \A s \in Slot : Full(s) =>
    /\ \A u \in InOrder : wt[s][u] # 0 => 2 * (wc[u] - wt[s][u]) < Wrap
    /\ \A u \in Streams : wtd[s][u] # 0 => 2 * (wc[u] - wtd[s][u]) < Wrap

LEMMA TargetIs ==
  ASSUME Typed, NEW u \in Unit, NEW S \in SUBSET (1..KMAX), NEW k, k = Least(S) \/ k = 0
  PROVE  Target(u, k) <= wd[u] /\ (Target(u, k) # 0 => Target(u, k) >= 2 - WIN)
PROOF
  <1>1. wd[u] \in Nat /\ WIN \in Nat BY Basics DEF Typed
  <1>2. CASE k = 0 BY <1>1, <1>2 DEF Target
  <1>3. CASE k # 0
    <2>1. S # {} BY <1>3 DEF Least
    <2>2. S \in SUBSET Nat OBVIOUS
    <2>3. k \in S BY <1>3, <2>1, <2>2, LeastIs
    <2>4. k \in 1..(WIN - 1) BY <2>3, Basics
    <2>5. Target(u, k) = wd[u] - k + 1 BY <1>3 DEF Target
    <2> QED BY <1>1, <2>4, <2>5
  <1> QED BY <1>2, <1>3

LEMMA AimsNext ==
  ASSUME SeqInv, Aims, NEW fin, NEW starts, NEW go, CycleOf(fin, starts, go)
  PROVE  Aims'
PROOF
  <1>1. Typed /\ Numbered /\ Flight /\ VpuFlight /\ Lined BY DEF SeqInv
  <1>2. /\ run' = run
        /\ go => Takes \in Slot /\ ~ Full(Takes) /\ next \in 1..Len(run)
        /\ \A s \in Slot : Full(s)' /\ New(s, go) => pos'[s] = next
        /\ \A s \in Slot : Full(s)' /\ ~ New(s, go) => Same(s) /\ s \notin Done(fin)
    BY <1>1, Moves
  <1>3. "VPU" \in Unit /\ InOrder \subseteq Unit /\ Streams \subseteq Unit BY DEF Unit, InOrder, Streams
  <1>4. \A u, p : Nth(u, p)' = Nth(u, p) BY <1>2 DEF Nth, Before
  <1>5. \A t \in At("VPU") : t \notin Done(fin) => (t \in At("VPU"))' /\ Same(t)
    BY <1>1, <1>3, AtMoves
  <1>6. \A t \in At("VPU") : idx[t] % VN \notin VFin(fin) => t \notin Done(fin)
    <2>1. SUFFICES ASSUME NEW t \in At("VPU"), t \in Done(fin) PROVE idx[t] % VN \in VFin(fin)
      OBVIOUS
    <2>2. "VPU" \in fin /\ t = queue["VPU"][1] BY <1>1, <1>3, <2>1, Leaves
    <2> QED BY <2>2 DEF VFin
  <1>7. ASSUME NEW s \in Slot, Full(s)',
               NEW x, \E t \in At("VPU") : pos[t] < pos'[s] /\ x = idx[t] % VN, x \notin VFin(fin)
        PROVE  (\E t \in At("VPU") : pos[t] < pos[s] /\ x = idx[t] % VN)'
    <2>1. PICK t \in At("VPU") : pos[t] < pos'[s] /\ x = idx[t] % VN BY <1>7
    <2>2. t \notin Done(fin) BY <1>6, <1>7, <2>1
    <2>3. (t \in At("VPU"))' /\ pos'[t] = pos[t] /\ idx'[t] = idx[t] BY <1>5, <2>2 DEF Same
    <2>4. pos'[t] < pos'[s] /\ x = idx'[t] % VN BY <2>1, <2>3
    <2> QED BY <2>3, <2>4 DEF VN
  <1>8. ASSUME NEW s \in Slot, Full(s)', New(s, go)
        PROVE  /\ \A u \in InOrder : /\ wt'[s][u] <= Nth(u, pos'[s])
                                     /\ wt'[s][u] # 0 => wt'[s][u] >= 2 - WIN
               /\ \A u \in Streams : /\ wtd'[s][u] <= Nth(u, pos'[s])
                                     /\ wtd'[s][u] # 0 => wtd'[s][u] >= 2 - WIN
               /\ \A x \in vpend'[s] :
                    (\E t \in At("VPU") : pos[t] < pos[s] /\ x = idx[t] % VN)'
    <2> DEFINE i == run[next]
    <2>1. go /\ s = Takes /\ pos'[s] = next BY <1>2, <1>8 DEF New
    <2>2. /\ \A u \in InOrder : wt'[s][u] = Target(u, Count(i, u))
          /\ \A u \in Streams : wtd'[s][u] = Target(u, Stream(i, u))
          /\ vpend'[s] = Pending(i, VFin(fin))
      <3> DEFINE taken == IF go THEN {Takes} ELSE {}
      <3>1. /\ wt' = [x \in Slot |-> IF x \in taken THEN [u \in InOrder |-> Target(u, Count(i, u))]
                                     ELSE wt[x]]
            /\ wtd' = [x \in Slot |-> IF x \in taken THEN [u \in Streams |-> Target(u, Stream(i, u))]
                                      ELSE wtd[x]]
            /\ vpend' = [x \in Slot |-> IF x \in taken THEN Pending(i, VFin(fin)) ELSE vpend[x] \ VFin(fin)]
        BY DEF CycleOf, Cycle
      <3>2. s \in taken BY <2>1
      <3> HIDE DEF taken, i
      <3> QED BY <3>1, <3>2
    <2>3. \A u \in Unit : wd[u] = Nth(u, next) BY <1>1 DEF Numbered
    <2>4. ASSUME NEW u \in InOrder
          PROVE  wt'[s][u] <= Nth(u, pos'[s]) /\ (wt'[s][u] # 0 => wt'[s][u] >= 2 - WIN)
      <3>1. Ranks(i.pc, u) \in SUBSET (1..KMAX) BY DEF Ranks
      <3>2. Count(i, u) = Least(Ranks(i.pc, u)) \/ Count(i, u) = 0 BY DEF Count
      <3> HIDE DEF i
      <3>3. /\ Target(u, Count(i, u)) <= wd[u]
            /\ Target(u, Count(i, u)) # 0 => Target(u, Count(i, u)) >= 2 - WIN
        BY <1>1, <1>3, <3>1, <3>2, TargetIs
      <3> QED BY <1>3, <2>1, <2>2, <2>3, <3>3
    <2>5. ASSUME NEW u \in Streams
          PROVE  wtd'[s][u] <= Nth(u, pos'[s]) /\ (wtd'[s][u] # 0 => wtd'[s][u] >= 2 - WIN)
      <3>1. DramRanks(i.pc, u) \in SUBSET (1..KMAX) BY DEF DramRanks
      <3>2. Stream(i, u) = Least(DramRanks(i.pc, u)) \/ Stream(i, u) = 0 BY DEF Stream
      <3> HIDE DEF i
      <3>3. /\ Target(u, Stream(i, u)) <= wd[u]
            /\ Target(u, Stream(i, u)) # 0 => Target(u, Stream(i, u)) >= 2 - WIN
        BY <1>1, <1>3, <3>1, <3>2, TargetIs
      <3> QED BY <1>3, <2>1, <2>2, <2>3, <3>3
    <2>6. ASSUME NEW x \in vpend'[s]
          PROVE  (\E t \in At("VPU") : pos[t] < pos[s] /\ x = idx[t] % VN)'
      <3>1. x \in vout /\ x \notin VFin(fin) BY <2>2, <2>6 DEF Pending
      <3>2. PICK t \in At("VPU") : x = idx[t] % VN BY <1>1, <3>1 DEF VpuFlight
      <3>3. pos[t] < next BY <1>1 DEF At, Numbered
      <3> QED BY <1>7, <1>8, <2>1, <3>1, <3>2, <3>3
    <2> QED BY <2>4, <2>5, <2>6
  <1>9. ASSUME NEW s \in Slot, Full(s)', ~ New(s, go)
        PROVE  /\ \A u \in InOrder : /\ wt'[s][u] <= Nth(u, pos'[s])
                                     /\ wt'[s][u] # 0 => wt'[s][u] >= 2 - WIN
               /\ \A u \in Streams : /\ wtd'[s][u] <= Nth(u, pos'[s])
                                     /\ wtd'[s][u] # 0 => wtd'[s][u] >= 2 - WIN
               /\ \A x \in vpend'[s] :
                    (\E t \in At("VPU") : pos[t] < pos[s] /\ x = idx[t] % VN)'
    <2>1. Full(s) /\ pos'[s] = pos[s] /\ wt'[s] = wt[s] /\ wtd'[s] = wtd[s] BY <1>2, <1>9 DEF Same
    <2>2. vpend'[s] = vpend[s] \ VFin(fin) BY <1>9 DEF CycleOf, Cycle, New
    <2>3. \A x \in vpend'[s] : (\E t \in At("VPU") : pos[t] < pos[s] /\ x = idx[t] % VN)'
      <3> TAKE x \in vpend'[s]
      <3>1. \E t \in At("VPU") : pos[t] < pos[s] /\ x = idx[t] % VN BY <2>1, <2>2 DEF Aims
      <3> QED BY <1>7, <1>9, <2>1, <2>2, <3>1
    <2> QED BY <2>1, <2>3 DEF Aims
  <1> QED BY <1>4, <1>8, <1>9 DEF Aims

LEMMA ReachedIs ==
  ASSUME NEW c \in Int, NEW t \in Int, t <= c, 2 * (c - t) < Wrap
  PROVE  Reached(c, t)
PROOF
  <1> DEFINE a == c - t
  <1>1. a \in Nat /\ 2 * a < Wrap /\ Wrap \in Nat \ {0} BY Basics
  <1> HIDE DEF a
  <1>2. a % Wrap = a BY <1>1
  <1> QED BY <1>1, <1>2 DEF Reached, a

(* The oldest instruction of the window waits for nothing.                 *)
LEMMA OldestIsMet ==
  ASSUME SeqInv, Aims, CountsNear, NEW s \in Slot, Full(s),
         \A t \in Slot : Full(t) => pos[s] <= pos[t]
  PROVE  /\ WaitsMet(s) /\ StreamMet(s)
         /\ UnitAt(s) \in InOrder => idx[s] = wc[UnitAt(s)]
PROOF
  <1>1. Typed /\ Numbered /\ Flight BY DEF SeqInv
  <1>2. \A t \in Slot : pos[t] \in Nat BY <1>1 DEF Typed
  <1>3. InOrder \subseteq Unit /\ Streams \subseteq InOrder BY DEF Unit, InOrder, Streams
  <1>4. ASSUME NEW u \in InOrder PROVE wc[u] \in Nat /\ Nth(u, pos[s]) \in Nat /\ Nth(u, pos[s]) <= wc[u]
    <2> DEFINE n == Nth(u, pos[s])
    <2>1. wc[u] \in Nat /\ wd[u] \in Nat /\ n \in Nat BY <1>1, <1>2, <1>3, BeforeIs DEF Typed
    <2>2. n <= wd[u]
      <3>1. wd[u] = Nth(u, next) /\ pos[s] < next /\ next \in Nat BY <1>1, <1>3 DEF Numbered, Typed
      <3>2. pos[s] <= next BY <1>2, <3>1
      <3> QED BY <1>2, <3>1, <3>2, BeforeIs
    <2>3. ASSUME wc[u] < n PROVE FALSE
      <3>1. wc[u] \in wc[u]..(wd[u] - 1) BY <2>1, <2>2, <2>3
      <3>2. PICK t \in At(u) : idx[t] = wc[u] BY <1>1, <3>1 DEF Flight
      <3>3. t \in Slot /\ Full(t) /\ idx[t] = Nth(u, pos[t]) BY <1>1 DEF At, Numbered
      <3>4. pos[s] <= pos[t] BY <3>3
      <3>5. n <= Nth(u, pos[t]) BY <1>2, <3>3, <3>4, BeforeIs
      <3> HIDE DEF n
      <3> QED BY <2>1, <2>3, <3>2, <3>3, <3>5
    <2> QED BY <2>1, <2>3
  <1>5. vpend[s] = {}
    <2>1. ASSUME NEW x \in vpend[s] PROVE FALSE
      <3>1. PICK t \in At("VPU") : pos[t] < pos[s] BY DEF Aims
      <3>2. t \in Slot /\ Full(t) BY DEF At
      <3> QED BY <1>2, <3>1, <3>2
    <2> QED BY <2>1
  <1>6. ASSUME NEW u \in InOrder, wt[s][u] # 0 PROVE Reached(wc[u], wt[s][u])
    <2>1. wt[s][u] \in Int /\ wt[s][u] <= Nth(u, pos[s]) BY <1>1 DEF Typed, Aims
    <2>2. 2 * (wc[u] - wt[s][u]) < Wrap BY <1>6 DEF CountsNear
    <2>3. wc[u] \in Int /\ wt[s][u] <= wc[u] BY <1>4, <2>1
    <2> QED BY <2>1, <2>2, <2>3, ReachedIs
  <1>7. ASSUME NEW u \in Streams, wtd[s][u] # 0 PROVE Reached(wc[u], wtd[s][u])
    <2>1. wtd[s][u] \in Int /\ wtd[s][u] <= Nth(u, pos[s]) BY <1>1 DEF Typed, Aims
    <2>2. 2 * (wc[u] - wtd[s][u]) < Wrap BY <1>7 DEF CountsNear
    <2>3. wc[u] \in Int /\ wtd[s][u] <= wc[u] BY <1>3, <1>4, <2>1
    <2> QED BY <2>1, <2>2, <2>3, ReachedIs
  <1>8. ASSUME UnitAt(s) \in InOrder PROVE idx[s] = wc[UnitAt(s)]
    <2>1. s \in At(UnitAt(s)) BY DEF At
    <2>2. idx[s] >= wc[UnitAt(s)] /\ idx[s] = Nth(UnitAt(s), pos[s]) BY <1>1, <1>8, <2>1 DEF Flight, Numbered
    <2> QED BY <1>4, <1>8, <2>2
  <1> QED BY <1>5, <1>6, <1>7, <1>8 DEF WaitsMet, StreamMet

LEMMA GoesOn == SeqInv /\ Aims /\ CountsNear => NeverStuck
PROOF
  <1> SUFFICES ASSUME SeqInv, Aims, CountsNear PROVE NeverStuck
    OBVIOUS
  <1>1. Typed /\ Numbered /\ Flight /\ VpuFlight /\ Lined BY DEF SeqInv
  <1> DEFINE F == {s \in Slot : Full(s)}
  <1>2. CASE F = {}
    <2>1. \A s \in Slot : ~ Full(s) BY <1>2
    <2>2. vout = {} BY <1>1, <2>1 DEF VpuFlight, At
    <2>3. FreeSlots # {}
      <3>1. 1 \in Slot BY Basics DEF Slot
      <3> QED BY <2>1, <3>1 DEF FreeSlots
    <2>4. ~ Hold BY <2>2 DEF Hold
    <2>5. next \in Nat /\ Len(run) \in Nat BY <1>1 DEF Typed
    <2>6. next <= Len(run) \/ next > Len(run) BY <2>5
    <2> QED BY <2>1, <2>3, <2>4, <2>6 DEF NeverStuck, Goes
  <1>3. CASE F # {}
    <2> DEFINE s == Oldest(F)
    <2>1. s \in F /\ \A t \in F : pos[s] <= pos[t]
      <3>1. F \in SUBSET Slot /\ \A t \in Slot : pos[t] \in Nat BY <1>1 DEF Typed
      <3> HIDE DEF F
      <3> QED BY <1>3, <3>1, OldestIs
    <2> HIDE DEF s
    <2>2. s \in Slot /\ Full(s) /\ \A t \in Slot : Full(t) => pos[s] <= pos[t] BY <2>1
    <2>3. WaitsMet(s) /\ StreamMet(s) /\ (UnitAt(s) \in InOrder => idx[s] = wc[UnitAt(s)])
      BY <2>2, OldestIsMet
    <2> DEFINE u == UnitAt(s)
    <2>4. u \in Unit /\ s \in At(u) BY <1>1, <2>2, FullIs
    <2>5. CASE queue[u] # <<>>
      <3>1. CASE Finishes(u) BY <2>4, <3>1 DEF NeverStuck
      <3>2. CASE ~ Finishes(u)
        <4>1. u = "MXU" BY <2>5, <3>2 DEF Finishes
        <4>2. queue[u] \in Seq(Slot) BY <1>1, <2>4 DEF Typed
        <4>3. 1 \in DOMAIN queue[u] BY <2>5, <4>2
        <4>4. u \in InOrder BY <4>1 DEF InOrder
        <4>5. queue[u][1] \in At(u) /\ idx[queue[u][1]] = wc[u] + 1 - 1 BY <1>1, <2>4, <4>3, <4>4 DEF Lined
        <4>6. wc[u] \in Nat BY <1>1, <4>4 DEF Typed
        <4>7. idx[queue[u][1]] = idx[s] BY <2>3, <4>4, <4>5, <4>6
        <4>8. queue[u][1] = s BY <1>1, <2>4, <4>5, <4>7, IdxOnce
        <4> QED BY <2>3, <4>1, <4>3, <4>8 DEF NeverStuck
      <3> QED BY <3>1, <3>2
    <2>6. CASE queue[u] = <<>>
      <3>1. ~ Started(s)
        <4>1. ASSUME NEW v \in Unit, NEW n \in DOMAIN queue[v], queue[v][n] = s PROVE FALSE
          <5>1. s \in At(v) BY <1>1, <4>1 DEF Lined
          <5>2. v = u BY <5>1 DEF At
          <5> QED BY <2>6, <4>1, <5>2
        <4> QED BY <4>1 DEF Started
      <3>2. s \in Waiting(u) BY <2>2, <3>1 DEF Waiting
      <3>3. CASE u = "VPU" BY <2>3, <3>2, <3>3 DEF NeverStuck
      <3>4. CASE u # "VPU"
        <4> DEFINE o == Oldest(Waiting(u))
        <4>1. Waiting(u) \in SUBSET Slot /\ \A t \in Slot : pos[t] \in Nat BY <1>1 DEF Waiting, Typed
        <4>2. o \in Waiting(u) /\ pos[o] <= pos[s] BY <3>2, <4>1, OldestIs
        <4>3. o \in Slot /\ Full(o) BY <4>2 DEF Waiting
        <4>4. pos[s] = pos[o] BY <2>2, <4>1, <4>2, <4>3
        <4>5. o = s BY <1>1, <2>2, <4>3, <4>4 DEF Numbered
        <4> QED BY <2>3, <2>4, <3>2, <3>4, <4>5 DEF NeverStuck
      <3> QED BY <3>3, <3>4
    <2> QED BY <2>5, <2>6
  <1> QED BY <1>2, <1>3

LEMMA AimsHold == Spec => [](SeqInv /\ Aims)
PROOF
  <1>1. Init => SeqInv /\ Aims
    <2> SUFFICES ASSUME Init PROVE Aims
      BY InitInv
    <2>1. \A s \in Slot : ~ Full(s) BY DEF Init, Full
    <2> QED BY <2>1 DEF Aims
  <1>2. SeqInv /\ Aims /\ [Next]_vars => (SeqInv /\ Aims)'
    <2> SUFFICES ASSUME SeqInv, Aims, [Next]_vars PROVE Aims'
      BY NextInv
    <2>1. CASE Next
      <3>1. PICK fin \in SUBSET {u \in Unit : Finishes(u)},
                 starts \in SUBSET {u \in Unit : Starts(u)},
                 go \in {g \in BOOLEAN : g => Goes} : Cycle(fin, starts, go)
        BY <2>1 DEF Next
      <3>2. CycleOf(fin, starts, go) BY <3>1 DEF CycleOf
      <3> QED BY <3>2, AimsNext
    <2>2. CASE UNCHANGED vars
      <3>1. run' = run /\ pos' = pos /\ idx' = idx /\ wt' = wt /\ wtd' = wtd /\ vpend' = vpend
        BY <2>2 DEF vars
      <3>2. \A s : Full(s)' = Full(s) BY <3>1 DEF Full
      <3>3. At("VPU")' = At("VPU") BY <3>1 DEF At, Full, UnitAt
      <3>4. \A u, p : Nth(u, p)' = Nth(u, p) BY <3>1 DEF Nth, Before
      <3> QED BY <3>1, <3>2, <3>3, <3>4 DEF Aims, VN
    <2> QED BY <2>1, <2>2
  <1> QED BY <1>1, <1>2, PTL DEF Spec

(* For every run, however long, an instruction can be dispatched or some   *)
(* unit has one to finish, release or start, wherever the counts have not  *)
(* run away from a waiting slot's targets, as otpu_seq.sv has it.          *)
THEOREM SequencerGoesOn == Spec => [](CountsNear => NeverStuck)
PROOF
  <1>1. SeqInv /\ Aims => (CountsNear => NeverStuck) BY GoesOn
  <1> QED BY <1>1, AimsHold, PTL

(* What was ready a cycle ago has what it waited for: counts only go on.   *)
Kept ==
  \A s \in allq : Full(s) =>
    /\ \A u \in InOrder : wt[s][u] # 0 => wt[s][u] <= wc[u]
    /\ vpend[s] = {}

LEMMA KeptNext ==
  ASSUME SeqInv, Aims, NEW fin, NEW starts, NEW go, CycleOf(fin, starts, go)
  PROVE  Kept'
PROOF
  <1>1. Typed /\ Numbered /\ Flight /\ Lined BY DEF SeqInv
  <1>2. \A s \in Slot : Full(s)' /\ ~ New(s, go) => Same(s) BY <1>1, Moves
  <1>3. \A s \in allq' : s \in Slot /\ WaitsMet(s) /\ ~ New(s, go)
    BY DEF CycleOf, Cycle, Latch, New
  <1>4. InOrder \subseteq Unit BY DEF Unit
  <1>5. ASSUME NEW s \in allq', Full(s)', NEW u \in InOrder, wt'[s][u] # 0
        PROVE  wt'[s][u] <= wc'[u]
    <2>1. s \in Slot /\ WaitsMet(s) /\ Full(s) /\ wt'[s] = wt[s] BY <1>2, <1>3, <1>5 DEF Same
    <2>2. wt[s][u] \in Int /\ wc[u] \in Nat /\ wd[u] \in Nat BY <1>1, <1>4, <2>1 DEF Typed
    <2>3. Reached(wc[u], wt[s][u]) BY <1>5, <2>1 DEF WaitsMet
    <2>4. wt[s][u] <= Nth(u, pos[s]) BY <2>1 DEF Aims
    <2>5. Nth(u, pos[s]) <= wd[u] /\ Nth(u, pos[s]) \in Nat
      <3>1. wd[u] = Nth(u, next) /\ pos[s] < next /\ next \in Nat /\ pos[s] \in Nat
        BY <1>1, <1>4, <2>1 DEF Numbered, Typed
      <3>2. pos[s] <= next BY <3>1
      <3> QED BY <3>1, <3>2, BeforeIs
    <2>6. wd[u] <= wc[u] + WIN BY <1>1, AtMost
    <2>7. wt[s][u] <= wc[u]
      <3>1. wt[s][u] <= wc[u] + WIN BY <2>2, <2>4, <2>5, <2>6, Basics
      <3> QED BY <2>2, <2>3, <3>1, NotReached
    <2>8. wc'[u] = IF u \in fin THEN wc[u] + 1 ELSE wc[u] BY DEF CycleOf, Cycle
    <2> QED BY <2>1, <2>2, <2>7, <2>8
  <1>6. ASSUME NEW s \in allq', Full(s)' PROVE vpend'[s] = {}
    <2>1. s \in Slot /\ WaitsMet(s) /\ ~ New(s, go) BY <1>3
    <2>2. vpend'[s] = vpend[s] \ VFin(fin) BY <2>1 DEF CycleOf, Cycle, New
    <2> QED BY <2>1, <2>2 DEF WaitsMet
  <1> QED BY <1>5, <1>6 DEF Kept

LEMMA KeptHolds == Spec => [](SeqInv /\ Aims /\ Kept)
PROOF
  <1>1. Init => Kept BY DEF Init, Kept
  <1>2. SeqInv /\ Aims /\ Kept /\ [Next]_vars => Kept'
    <2> SUFFICES ASSUME SeqInv, Aims, Kept, [Next]_vars PROVE Kept'
      OBVIOUS
    <2>1. CASE Next
      <3>1. PICK fin \in SUBSET {u \in Unit : Finishes(u)},
                 starts \in SUBSET {u \in Unit : Starts(u)},
                 go \in {g \in BOOLEAN : g => Goes} : Cycle(fin, starts, go)
        BY <2>1 DEF Next
      <3>2. CycleOf(fin, starts, go) BY <3>1 DEF CycleOf
      <3> QED BY <3>2, KeptNext
    <2>2. CASE UNCHANGED vars BY <2>2 DEF vars, Kept, Full
    <2> QED BY <2>1, <2>2
  <1> QED BY <1>1, <1>2, AimsHold, PTL DEF Spec

LEMMA RisesNext == SeqInv /\ Kept /\ CountsNear /\ [Next]_vars => Rises
PROOF
  <1> SUFFICES ASSUME SeqInv, Kept, CountsNear, [Next]_vars,
                      NEW s \in Slot, Full(s), s \in allq
               PROVE  s \in allq'
    BY DEF Rises
  <1>1. CASE Next
    <2>1. PICK fin \in SUBSET {u \in Unit : Finishes(u)},
               starts \in SUBSET {u \in Unit : Starts(u)},
               go \in {g \in BOOLEAN : g => Goes} : Cycle(fin, starts, go)
      BY <1>1 DEF Next
    <2>2. go => s # Takes
      <3>1. go => FreeSlots # {} BY <2>1 DEF Goes
      <3> QED BY <3>1, TakesIs
    <2>3. WaitsMet(s)
      <3>1. ASSUME NEW u \in InOrder, wt[s][u] # 0 PROVE Reached(wc[u], wt[s][u])
        <4>1. wt[s][u] \in Int /\ wc[u] \in Int BY DEF SeqInv, Typed
        <4>2. wt[s][u] <= wc[u] /\ 2 * (wc[u] - wt[s][u]) < Wrap BY <3>1 DEF Kept, CountsNear
        <4> QED BY <4>1, <4>2, ReachedIs
      <3>2. vpend[s] = {} BY DEF Kept
      <3> QED BY <3>1, <3>2 DEF WaitsMet
    <2>4. allq' = {x \in Slot : WaitsMet(x)} \ (IF go THEN {Takes} ELSE {}) BY <2>1 DEF Cycle, Latch
    <2> QED BY <2>2, <2>3, <2>4
  <1>2. CASE UNCHANGED vars BY <1>2 DEF vars
  <1> QED BY <1>1, <1>2

(* For every run, however long, a slot found ready in one cycle is ready   *)
(* in the next, in which it may start (w_all_q), wherever the counts have  *)
(* not run away from the targets.                                          *)
THEOREM SequencerReady == Spec => [][CountsNear => Rises]_vars
PROOF
  <1>1. SeqInv /\ Aims /\ Kept /\ [Next]_vars => [CountsNear => Rises]_vars BY RisesNext
  <1> QED BY <1>1, KeptHolds, PTL DEF Spec
=============================================================================
