----------------------------- MODULE Sequencer -----------------------------
(***************************************************************************)
(* The wait entries of opentpu/waits.py and the sequencer that obeys them, *)
(* rtl/seq/otpu_seq.sv built with WAITC.  The compiler gives each          *)
(* instruction, once per pc, how far back in each unit's instructions is   *)
(* one it must wait for; the sequencer dispatches a run's instructions in  *)
(* order into a window of WIN slots and starts them, out of order between  *)
(* units, when their waits are met.  It compares no addresses.             *)
(*                                                                         *)
(* One step is one clock cycle: every part of it reads the registers as    *)
(* they were.  When the units are ready and when they finish, and when the *)
(* fetch stages bring the next instruction, is left open.  The run is its  *)
(* instructions in program order, with loops unrolled and addresses        *)
(* resolved; the compiler's pass covers exactly its visits.                *)
(***************************************************************************)
EXTENDS Integers, Sequences, FiniteSets

CONSTANTS
  Ins,     \* [unit, pc, all, rd, wr]: rd, wr the places read and written
  Dram,    \* the places that are in DRAM
  Runs,    \* sequences of instructions
  WIN,     \* the window's slots
  VMW,     \* the bits of the VPU mask
  Wrap     \* 2^CW: the counters' values

InOrder == {"DMA", "MXU", "QUANT", "COLL"}
Unit    == InOrder \cup {"VPU"}
Streams == {"DMA", "QUANT"}   \* the units an MM's stream start waits for (counts 5, 6)

ASSUME SequencerAssumption ==
  /\ WIN \in Nat \ {0} /\ VMW \in Nat \ {0}
  /\ Wrap \in Nat /\ 2 * WIN <= Wrap
  /\ Runs \subseteq Seq(Ins)
  /\ \A i \in Ins : i.unit \in Unit
  \* LD, ST, DSTEP, STREAM, WAITW; QST
  /\ \A i \in Ins : i.wr \cap Dram # {} => i.unit \in Streams

VARIABLES
  run,
  next,      \* the instruction at C
  pos,       \* slot -> the instruction in it; 0: free
  idx,       \* slot -> its index among its unit's
  wt,        \* slot -> unit -> the count it waits for, or 0
  wtd,       \* the same, for an MM's stream start
  vpend,     \* slot -> the VPU indices (mod VN) it waits for
  allq,      \* the slots all of whose waits were met, last cycle
  dramq,     \* those whose stream waits were
  queue,     \* unit -> the slots it started, oldest first (uq)
  released,  \* how many of the MXU's are released
  wd, wc,    \* unit -> its instructions dispatched, completed
  vout       \* the VPU's outstanding, by index mod VN

vars == <<run, next, pos, idx, wt, wtd, vpend, allq, dramq, queue, released, wd, wc, vout>>

Slot == 1..WIN
VN   == VMW + 1
----------------------------------------------------------------------------
(* The compiler.                                                           *)

Overlap(n, e, S) ==
  \/ n.wr \cap (e.rd \cup e.wr) \cap S # {}
  \/ e.wr \cap n.rd \cap S # {}
Conflict(n, e)     == n.all \/ e.all \/ Overlap(n, e, n.rd \cup n.wr)
DramConflict(n, e) == n.all \/ e.all \/ Overlap(n, e, Dram)

(* The instructions of unit u before the p-th, and how many units back of  *)
(* its unit q is from p.                                                   *)
Before(u, p) == {q \in 1..(p - 1) : run[q].unit = u}
Back(p, q)   == Cardinality({r \in q..(p - 1) : run[r].unit = run[q].unit})

Visits(pc) == {p \in DOMAIN run : run[p].pc = pc}

KMAX == WIN - 1

(* Mutant: an entry for the pc's first visit alone.                        *)
RanksOfFirst(pc, u) ==
  {k \in 1..KMAX : \E p \in Visits(pc) : \E q \in Before(u, p) :
     /\ \A o \in Visits(pc) : p <= o
     /\ Back(p, q) = k /\ Conflict(run[p], run[q])}

(* How far back, within a count's range, is what some visit of the pc      *)
(* conflicts with.                                                         *)
Ranks(pc, u) ==
  {k \in 1..KMAX : \E p \in Visits(pc) : \E q \in Before(u, p) :
     Back(p, q) = k /\ Conflict(run[p], run[q])}
DramRanks(pc, u) ==
  {k \in 1..KMAX : \E p \in Visits(pc) : \E q \in Before(u, p) :
     Back(p, q) = k /\ DramConflict(run[p], run[q])}

Least(S)     == IF S = {} THEN 0 ELSE CHOOSE k \in S : \A l \in S : k <= l
Count(i, u)  == IF u = i.unit THEN 0 ELSE Least(Ranks(i.pc, u))
Stream(i, u) == IF i.unit # "MXU" THEN 0 ELSE Least(DramRanks(i.pc, u))
Mask(i) ==
  {r \in 1..VMW : \E p \in Visits(i.pc) : \E q \in Before("VPU", p) :
     Back(p, q) = r /\ Conflict(run[p], run[q])}
----------------------------------------------------------------------------
(* The window.                                                             *)
Full(s)    == pos[s] # 0
UnitAt(s)  == run[pos[s]].unit
Started(s) == \E u \in Unit : \E n \in DOMAIN queue[u] : queue[u][n] = s

(* The counters wrap: the sign of their difference.                        *)
Reached(c, t) == 2 * ((c - t) % Wrap) < Wrap

WaitsMet(s) ==
  /\ \A u \in InOrder : wt[s][u] # 0 => Reached(wc[u], wt[s][u])
  /\ vpend[s] = {}
StreamMet(s) == \A u \in Streams : wtd[s][u] # 0 => Reached(wc[u], wtd[s][u])

Oldest(S) == CHOOSE s \in S : \A t \in S : pos[s] <= pos[t]

(* A unit's next to start: its oldest, the VPU its oldest ready.           *)
Waiting(u)  == {s \in Slot : Full(s) /\ UnitAt(s) = u /\ ~ Started(s)}
Eligible(u) == IF u = "VPU" THEN Waiting(u) \cap allq ELSE Waiting(u)
Starts(u) ==
  /\ Eligible(u) # {}
  /\ Oldest(Eligible(u)) \in IF u = "MXU" THEN dramq ELSE allq

Releases == /\ released < Len(queue["MXU"])
            /\ queue["MXU"][released + 1] \in allq

Finishes(u) == queue[u] # <<>> /\ (u = "MXU" => released > 0)

(* Mutant: a VPU instruction is dispatched whatever is outstanding.        *)
HoldNever == FALSE

(* wc_hold: a VPU instruction waits for the one VMW back.                  *)
Hold == run[next].unit = "VPU" /\ (wd["VPU"] + 1) % VN \in vout

FreeSlots == {s \in Slot : ~ Full(s)}
Goes      == next <= Len(run) /\ FreeSlots # {} /\ ~ Hold
Takes     == CHOOSE s \in FreeSlots : \A t \in FreeSlots : s <= t

(* The VPU indices a new instruction waits for.                            *)
Named(i) == {(wd["VPU"] - r) % VN : r \in {x \in Mask(i) : x <= wd["VPU"]}}

(* Mutant: the one completing this cycle stays in the new one's mask.      *)
PendingAll(i, vfin) == Named(i) \cap vout
Pending(i, vfin)    == (Named(i) \cap vout) \ vfin

(* Mutant: the flags of the slot taken are kept.                           *)
LatchAll(met, taken) == met
Latch(met, taken)    == met \ taken

Target(u, k) == IF k = 0 THEN 0 ELSE wd[u] - k + 1

(* The slots whose instructions complete, and the VPU's index of its one.  *)
Done(fin) == {queue[u][1] : u \in fin}
VFin(fin) == IF "VPU" \in fin THEN {idx[queue["VPU"][1]] % VN} ELSE {}

Cycle(fin, starts, go) ==
  LET taken == IF go THEN {Takes} ELSE {}
      i     == run[next]
  IN /\ pos' = [s \in Slot |-> IF s \in taken THEN next ELSE IF s \in Done(fin) THEN 0 ELSE pos[s]]
     /\ next' = IF go THEN next + 1 ELSE next
     /\ idx' = [s \in Slot |-> IF s \in taken THEN wd[i.unit] ELSE idx[s]]
     /\ wt' = [s \in Slot |-> IF s \in taken THEN [u \in InOrder |-> Target(u, Count(i, u))]
                              ELSE wt[s]]
     /\ wtd' = [s \in Slot |-> IF s \in taken THEN [u \in Streams |-> Target(u, Stream(i, u))]
                               ELSE wtd[s]]
     /\ vpend' = [s \in Slot |-> IF s \in taken THEN Pending(i, VFin(fin)) ELSE vpend[s] \ VFin(fin)]
     /\ allq' = Latch({s \in Slot : WaitsMet(s)}, taken)
     /\ dramq' = Latch({s \in Slot : StreamMet(s)}, taken)
     /\ queue' = [u \in Unit |-> (IF u \in fin THEN Tail(queue[u]) ELSE queue[u])
                                 \o (IF u \in starts THEN <<Oldest(Eligible(u))>> ELSE <<>>)]
     /\ released' = released + (IF Releases THEN 1 ELSE 0) - (IF "MXU" \in fin THEN 1 ELSE 0)
     /\ wd' = [u \in Unit |-> IF go /\ u = i.unit THEN wd[u] + 1 ELSE wd[u]]
     /\ wc' = [u \in InOrder |-> IF u \in fin THEN wc[u] + 1 ELSE wc[u]]
     /\ vout' = (vout \ VFin(fin)) \cup (IF go /\ i.unit = "VPU" THEN {wd["VPU"] % VN} ELSE {})
     /\ UNCHANGED run

Init ==
  /\ run \in Runs
  /\ next = 1
  /\ pos = [s \in Slot |-> 0] /\ idx = [s \in Slot |-> 0]
  /\ wt = [s \in Slot |-> [u \in InOrder |-> 0]]
  /\ wtd = [s \in Slot |-> [u \in Streams |-> 0]]
  /\ vpend = [s \in Slot |-> {}]
  /\ allq = {} /\ dramq = {}
  /\ queue = [u \in Unit |-> <<>>] /\ released = 0
  /\ wd = [u \in Unit |-> 0] /\ wc = [u \in InOrder |-> 0] /\ vout = {}

Next ==
  \E fin \in SUBSET {u \in Unit : Finishes(u)},
     starts \in SUBSET {u \in Unit : Starts(u)},   \* of those, the ready units (urdy)
     go \in {g \in BOOLEAN : g => Goes} :
    Cycle(fin, starts, go)

Spec == Init /\ [][Next]_vars
----------------------------------------------------------------------------
(* The memory accesses fall as in program order: an instruction a unit has *)
(* started has no older one still running that it conflicts with, but of   *)
(* its own unit when that works in order.  An MM that is not released has  *)
(* only read DRAM.                                                         *)
Clear(s) ==
  \A t \in Slot : /\ Full(t) /\ pos[t] < pos[s]
                  /\ UnitAt(t) = UnitAt(s) => UnitAt(s) = "VPU"
                  => ~ Conflict(run[pos[s]], run[pos[t]])
ClearStream(s) ==
  \A t \in Slot : Full(t) /\ pos[t] < pos[s] => ~ Overlap(run[pos[s]], run[pos[t]], Dram)

AsInOrder ==
  \A u \in Unit : \A n \in DOMAIN queue[u] :
    IF u = "MXU" /\ n > released THEN ClearStream(queue[u][n]) ELSE Clear(queue[u][n])

(* Never stuck before the run's end: an instruction can be dispatched, or  *)
(* some unit has one to finish, release or start.                          *)
NeverStuck ==
  \/ next > Len(run) /\ \A s \in Slot : ~ Full(s)
  \/ Goes
  \/ \E u \in Unit : Finishes(u)
  \/ \E n \in DOMAIN queue["MXU"] : WaitsMet(queue["MXU"][n])
  \/ \E u \in Unit \ {"VPU"} :
       /\ Waiting(u) # {}
       /\ IF u = "MXU" THEN StreamMet(Oldest(Waiting(u))) ELSE WaitsMet(Oldest(Waiting(u)))
  \/ \E s \in Waiting("VPU") : WaitsMet(s)

(* A slot's readiness only rises while it holds its instruction: last      *)
(* cycle's, which the starts and the releases go by, is never wrong.       *)
Rises ==
  \A s \in Slot : Full(s) /\ pos'[s] = pos[s] /\ s \in allq => s \in allq'
ReadinessRises == [][Rises]_vars
=============================================================================
