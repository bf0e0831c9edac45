---------------------------- MODULE MCSequencer ----------------------------
(* A few instructions of each unit, two visits of one pc among them; runs  *)
(* without a loop, and loops of two iterations.                            *)
EXTENDS Sequencer

CONSTANTS
  Straight, Body,   \* bounds: the lengths of a run without a loop, of a loop's body
  Far               \* loads past a VPU instruction that waits for its unit

I(unit, pc, all, rd, wr) == [unit |-> unit, pc |-> pc, all |-> all, rd |-> rd, wr |-> wr]

LD  == I("DMA", 1, FALSE, {"d"}, {"t"})
LD2 == I("DMA", 1, FALSE, {"d"}, {"u"})
MM  == I("MXU", 2, FALSE, {"d", "t"}, {"u"})
QST == I("QUANT", 3, FALSE, {"u"}, {"d"})
V1  == I("VPU", 4, FALSE, {"t"}, {"u"})
V2  == I("VPU", 4, FALSE, {"u"}, {"t"})
LDX == I("DMA", 6, FALSE, {"d"}, {"x"})
VX  == I("VPU", 7, FALSE, {}, {"y"})
VZ  == I("VPU", 8, FALSE, {}, {"z"})
BAR == I("COLL", 5, TRUE, {}, {})

Common == {LD, LD2, LDX, MM, QST, V1, V2, BAR}
MCIns  == Common \cup {VX, VZ}
MCDram == {"d"}

(* One that waits for an MM and a load, and loads it does not wait for.    *)
Ahead == <<MM, LD, V1, LDX, LDX, LDX>>
(* One that others of its unit pass, and one of them that conflicts.       *)
Passed == <<LD, V1, VX, VZ, V1>>

MCRuns == [1..Straight -> Common] \cup {b \o b : b \in [1..Body -> Common]} \cup {Ahead, Passed}

(* One load for a VPU instruction to wait for, then loads that pass it.    *)
FarLoads == [n \in 1..Far |-> I("DMA", 8 + n, FALSE, {"d"}, {"x"})]
FarIns   == {LD, V1} \cup {FarLoads[n] : n \in 1..Far}
FarRuns  == {<<LD, V1>> \o FarLoads}
=============================================================================
