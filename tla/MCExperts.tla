----------------------------- MODULE MCExperts -----------------------------
(* Experts and slots are alike for TLC, and a behaviour is followed until  *)
(* the card takes a slot from an old answer.                               *)
EXTENDS Experts, TLC

Alike == Permutations(Expert) \cup Permutations(Slot)

Followed == ~ misled
=============================================================================
