--------------------------- MODULE MCPrefixCache ---------------------------
(* Three contexts for TLC: e2 continues e1 (page a is shared), e3 is       *)
(* another.  Blobs differ in length, so that one put may evict several.    *)
EXTENDS PrefixCache, TLC

CONSTANTS e1, e2, e3, a, b, c, t1, t2, r1, r2, r3

Contexts == e1 :> <<a, t1>> @@ e2 :> <<a, b>> @@ e3 :> <<c, t2>>
Records  == e1 :> r1 @@ e2 :> r2 @@ e3 :> r3

MCBlobsOf  == [e \in EntryKeys |-> Contexts[e]]
MCRecordOf == [e \in EntryKeys |-> Records[e]]
MCSaves    == [d \in BOOLEAN |-> IF d THEN {e1, e2} ELSE EntryKeys]
MCCovered  == {<<e1, e2>>}
MCLength   == [x \in Blobs |-> IF x = b THEN 3 ELSE IF x \in {r1, r2, r3} THEN 0 ELSE 1]
=============================================================================
