---------------------------- MODULE MCBlobStore ----------------------------
(* Instances of BlobStore for TLC: a page, a second page and an entry's    *)
(* record, of lengths 1, 2 and 1.                                          *)
EXTENDS BlobStore, TLC

CONSTANTS p1, p2, rec, c1, c2

MCBytes == [S \in SUBSET Keys |->
              Cardinality(S) + (IF p2 \in S THEN 1 ELSE 0)]
=============================================================================
