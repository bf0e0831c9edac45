--------------------------- MODULE MCBatchWorker ---------------------------
(* Requests for TLC: r1 and r2 begin alike and part at their last prompt   *)
(* token, r3 continues part of r1's conversation; x ends a reply.          *)
EXTENDS BatchWorker, TLC

CONSTANTS r1, r2, r3, a, b, c, d, x

Prompts == r1 :> <<a, b>> @@ r2 :> <<a, c, d>> @@ r3 :> <<a, b, c, d>>
Replies == r1 :> <<c, b, x>> @@ r2 :> <<d, x>> @@ r3 :> <<b, x>>

MCPrompt == [r \in Requests |-> Prompts[r]]
MCReply  == [r \in Requests |-> Replies[r]]
MCMaxNew == [r \in Requests |-> 2]
=============================================================================
