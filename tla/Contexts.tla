------------------------------ MODULE Contexts ------------------------------
(***************************************************************************)
(* What the workers of opentpu/serve (scheduler.py, batching.py) share:    *)
(* the requests with what the model replies to each, and contexts, which   *)
(* are the tokens a device's caches were fed.                              *)
(***************************************************************************)
EXTENDS Lists

CONSTANTS
  Requests, Tokens,
  Prompt,     \* request -> its prompt's tokens
  Reply,      \* request -> the tokens the model says after it, a stop id perhaps last
  StopIds, MaxNew,
  Garbage,    \* what the model says after a context no request has
  None

ASSUME RequestsAssumption ==
  /\ None \notin Requests \cup Tokens /\ Garbage \in Tokens
  /\ None \notin {"stop", "length", "abort", "error"}
  /\ None \notin [key : Seq(Tokens), data : Seq(Tokens)]
  /\ Prompt \in [Requests -> Seq(Tokens) \ {<<>>}]
  /\ Reply \in [Requests -> Seq(Tokens) \ {<<>>}]
  /\ MaxNew \in [Requests -> Nat \ {0}]
  \* a reply goes as far as anything asks for it
  /\ \A r \in Requests : Last(Reply[r]) \in StopIds \/ Len(Reply[r]) >= MaxNew[r]

(* What the model says after the context c.                                *)
Says(c) ==
  LET whose == {r \in Requests : /\ Len(c) \in Len(Prompt[r])..(Len(Prompt[r]) + Len(Reply[r]) - 1)
                                 /\ IsPrefix(c, Prompt[r] \o Reply[r])}
  IN IF whose = {} THEN Garbage
     ELSE LET r == CHOOSE r \in whose : TRUE IN Reply[r][Len(c) - Len(Prompt[r]) + 1]

ASSUME ModelAssumption ==
  \A r \in Requests : \A k \in 0..(Len(Reply[r]) - 1) :
    Says(Prompt[r] \o Take(Reply[r], k)) = Reply[r][k + 1]

(* _emit of the token t for r, whose output is `words`: its output then,   *)
(* and how it ends, if it does.                                            *)
Words(words, t) == IF t \in StopIds THEN words ELSE Append(words, t)
Finish(words, t, r) ==
  IF t \in StopIds THEN "stop" ELSE IF Len(words) + 1 >= MaxNew[r] THEN "length" ELSE None
=============================================================================
