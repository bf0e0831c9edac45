------------------------------ MODULE Serving ------------------------------
(***************************************************************************)
(* What the server promises its clients, whatever device, store and turns  *)
(* are behind it: a request's output is the model's reply to its prompt,   *)
(* token by token, until a stop id, its length, or an end asked for or     *)
(* forced on it; then nothing more.  A request whose context the server    *)
(* loses may begin its reply again, but never has another's tokens.        *)
(***************************************************************************)
EXTENDS Integers, Sequences

CONSTANTS Requests, Reply, StopIds, MaxNew, None

VARIABLES out, finish,
  lost      \* the requests whose context the server lost

(* What may come next in r's output.                                       *)
NextTokens(r) ==
  IF r \in lost THEN {Reply[r][i] : i \in DOMAIN Reply[r]} ELSE {Reply[r][Len(out[r]) + 1]}

(* The reply goes on with a token, which may end it.                       *)
Say(r, t) ==
  LET long == Len(out[r]) + 1 >= MaxNew[r]
  IN /\ finish[r] = None
     /\ IF t \in StopIds
        THEN /\ finish' = [finish EXCEPT ![r] = "stop"]
             /\ UNCHANGED out
        ELSE /\ out' = [out EXCEPT ![r] = Append(@, t)]
             /\ finish' = IF long THEN [finish EXCEPT ![r] = "length"] ELSE finish

(* Requests cancelled, or in flight when the server stops or fails.        *)
End(S, why) ==
  /\ S # {} /\ \A r \in S : finish[r] = None
  /\ finish' = [r \in Requests |-> IF r \in S THEN why ELSE finish[r]]
  /\ UNCHANGED out

Init == out = [r \in Requests |-> <<>>] /\ finish = [r \in Requests |-> None] /\ lost = {}

Next ==
  /\ \/ \E r \in Requests : \E t \in NextTokens(r) : Say(r, t)
     \/ \E S \in SUBSET Requests, why \in {"abort", "error"} : End(S, why)
     \/ UNCHANGED <<out, finish>>
  /\ lost \subseteq lost'

Spec == Init /\ [][Next]_<<out, finish, lost>>
=============================================================================
