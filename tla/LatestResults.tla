----------------------------- MODULE LatestResults -----------------------------
(***************************************************************************)
(* What the UI may rely on when it asks an auxiliary worker for something  *)
(* (the contract src/worker.rs is written to): it is handed results of its *)
(* latest request only, each once and in the order they were computed, and *)
(* nothing after it gave the request up.                                   *)
(***************************************************************************)
EXTENDS Naturals, Sequences

CONSTANTS
  Results,          \* how many results a request produces
  MaxGeneration     \* bound on the requests made

VARIABLES
  wanted,           \* the request whose results are awaited, 0 when there is none
  received          \* what has been handed over since the last request

Result(g, k) == <<g, k>>

\* the results of a request, in the order they are computed
Answer(g) == [k \in 1..Results |-> Result(g, k)]

Init == wanted = 0 /\ received = <<>>

Ask(g) == wanted' = g /\ received' = <<>>

GiveUp == wanted' = 0 /\ received' \in {received, <<>>}

Deliver ==
  /\ wanted # 0
  /\ \E n \in Len(received) + 1 .. Results :
       received' = SubSeq(Answer(wanted), 1, n)
  /\ wanted' = wanted

Next == (\E g \in 1..MaxGeneration : g > wanted /\ Ask(g)) \/ GiveUp \/ Deliver

Spec == Init /\ [][Next]_<<wanted, received>>
===============================================================================
