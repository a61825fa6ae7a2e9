--------------------------- MODULE OutboxDelivery ---------------------------
(***************************************************************************)
(* What the outbox promises of each intent: once it is owed it stays owed  *)
(* until it is delivered, after at least one attempt, or abandoned, which  *)
(* takes MaxAttempts attempts; and that verdict is final.                  *)
(***************************************************************************)
EXTENDS Naturals

CONSTANTS Keys, MaxAttempts

VARIABLES intent, tries

Init == /\ intent = [k \in Keys |-> "none"]
        /\ tries = [k \in Keys |-> 0]

\* A transaction commits a set of new intents together.
Promise(S) == /\ \A k \in S : intent[k] = "none"
              /\ intent' = [k \in Keys |-> IF k \in S THEN "owed" ELSE intent[k]]
              /\ UNCHANGED tries

Attempt(k) == /\ intent[k] = "owed"
              /\ tries' = [tries EXCEPT ![k] = @ + 1]
              /\ UNCHANGED intent

Deliver(k) == /\ intent[k] = "owed"
              /\ tries[k] > 0
              /\ intent' = [intent EXCEPT ![k] = "delivered"]
              /\ UNCHANGED tries

Abandon(k) == /\ intent[k] = "owed"
              /\ tries[k] >= MaxAttempts
              /\ intent' = [intent EXCEPT ![k] = "abandoned"]
              /\ UNCHANGED tries

Next == \/ \E S \in SUBSET Keys : Promise(S)
        \/ \E k \in Keys : Attempt(k) \/ Deliver(k) \/ Abandon(k)

Spec == Init /\ [][Next]_<<intent, tries>>
=============================================================================
