------------------------------ MODULE Delivery ------------------------------
(***************************************************************************)
(* What the lotto worker's outbox promises of a message, whoever carries   *)
(* it: it goes out at most once, it is concluded at most once, and a       *)
(* message recorded as sent did go out.  The other conclusions (ambiguous, *)
(* kept for a person to look at; dead, given up) promise less: a carrier   *)
(* that was given up may still be at it.                                   *)
(***************************************************************************)
EXTENDS Naturals

CONSTANT Deliveries

VARIABLES
  outcome, \* none (not queued), queued, or the conclusion of a message
  copies   \* how many times it went out

vars == <<outcome, copies>>

Conclusions == {"sent", "ambiguous", "dead"}

Init ==
  /\ outcome = [d \in Deliveries |-> "none"]
  /\ copies = [d \in Deliveries |-> 0]

Enqueue(d) ==
  /\ outcome[d] = "none"
  /\ outcome'[d] = "queued" /\ copies'[d] = copies[d]

Send(d) ==
  /\ outcome[d] \in {"queued", "ambiguous", "dead"} /\ copies[d] = 0
  /\ copies'[d] = 1 /\ outcome'[d] = outcome[d]

Conclude(d) ==
  /\ outcome[d] = "queued"
  /\ outcome'[d] \in Conclusions
  /\ outcome'[d] = "sent" => copies[d] = 1
  /\ copies'[d] = copies[d]

Rest(d) == outcome'[d] = outcome[d] /\ copies'[d] = copies[d]

\* Messages are independent: several may be concluded by one step.
Next ==
  /\ DOMAIN outcome' = Deliveries /\ DOMAIN copies' = Deliveries
  /\ \A d \in Deliveries : Enqueue(d) \/ Send(d) \/ Conclude(d) \/ Rest(d)

Spec == Init /\ [][Next]_vars

=============================================================================
