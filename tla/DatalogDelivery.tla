-------------------------- MODULE DatalogDelivery --------------------------
(***************************************************************************)
(* What Robonomics.send_datalog promises to the report service, without    *)
(* tasks, threads, endpoints or retries: payloads are taken up one at a    *)
(* time in the order of acceptance and each of them gets one final fate.   *)
(* Robonomics.tla is shown to implement this module.                       *)
(***************************************************************************)
EXTENDS Sequences

CONSTANT Payload       \* the IPFS hashes handed over, one per report

VARIABLES
  pending,             \* accepted payloads, oldest first
  inFlight,            \* the payload being worked on, a set of at most one
  fate                 \* what has become of each payload

vars == <<pending, inFlight, fate>>

\* A payload is on chain, given up after the last attempt, or left behind by
\* a worker that was interrupted while it held the payload.
Fate == {"recorded", "dropped", "abandoned"}

Init ==
  /\ pending = <<>>
  /\ inFlight = {}
  /\ fate = [p \in Payload |-> "unsent"]

Accept(p) ==
  /\ fate[p] = "unsent"
  /\ pending' = Append(pending, p)
  /\ fate' = [fate EXCEPT ![p] = "accepted"]
  /\ UNCHANGED inFlight

TakeUp ==
  /\ inFlight = {}
  /\ pending # <<>>
  /\ inFlight' = {Head(pending)}
  /\ pending' = Tail(pending)
  /\ UNCHANGED fate

Settle(p) ==
  /\ inFlight = {p}
  /\ inFlight' = {}
  /\ \E f \in Fate : fate' = [fate EXCEPT ![p] = f]
  /\ UNCHANGED pending

\* The process ends, and what was accepted is lost with it.
Crash ==
  /\ pending' = <<>> /\ inFlight' = {}
  /\ fate' = [p \in Payload |-> IF fate[p] = "accepted" THEN "lost" ELSE fate[p]]

Next == Crash \/ TakeUp \/ \E p \in Payload : Accept(p) \/ Settle(p)

Spec == Init /\ [][Next]_vars

\* Accepting is up to the callers; taking up and settling is the service's;
\* crashes are not forced.
Fairness == WF_vars(TakeUp) /\ \A p \in Payload : WF_vars(Settle(p))

FairSpec == Spec /\ Fairness
=============================================================================
