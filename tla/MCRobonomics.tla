---------------------------- MODULE MCRobonomics ----------------------------
(* Instances of Robonomics.  Two task names are enough: a worker inside its *)
(* `finally' and its successor are the most that exist at one moment.       *)
EXTENDS Robonomics

CONSTANTS p1, p2, p3, t1, t2

TwoPayloads == {p1, p2}
ThreePayloads == {p1, p2, p3}
MCTask == {t1, t2}

\* Payloads are interchangeable, so one order of the calls stands for all.
\* (A symmetry set is unsound for the liveness properties.)
CallsInOrder == \E n \in 0 .. 3 : accepted = SubSeq(<<p1, p2, p3>>, 1, n)

\* A worker is interrupted among at most two requests.
Scope == CallsInOrder /\ (abandoned = {} \/ Len(accepted) <= 2)
=============================================================================
