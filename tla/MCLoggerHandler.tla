--------------------------- MODULE MCLoggerHandler ---------------------------
(* Instances of LoggerHandler: two events alike, one of another level with   *)
(* the same message, and one of the integration itself.                      *)
EXTENDS LoggerHandler

CONSTANTS e1, e2, e3, e4, f1, f2

FourEvents == {e1, e2, e3, e4}
MCLevelOf == [e \in Event |-> IF e = e3 THEN "WARNING" ELSE "ERROR"]
MCMessageOf == [e \in Event |-> "m"]
MCOwn == {e4}
MCFlush == {f1, f2}

Began(t) == pc[t] # "new"

\* Of equal tasks one order stands for all; the integration's own event, which
\* only takes part in the first lock, meets a clock that stands at 0.
Scope ==
  /\ Began(e2) => Began(e1)
  /\ Began(f2) => Began(f1)
  /\ Began(e4) => now = 0
=============================================================================
