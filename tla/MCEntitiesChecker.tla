-------------------------- MODULE MCEntitiesChecker --------------------------
(* A small home: ea and eb belong to a device, ec to another, ed and ee to   *)
(* none; ee has no entry in the registry.                                    *)
EXTENDS EntitiesChecker

CONSTANTS ea, eb, ec, ed, ee, c1, c2, c3

FiveEntities == {ea, eb, ec, ed, ee}
MCRegistered == Entity \ {ee}
MCDeviceOf == [x \in {ea, eb, ec} |-> IF x = ec THEN "lamp" ELSE "plug"]
ThreeChecks == {c1, c2, c3}

Began(c) == pc[c] # "idle"

\* Checks are interchangeable: one order of theirs stands for all.
ChecksInOrder == (Began(c2) => Began(c1)) /\ (Began(c3) => Began(c2))

\* A single check meets any state of the home.
AnyHome == now = 0 /\ ~Began(c2)

\* Several checks meet an entity of each sort that changes twice.
TwoChange ==
  /\ changes <= 2
  /\ \A e \in {eb, ec, ed} : status[e] = "fine" /\ e \notin disabled

Scope == ChecksInOrder /\ (AnyHome \/ TwoChange)
=============================================================================
