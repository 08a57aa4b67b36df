---------------------------- MODULE ReportWindows ----------------------------
(***************************************************************************)
(* What the accumulated reports of LoggerHandler promise, without tasks,   *)
(* locks or storage: occurrences are counted by level, and from time to    *)
(* time all counts since the last report are published and start again     *)
(* from zero, in one step.  LoggerHandler.tla is shown to implement this.  *)
(***************************************************************************)
EXTENDS Naturals, Sequences

CONSTANT Level

VARIABLES
  counted,       \* occurrences of each level since the last report
  published      \* the counts of the reports, oldest first

vars == <<counted, published>>

Zero == [l \in Level |-> 0]

Init == counted = Zero /\ published = <<>>

Count(l) ==
  /\ counted' = [counted EXCEPT ![l] = @ + 1]
  /\ UNCHANGED published

Publish ==
  /\ counted # Zero
  /\ published' = Append(published, counted)
  /\ counted' = Zero

Next == Publish \/ \E l \in Level : Count(l)

Spec == Init /\ [][Next]_vars
=============================================================================
