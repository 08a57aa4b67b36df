---------------------------- MODULE ReportIntake ----------------------------
(***************************************************************************)
(* What ReportService.send_report promises to its callers, without         *)
(* directories, archives or threads: calls of one instance are served one  *)
(* at a time in the order they came; a report is handed to the datalog     *)
(* queue at most once and only when it is pinned; the caller is told "ok"  *)
(* exactly if it was handed over.  ReportService.tla implements this.      *)
(***************************************************************************)
EXTENDS Naturals, Sequences, SequencesExt

CONSTANTS
  Report,
  Instance      \* the ReportService objects, each with a send lock

VARIABLES
  line,         \* the calls of each instance, the one in service first
  handed,       \* what each instance has handed to its datalog queue
  pinned,       \* the reports whose archive is on Pinata
  outcome       \* what the caller of each report knows

vars == <<line, handed, pinned, outcome>>

Outcome == {"uncalled", "open", "ok", "failed", "lost"}

InService(i, r) == line[i] # <<>> /\ Head(line[i]) = r

HandedOver(i, r) == r \in ToSet(handed[i])

Init ==
  /\ line = [i \in Instance |-> <<>>]
  /\ handed = [i \in Instance |-> <<>>]
  /\ pinned = {}
  /\ outcome = [r \in Report |-> "uncalled"]

Call(i, r) ==
  /\ outcome[r] = "uncalled"
  /\ outcome' = [outcome EXCEPT ![r] = "open"]
  /\ line' = [line EXCEPT ![i] = Append(@, r)]
  /\ UNCHANGED <<handed, pinned>>

Upload(i, r) ==
  /\ InService(i, r)
  /\ pinned' = pinned \cup {r}
  /\ UNCHANGED <<line, handed, outcome>>

HandOver(i, r) ==
  /\ InService(i, r)
  /\ r \in pinned
  /\ ~HandedOver(i, r)
  /\ handed' = [handed EXCEPT ![i] = Append(@, r)]
  /\ UNCHANGED <<line, pinned, outcome>>

End(i, r) ==
  /\ InService(i, r)
  /\ line' = [line EXCEPT ![i] = Tail(@)]
  /\ outcome' = [outcome EXCEPT ![r] = IF HandedOver(i, r) THEN "ok" ELSE "failed"]
  /\ UNCHANGED <<handed, pinned>>

\* The process ends: nobody is served or answered any more.
Crash ==
  /\ line' = [i \in Instance |-> <<>>]
  /\ outcome' = [r \in Report |-> IF outcome[r] = "open" THEN "lost" ELSE outcome[r]]
  /\ UNCHANGED <<handed, pinned>>

Next ==
  \/ Crash
  \/ \E i \in Instance, r \in Report :
       Call(i, r) \/ Upload(i, r) \/ HandOver(i, r) \/ End(i, r)

Spec == Init /\ [][Next]_vars

\* Whoever is in service comes to an end; calls and crashes are not forced.
Fairness == \A i \in Instance, r \in Report : WF_vars(End(i, r))

FairSpec == Spec /\ Fairness
=============================================================================
