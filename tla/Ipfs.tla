-------------------------------- MODULE Ipfs --------------------------------
(***************************************************************************)
(* Class IPFS (ipfs.py) towards Pinata: unpinning what a payload names,    *)
(* in each of the forms a payload may have, and pinning the files of a     *)
(* directory.  (Pinning one file is Pin and PinFails of ReportService.)    *)
(*                                                                         *)
(* A call loads the credentials (await), then runs in a thread that talks  *)
(* to Pinata, one hash or file a step.  Pinata is external: a call of it   *)
(* raises, with or without effect, or returns a dictionary, which holds a  *)
(* status and a text when Pinata refuses.                                  *)
(***************************************************************************)
EXTENDS Naturals, FiniteSets, FiniteSetsExt

CONSTANTS
  Hash,
  File,            \* the keys of hash dictionaries are file names
  HashOf,          \* the hash of each file
  MaxNamed,        \* how many failed hashes a result names (10)
  MaxCalls         \* bound on the calls

ASSUME FileAssumption == IsFiniteSet(File)
ASSUME HashOfAssumption == HashOf \in [File -> Hash]
ASSUME MaxNamedAssumption == MaxNamed \in Nat /\ MaxCalls \in Nat

VARIABLES
  creds,           \* whether the store has the Pinata keys
  pinned,
  calls,
  pc,              \* of the call under way
  job,             \* its argument
  todo,            \* the dictionary it still has to go over
  done,            \* file names it has dealt with, by outcome
  result,          \* what the last call returned or raised
  refused          \* history: hashes this call was refused to unpin

vars == <<creds, pinned, calls, pc, job, todo, done, result, refused>>

Value == Hash \cup {"blank", "number"}
Dict == UNION {[names -> Value] : names \in SUBSET File}

\* The arguments of unpin_files_from_pinata: a dictionary, the JSON text of
\* one, text that starts like one and is none, blank text, or a hash.
Payload ==
  [form : {"dict", "json"}, dict : Dict]
    \cup [form : {"broken", "blank"}] \cup [form : {"hash"}, hash : Hash]

Empty == [f \in {} |-> f]
Outcomes == [well |-> {}, failed |-> {}]

BlanksCounted(d) == {f \in DOMAIN d : d[f] # "number"}   \* faulty: no strip()

\* _normalize_hash_dict: what is no string, or blank, is left out.
Usable(d) == {f \in DOMAIN d : d[f] \in Hash}

\* _normalize_unpin_payload
Normalized(p) ==
  CASE p.form \in {"dict", "json"} -> [f \in Usable(p.dict) |-> p.dict[f]]
    [] p.form = "hash" -> [f \in {"archive"} |-> p.hash]
    [] p.form \in {"broken", "blank"} -> Empty

UnpinResult(attempted, succeeded, failed, named) ==
  [kind |-> "unpin", attempted |-> attempted, succeeded |-> succeeded,
   failed |-> failed, named |-> named]

Nothing == UnpinResult(0, 0, 0, {})

-----------------------------------------------------------------------------
Init ==
  /\ creds = TRUE
  /\ pinned \in SUBSET Hash
  /\ calls = 0
  /\ pc = "idle"
  /\ job = [form |-> "none"]
  /\ todo = Empty /\ done = Outcomes
  /\ result = [kind |-> "none"]
  /\ refused = {}

Call(arg) ==
  /\ pc = "idle" /\ calls < MaxCalls
  /\ pc' = "creds"
  /\ job' = arg
  /\ calls' = calls + 1
  /\ todo' = Empty /\ done' = Outcomes /\ refused' = {}
  /\ result' = [kind |-> "none"]
  /\ UNCHANGED <<creds, pinned>>

Unpin == \E p \in Payload : Call(p)
PinDir == \E files \in SUBSET File : Call([form |-> "dir", files |-> files])

End(res) == pc' = "idle" /\ result' = res

\* The entry is removed, and the store with it.
LoseCreds ==
  /\ creds
  /\ creds' = FALSE
  /\ UNCHANGED <<pinned, calls, pc, job, todo, done, result, refused>>

\* IPFSError of _get_pinata_with_creds: no keys, or StorageError
CredsMissing ==
  /\ pc = "creds"
  /\ End(IF job.form = "dir" THEN [kind |-> "error"] ELSE Nothing)
  /\ UNCHANGED <<creds, pinned, calls, job, todo, done, refused>>

BeginUnpin ==
  /\ pc = "creds" /\ creds /\ job.form # "dir"
  /\ todo' = Normalized(job)
  /\ IF todo' = Empty THEN End(Nothing) ELSE pc' = "unpinning" /\ UNCHANGED result
  /\ UNCHANGED <<creds, pinned, calls, job, done, refused>>

BeginPinDir ==
  /\ pc = "creds" /\ creds /\ job.form = "dir"
  /\ todo' = [f \in job.files |-> HashOf[f]]
  /\ pc' = "pinning"
  /\ UNCHANGED <<creds, pinned, calls, job, done, result, refused>>

Without(d, f) == [g \in DOMAIN d \ {f} |-> d[g]]

FailedDropped(f) == done                      \* faulty: a failure is not counted

Failed(f) == [done EXCEPT !.failed = @ \cup {f}]

\* _unpin_files_from_pinata: one turn of its loop
RemovePin ==
  /\ pc = "unpinning"
  /\ \E f \in DOMAIN todo :
       LET h == todo[f]
       IN /\ todo' = Without(todo, f)
          /\ \/ \* removed
                /\ pinned' = pinned \ {h}
                /\ done' = [done EXCEPT !.well = @ \cup {f}]
                /\ UNCHANGED refused
             \/ \* an error dictionary, which nobody looks at
                /\ refused' = refused \cup {h}
                /\ done' = [done EXCEPT !.well = @ \cup {f}]
                /\ UNCHANGED pinned
             \/ \* an exception, with or without effect
                /\ pinned' \in {pinned, pinned \ {h}}
                /\ done' = Failed(f)
                /\ UNCHANGED refused
  /\ UNCHANGED <<creds, calls, pc, job, result>>

\* failed[:10]
SomeNamed(names) ==
  CHOOSE s \in kSubset(IF Cardinality(names) < MaxNamed THEN Cardinality(names)
                       ELSE MaxNamed, names) : TRUE

UnpinDone ==
  /\ pc = "unpinning" /\ DOMAIN todo = {}
  /\ LET failed == done.failed
     IN End(UnpinResult(Cardinality(done.well \cup failed), Cardinality(done.well),
                        Cardinality(failed), SomeNamed(failed)))
  /\ UNCHANGED <<creds, pinned, calls, job, todo, done, refused>>

\* _pin_files_from_dir_to_pinata: the file is pinned,
PinFile ==
  /\ pc = "pinning"
  /\ \E f \in DOMAIN todo :
       /\ todo' = Without(todo, f)
       /\ pinned' = pinned \cup {todo[f]}
       /\ done' = [done EXCEPT !.well = @ \cup {f}]
  /\ UNCHANGED <<creds, calls, pc, job, result, refused>>

\* IPFSError or PinataKeysRevokedError leaves the loop, after an exception (the
\* pin may be there), an answer of another type, or a refusal; what was pinned
\* before stays, and nobody is told its hashes.
PinFileFails ==
  /\ pc = "pinning"
  /\ \E f \in DOMAIN todo :
       /\ todo' = Without(todo, f)
       /\ pinned' \in {pinned, pinned \cup {todo[f]}}
       /\ End([kind |-> "error"])
  /\ UNCHANGED <<creds, calls, job, done, refused>>

\* The directory cannot be listed, or has no files.
NoFiles ==
  /\ pc = "pinning" /\ done = Outcomes /\ (DOMAIN todo = {} \/ DOMAIN todo = job.files)
  /\ End([kind |-> "error"])
  /\ UNCHANGED <<creds, pinned, calls, job, todo, done, refused>>

PinDirDone ==
  /\ pc = "pinning" /\ DOMAIN todo = {} /\ done.well # {}
  /\ End([kind |-> "pins", hashes |-> [f \in done.well |-> HashOf[f]]])
  /\ UNCHANGED <<creds, pinned, calls, job, todo, done, refused>>

Quiescent == pc = "idle" /\ calls = MaxCalls /\ UNCHANGED vars

Next ==
  \/ Unpin \/ PinDir \/ LoseCreds \/ CredsMissing
  \/ BeginUnpin \/ RemovePin \/ UnpinDone
  \/ BeginPinDir \/ PinFile \/ PinFileFails \/ NoFiles \/ PinDirDone
  \/ Quiescent

Spec == Init /\ [][Next]_vars
-----------------------------------------------------------------------------
(* Properties. *)

TypeOK ==
  /\ creds \in BOOLEAN /\ pinned \subseteq Hash /\ refused \subseteq Hash
  /\ calls \in 0 .. MaxCalls
  /\ pc \in {"idle", "creds", "unpinning", "pinning"}
  /\ DOMAIN todo \subseteq File \cup {"archive"}
  /\ \A f \in DOMAIN todo : todo[f] \in Hash
  /\ done.well \cup done.failed \subseteq File \cup {"archive"}
  /\ result.kind \in {"none", "unpin", "pins", "error"}

\* The hashes an unpin call is asked for, by name.
Asked ==
  CASE job.form \in {"dict", "json"} ->
         [f \in {g \in DOMAIN job.dict : job.dict[g] \in Hash} |-> job.dict[f]]
    [] job.form = "hash" -> [f \in {"archive"} |-> job.hash]
    [] OTHER -> Empty

\* Whatever form the payload has, the figures count its hashes and nothing
\* else: all of them or, without credentials, none.
UnpinAddsUp ==
  result.kind = "unpin" =>
    /\ result.attempted \in {0, Cardinality(DOMAIN Asked)}
    /\ result.attempted = result.succeeded + result.failed
    /\ result.named \subseteq DOMAIN Asked
    /\ Cardinality(result.named) <= MaxNamed
    /\ result.failed <= MaxNamed => Cardinality(result.named) = result.failed

\* No failure goes untold.  The figures are true of Pinata but for what it
\* refused with an answer: what is still pinned after an attempt is among the
\* failures, and no more is told to have succeeded than is gone.  A directory is
\* pinned as a whole, or the caller gets an error.
FailuresTold ==
  /\ result.kind = "unpin" /\ result.attempted > 0 =>
       LET asked == {Asked[f] : f \in DOMAIN Asked}
       IN /\ Cardinality((asked \cap pinned) \ refused) <= result.failed
          /\ result.succeeded <=
               Cardinality({f \in DOMAIN Asked : Asked[f] \notin pinned \ refused})
  /\ result.kind = "pins" =>
       /\ DOMAIN result.hashes = job.files
       /\ \A f \in job.files : result.hashes[f] = HashOf[f] /\ HashOf[f] \in pinned
=============================================================================
