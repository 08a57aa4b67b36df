---------------------------- MODULE UploadProofs ----------------------------
(***************************************************************************)
(* Theorems about the two parts on either side of an upload: the envelope  *)
(* around each file (Envelope), and the client that pins and unpins the    *)
(* result (Ipfs).  They share no state; both are short.                    *)
(*                                                                         *)
(* Envelope.  The invariant says, for each stage of a package, for whom    *)
(* its keys were wrapped; damage may lose or mix up wrapped keys, but none *)
(* of them was made for anybody who is not addressed.                      *)
(*                                                                         *)
(* Ipfs.  The invariant follows the hashes of a call: each is still to be  *)
(* done, or went well, or failed, and the figures are the sizes of the     *)
(* last two.                                                               *)
(***************************************************************************)
EXTENDS Envelope, Ipfs, FiniteSetTheorems, TLAPS

-----------------------------------------------------------------------------
(* The envelope.                                                           *)

\* Each wrapped key is garbled or was made for the owner of an address.
KeysAddressed ==
  \A a \in DOMAIN keys :
    keys[a] = {} \/ \E b \in AddressesForEncryption \ Invalid : keys[a] = {Sender, Owner[b]}

\* An undamaged package has the right key under each address that is done.
KeysIntact ==
  damage = "none" =>
    /\ DOMAIN keys \cap Invalid = {}
    /\ \A a \in DOMAIN keys : keys[a] = {Sender, Owner[a]}
    /\ phase = "wrapping" => DOMAIN keys \cup unwrapped = AddressesForEncryption
    /\ Made => DOMAIN keys = AddressesForEncryption

\* The packing is under way, or over, or somebody has read.
Stages ==
  /\ phase \in {"idle", "wrapping", "failed"} => damage = "none"
  /\ phase = "idle" => DOMAIN keys = {}
  /\ phase = "read" => out = Decrypted(reader, claimed)

EnvelopeInv == EnvelopeTypeOK /\ KeysAddressed /\ KeysIntact /\ Stages

-----------------------------------------------------------------------------
\* The sender's own address is one of those the key is wrapped for.
LEMMA SenderIncluded ==
  /\ AddressOf[Sender] \in AddressesForEncryption \ Invalid
  /\ Owner[AddressOf[Sender]] = Sender
BY PersonAssumption, AddressAssumption DEF AddressesForEncryption

LEMMA EnvelopeInitInv == EnvelopeInit => EnvelopeInv
<1> SUFFICES ASSUME EnvelopeInit PROVE EnvelopeInv
  OBVIOUS
<1>1. EnvelopeTypeOK
  BY DEF EnvelopeInit, EnvelopeTypeOK, Damage
<1>2. KeysAddressed /\ KeysIntact /\ Stages
  BY DEF EnvelopeInit, KeysAddressed, KeysIntact, Stages, Made
<1> QED
  BY <1>1, <1>2 DEF EnvelopeInv

\* Each kind of step keeps the invariant.
LEMMA EnvelopeStepInv == EnvelopeInv /\ [EnvelopeNext]_envelopeVars => EnvelopeInv'
<1> SUFFICES ASSUME EnvelopeInv, [EnvelopeNext]_envelopeVars PROVE EnvelopeInv'
  OBVIOUS
<1> USE DEF EnvelopeInv
<1>1. CASE Lock
  <2>1. AddressesForEncryption \subseteq Address
    BY SenderIncluded, PersonAssumption, AddressAssumption DEF EnvelopeTypeOK, AddressesForEncryption
  <2>2. EnvelopeTypeOK'
    BY <1>1, <2>1 DEF Lock, EnvelopeTypeOK
  <2> QED
    BY <1>1, <2>2 DEF Lock, KeysAddressed, KeysIntact, Stages, Made, AddressesForEncryption
<1>2. ASSUME NEW a \in Address, Wrap(a) PROVE EnvelopeInv'
  <2> USE <1>2 DEF Wrap
  <2>1. DOMAIN keys' = DOMAIN keys \cup {a} /\ keys'[a] = {Sender, Owner[a]}
        /\ \A b \in DOMAIN keys \ {a} : keys'[b] = keys[b]
    BY DEF KeyFor
  <2>2. Owner[a] \in Person
    BY AddressAssumption
  <2>3. EnvelopeTypeOK'
    BY <2>1, <2>2, PersonAssumption DEF EnvelopeTypeOK
  <2>4. damage = "none"
    BY DEF Stages
  <2>5. a \in AddressesForEncryption \ Invalid
    BY <2>4 DEF KeysIntact
  <2>6. KeysAddressed'
    BY <2>1, <2>5 DEF KeysAddressed, AddressesForEncryption
  <2>7. KeysIntact'
    BY <2>1, <2>4 DEF KeysIntact, AddressesForEncryption, Made
  <2> QED
    BY <2>3, <2>6, <2>7 DEF Stages
<1>3. ASSUME NEW a \in Address, WrapFails(a) PROVE EnvelopeInv'
  <2>1. EnvelopeTypeOK'
    BY <1>3 DEF WrapFails, GivenUp, EnvelopeTypeOK
  <2> QED
    BY <1>3, <2>1 DEF WrapFails, GivenUp, KeysAddressed, KeysIntact, Stages, Made,
                     AddressesForEncryption
<1>4. CASE Pack
  BY <1>4 DEF Pack, EnvelopeTypeOK, KeysAddressed, KeysIntact, Stages, Made, AddressesForEncryption
<1>5. CASE Damaged
  <2> USE <1>5 DEF Damaged
  <2>1. damage' # "none" /\ damage' \in Damage /\ phase' = "packed"
    OBVIOUS
  <2>2. KeysAddressed' /\ DOMAIN keys' \subseteq Address
        /\ \A a \in DOMAIN keys' : keys'[a] \subseteq Person
    <3>1. CASE damage' = "keys"
      <4>1. PICK D \in SUBSET Address :
              keys' \in [D -> {keys[a] : a \in DOMAIN keys} \cup {{}}]
        BY <3>1
      <4>2. \A a \in DOMAIN keys' : keys'[a] = {} \/ \E b \in DOMAIN keys : keys'[a] = keys[b]
        BY <4>1
      <4> QED
        BY <4>1, <4>2 DEF KeysAddressed, AddressesForEncryption, EnvelopeTypeOK
    <3>2. CASE damage' # "keys"
      BY <3>2 DEF KeysAddressed, AddressesForEncryption, EnvelopeTypeOK
    <3> QED
      BY <3>1, <3>2
  <2>3. EnvelopeTypeOK'
    BY <2>1, <2>2 DEF EnvelopeTypeOK
  <2> QED
    BY <2>1, <2>2, <2>3 DEF KeysIntact, Stages
<1>6. ASSUME NEW r \in Person, NEW s \in Address, Read(r, s) PROVE EnvelopeInv'
  <2> USE <1>6 DEF Read
  <2>1. out' = Decrypted(r, s) /\ Decrypted(reader, claimed)' = Decrypted(r, s)
    BY DEF Decrypted, Opens, Body
  <2>2. out'.read \/ out'.error \in Failure
    BY <2>1 DEF Decrypted, Raised, Failure
  <2>3. EnvelopeTypeOK'
    BY <2>2 DEF EnvelopeTypeOK
  <2> QED
    BY <2>1, <2>3 DEF KeysAddressed, KeysIntact, Stages, Made, AddressesForEncryption
<1>7. CASE UNCHANGED envelopeVars
  BY <1>7 DEF envelopeVars, EnvelopeTypeOK, KeysAddressed, KeysIntact, Stages, Made, AddressesForEncryption,
              Decrypted, Opens, Body
<1> QED
  BY <1>1, <1>2, <1>3, <1>4, <1>5, <1>6, <1>7 DEF EnvelopeNext, PackageEnds

\* Every reachable state is well typed and keeps wrapped keys to the addressed.
THEOREM EnvelopeInvariant == EnvelopeSpec => []EnvelopeInv
BY EnvelopeInitInv, EnvelopeStepInv, PTL DEF EnvelopeSpec

\* The types of the envelope, of its keys and of what a reader gets.
THEOREM EnvelopeTypesCorrect == EnvelopeSpec => []EnvelopeTypeOK
<1>1. EnvelopeInv => EnvelopeTypeOK
  BY DEF EnvelopeInv
<1> QED
  BY <1>1, EnvelopeInvariant, PTL

\* A package exists only with the key wrapped for every address asked for.
THEOREM NoRecipientMissing == EnvelopeSpec => []NobodyLeftOut
<1>1. EnvelopeInv => NobodyLeftOut
  BY SenderIncluded DEF EnvelopeInv, KeysIntact, NobodyLeftOut, AddressesForEncryption, Made
<1> QED
  BY <1>1, EnvelopeInvariant, PTL

\* Whatever happens to a package, only the sender and the owners of the
\* addresses read anything, and what they read is the data itself.
THEOREM OnlyTheAddressedRead == EnvelopeSpec => []ReadersAreAddressed
<1>1. EnvelopeInv => ReadersAreAddressed
  <2> SUFFICES ASSUME EnvelopeInv, phase = "read", out.read
               PROVE reader \in Addressed /\ out.body = Body
    BY DEF ReadersAreAddressed
  <2>1. out = Decrypted(reader, claimed)
    BY DEF EnvelopeInv, Stages
  <2>2. /\ AddressOf[reader] \in DOMAIN keys
        /\ Opens(keys[AddressOf[reader]], reader, claimed)
        /\ out = [read |-> TRUE, body |-> Body]
    BY <2>1 DEF Decrypted, Raised
  <2>3. PICK b \in AddressesForEncryption \ Invalid :
          keys[AddressOf[reader]] = {Sender, Owner[b]}
    BY <2>2 DEF EnvelopeInv, KeysAddressed, Opens
  <2>4. reader \in {Sender, Owner[b]}
    BY <2>2, <2>3 DEF Opens
  <2>5. Owner[b] \in Addressed /\ Sender \in Addressed
    BY SenderIncluded DEF Addressed, AddressesForEncryption
  <2> QED
    BY <2>2, <2>4, <2>5
<1> QED
  BY <1>1, EnvelopeInvariant, PTL

\* An undamaged package opens for the sender and for each recipient that is
\* given by the address of its account.
THEOREM TheAddressedCanRead == EnvelopeSpec => []AddressedRead
<1>1. EnvelopeInv => AddressedRead
  <2> SUFFICES ASSUME EnvelopeInv, phase = "read", damage = "none", claimed \notin Invalid,
                      Owner[claimed] = Sender,
                      AddressOf[reader] \in recipients \cup {AddressOf[Sender]}
               PROVE out.read /\ (meta # None \/ ~data.object =>
                                    Parsed(out.body) = <<data, meta>>)
    BY DEF AddressedRead
  <2>1. reader \in Person /\ out = Decrypted(reader, claimed)
    BY DEF EnvelopeInv, Stages, EnvelopeTypeOK
  <2>2. /\ AddressOf[reader] \in DOMAIN keys
        /\ keys[AddressOf[reader]] = {Sender, Owner[AddressOf[reader]]}
    BY DEF EnvelopeInv, KeysIntact, AddressesForEncryption, Made
  <2>3. Owner[AddressOf[reader]] = reader
    BY <2>1, AddressAssumption
  <2>4. out = [read |-> TRUE, body |-> Body]
    BY <2>1, <2>2, <2>3 DEF Decrypted, Opens
  <2> QED
    BY <2>4 DEF Parsed, Body
<1> QED
  BY <1>1, EnvelopeInvariant, PTL

-----------------------------------------------------------------------------
(* The client.                                                             *)

Names == File \cup {"archive"}

\* What a call is given.
Job == Payload \cup [form : {"none"}] \cup [form : {"dir"}, files : SUBSET File]

Typed ==
  /\ TypeOK
  /\ job \in Job
  /\ done \in [well : SUBSET Names, failed : SUBSET Names]

\* While a call is under way it has no result; before its loop it has done nothing.
Fresh ==
  /\ pc # "idle" => result = [kind |-> "none"]
  /\ pc = "creds" =>
       done = Outcomes /\ todo = Empty /\ job.form # "none"

\* From the loop to the result, each hash asked for is to be done, well or
\* failed, and what went well is gone from Pinata or was refused.
Figures == result.kind = "unpin" /\ result # Nothing

Sorted ==
  pc = "unpinning" \/ Figures =>
    /\ DOMAIN todo \cup done.well \cup done.failed = DOMAIN Asked
    /\ DOMAIN todo \cap (done.well \cup done.failed) = {}
    /\ done.well \cap done.failed = {}
    /\ \A f \in DOMAIN todo : todo[f] = Asked[f]
    /\ \A f \in done.well : Asked[f] \notin pinned \ refused

\* The figures of a result are taken when nothing is left to do.
Taken ==
  Figures =>
    /\ pc = "idle" /\ DOMAIN todo = {}
    /\ result = UnpinResult(Cardinality(done.well \cup done.failed),
                                   Cardinality(done.well), Cardinality(done.failed),
                                   SomeNamed(done.failed))

\* Of a directory each file is to be pinned or is pinned; a result names all.
Pinning ==
  /\ pc = "pinning" =>
       /\ job.form = "dir"
       /\ DOMAIN todo \cup done.well = job.files
       /\ \A f \in DOMAIN todo : todo[f] = HashOf[f]
       /\ \A f \in done.well : HashOf[f] \in pinned
  /\ result.kind = "pins" =>
       /\ pc = "idle" /\ job.form = "dir"
       /\ DOMAIN result.hashes = job.files
       /\ \A f \in job.files : result.hashes[f] = HashOf[f] /\ HashOf[f] \in pinned

ClientInv == Typed /\ Fresh /\ Sorted /\ Taken /\ Pinning
-----------------------------------------------------------------------------
\* A finite set has subsets of each size up to its own.
LEMMA SubsetOfSize ==
  ASSUME NEW S, IsFiniteSet(S), NEW k \in Nat, k <= Cardinality(S)
  PROVE  \E s \in SUBSET S : Cardinality(s) = k
<1> DEFINE n == Cardinality(S)
<1>1. n \in Nat /\ ExistsBijection(1 .. n, S)
  BY FS_CardinalityType
<1>2. PICK b \in Bijection(1 .. n, S) : TRUE
  BY <1>1 DEF ExistsBijection
<1> DEFINE s == {b[i] : i \in 1 .. k}
           c == [i \in 1 .. k |-> b[i]]
<1>3. 1 .. k \subseteq 1 .. n
  BY <1>1
<1>4. b \in [1 .. n -> S] /\ \A i, j \in 1 .. n : b[i] = b[j] => i = j
  BY <1>2 DEF Bijection, Injection, Surjection, IsInjective
<1>5. s \in SUBSET S
  BY <1>3, <1>4
<1>6. c \in Bijection(1 .. k, s)
  BY <1>3, <1>4 DEF Bijection, Injection, Surjection, IsInjective
<1>7. IsFiniteSet(1 .. k) /\ Cardinality(1 .. k) = k
  BY FS_Interval
<1>8. Cardinality(s) = k
  BY <1>6, <1>7, FS_Bijection DEF ExistsBijection
<1> QED
  BY <1>5, <1>8

\* failed[:10] names failed hashes only: all of them, or MaxNamed.
LEMMA NamedOfFailed ==
  ASSUME NEW names, IsFiniteSet(names)
  PROVE  /\ SomeNamed(names) \subseteq names
         /\ Cardinality(SomeNamed(names)) <= MaxNamed
         /\ Cardinality(names) <= MaxNamed =>
              Cardinality(SomeNamed(names)) = Cardinality(names)
<1> DEFINE k == IF Cardinality(names) < MaxNamed THEN Cardinality(names) ELSE MaxNamed
<1>1. Cardinality(names) \in Nat
  BY FS_CardinalityType
<1>2. k \in Nat /\ k <= Cardinality(names)
  BY <1>1, MaxNamedAssumption
<1>3. \E s \in kSubset(k, names) : TRUE
  <2> HIDE DEF k
  <2> QED
    BY <1>2, SubsetOfSize DEF kSubset
<1>4. SomeNamed(names) \in kSubset(k, names)
  BY <1>3 DEF SomeNamed
<1>5. SomeNamed(names) \subseteq names /\ Cardinality(SomeNamed(names)) = k
  BY <1>4 DEF kSubset
<1> QED
  BY <1>1, <1>5, MaxNamedAssumption

LEMMA NamesAreFinite ==
  ASSUME NEW s \in SUBSET Names
  PROVE  IsFiniteSet(s)
<1>1. IsFiniteSet(Names)
  BY FileAssumption, FS_AddElement DEF Names
<1> QED
  BY <1>1, FS_Subset

\* Whatever form it has, a payload is normalised to the hashes asked for.
LEMMA NormalizedAsAsked ==
  ASSUME job \in Payload
  PROVE  /\ Normalized(job) = Asked
         /\ DOMAIN Asked \subseteq Names
         /\ \A f \in DOMAIN Asked : Asked[f] \in Hash
<1>1. CASE job \in [form : {"dict", "json"}, dict : Dict]
  <2>1. job.form \in {"dict", "json"} /\ job.dict \in Dict
    BY <1>1
  <2>2. /\ Normalized(job) = [f \in Usable(job.dict) |-> job.dict[f]]
        /\ Asked = [f \in Usable(job.dict) |-> job.dict[f]]
    BY <2>1 DEF Normalized, Asked, Usable
  <2>3. DOMAIN job.dict \subseteq File
    BY <2>1 DEF Dict
  <2> QED
    BY <2>2, <2>3 DEF Usable, Names
<1>2. CASE job \in [form : {"broken", "blank"}]
  BY <1>2 DEF Normalized, Asked, Empty
<1>3. CASE job \in [form : {"hash"}, hash : Hash]
  BY <1>3 DEF Normalized, Asked, Names
<1> QED
  BY <1>1, <1>2, <1>3 DEF Payload

LEMMA ClientInit == Init => ClientInv
<1> SUFFICES ASSUME Init PROVE ClientInv
  OBVIOUS
<1>1. /\ job = [form |-> "none"] /\ done = Outcomes
      /\ result = [kind |-> "none"] /\ pc = "idle"
  BY DEF Init
<1>2. Typed
  BY <1>1, MaxNamedAssumption
     DEF Init, Typed, TypeOK, Job, Outcomes, Empty
<1>3. result.kind = "none"
  BY <1>1
<1> QED
  BY <1>1, <1>2, <1>3 DEF ClientInv, Fresh, Figures, Sorted, Taken, Pinning

LEMMA ClientStep == ClientInv /\ [Next]_vars => ClientInv'
<1> SUFFICES ASSUME ClientInv, [Next]_vars PROVE ClientInv'
  OBVIOUS
<1>0. Typed /\ TypeOK
  BY DEF ClientInv, Typed
\* A result is told from another by its kind.
<1>k. \A a, b, c, d : UnpinResult(a, b, c, d).kind = "unpin"
  BY DEF UnpinResult
<1>1. ASSUME NEW arg \in Job, arg.form # "none", Call(arg) PROVE ClientInv'
  <2>1. /\ pc' = "creds" /\ job' = arg /\ result' = [kind |-> "none"]
        /\ todo' = Empty /\ done' = Outcomes /\ refused' = {}
        /\ calls' = calls + 1 /\ calls < MaxCalls /\ UNCHANGED <<creds, pinned>>
    BY <1>1 DEF Call
  <2>2. result'.kind = "none"
    BY <2>1
  <2>3. Typed'
    BY <1>0, <1>1, <2>1, <2>2, MaxNamedAssumption
       DEF Typed, TypeOK, Outcomes, Empty
  <2> QED
    BY <1>1, <2>1, <2>2, <2>3 DEF ClientInv, Fresh, Figures, Sorted, Taken, Pinning
<1>2. CASE LoseCreds
  <2>1. /\ creds' \in BOOLEAN
        /\ UNCHANGED <<pinned, calls, pc, job, todo, done, result, refused>>
    BY <1>2 DEF LoseCreds
  <2>2. Typed'
    BY <1>0, <2>1 DEF Typed, TypeOK
  <2> QED
    BY <2>1, <2>2 DEF ClientInv, Fresh, Figures, Sorted, Taken, Pinning, Asked
<1>3. CASE CredsMissing
  <2>1. /\ pc' = "idle" /\ UNCHANGED <<creds, pinned, calls, job, todo, done, refused>>
        /\ result' \in {[kind |-> "error"], Nothing}
    BY <1>3 DEF CredsMissing, End
  <2>2. ~Figures' /\ result'.kind \in {"error", "unpin"}
    BY <1>k, <2>1 DEF Figures, Nothing
  <2>3. Typed'
    BY <1>0, <2>1, <2>2 DEF Typed, TypeOK
  <2> QED
    BY <2>1, <2>2, <2>3 DEF ClientInv, Fresh, Sorted, Taken, Pinning
<1>4. CASE BeginUnpin
  <2>1. /\ pc = "creds" /\ job.form # "dir" /\ todo' = Normalized(job)
        /\ \/ pc' = "idle" /\ result' = Nothing
           \/ pc' = "unpinning" /\ UNCHANGED result
        /\ UNCHANGED <<creds, pinned, calls, job, done, refused>>
    BY <1>4 DEF BeginUnpin, End
  <2>2. job.form # "none" /\ done = Outcomes /\ result = [kind |-> "none"]
    BY <2>1 DEF ClientInv, Fresh
  <2>3. job \in Payload
    BY <1>0, <2>1, <2>2 DEF Typed, Job
  <2>4. /\ todo' = Asked /\ DOMAIN Asked \subseteq Names
        /\ \A f \in DOMAIN Asked : Asked[f] \in Hash
    BY <2>1, <2>3, NormalizedAsAsked
  <2>5. Asked' = Asked
    BY <2>1 DEF Asked
  <2>6. result'.kind \in {"none", "unpin"} /\ ~Figures'
    BY <1>k, <2>1, <2>2 DEF Figures, Nothing
  <2>7. Typed'
    BY <1>0, <2>1, <2>4, <2>6 DEF Typed, TypeOK, Names
  <2>8. Sorted'
    BY <2>1, <2>2, <2>4, <2>5, <2>6 DEF Sorted, Outcomes
  <2>9. Fresh'
    BY <2>1, <2>2 DEF Fresh
  <2> QED
    BY <2>1, <2>6, <2>7, <2>8, <2>9 DEF ClientInv, Taken, Pinning
<1>5. CASE RemovePin
  <2>1. PICK f \in DOMAIN todo :
          /\ todo' = Without(todo, f)
          /\ \/ /\ pinned' = pinned \ {todo[f]}
                /\ done' = [done EXCEPT !.well = @ \cup {f}]
                /\ UNCHANGED refused
             \/ /\ refused' = refused \cup {todo[f]}
                /\ done' = [done EXCEPT !.well = @ \cup {f}]
                /\ UNCHANGED pinned
             \/ /\ pinned' \in {pinned, pinned \ {todo[f]}}
                /\ done' = [done EXCEPT !.failed = @ \cup {f}]
                /\ UNCHANGED refused
    BY <1>5 DEF RemovePin, Failed
  <2>2. pc = "unpinning" /\ UNCHANGED <<creds, calls, pc, job, result>>
    BY <1>5 DEF RemovePin
  <2>3. result = [kind |-> "none"] /\ result.kind = "none" /\ ~Figures'
    BY <2>2 DEF ClientInv, Fresh, Figures
  <2>4. /\ DOMAIN todo' = DOMAIN todo \ {f}
        /\ \A g \in DOMAIN todo \ {f} : todo'[g] = todo[g]
    BY <2>1 DEF Without
  <2>5. todo[f] \in Hash /\ f \in Names
    BY <1>0 DEF TypeOK, Names
  <2>6. /\ pinned' \subseteq pinned /\ refused \subseteq refused'
        /\ refused' \subseteq refused \cup {todo[f]}
    BY <2>1
  <2>7. \/ /\ done'.well = done.well \cup {f} /\ done'.failed = done.failed
           /\ todo[f] \notin pinned' \ refused'
        \/ done'.well = done.well /\ done'.failed = done.failed \cup {f}
    BY <1>0, <2>1 DEF Typed
  <2>8. done' \in [well : SUBSET Names, failed : SUBSET Names]
    BY <1>0, <2>1, <2>5 DEF Typed
  <2>9. Typed'
    BY <1>0, <2>2, <2>4, <2>5, <2>6, <2>8 DEF Typed, TypeOK, Names
  <2>10. Asked' = Asked
    BY <2>2 DEF Asked
  <2>11. /\ DOMAIN todo \cup done.well \cup done.failed = DOMAIN Asked
         /\ DOMAIN todo \cap (done.well \cup done.failed) = {}
         /\ done.well \cap done.failed = {}
         /\ \A g \in DOMAIN todo : todo[g] = Asked[g]
         /\ \A g \in done.well : Asked[g] \notin pinned \ refused
    BY <2>2 DEF ClientInv, Sorted
  <2>12. Sorted'
    BY <2>4, <2>6, <2>7, <2>10, <2>11 DEF Sorted
  <2> QED
    BY <2>2, <2>3, <2>9, <2>12 DEF ClientInv, Fresh, Taken, Pinning
<1>6. CASE UnpinDone
  <2>1. /\ pc = "unpinning" /\ DOMAIN todo = {} /\ pc' = "idle"
        /\ result' = UnpinResult(Cardinality(done.well \cup done.failed),
                                 Cardinality(done.well), Cardinality(done.failed),
                                 SomeNamed(done.failed))
        /\ UNCHANGED <<creds, pinned, calls, job, todo, done, refused>>
    BY <1>6 DEF UnpinDone, End
  <2>2. result'.kind = "unpin"
    BY <1>k, <2>1
  <2>3. Typed'
    BY <1>0, <2>1, <2>2 DEF Typed, TypeOK
  <2>4. Sorted'
    BY <2>1 DEF ClientInv, Sorted, Asked
  <2> QED
    BY <2>1, <2>2, <2>3, <2>4 DEF ClientInv, Fresh, Taken, Pinning
<1>7. CASE BeginPinDir
  <2>1. /\ pc = "creds" /\ job.form = "dir" /\ pc' = "pinning"
        /\ todo' = [f \in job.files |-> HashOf[f]]
        /\ UNCHANGED <<creds, pinned, calls, job, done, result, refused>>
    BY <1>7 DEF BeginPinDir
  <2>2. done = Outcomes /\ result = [kind |-> "none"] /\ result.kind = "none"
    BY <2>1 DEF ClientInv, Fresh
  <2>3. job.files \subseteq File
    BY <1>0, <2>1 DEF Typed, Job, Payload
  <2>4. Typed'
    BY <1>0, <2>1, <2>3, HashOfAssumption DEF Typed, TypeOK
  <2>5. Pinning'
    BY <2>1, <2>2 DEF Pinning, Outcomes
  <2> QED
    BY <2>1, <2>2, <2>4, <2>5 DEF ClientInv, Fresh, Figures, Sorted, Taken
<1>8. CASE PinFile
  <2>1. PICK f \in DOMAIN todo :
          /\ todo' = Without(todo, f)
          /\ pinned' = pinned \cup {todo[f]}
          /\ done' = [done EXCEPT !.well = @ \cup {f}]
    BY <1>8 DEF PinFile
  <2>2. pc = "pinning" /\ UNCHANGED <<creds, calls, pc, job, result, refused>>
    BY <1>8 DEF PinFile
  <2>3. result = [kind |-> "none"] /\ result.kind = "none"
    BY <2>2 DEF ClientInv, Fresh
  <2>4. /\ DOMAIN todo' = DOMAIN todo \ {f}
        /\ \A g \in DOMAIN todo \ {f} : todo'[g] = todo[g]
    BY <2>1 DEF Without
  <2>5. todo[f] \in Hash /\ f \in Names
    BY <1>0 DEF TypeOK, Names
  <2>6. /\ done' \in [well : SUBSET Names, failed : SUBSET Names]
        /\ done'.well = done.well \cup {f}
    BY <1>0, <2>1, <2>5 DEF Typed
  <2>7. Typed'
    BY <1>0, <2>1, <2>2, <2>4, <2>5, <2>6 DEF Typed, TypeOK, Names
  <2>8. Pinning'
    BY <2>1, <2>2, <2>3, <2>4, <2>6 DEF ClientInv, Pinning
  <2> QED
    BY <2>2, <2>3, <2>7, <2>8 DEF ClientInv, Fresh, Figures, Sorted, Taken
<1>9. CASE PinFileFails \/ NoFiles
  <2>1. /\ pc' = "idle" /\ result' = [kind |-> "error"] /\ result'.kind = "error"
        /\ UNCHANGED <<creds, calls, job, done, refused>>
    BY <1>9 DEF PinFileFails, NoFiles, End
  <2>2. /\ pinned' \subseteq Hash /\ DOMAIN todo' \subseteq Names
        /\ \A f \in DOMAIN todo' : todo'[f] \in Hash
    BY <1>0, <1>9 DEF PinFileFails, NoFiles, Without, TypeOK, Names
  <2>3. Typed'
    BY <1>0, <2>1, <2>2 DEF Typed, TypeOK, Names
  <2> QED
    BY <2>1, <2>3 DEF ClientInv, Fresh, Figures, Sorted, Taken, Pinning
<1>10. CASE PinDirDone
  <2>1. /\ pc = "pinning" /\ DOMAIN todo = {} /\ pc' = "idle"
        /\ result' = [kind |-> "pins", hashes |-> [f \in done.well |-> HashOf[f]]]
        /\ UNCHANGED <<creds, pinned, calls, job, todo, done, refused>>
    BY <1>10 DEF PinDirDone, End
  <2>2. result'.kind = "pins" /\ result'.hashes = [f \in done.well |-> HashOf[f]]
    BY <2>1
  <2>3. Typed'
    BY <1>0, <2>1, <2>2 DEF Typed, TypeOK
  <2>4. Pinning'
    BY <2>1, <2>2 DEF ClientInv, Pinning
  <2> QED
    BY <2>1, <2>2, <2>3, <2>4 DEF ClientInv, Fresh, Figures, Sorted, Taken
<1>11. CASE UNCHANGED vars
  BY <1>11
     DEF vars, ClientInv, Typed, TypeOK, Fresh, Figures, Sorted, Taken,
         Pinning, Asked
<1>12. Unpin \/ PinDir => \E arg \in Job : arg.form # "none" /\ Call(arg)
  <2>1. \A p \in Payload : p \in Job /\ p.form # "none"
    BY DEF Payload, Job
  <2>2. \A files \in SUBSET File :
          LET arg == [form |-> "dir", files |-> files]
          IN arg \in Job /\ arg.form # "none"
    BY DEF Job
  <2> QED
    BY <2>1, <2>2 DEF Unpin, PinDir
<1> QED
  BY <1>1, <1>2, <1>3, <1>4, <1>5, <1>6, <1>7, <1>8, <1>9, <1>10, <1>11, <1>12
     DEF Next, Quiescent

\* What a result tells is true of the sets it was counted from.
LEMMA FiguresTrue == ClientInv => UnpinAddsUp /\ FailuresTold
<1> SUFFICES ASSUME ClientInv PROVE UnpinAddsUp /\ FailuresTold
  OBVIOUS
<1> DEFINE well == done.well
           failed == done.failed
<1>1. well \in SUBSET Names /\ failed \in SUBSET Names
  BY DEF ClientInv, Typed
<1>2. /\ IsFiniteSet(well) /\ Cardinality(well) \in Nat
      /\ IsFiniteSet(failed) /\ Cardinality(failed) \in Nat
  BY <1>1, NamesAreFinite, FS_CardinalityType
<1>3. CASE ~Figures
  <2>1. result.kind = "unpin" =>
          /\ result.attempted = 0 /\ result.succeeded = 0 /\ result.failed = 0
          /\ result.named = {}
    BY <1>3 DEF Figures, Nothing, UnpinResult
  <2> QED
    <3>1. Cardinality({}) = 0
      BY FS_EmptySet
    <3>2. UnpinAddsUp
      BY <2>1, <3>1, MaxNamedAssumption DEF UnpinAddsUp
    <3>3. FailuresTold
      BY <2>1 DEF FailuresTold, ClientInv, Pinning
    <3> QED
      BY <3>2, <3>3
<1>4. CASE Figures
  <2>1. /\ well \cup failed = DOMAIN Asked /\ well \cap failed = {}
        /\ \A f \in well : Asked[f] \notin pinned \ refused
    BY <1>4 DEF ClientInv, Sorted, Taken
  <2>2. /\ result.kind = "unpin" /\ result.attempted = Cardinality(well \cup failed)
        /\ result.succeeded = Cardinality(well) /\ result.failed = Cardinality(failed)
        /\ result.named = SomeNamed(failed)
    BY <1>4 DEF ClientInv, Taken, UnpinResult
  <2>3. /\ IsFiniteSet(well \cup failed)
        /\ Cardinality(well \cup failed) = Cardinality(well) + Cardinality(failed)
    <3>1. Cardinality(well \cap failed) = 0
      BY <2>1, FS_EmptySet
    <3>2. IsFiniteSet(well \cup failed)
      BY <1>2, FS_Union
    <3>3. Cardinality(well \cup failed)
            = Cardinality(well) + Cardinality(failed) - Cardinality(well \cap failed)
      <4> HIDE DEF well, failed
      <4> QED
        BY <1>2, FS_Union
    <3> QED
      BY <1>2, <3>1, <3>2, <3>3
  <2>4. UnpinAddsUp
    BY <1>2, <2>1, <2>2, <2>3, NamedOfFailed DEF UnpinAddsUp
  <2> DEFINE asked == {Asked[f] : f \in DOMAIN Asked}
             left == (asked \cap pinned) \ refused
             lost == {Asked[f] : f \in failed}
             gone == {f \in DOMAIN Asked : Asked[f] \notin pinned \ refused}
  <2>5. Cardinality(left) <= Cardinality(failed)
    <3>1. left \in SUBSET lost
      BY <2>1
    <3>2. [f \in failed |-> Asked[f]] \in Surjection(failed, lost)
      BY DEF Surjection
    <3> HIDE DEF left, lost
    <3>3. IsFiniteSet(lost) /\ Cardinality(lost) <= Cardinality(failed)
      BY <1>2, <3>2, FS_Surjection
    <3>4. Cardinality(left) <= Cardinality(lost) /\ IsFiniteSet(left)
      BY <3>1, <3>3, FS_Subset
    <3> QED
      BY <1>2, <3>3, <3>4, FS_CardinalityType
  <2>6. Cardinality(well) <= Cardinality(gone)
    <3>1. well \in SUBSET gone /\ gone \in SUBSET (well \cup failed)
      BY <2>1
    <3> HIDE DEF gone
    <3> QED
      BY <2>3, <3>1, FS_Subset
  <2>7. FailuresTold
    BY <2>2, <2>5, <2>6 DEF FailuresTold
  <2> QED
    BY <2>4, <2>7
<1> QED
  BY <1>3, <1>4

LEMMA ClientAlways == Spec => []ClientInv
BY ClientInit, ClientStep, PTL DEF Spec

\* The calls of the client, what they work on and what they return are well typed.
THEOREM ClientTypesCorrect == Spec => []TypeOK
<1>1. ClientInv => TypeOK
  BY DEF ClientInv, Typed
<1> QED
  BY <1>1, ClientAlways, PTL

\* In whatever form a payload comes, and whatever Pinata answers, the figures
\* of an unpin count the hashes asked for, each once, or none; and of the failed
\* ones as many are named as there is room for.
THEOREM UnpinFiguresAddUp == Spec => []UnpinAddsUp
<1>1. ClientInv => UnpinAddsUp
  BY FiguresTrue
<1> QED
  BY <1>1, ClientAlways, PTL

\* What is still pinned after an attempt is counted among the failures, unless
\* Pinata refused with an answer; and a directory is pinned as a whole, or its
\* caller gets an error.
THEOREM NoFailureUntold == Spec => []FailuresTold
<1>1. ClientInv => FailuresTold
  BY FiguresTrue
<1> QED
  BY <1>1, ClientAlways, PTL
=============================================================================
