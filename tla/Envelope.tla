------------------------------ MODULE Envelope ------------------------------
(***************************************************************************)
(* The envelope around each file of a report (utils/encrypt_tools.py): the *)
(* data locked with a fresh secret key, and that key wrapped for every     *)
(* recipient and for the sender.                                           *)
(*                                                                         *)
(* Cryptography is symbolic.  A secret box opens with its key or reports   *)
(* damage.  A wrapped key opens for a private key together with a public   *)
(* key if it was made for these two.  A person has many addresses (SS58    *)
(* formats); get_address of an account gives one of them.                  *)
(*                                                                         *)
(* The names of the specification's parts begin with Envelope: the two     *)
(* ends of an upload, this and Ipfs, have their proofs in one module.      *)
(***************************************************************************)
EXTENDS Naturals, FiniteSets

CONSTANTS
  Person,            \* key pairs
  Sender,
  Address,           \* texts given as addresses
  Invalid,           \* those that are none
  Owner,             \* whose address it is
  AddressOf,         \* get_address() of each person's account
  Text, Meta,        \* plain texts and metadata
  None

ASSUME PersonAssumption == Sender \in Person /\ Invalid \subseteq Address
ASSUME AddressAssumption ==
  /\ Owner \in [Address \ Invalid -> Person]
  /\ AddressOf \in [Person -> Address \ Invalid]
  /\ \A p \in Person : Owner[AddressOf[p]] = p
ASSUME NoneAssumption == None \notin Meta

\* Data is text, or the JSON text of an object that has a "payload".
PlainData == [object : {FALSE}, payload : Text, meta : {None}]
ObjectData == [object : {TRUE}, payload : PlainData, meta : Meta \cup {None}]
Data == PlainData \cup ObjectData

VARIABLES
  phase,                \* "idle", "wrapping", "packed", "failed", "read"
  data, meta,        \* what is sent
  recipients,        \* recipient_addresses
  unwrapped,              \* addresses whose wrapped key is not made yet
  keys,              \* for whom the key of each address was wrapped: a pair
  damage,            \* what happened to the package on its way
  reader, claimed,   \* who reads it, and the sender's address it is given
  out                \* what multi_envelope_decrypt_data returns or raises

envelopeVars == <<phase, data, meta, recipients, unwrapped, keys, damage, reader, claimed, out>>

Damage == {"none", "json", "structure", "keys", "data"}
Failure == {"package", "unauthorized", "decrypt_secret_key", "decrypt_payload"}
Raised(f) == [read |-> FALSE, error |-> f]

\* prepared_data
Body == IF meta = None THEN data
        ELSE [object |-> TRUE, payload |-> data, meta |-> meta]

\* parse_decrypted
Parsed(b) == IF b.object THEN <<b.payload, b.meta>> ELSE <<b, None>>

-----------------------------------------------------------------------------
EnvelopeInit ==
  /\ phase = "idle"
  /\ data \in Data /\ meta \in Meta \cup {None}
  /\ recipients \in SUBSET Address
  /\ unwrapped = {} /\ keys = [a \in {} |-> {}]
  /\ damage = "none"
  /\ reader = None /\ claimed = None /\ out = Raised("package")

OnlyRecipients == recipients                   \* faulty: the sender is left out

AddressesForEncryption == recipients \cup {AddressOf[Sender]}

Lock ==
  /\ phase = "idle"
  /\ phase' = "wrapping"
  /\ unwrapped' = AddressesForEncryption
  /\ UNCHANGED <<data, meta, recipients, keys, damage, reader, claimed, out>>

\* encrypt_msg
KeyFor(a) == {Sender, Owner[a]}

\* One address of the set; in which order they come is open.
Wrap(a) ==
  /\ phase = "wrapping" /\ a \in unwrapped \ Invalid
  /\ unwrapped' = unwrapped \ {a}
  /\ keys' = [b \in DOMAIN keys \cup {a} |->
                IF b = a THEN KeyFor(a) ELSE keys[b]]
  /\ UNCHANGED <<phase, data, meta, recipients, damage, reader, claimed, out>>

NextOne == "wrapping"                          \* faulty: this one is skipped

GivenUp == "failed"

\* EnvelopeRecipientEncryptError: an invalid address, or the wrapping fails;
\* no package is made.
WrapFails(a) ==
  /\ phase = "wrapping" /\ a \in unwrapped
  /\ phase' = GivenUp
  /\ unwrapped' = unwrapped \ {a}
  /\ UNCHANGED <<data, meta, recipients, keys, damage, reader, claimed, out>>

Pack ==
  /\ phase = "wrapping" /\ unwrapped = {}
  /\ phase' = "packed"
  /\ UNCHANGED <<data, meta, recipients, unwrapped, keys, damage, reader, claimed, out>>

\* On its way through files, an archive and IPFS the package is damaged: it is
\* no JSON any more, lacks a part, its data is garbled, or wrapped keys are
\* garbled, lost or stand under other addresses.
Damaged ==
  /\ phase = "packed" /\ damage = "none"
  /\ damage' \in Damage \ {"none"}
  /\ IF damage' = "keys"
     THEN \E D \in SUBSET Address :
            keys' \in [D -> {keys[a] : a \in DOMAIN keys} \cup {{}}]
     ELSE UNCHANGED keys
  /\ UNCHANGED <<phase, data, meta, recipients, unwrapped, reader, claimed, out>>

KeyNotChecked(k, r, s) == TRUE                 \* faulty: the key is not wrapped

\* decrypt_msg
Opens(key, r, s) == s \notin Invalid /\ key = {Owner[s], r}

\* multi_envelope_decrypt_data of r's account and sender_address s
Decrypted(r, s) ==
  IF damage \in {"json", "structure"} THEN Raised("package")
  ELSE IF AddressOf[r] \notin DOMAIN keys THEN Raised("unauthorized")
  ELSE IF ~Opens(keys[AddressOf[r]], r, s) THEN Raised("decrypt_secret_key")
  ELSE IF damage = "data" THEN Raised("decrypt_payload")
  ELSE [read |-> TRUE, body |-> Body]

Read(r, s) ==
  /\ phase = "packed"
  /\ phase' = "read"
  /\ reader' = r /\ claimed' = s
  /\ out' = Decrypted(r, s)
  /\ UNCHANGED <<data, meta, recipients, unwrapped, keys, damage>>

PackageEnds == phase \in {"read", "failed"} /\ UNCHANGED envelopeVars

EnvelopeNext ==
  \/ Lock \/ Pack \/ Damaged \/ PackageEnds
  \/ \E a \in Address : Wrap(a) \/ WrapFails(a)
  \/ \E r \in Person, s \in Address : Read(r, s)

EnvelopeSpec == EnvelopeInit /\ [][EnvelopeNext]_envelopeVars
-----------------------------------------------------------------------------
(* Properties. *)

EnvelopeTypeOK ==
  /\ phase \in {"idle", "wrapping", "packed", "failed", "read"}
  /\ data \in Data /\ meta \in Meta \cup {None}
  /\ recipients \subseteq Address /\ unwrapped \subseteq Address
  /\ DOMAIN keys \subseteq Address
  /\ \A a \in DOMAIN keys : keys[a] \subseteq Person
  /\ damage \in Damage
  /\ phase = "read" => reader \in Person /\ claimed \in Address
  /\ phase = "read" => out.read \/ out.error \in Failure

Made == phase \in {"packed", "read"}

Addressed == {Owner[a] : a \in recipients \ Invalid} \cup {Sender}

\* A package is made only when the key is wrapped for every address it was
\* asked for; one bad address among several and there is no package.
NobodyLeftOut ==
  Made /\ damage = "none" =>
    /\ recipients \cap Invalid = {}
    /\ DOMAIN keys = recipients \cup {AddressOf[Sender]}

\* Whoever reads something reads the data itself, and is the sender or owns
\* one of the addresses, whatever happened on the way.
ReadersAreAddressed ==
  phase = "read" /\ out.read => reader \in Addressed /\ out.body = Body

\* An undamaged package opens for the sender, and for each recipient named by
\* the address of its account, who both get data and metadata back (but for data
\* without metadata that looks as if it had some).
AddressedRead ==
  phase = "read" /\ damage = "none" /\ claimed \notin Invalid =>
    (Owner[claimed] = Sender /\ AddressOf[reader] \in recipients \cup {AddressOf[Sender]} =>
       /\ out.read
       /\ meta # None \/ ~data.object => Parsed(out.body) = <<data, meta>>)
=============================================================================
