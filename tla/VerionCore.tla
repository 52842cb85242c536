----------------------------- MODULE VerionCore -----------------------------
(***************************************************************************)
(* The identity core of Verion: tenant, identity and key requests served   *)
(* concurrently by one server process over one database and one key store  *)
(* (wired together in cmd/verion/main.go).  Handlers interleave at every   *)
(* repository call; the process may stop at any point and start again.     *)
(***************************************************************************)
EXTENDS TenantService, IdentityService, KeyService

CONSTANTS
  SeedTenants,      \* number of tenants already provisioned
  SeedIdentities    \* for each identity already created, its tenant

ASSUME SeedAssumption ==
  /\ SeedTenants \in Nat
  /\ 1..SeedTenants \subseteq Slug
  /\ SeedIdentities \in Seq(1..SeedTenants)
  /\ DOMAIN SeedIdentities \subseteq Handle

ASSUME CallerInputs == Handle \subseteq Nat /\ Slug \subseteq Nat

vars == <<tables, keyStoreVars, tcall, icall, kcall>>

(***************************************************************************)
(* The seeded rows are what CreateTenant and CreateIdentity leave behind   *)
(* when they run to their end.                                             *)
(***************************************************************************)
SeedIdentity(i) ==
  [tenant |-> SeedIdentities[i], handle |-> i, status |-> "active", primary |-> i,
   attributes |-> <<>>, attributesIV |-> <<>>, version |-> 1, deactivatedAt |-> FALSE]

SeedKey(i) ==
  [identity |-> i, tenant |-> SeedIdentities[i], type |-> "ed25519",
   purpose |-> "signing", status |-> "active", ref |-> CreationRef(i), pair |-> i,
   rotatedTo |-> NULL]

Init ==
  /\ tenants = [t \in 1..SeedTenants |-> [slug |-> t, status |-> "active"]]
  /\ identities = [i \in DOMAIN SeedIdentities |-> SeedIdentity(i)]
  /\ keys = [i \in DOMAIN SeedIdentities |-> SeedKey(i)]
  /\ audit = ({"tenant.created"} \cap Recorded) \X (1..SeedTenants)
               \cup ({"identity.created", ""} \cap Recorded) \X DOMAIN SeedIdentities
  /\ vault = [ref \in {CreationRef(i) : i \in DOMAIN SeedIdentities} |-> ref[2]]
  /\ minted = Len(SeedIdentities)
  /\ tcall = [h \in THandler |-> TenantIdle]
  /\ icall = [h \in IHandler |-> IdentityIdle]
  /\ kcall = [h \in KHandler |-> KeyIdle]

\* The process stops and starts: calls in flight are lost, so are the private
\* keys; the database stays.
Restart ==
  /\ tcall' = [h \in THandler |-> TenantIdle]
  /\ icall' = [h \in IHandler |-> IdentityIdle]
  /\ kcall' = [h \in KHandler |-> KeyIdle]
  /\ vault' = EmptyVault
  /\ UNCHANGED <<tables, minted>>

Next ==
  \/ \E h \in THandler : TenantStep(h) /\ UNCHANGED <<keyStoreVars, icall, kcall>>
  \/ \E h \in IHandler : IdentityStep(h) /\ UNCHANGED <<tcall, kcall>>
  \/ \E h \in KHandler : KeyStep(h) /\ UNCHANGED <<tcall, icall>>
  \/ Restart

Spec == Init /\ [][Next]_vars

(***************************************************************************)
(* Types.                                                                  *)
(***************************************************************************)
TenantRow == [slug : Nat, status : TenantStatus]

IdentityRow ==
  [tenant : Nat, handle : Nat, status : IdentityStatus, primary : Nat,
   attributes : StoredAttributes, attributesIV : {<<>>}, version : Nat,
   deactivatedAt : BOOLEAN]

\* A key_ref is local://<tenant>/<identity>/<key type>, or local://<identity>
\* when its tenant and type are absent.
Ref == Nat \X Nat \X (KeyType \cup {""})

KeyRow ==
  [identity : Nat, tenant : Nat, type : KeyType, purpose : KeyPurpose,
   status : KeyStatus, ref : Ref, pair : Nat,
   rotatedTo : Nat]

\* Every table and every handler has the shape the Go structs give it, and the
\* key store holds only generated private keys.
TypeOK ==
  /\ tenants \in Seq(TenantRow)
  /\ identities \in Seq(IdentityRow)
  /\ keys \in Seq(KeyRow)
  /\ minted \in Nat
  /\ \A ref \in DOMAIN vault : vault[ref] \in 1..minted
  /\ tcall \in [THandler -> TenantCall]
  /\ icall \in [IHandler -> IdentityCall]
  /\ kcall \in [KHandler -> KeyCall]

(***************************************************************************)
(* Keys.                                                                   *)
(***************************************************************************)
\* An identity has at most one active key per purpose, whatever generations,
\* rotations and creations overlap (migration 003, identity_keys_active_purpose_unique).
OneActiveKeyPerPurpose ==
  \A j, k \in DOMAIN keys :
    /\ keys[j].status = "active" /\ keys[k].status = "active"
    /\ keys[j].identity = keys[k].identity /\ keys[j].purpose = keys[k].purpose
    => j = k

\* primary_key_id, once set, names a signing key of that very identity in that
\* very tenant, although RotateKey takes the identity from its caller and
\* writes primary_key_id several statements after it inserted the key.
PrimaryKeyOwned ==
  \A i \in DOMAIN identities :
    identities[i].primary # NULL =>
      /\ identities[i].primary \in DOMAIN keys
      /\ LET k == keys[identities[i].primary]
         IN  k.identity = i /\ k.tenant = identities[i].tenant /\ k.purpose = "signing"

\* A rotated key has a successor, and a successor is a later key of the same
\* type, purpose and tenant: following rotated_to always ends.
SuccessionForward ==
  \A k \in DOMAIN keys :
    /\ keys[k].status = "rotated" => keys[k].rotatedTo # NULL
    /\ keys[k].rotatedTo # NULL =>
         /\ keys[k].rotatedTo \in DOMAIN keys
         /\ keys[k].rotatedTo > k
         /\ LET s == keys[keys[k].rotatedTo]
            IN  s.type = keys[k].type /\ s.purpose = keys[k].purpose
                  /\ s.tenant = keys[k].tenant

\* What identifies a key never changes, a key that is no longer active never
\* becomes active again, and a successor once recorded is never erased.
KeyRowsKept ==
  \A k \in DOMAIN keys :
    /\ k \in DOMAIN keys'
    /\ keys'[k].identity = keys[k].identity /\ keys'[k].tenant = keys[k].tenant
    /\ keys'[k].type = keys[k].type /\ keys'[k].purpose = keys[k].purpose
    /\ keys'[k].ref = keys[k].ref /\ keys'[k].pair = keys[k].pair
    /\ keys'[k].status = "active" => keys[k].status = "active"
    /\ keys[k].rotatedTo # NULL => keys'[k].rotatedTo # NULL

\* Every step of every handler keeps the key rows in that sense.
KeyHistory == [][KeyRowsKept]_keys

\* The key CreateIdentity made stays in the key store until the process stops:
\* no later generation for the same identity replaces it.
FirstKeyKept ==
  \A k \in DOMAIN keys :
    keys[k].ref = CreationRef(keys[k].identity) /\ keys[k].ref \in DOMAIN vault
      => vault[keys[k].ref] = keys[k].pair

(***************************************************************************)
(* Identities.                                                             *)
(***************************************************************************)
\* An identity never moves to another tenant or handle, never loses its primary
\* key or its deactivation time, and its attributes change only together with
\* its version, which never decreases.
IdentityRowsKept ==
  \A i \in DOMAIN identities :
    /\ i \in DOMAIN identities'
    /\ identities'[i].tenant = identities[i].tenant
    /\ identities'[i].handle = identities[i].handle
    /\ identities[i].primary # NULL => identities'[i].primary # NULL
    /\ identities[i].deactivatedAt => identities'[i].deactivatedAt
    /\ identities'[i].version >= identities[i].version
    /\ identities'[i].version = identities[i].version =>
         identities'[i].attributes = identities[i].attributes

\* Every step of every handler keeps the identity rows in that sense.
IdentityHistory == [][IdentityRowsKept]_identities

\* An UpdateIdentity that writes replaces exactly the content its caller had
\* read: no update between that read and the write is lost (optimistic lock).
NoLostUpdate ==
  [][\A h \in IHandler :
       /\ icall[h].pc = "update.write" /\ icall'[h] # icall[h]
       /\ identities'[icall[h].identity].version # identities[icall[h].identity].version
       => identities[icall[h].identity].attributes = icall[h].seen]_vars

\* A deactivated identity never leaves that state, as errors.go and enums.go
\* have it.
TerminalIsFinal ==
  [][\A i \in DOMAIN identities :
       IsTerminal(identities[i].status) => IsTerminal(identities'[i].status)]_vars

\* The row is terminal, and so is every decision about its status: no status
\* change and no creation that passed its checks earlier has yet to write it.
Closed(i) ==
  /\ IsTerminal(identities[i].status)
  /\ \A h \in IHandler :
       icall[h].identity = i =>
         icall[h].pc \notin {"status.update", "create.generate", "create.key",
                            "create.primary", "create.activate"}

\* What holds instead, any number of requests overlapping: a deactivation can be
\* undone only by a call that read the row before it, and once the last such
\* call has answered the identity is deactivated for good.
TerminalSettles ==
  [][\A i \in DOMAIN identities : Closed(i) => Closed(i)']_vars

\* A revoked key stays revoked, as repository.go has it.
RevocationIsFinal ==
  [][\A k \in DOMAIN keys :
       keys[k].status = "revoked" => keys'[k].status = "revoked"]_vars

\* The key is revoked, and no rotation that found it usable has yet to mark it.
Withdrawn(k) ==
  /\ keys[k].status = "revoked"
  /\ \A h \in KHandler :
       kcall[h].old = k =>
         kcall[h].pc \notin {"rotate.pair", "rotate.insert", "rotate.mark"}

\* What holds instead, any number of requests overlapping: a revocation can be
\* undone only by a rotation that read the key before it, and once the last
\* such rotation has answered the key is revoked for good.
RevocationSettles ==
  [][\A k \in DOMAIN keys : Withdrawn(k) => Withdrawn(k)']_vars

\* The key is nobody's primary key, and no rotation or creation in flight that
\* inserted it has yet to make it one.
Superseded(k) ==
  /\ \A i \in DOMAIN identities : identities[i].primary # k
  /\ \A h \in KHandler :
       kcall[h].new = k =>
         kcall[h].pc \notin {"rotate.mark", "rotate.identity", "rotate.primary"}
  /\ \A h \in IHandler : icall[h].key = k => icall[h].pc # "create.primary"

\* primary_key_id never comes back to a key it has left, nor reaches the key of
\* a rotation that failed half-way: of two rotations in flight either may write
\* it last, but with its own new key and not with one given up before.
SupersededStays ==
  [][\A k \in DOMAIN keys : Superseded(k) => Superseded(k)']_vars

(***************************************************************************)
(* Audit.                                                                  *)
(***************************************************************************)
\* An identity exists exactly when its creation is recorded, crashes included
\* (row and event are one transaction in IdentityRepo.Create).  The event that
\* closes CreateIdentity comes after the primary key is set, a deactivation is
\* reported after the row is stamped.
LifecycleEventsSound ==
  /\ "identity.created" \in Recorded =>
       DOMAIN identities = {e[2] : e \in {f \in audit : f[1] = "identity.created"}}
  /\ \A e \in audit :
       /\ e[1] \in {"tenant.created", "tenant.suspended"} => e[2] \in DOMAIN tenants
       /\ e[1] = "identity.deactivated" => identities[e[2]].deactivatedAt
       /\ e[1] = "" => identities[e[2]].primary # NULL

\* No key event reports what has not happened: a key reported revoked is not
\* active, and a key reported as the product of a rotation comes after a key
\* of the same type and purpose that is out of service.
KeyEventsSound ==
  \A e \in audit :
    /\ e[1] \in {"key.created", "key.rotated", "key.revoked"} => e[2] \in DOMAIN keys
    /\ e[1] = "key.revoked" => keys[e[2]].status # "active"
    /\ e[1] = "key.rotated" =>
         \E k \in 1..(e[2] - 1) :
           /\ keys[k].status # "active"
           /\ keys[k].type = keys[e[2]].type
           /\ keys[k].purpose = keys[e[2]].purpose

(***************************************************************************)
(* What a call in flight may still rely on, whatever the other handlers do *)
(* between its statements.                                                 *)
(***************************************************************************)
\* RotateKey's snapshot of the old key stays right but for its status, the key
\* it inserted stays the newer key it made, and when it is about to move
\* primary_key_id the identity it was given is in the key's tenant and the key
\* is a signing key.  An event is about to be written only for a done change.
KeyCallSound(c) ==
  /\ c.pc \in RotatePc =>
       /\ c.identity \in DOMAIN identities
       /\ c.old \in DOMAIN keys
       /\ c.tenant = keys[c.old].tenant
       /\ c.type = keys[c.old].type
       /\ c.purpose = keys[c.old].purpose
  /\ c.pc \in {"rotate.mark", "rotate.identity", "rotate.primary", "rotate.audit"} =>
       /\ c.new \in DOMAIN keys
       /\ c.new > c.old
       /\ keys[c.new].identity = c.identity
       /\ keys[c.new].tenant = c.tenant
       /\ keys[c.new].type = c.type
       /\ keys[c.new].purpose = c.purpose
  /\ c.pc \in {"rotate.identity", "rotate.primary", "rotate.audit"} =>
       keys[c.old].status # "active"
  /\ c.pc = "rotate.primary" =>
       identities[c.identity].tenant = c.tenant /\ c.purpose = "signing"
  /\ c.pc = "revoke.update" => c.old \in DOMAIN keys
  /\ c.pc = "revoke.audit" => c.old \in DOMAIN keys /\ keys[c.old].status # "active"
  /\ c.pc = "generate.audit" => c.new \in DOMAIN keys

\* The locals of every RotateKey, RevokeKey and GenerateKey in flight are sound.
KeyCallsSound == \A h \in KHandler : KeyCallSound(kcall[h])

\* CreateIdentity works on a row of the tenant it checked and on a signing key
\* of that row, the status changes on an existing row, and an UpdateIdentity
\* whose version still matches has seen the stored attributes.
IdentityCallSound(c) ==
  /\ c.pc \in CreatePc \ {"create.insert"} =>
       c.identity \in DOMAIN identities /\ identities[c.identity].tenant = c.tenant
  /\ c.pc \in {"create.primary", "create.activate", "create.audit"} =>
       /\ c.key \in DOMAIN keys
       /\ keys[c.key].identity = c.identity
       /\ keys[c.key].tenant = c.tenant
       /\ keys[c.key].purpose = "signing"
  /\ c.pc \in {"create.activate", "create.audit"} => identities[c.identity].primary # NULL
  /\ c.pc \in {"status.update", "status.audit", "update.write"} =>
       c.identity \in DOMAIN identities
  /\ c.pc = "status.audit" /\ c.target = "deactivated" =>
       identities[c.identity].deactivatedAt
  /\ c.pc = "update.write" =>
       /\ c.version <= identities[c.identity].version
       /\ c.version = identities[c.identity].version =>
            c.seen = identities[c.identity].attributes

\* The locals of every identity call in flight are sound.
IdentityCallsSound == \A h \in IHandler : IdentityCallSound(icall[h])

(***************************************************************************)
(* The contract the key tables keep, whatever runs concurrently.           *)
(***************************************************************************)
BookOf ==
  [k \in DOMAIN keys |->
     [holder |-> keys[k].identity, realm |-> keys[k].tenant, type |-> keys[k].type,
      purpose |-> keys[k].purpose, active |-> keys[k].status = "active",
      heir |-> keys[k].rotatedTo]]

RollOf ==
  [i \in DOMAIN identities |->
     [realm |-> identities[i].tenant, signer |-> identities[i].primary]]

Ledger == INSTANCE KeyLedger WITH book <- BookOf, roll <- RollOf

\* Identity creation, key generation, rotation, revocation and crashes, however
\* they overlap, implement the ledger of module KeyLedger: identity_keys and
\* primary_key_id change only by its four operations, one row at a time.
KeyLedgerKept == Ledger!LedgerSpec

(***************************************************************************)
(* What the repository's comments and documents say and the code does not  *)
(* do.  TerminalIsFinal, with two identity handlers, and RevocationIsFinal,*)
(* with two key handlers, are two more.                                    *)
(***************************************************************************)
\* key_service.go:23: RotateKey generates a new key, marks the old one rotated.
\* So when it is about to insert the new key of the old key's own identity,
\* the index on active keys must have room for it.
RotationHasRoom ==
  \A h \in KHandler :
    kcall[h].pc = "rotate.insert" /\ kcall[h].identity = keys[kcall[h].old].identity
      => NoActiveKey(kcall[h].identity, kcall[h].purpose)

=============================================================================
