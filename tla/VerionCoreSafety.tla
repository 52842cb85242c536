-------------------------- MODULE VerionCoreSafety --------------------------
(***************************************************************************)
(* The safety invariants of VerionCore, for every set of handlers, every   *)
(* seed and every bound.                                                   *)
(*                                                                         *)
(* None of the invariants on the tables is inductive: a handler writes     *)
(* rotated_to and primary_key_id from locals it filled several statements  *)
(* earlier.  IInv adds what those locals still guarantee (KeyCallsSound,   *)
(* IdentityCallsSound).  The proof has three layers:                       *)
(*   1. under IInv every step changes the tables only in the ways listed   *)
(*      by KeyTableStep and IdentityTableStep;                             *)
(*   2. those changes preserve the invariants on the tables and keep the   *)
(*      rows in the sense of KeyRowsKept and IdentityRowsKept;             *)
(*   3. kept rows preserve the locals of every handler that does not move, *)
(*      so only the moving handler is left to check, action by action.     *)
(***************************************************************************)
EXTENDS VerionCoreTyping

TablesInv == OneActiveKeyPerPurpose /\ PrimaryKeyOwned /\ SuccessionForward

IInv == TypeOK /\ TablesInv /\ KeyCallsSound /\ IdentityCallsSound

(***************************************************************************)
(* Layer 1: what a step may do to the tables.                              *)
(***************************************************************************)
KeyInsertion ==
  \E t \in Nat, i \in Nat, type \in KeyType, purpose \in KeyPurpose, ref \in Ref, pair \in Nat :
    NoActiveKey(i, purpose) /\ KeyCreate(t, i, type, purpose, ref, pair)

KeyRotation ==
  \E old \in DOMAIN keys, new \in DOMAIN keys :
    /\ new > old
    /\ keys[new].tenant = keys[old].tenant
    /\ keys[new].type = keys[old].type
    /\ keys[new].purpose = keys[old].purpose
    /\ KeyRotate(old, new)

KeyRevocation == \E k \in DOMAIN keys : KeyRevoke(k)

KeyTableStep == UNCHANGED keys \/ KeyInsertion \/ KeyRotation \/ KeyRevocation

IdentityInsertion ==
  \E t \in Nat, handle \in Handle, attributes \in StoredAttributes :
    IdentityCreate(t, handle, attributes)

IdentityChange ==
  \E i \in DOMAIN identities :
    \/ \E attributes \in StoredAttributes : IdentityUpdate(i, attributes)
    \/ \E status \in IdentityStatus : IdentityUpdateStatus(i, status)

PrimaryKeyChange ==
  \E i \in DOMAIN identities, k \in DOMAIN keys :
    /\ keys[k].identity = i
    /\ keys[k].tenant = identities[i].tenant
    /\ keys[k].purpose = "signing"
    /\ IdentitySetPrimaryKey(i, k)

IdentityTableStep ==
  UNCHANGED identities \/ IdentityInsertion \/ IdentityChange \/ PrimaryKeyChange

\* Every statement a tenant handler runs leaves identities and keys alone.
LEMMA TenantStepTables ==
  ASSUME NEW h \in THandler, TenantStep(h)
  PROVE  UNCHANGED <<identities, keys>>
  BY DEF TenantStep, CreateTenant, CreateTenantAudit, SuspendTenant, SuspendTenantUpdate,
         SuspendTenantAudit, ActivateTenant, ActivateTenantUpdate, TAbort, tables

\* An identity handler inserts a key only where the index admits it and sets
\* primary_key_id only to the key it inserted for that identity.
LEMMA IdentityStepTables ==
  ASSUME IInv, NEW h \in IHandler, IdentityStep(h)
  PROVE  KeyTableStep /\ IdentityTableStep
  <1> USE DEF KeyTableStep, IdentityTableStep, tables
  <1>0. icall[h] \in IdentityCall /\ IdentityCallSound(icall[h])
    BY DEF IInv, TypeOK, IdentityCallsSound
  <1>1. CASE CreateIdentityInsert(h)
    <2>1. icall[h].tenant \in Nat
      BY <1>0 DEF IdentityCall
    <2> QED
      BY <1>1, <2>1, StoredForms DEF CreateIdentityInsert, IdentityInsertion
  <1>2. CASE CreateIdentityKey(h)
    <2>1. /\ icall[h].tenant \in Nat /\ icall[h].identity \in Nat /\ icall[h].pair \in Nat
          /\ "ed25519" \in KeyType /\ "signing" \in KeyPurpose
      BY <1>0 DEF IdentityCall, KeyType, KeyPurpose
    <2>2. CreationRef(icall[h].identity) \in Ref
      BY <2>1, CreationRefType
    <2> QED
      BY <1>2, <2>1, <2>2 DEF CreateIdentityKey, KeyInsertion
  <1>3. CASE CreateIdentityPrimary(h)
    BY <1>0, <1>3 DEF CreateIdentityPrimary, IdentityCallSound, CreatePc, PrimaryKeyChange
  <1>4. CASE CreateIdentityActivate(h)
    BY <1>0, <1>4
      DEF CreateIdentityActivate, IdentityCallSound, CreatePc, IdentityChange, IdentityStatus
  <1>5. CASE ChangeStatusUpdate(h)
    <2>1. icall[h].target \in IdentityStatus
      BY <1>0 DEF IdentityCall
    <2> QED
      BY <1>0, <1>5, <2>1 DEF ChangeStatusUpdate, IdentityCallSound, IdentityChange
  <1>6. CASE UpdateIdentity(h)
    BY <1>0, <1>6, StoredForms DEF UpdateIdentity, IdentityCallSound, IdentityChange
  <1>7. CASE \/ CreateIdentity(h) \/ CreateIdentityGenerate(h) \/ CreateIdentityAudit(h)
             \/ DeactivateIdentity(h) \/ SuspendIdentity(h) \/ ReactivateIdentity(h)
             \/ ChangeStatusAudit(h) \/ ReadForUpdate(h) \/ IAbort(h)
    BY <1>7 DEF CreateIdentity, CreateIdentityGenerate, CreateIdentityAudit,
                DeactivateIdentity, SuspendIdentity, ReactivateIdentity, ReadNotTerminal,
                ChangeStatusAudit, ReadForUpdate, IAbort
  <1> QED
    BY <1>1, <1>2, <1>3, <1>4, <1>5, <1>6, <1>7 DEF IdentityStep

\* A key handler marks a key rotated only towards the newer key it inserted from
\* that key's tenant, type and purpose, and moves primary_key_id only to that key.
LEMMA KeyStepTables ==
  ASSUME IInv, NEW h \in KHandler, KeyStep(h)
  PROVE  KeyTableStep /\ IdentityTableStep
  <1> USE DEF KeyTableStep, IdentityTableStep, tables
  <1>0. kcall[h] \in KeyCall /\ KeyCallSound(kcall[h])
    BY DEF IInv, TypeOK, KeyCallsSound
  <1>1. CASE GenerateKeyInsert(h) \/ RotateKeyInsert(h)
    <2>1. /\ kcall[h].tenant \in Nat /\ kcall[h].identity \in Nat /\ kcall[h].pair \in Nat
          /\ kcall[h].type \in KeyType /\ kcall[h].purpose \in KeyPurpose
      BY <1>0 DEF KeyCall
    <2>2. CryptoKeyID(kcall[h]) \in Ref
      BY <2>1 DEF CryptoKeyID, Ref
    <2>3. UNCHANGED keys \/ KeyInsertion
      BY <1>1, <2>1, <2>2 DEF GenerateKeyInsert, RotateKeyInsert, InsertKey, KeyInsertion
    <2> QED
      BY <1>1, <2>3 DEF GenerateKeyInsert, RotateKeyInsert, InsertKey
  <1>2. CASE RotateKeyMark(h)
    BY <1>0, <1>2 DEF RotateKeyMark, KeyCallSound, RotatePc, KeyRotation
  <1>3. CASE RotateKeyPrimary(h)
    BY <1>0, <1>3 DEF RotateKeyPrimary, KeyCallSound, RotatePc, PrimaryKeyChange
  <1>4. CASE RevokeKeyUpdate(h)
    BY <1>0, <1>4 DEF RevokeKeyUpdate, KeyCallSound, KeyRevocation
  <1>5. CASE \/ GenerateKey(h) \/ GenerateKeyKeyPair(h) \/ GenerateKeyAudit(h)
             \/ RotateKey(h) \/ RotateKeyKeyPair(h) \/ RotateKeyIdentity(h)
             \/ RotateKeyAudit(h) \/ RevokeKey(h) \/ RevokeKeyAudit(h) \/ KAbort(h)
    BY <1>5 DEF GenerateKey, GenerateKeyKeyPair, GenerateKeyPair, GenerateKeyAudit,
                RotateKey, RotateKeyKeyPair, RotateKeyIdentity, RotateKeyAudit,
                AuditKeyEvent, RevokeKey, RevokeKeyAudit, KAbort
  <1> QED
    BY <1>1, <1>2, <1>3, <1>4, <1>5 DEF KeyStep

\* Every step of the system changes the tables in one of the listed ways.
LEMMA NextTables ==
  ASSUME IInv, [Next]_vars
  PROVE  KeyTableStep /\ IdentityTableStep
  <1>1. CASE \E h \in THandler : TenantStep(h)
    BY <1>1, TenantStepTables DEF KeyTableStep, IdentityTableStep
  <1>2. CASE \E h \in IHandler : IdentityStep(h)
    BY <1>2, IdentityStepTables
  <1>3. CASE \E h \in KHandler : KeyStep(h)
    BY <1>3, KeyStepTables
  <1>4. CASE Restart \/ UNCHANGED vars
    BY <1>4 DEF Restart, vars, tables, KeyTableStep, IdentityTableStep
  <1> QED
    BY <1>1, <1>2, <1>3, <1>4 DEF Next

(***************************************************************************)
(* Layer 2: the listed changes keep rows and invariants.                   *)
(***************************************************************************)
\* The key inserted last is the newest, active and without successor; the older
\* rows are as they were.
LEMMA KeyCreateEffect ==
  ASSUME keys \in Seq(KeyRow), NEW t \in Nat, NEW i \in Nat, NEW type \in KeyType,
         NEW purpose \in KeyPurpose, NEW ref \in Ref, NEW pair \in Nat,
         KeyCreate(t, i, type, purpose, ref, pair)
  PROVE  /\ DOMAIN keys' = DOMAIN keys \cup {Len(keys) + 1}
         /\ \A k \in DOMAIN keys : keys'[k] = keys[k] /\ Len(keys) + 1 > k
         /\ keys'[Len(keys) + 1].identity = i
         /\ keys'[Len(keys) + 1].tenant = t
         /\ keys'[Len(keys) + 1].type = type
         /\ keys'[Len(keys) + 1].purpose = purpose
         /\ keys'[Len(keys) + 1].status = "active"
         /\ keys'[Len(keys) + 1].rotatedTo = NULL
  <1> DEFINE row == [identity |-> i, tenant |-> t, type |-> type, purpose |-> purpose,
                     status |-> "active", ref |-> ref, pair |-> pair, rotatedTo |-> NULL]
  <1>1. row \in KeyRow
    BY DEF KeyRow, KeyStatus, NULL
  <1>2. keys' = Append(keys, row)
    BY DEF KeyCreate
  <1>3. /\ row.identity = i /\ row.tenant = t /\ row.type = type /\ row.purpose = purpose
        /\ row.status = "active" /\ row.rotatedTo = NULL
    OBVIOUS
  <1>4. \A k \in DOMAIN keys : Len(keys) + 1 > k
    OBVIOUS
  <1> HIDE DEF row
  <1> QED
    BY <1>1, <1>2, <1>3, <1>4, AppendKeepsType

\* The same for an insertion the unique index admitted.
LEMMA KeyInsertionEffect ==
  ASSUME keys \in Seq(KeyRow), KeyInsertion
  PROVE  \E i \in Nat, purpose \in KeyPurpose :
           /\ NoActiveKey(i, purpose)
           /\ DOMAIN keys' = DOMAIN keys \cup {Len(keys) + 1}
           /\ \A k \in DOMAIN keys : keys'[k] = keys[k] /\ Len(keys) + 1 > k
           /\ keys'[Len(keys) + 1].identity = i
           /\ keys'[Len(keys) + 1].purpose = purpose
           /\ keys'[Len(keys) + 1].status = "active"
           /\ keys'[Len(keys) + 1].rotatedTo = NULL
  BY KeyCreateEffect DEF KeyInsertion

\* Rotate changes the status and the successor of the old key, nothing else.
LEMMA KeyRotateEffect ==
  ASSUME keys \in Seq(KeyRow), NEW old \in DOMAIN keys, NEW new \in Nat, KeyRotate(old, new)
  PROVE  /\ DOMAIN keys' = DOMAIN keys
         /\ \A k \in DOMAIN keys \ {old} : keys'[k] = keys[k]
         /\ keys'[old].status = "rotated" /\ keys'[old].rotatedTo = new
         /\ keys'[old].identity = keys[old].identity /\ keys'[old].tenant = keys[old].tenant
         /\ keys'[old].type = keys[old].type /\ keys'[old].purpose = keys[old].purpose
         /\ keys'[old].ref = keys[old].ref /\ keys'[old].pair = keys[old].pair
  <1>1. keys[old] \in KeyRow
    BY IdsAreNat
  <1> DEFINE row == [keys[old] EXCEPT !.status = "rotated", !.rotatedTo = new]
  <1>2. keys' = [keys EXCEPT ![old] = row]
    BY DEF KeyRotate
  <1>3. /\ row.status = "rotated" /\ row.rotatedTo = new
        /\ row.identity = keys[old].identity /\ row.tenant = keys[old].tenant
        /\ row.type = keys[old].type /\ row.purpose = keys[old].purpose
        /\ row.ref = keys[old].ref /\ row.pair = keys[old].pair
    BY <1>1 DEF KeyRow
  <1> HIDE DEF row
  <1> QED
    BY <1>2, <1>3

\* Revoke changes the status of the key, nothing else.
LEMMA KeyRevokeEffect ==
  ASSUME keys \in Seq(KeyRow), NEW k \in DOMAIN keys, KeyRevoke(k)
  PROVE  /\ DOMAIN keys' = DOMAIN keys
         /\ \A j \in DOMAIN keys \ {k} : keys'[j] = keys[j]
         /\ keys'[k] = [keys[k] EXCEPT !.status = "revoked"]
  BY DEF KeyRevoke

\* The listed changes of identity_keys keep the rows.
LEMMA KeyTableKeepsRows ==
  ASSUME keys \in Seq(KeyRow), KeyTableStep
  PROVE  KeyRowsKept
  <1>0. \A k \in DOMAIN keys : k \in Nat /\ k # NULL /\ keys[k] \in KeyRow
    BY IdsAreNat
  <1>1. CASE UNCHANGED keys
    BY <1>1 DEF KeyRowsKept
  <1>2. CASE KeyInsertion
    BY <1>2, KeyInsertionEffect DEF KeyRowsKept
  <1>3. CASE KeyRotation
    <2>1. PICK old \in DOMAIN keys, new \in DOMAIN keys : KeyRotate(old, new)
      BY <1>3 DEF KeyRotation
    <2>2. new \in Nat /\ new # NULL
      BY <1>0
    <2> QED
      BY <2>1, <2>2, KeyRotateEffect DEF KeyRowsKept
  <1>4. CASE KeyRevocation
    <2>1. PICK k \in DOMAIN keys : KeyRevoke(k)
      BY <1>4 DEF KeyRevocation
    <2>2. keys[k] \in KeyRow
      BY <1>0
    <2>3. /\ DOMAIN keys' = DOMAIN keys
          /\ \A j \in DOMAIN keys \ {k} : keys'[j] = keys[j]
          /\ keys'[k] = [keys[k] EXCEPT !.status = "revoked"]
      BY <2>1, KeyRevokeEffect
    <2>4. /\ keys'[k].identity = keys[k].identity /\ keys'[k].tenant = keys[k].tenant
          /\ keys'[k].type = keys[k].type /\ keys'[k].purpose = keys[k].purpose
          /\ keys'[k].ref = keys[k].ref /\ keys'[k].pair = keys[k].pair
          /\ keys'[k].status = "revoked" /\ keys'[k].rotatedTo = keys[k].rotatedTo
      BY <2>2, <2>3 DEF KeyRow
    <2> QED
      BY <2>3, <2>4 DEF KeyRowsKept
  <1> QED
    BY <1>1, <1>2, <1>3, <1>4 DEF KeyTableStep

\* The unique index keeps one active key per identity and purpose: no other
\* statement makes a key active.
LEMMA KeyTableOneActive ==
  ASSUME keys \in Seq(KeyRow), OneActiveKeyPerPurpose, KeyTableStep
  PROVE  OneActiveKeyPerPurpose'
  <1>1. KeyRowsKept
    BY KeyTableKeepsRows
  <1>2. CASE KeyInsertion
    BY <1>2, KeyInsertionEffect DEF OneActiveKeyPerPurpose, NoActiveKey
  <1>3. CASE DOMAIN keys' = DOMAIN keys
    BY <1>1, <1>3 DEF OneActiveKeyPerPurpose, KeyRowsKept
  <1>4. KeyRotation \/ KeyRevocation => DOMAIN keys' = DOMAIN keys
    BY IdsAreNat, KeyRotateEffect, KeyRevokeEffect DEF KeyRotation, KeyRevocation
  <1> QED
    BY <1>2, <1>3, <1>4 DEF KeyTableStep

\* Succession stays forward: Rotate writes a newer key of the same kind.
LEMMA KeyTableSuccession ==
  ASSUME keys \in Seq(KeyRow), SuccessionForward, KeyTableStep
  PROVE  SuccessionForward'
  <1>0. \A k \in DOMAIN keys : k \in Nat /\ k # NULL /\ keys[k] \in KeyRow
    BY IdsAreNat
  <1>1. CASE UNCHANGED keys
    BY <1>1 DEF SuccessionForward
  <1>2. CASE KeyInsertion
    BY <1>2, KeyInsertionEffect DEF SuccessionForward
  <1>3. CASE KeyRotation
    <2>1. PICK old \in DOMAIN keys, new \in DOMAIN keys :
            /\ new > old
            /\ keys[new].tenant = keys[old].tenant
            /\ keys[new].type = keys[old].type
            /\ keys[new].purpose = keys[old].purpose
            /\ KeyRotate(old, new)
      BY <1>3 DEF KeyRotation
    <2>2. old \in Nat /\ new \in Nat /\ new # NULL /\ new # old
      BY <1>0, <2>1
    <2>3. /\ keys'[old].status = "rotated" /\ keys'[old].rotatedTo = new
          /\ keys'[old].type = keys[old].type
          /\ keys'[old].purpose = keys[old].purpose
          /\ keys'[old].tenant = keys[old].tenant
      BY <2>1, <2>2, KeyRotateEffect
    <2>4. KeyRowsKept
      BY <1>3, KeyTableKeepsRows DEF KeyTableStep
    <2>5. DOMAIN keys' = DOMAIN keys /\ \A k \in DOMAIN keys \ {old} : keys'[k] = keys[k]
      BY <2>1, <2>2, KeyRotateEffect
    <2> QED
      BY <2>1, <2>2, <2>3, <2>4, <2>5 DEF SuccessionForward, KeyRowsKept
  <1>4. CASE KeyRevocation
    <2>1. PICK k \in DOMAIN keys : KeyRevoke(k)
      BY <1>4 DEF KeyRevocation
    <2>2. keys[k] \in KeyRow
      BY <1>0
    <2>3. keys'[k].status = "revoked" /\ keys'[k].rotatedTo = keys[k].rotatedTo
      BY <2>1, <2>2, KeyRevokeEffect DEF KeyRow
    <2>4. KeyRowsKept
      BY <1>4, KeyTableKeepsRows DEF KeyTableStep
    <2>5. DOMAIN keys' = DOMAIN keys /\ \A j \in DOMAIN keys \ {k} : keys'[j] = keys[j]
      BY <2>1, KeyRevokeEffect
    <2> QED
      BY <2>3, <2>4, <2>5 DEF SuccessionForward, KeyRowsKept
  <1> QED
    BY <1>1, <1>2, <1>3, <1>4 DEF KeyTableStep

\* A new identity is in the tenant it was created for and has no primary key; the
\* older rows are as they were.
LEMMA IdentityCreateEffect ==
  ASSUME identities \in Seq(IdentityRow), NEW t \in Nat, NEW handle \in Handle,
         NEW attributes \in StoredAttributes, IdentityCreate(t, handle, attributes)
  PROVE  /\ DOMAIN identities' = DOMAIN identities \cup {Len(identities) + 1}
         /\ \A i \in DOMAIN identities : identities'[i] = identities[i]
         /\ identities'[Len(identities) + 1].tenant = t
         /\ identities'[Len(identities) + 1].primary = NULL
         /\ identities'[Len(identities) + 1].status = "pending"
  <1> DEFINE row == [tenant |-> t, handle |-> handle, status |-> "pending",
                     primary |-> NULL, attributes |-> attributes, attributesIV |-> <<>>,
                     version |-> 1, deactivatedAt |-> FALSE]
  <1>1. row \in IdentityRow
    BY CallerInputs DEF IdentityRow, IdentityStatus, NULL
  <1>2. /\ identities' = Append(identities, row)
        /\ row.primary = NULL /\ row.tenant = t /\ row.status = "pending"
    BY DEF IdentityCreate
  <1> HIDE DEF row
  <1> QED
    BY <1>1, <1>2, AppendKeepsType

\* The same for the insertion of some identity.
LEMMA IdentityInsertionEffect ==
  ASSUME identities \in Seq(IdentityRow), IdentityInsertion
  PROVE  /\ DOMAIN identities' = DOMAIN identities \cup {Len(identities) + 1}
         /\ \A i \in DOMAIN identities : identities'[i] = identities[i]
         /\ identities'[Len(identities) + 1].primary = NULL
  BY IdentityCreateEffect DEF IdentityInsertion

\* UpdateIdentity and the status changes touch one row, and of it neither the
\* tenant nor the handle nor the primary key; the version moves with the
\* attributes and the deactivation time is never cleared.
LEMMA IdentityChangeEffect ==
  ASSUME identities \in Seq(IdentityRow), IdentityChange
  PROVE  \E i \in DOMAIN identities :
           /\ DOMAIN identities' = DOMAIN identities
           /\ \A j \in DOMAIN identities \ {i} : identities'[j] = identities[j]
           /\ identities'[i].tenant = identities[i].tenant
           /\ identities'[i].handle = identities[i].handle
           /\ identities'[i].primary = identities[i].primary
           /\ identities[i].deactivatedAt => identities'[i].deactivatedAt
           /\ \/ identities'[i].version = identities[i].version + 1
              \/ /\ identities'[i].version = identities[i].version
                 /\ identities'[i].attributes = identities[i].attributes
  <1>1. PICK i \in DOMAIN identities :
          \/ \E attributes \in StoredAttributes : IdentityUpdate(i, attributes)
          \/ \E status \in IdentityStatus : IdentityUpdateStatus(i, status)
    BY DEF IdentityChange
  <1>2. identities[i] \in IdentityRow
    BY IdsAreNat
  <1>3. CASE \E attributes \in StoredAttributes : IdentityUpdate(i, attributes)
    <2>1. PICK attributes \in StoredAttributes : IdentityUpdate(i, attributes)
      BY <1>3
    <2> DEFINE row == [identities[i] EXCEPT !.attributes = attributes,
                                            !.attributesIV = <<>>, !.version = @ + 1]
    <2>2. identities' = [identities EXCEPT ![i] = row]
      BY <2>1 DEF IdentityUpdate
    <2>3. /\ row.tenant = identities[i].tenant /\ row.handle = identities[i].handle
          /\ row.primary = identities[i].primary
          /\ row.deactivatedAt = identities[i].deactivatedAt
          /\ row.version = identities[i].version + 1
      BY <1>2 DEF IdentityRow
    <2> HIDE DEF row
    <2> QED
      BY <2>2, <2>3
  <1>4. CASE \E status \in IdentityStatus : IdentityUpdateStatus(i, status)
    <2>1. PICK status \in IdentityStatus : IdentityUpdateStatus(i, status)
      BY <1>4
    <2> DEFINE row == [identities[i] EXCEPT !.status = status,
                                            !.deactivatedAt = IsTerminal(status) \/ @]
    <2>2. identities' = [identities EXCEPT ![i] = row]
      BY <2>1 DEF IdentityUpdateStatus
    <2>3. /\ row.tenant = identities[i].tenant /\ row.handle = identities[i].handle
          /\ row.primary = identities[i].primary
          /\ row.version = identities[i].version
          /\ row.attributes = identities[i].attributes
      BY <1>2 DEF IdentityRow
    <2>4. identities[i].deactivatedAt => row.deactivatedAt
      BY <1>2 DEF IdentityRow
    <2> HIDE DEF row
    <2> QED
      BY <2>2, <2>3, <2>4
  <1> QED
    BY <1>1, <1>3, <1>4

\* SetPrimaryKey changes the primary key of one identity, nothing else.
LEMMA SetPrimaryKeyEffect ==
  ASSUME identities \in Seq(IdentityRow), NEW i \in DOMAIN identities, NEW k \in Nat,
         IdentitySetPrimaryKey(i, k)
  PROVE  /\ DOMAIN identities' = DOMAIN identities
         /\ \A j \in DOMAIN identities \ {i} : identities'[j] = identities[j]
         /\ identities'[i].primary = k
         /\ identities'[i].status = identities[i].status
         /\ identities'[i].tenant = identities[i].tenant
         /\ identities'[i].handle = identities[i].handle
         /\ identities'[i].deactivatedAt = identities[i].deactivatedAt
         /\ identities'[i].version = identities[i].version
         /\ identities'[i].attributes = identities[i].attributes
  <1>1. identities[i] \in IdentityRow
    BY IdsAreNat
  <1> DEFINE row == [identities[i] EXCEPT !.primary = k]
  <1>2. identities' = [identities EXCEPT ![i] = row]
    BY DEF IdentitySetPrimaryKey
  <1>3. /\ row.primary = k /\ row.status = identities[i].status
        /\ row.tenant = identities[i].tenant /\ row.handle = identities[i].handle
        /\ row.deactivatedAt = identities[i].deactivatedAt
        /\ row.version = identities[i].version
        /\ row.attributes = identities[i].attributes
    BY <1>1 DEF IdentityRow
  <1> HIDE DEF row
  <1> QED
    BY <1>2, <1>3

\* The listed changes of identities keep the rows.
LEMMA IdentityTableKeepsRows ==
  ASSUME identities \in Seq(IdentityRow), keys \in Seq(KeyRow), IdentityTableStep
  PROVE  IdentityRowsKept
  <1>0. \A i \in DOMAIN identities : identities[i].version \in Nat
    <2>1. \A i \in DOMAIN identities : identities[i] \in IdentityRow
      BY IdsAreNat
    <2> QED
      BY <2>1 DEF IdentityRow
  <1>1. CASE UNCHANGED identities
    BY <1>0, <1>1 DEF IdentityRowsKept
  <1>2. CASE IdentityInsertion
    BY <1>0, <1>2, IdentityInsertionEffect DEF IdentityRowsKept
  <1>3. CASE IdentityChange
    BY <1>0, <1>3, IdentityChangeEffect DEF IdentityRowsKept
  <1>4. CASE PrimaryKeyChange
    <2>1. PICK i \in DOMAIN identities, k \in DOMAIN keys : IdentitySetPrimaryKey(i, k)
      BY <1>4 DEF PrimaryKeyChange
    <2>2. k \in Nat /\ k # NULL
      BY IdsAreNat
    <2> QED
      BY <1>0, <2>1, <2>2, SetPrimaryKeyEffect DEF IdentityRowsKept
  <1> QED
    BY <1>1, <1>2, <1>3, <1>4 DEF IdentityTableStep

\* The primary key stays a signing key of its identity and tenant.
LEMMA TablesPrimaryOwned ==
  ASSUME identities \in Seq(IdentityRow), keys \in Seq(KeyRow), PrimaryKeyOwned,
         KeyTableStep, IdentityTableStep
  PROVE  PrimaryKeyOwned'
  <1>1. KeyRowsKept /\ IdentityRowsKept
    BY KeyTableKeepsRows, IdentityTableKeepsRows
  <1>2. CASE UNCHANGED identities
    BY <1>1, <1>2 DEF PrimaryKeyOwned, KeyRowsKept
  <1>3. CASE IdentityInsertion
    BY <1>1, <1>3, IdentityInsertionEffect DEF PrimaryKeyOwned, KeyRowsKept
  <1>4. CASE IdentityChange
    <2>1. /\ DOMAIN identities' = DOMAIN identities
          /\ \A i \in DOMAIN identities : /\ identities'[i].primary = identities[i].primary
                                          /\ identities'[i].tenant = identities[i].tenant
      BY <1>4, IdentityChangeEffect
    <2> QED
      BY <1>1, <2>1 DEF PrimaryKeyOwned, KeyRowsKept
  <1>5. CASE PrimaryKeyChange
    <2>1. PICK i \in DOMAIN identities, k \in DOMAIN keys :
            /\ keys[k].identity = i
            /\ keys[k].tenant = identities[i].tenant
            /\ keys[k].purpose = "signing"
            /\ IdentitySetPrimaryKey(i, k)
      BY <1>5 DEF PrimaryKeyChange
    <2>2. k \in Nat
      BY IdsAreNat
    <2>3. /\ DOMAIN identities' = DOMAIN identities
          /\ \A j \in DOMAIN identities \ {i} : identities'[j] = identities[j]
          /\ identities'[i].primary = k
          /\ identities'[i].tenant = identities[i].tenant
      BY <2>1, <2>2, SetPrimaryKeyEffect
    <2> QED
      BY <1>1, <2>1, <2>3 DEF PrimaryKeyOwned, KeyRowsKept
  <1> QED
    BY <1>2, <1>3, <1>4, <1>5 DEF IdentityTableStep

(***************************************************************************)
(* Layer 3: the locals of the calls in flight.                             *)
(***************************************************************************)
\* A handler that does not move keeps its guarantees while others move.
LEMMA KeyCallKept ==
  ASSUME KeyRowsKept, IdentityRowsKept, NEW h \in KHandler, kcall'[h] = kcall[h],
         KeyCallSound(kcall[h])
  PROVE  KeyCallSound(kcall[h])'
  <1> DEFINE c == kcall[h]
  <1>0. kcall'[h] = c /\ KeyCallSound(c)
    OBVIOUS
  <1>1. c.pc \in RotatePc =>
          /\ c.identity \in DOMAIN identities'
          /\ c.old \in DOMAIN keys'
          /\ c.tenant = keys'[c.old].tenant
          /\ c.type = keys'[c.old].type
          /\ c.purpose = keys'[c.old].purpose
    BY <1>0 DEF KeyCallSound, KeyRowsKept, IdentityRowsKept
  <1>2. c.pc \in {"rotate.mark", "rotate.identity", "rotate.primary", "rotate.audit"} =>
          /\ c.new \in DOMAIN keys'
          /\ c.new > c.old
          /\ keys'[c.new].identity = c.identity
          /\ keys'[c.new].tenant = c.tenant
          /\ keys'[c.new].type = c.type
          /\ keys'[c.new].purpose = c.purpose
    BY <1>0 DEF KeyCallSound, KeyRowsKept
  <1>3. c.pc \in {"rotate.identity", "rotate.primary", "rotate.audit"} =>
          keys'[c.old].status # "active"
    BY <1>0 DEF KeyCallSound, KeyRowsKept, RotatePc
  <1>4. c.pc = "rotate.primary" =>
          identities'[c.identity].tenant = c.tenant /\ c.purpose = "signing"
    BY <1>0 DEF KeyCallSound, IdentityRowsKept, RotatePc
  <1>5. /\ c.pc = "revoke.update" => c.old \in DOMAIN keys'
        /\ c.pc = "revoke.audit" => c.old \in DOMAIN keys' /\ keys'[c.old].status # "active"
        /\ c.pc = "generate.audit" => c.new \in DOMAIN keys'
    BY <1>0 DEF KeyCallSound, KeyRowsKept
  <1> QED
    BY <1>0, <1>1, <1>2, <1>3, <1>4, <1>5 DEF KeyCallSound

\* The same for the identity handlers; the version of a row never decreases and
\* its attributes move with it.
LEMMA IdentityCallKept ==
  ASSUME KeyRowsKept, IdentityRowsKept, TypeOK, TypeOK', NEW h \in IHandler,
         icall'[h] = icall[h], IdentityCallSound(icall[h])
  PROVE  IdentityCallSound(icall[h])'
  <1>1. /\ icall[h].version \in Nat
        /\ \A i \in DOMAIN identities : identities[i].version \in Nat
        /\ \A i \in DOMAIN identities' : identities'[i].version \in Nat
    <2>1. icall[h] \in IdentityCall
      BY DEF TypeOK
    <2>2. /\ \A i \in DOMAIN identities : identities[i] \in IdentityRow
          /\ \A i \in DOMAIN identities' : identities'[i] \in IdentityRow
      BY IdsAreNat DEF TypeOK
    <2> QED
      BY <2>1, <2>2 DEF IdentityCall, IdentityRow
  <1> DEFINE c == icall[h]
  <1>2. icall'[h] = c /\ IdentityCallSound(c)
    OBVIOUS
  <1>3. c.pc \in CreatePc \ {"create.insert"} =>
          c.identity \in DOMAIN identities' /\ identities'[c.identity].tenant = c.tenant
    BY <1>2 DEF IdentityCallSound, IdentityRowsKept
  <1>4. c.pc \in {"create.primary", "create.activate", "create.audit"} =>
          /\ c.key \in DOMAIN keys'
          /\ keys'[c.key].identity = c.identity
          /\ keys'[c.key].tenant = c.tenant
          /\ keys'[c.key].purpose = "signing"
    BY <1>2 DEF IdentityCallSound, KeyRowsKept
  <1>5. c.pc \in {"create.activate", "create.audit"} => identities'[c.identity].primary # NULL
    BY <1>2 DEF IdentityCallSound, IdentityRowsKept, CreatePc
  <1>6. /\ c.pc \in {"status.update", "status.audit", "update.write"} =>
             c.identity \in DOMAIN identities'
        /\ c.pc = "status.audit" /\ c.target = "deactivated" =>
             identities'[c.identity].deactivatedAt
    BY <1>2 DEF IdentityCallSound, IdentityRowsKept
  <1>7. c.pc = "update.write" =>
          /\ c.version <= identities'[c.identity].version
          /\ c.version = identities'[c.identity].version =>
               c.seen = identities'[c.identity].attributes
    BY <1>1, <1>2 DEF IdentityCallSound, IdentityRowsKept
  <1> QED
    BY <1>2, <1>3, <1>4, <1>5, <1>6, <1>7 DEF IdentityCallSound

\* Only the moving key handler changes its locals.
LEMMA KeyStepMovesOne ==
  ASSUME NEW h \in KHandler, KeyStep(h), kcall \in [KHandler -> KeyCall]
  PROVE  \A g \in KHandler \ {h} : kcall'[g] = kcall[g]
  BY DEF KeyStep, GenerateKey, GenerateKeyKeyPair, GenerateKeyInsert, GenerateKeyAudit,
         RotateKey, RotateKeyKeyPair, RotateKeyInsert, RotateKeyMark, RotateKeyIdentity,
         RotateKeyPrimary, RotateKeyAudit, RevokeKey, RevokeKeyUpdate, RevokeKeyAudit,
         KAbort, GenerateKeyPair, InsertKey, AuditKeyEvent, KGoto, KReturn

\* What RotateKey relies on once it has inserted the new key.
RotationSound(c) ==
  /\ c.identity \in DOMAIN identities
  /\ c.old \in DOMAIN keys /\ c.new \in DOMAIN keys /\ c.new > c.old
  /\ keys[c.old].tenant = c.tenant /\ keys[c.old].type = c.type
  /\ keys[c.old].purpose = c.purpose
  /\ keys[c.new].identity = c.identity /\ keys[c.new].tenant = c.tenant
  /\ keys[c.new].type = c.type /\ keys[c.new].purpose = c.purpose

\* The moving key handler establishes its guarantees, action by action.
LEMMA KeyStepOwnCall ==
  ASSUME IInv, TypeOK', NEW h \in KHandler, KeyStep(h), KeyRowsKept, IdentityRowsKept
  PROVE  KeyCallSound(kcall[h])'
  <1>0. /\ kcall \in [KHandler -> KeyCall] /\ kcall[h] \in KeyCall
        /\ KeyCallSound(kcall[h])
        /\ identities \in Seq(IdentityRow) /\ keys \in Seq(KeyRow)
        /\ PrimaryKeyOwned
    BY DEF IInv, TablesInv, TypeOK, KeyCallsSound
  <1>1. ASSUME KReturn(h) PROVE KeyCallSound(kcall[h])'
    <2>1. kcall'[h] = KeyIdle
      BY <1>0, <1>1 DEF KReturn
    <2> QED
      BY <2>1 DEF KeyCallSound, KeyIdle, RotatePc
  <1>2. CASE GenerateKey(h)
    <2>1. kcall'[h].pc = "generate.pair"
      BY <1>0, <1>2 DEF GenerateKey, KeyIdle
    <2> QED
      BY <2>1 DEF KeyCallSound, RotatePc
  <1>3. CASE GenerateKeyKeyPair(h)
    <2>1. KReturn(h) \/ kcall'[h].pc = "generate.insert"
      BY <1>0, <1>3 DEF GenerateKeyKeyPair, GenerateKeyPair, KeyCall
    <2> QED
      BY <1>1, <2>1 DEF KeyCallSound, RotatePc
  <1>4. CASE RotateKey(h)
    <2>1. PICK i \in DOMAIN identities, k \in DOMAIN keys :
            kcall' = [kcall EXCEPT ![h] =
                        [KeyIdle EXCEPT !.pc = "rotate.pair", !.identity = i, !.old = k,
                                        !.tenant = keys[k].tenant, !.type = keys[k].type,
                                        !.purpose = keys[k].purpose]]
      BY <1>4 DEF RotateKey
    <2>2. /\ kcall'[h].pc = "rotate.pair"
          /\ kcall'[h].identity = i /\ kcall'[h].old = k
          /\ kcall'[h].tenant = keys[k].tenant /\ kcall'[h].type = keys[k].type
          /\ kcall'[h].purpose = keys[k].purpose
      BY <1>0, <2>1 DEF KeyIdle
    <2> QED
      BY <2>2 DEF KeyCallSound, RotatePc, KeyRowsKept, IdentityRowsKept
  <1>5. CASE RotateKeyKeyPair(h)
    <2>1. \/ KReturn(h)
          \/ kcall' = [kcall EXCEPT ![h].pc = "rotate.insert", ![h].pair = minted + 1]
      BY <1>5 DEF RotateKeyKeyPair, GenerateKeyPair
    <2>2. CASE kcall' = [kcall EXCEPT ![h].pc = "rotate.insert", ![h].pair = minted + 1]
      <3>1. /\ kcall'[h].pc = "rotate.insert" /\ kcall'[h].identity = kcall[h].identity
            /\ kcall'[h].old = kcall[h].old /\ kcall'[h].tenant = kcall[h].tenant
            /\ kcall'[h].type = kcall[h].type /\ kcall'[h].purpose = kcall[h].purpose
        BY <1>0, <2>2 DEF KeyCall
      <3>2. kcall[h].pc = "rotate.pair"
        BY <1>5 DEF RotateKeyKeyPair, GenerateKeyPair
      <3> QED
        BY <1>0, <3>1, <3>2, SMTT(30) DEF KeyCallSound, RotatePc, KeyRowsKept, IdentityRowsKept
    <2> QED
      BY <1>1, <2>1, <2>2
  <1>6. CASE RotateKeyInsert(h)
    <2>1. \/ KReturn(h)
          \/ /\ KeyCreate(kcall[h].tenant, kcall[h].identity, kcall[h].type,
                          kcall[h].purpose, CryptoKeyID(kcall[h]), kcall[h].pair)
             /\ kcall' = [kcall EXCEPT ![h].pc = "rotate.mark", ![h].new = Len(keys) + 1]
      BY <1>6 DEF RotateKeyInsert, InsertKey
    <2>2. CASE /\ KeyCreate(kcall[h].tenant, kcall[h].identity, kcall[h].type,
                            kcall[h].purpose, CryptoKeyID(kcall[h]), kcall[h].pair)
               /\ kcall' = [kcall EXCEPT ![h].pc = "rotate.mark", ![h].new = Len(keys) + 1]
      <3>1. /\ kcall'[h].pc = "rotate.mark" /\ kcall'[h].identity = kcall[h].identity
            /\ kcall'[h].old = kcall[h].old /\ kcall'[h].tenant = kcall[h].tenant
            /\ kcall'[h].type = kcall[h].type /\ kcall'[h].purpose = kcall[h].purpose
            /\ kcall'[h].new = Len(keys) + 1
        BY <1>0, <2>2 DEF KeyCall
      <3>2. /\ kcall[h].tenant \in Nat /\ kcall[h].identity \in Nat /\ kcall[h].pair \in Nat
            /\ kcall[h].type \in KeyType /\ kcall[h].purpose \in KeyPurpose
        BY <1>0 DEF KeyCall
      <3>3. CryptoKeyID(kcall[h]) \in Ref
        BY <3>2 DEF CryptoKeyID, Ref
      <3>4. /\ Len(keys) + 1 \in DOMAIN keys'
            /\ \A k \in DOMAIN keys : Len(keys) + 1 > k
            /\ keys'[Len(keys) + 1].identity = kcall[h].identity
            /\ keys'[Len(keys) + 1].tenant = kcall[h].tenant
            /\ keys'[Len(keys) + 1].type = kcall[h].type
            /\ keys'[Len(keys) + 1].purpose = kcall[h].purpose
        BY <1>0, <2>2, <3>2, <3>3, KeyCreateEffect
      <3>5. kcall[h].pc = "rotate.insert"
        BY <1>6 DEF RotateKeyInsert, InsertKey
      <3>6. /\ kcall[h].identity \in DOMAIN identities /\ kcall[h].old \in DOMAIN keys
            /\ kcall[h].tenant = keys[kcall[h].old].tenant
            /\ kcall[h].type = keys[kcall[h].old].type
            /\ kcall[h].purpose = keys[kcall[h].old].purpose
        BY <1>0, <3>5 DEF KeyCallSound, RotatePc
      <3>7. /\ kcall[h].identity \in DOMAIN identities' /\ kcall[h].old \in DOMAIN keys'
            /\ kcall[h].tenant = keys'[kcall[h].old].tenant
            /\ kcall[h].type = keys'[kcall[h].old].type
            /\ kcall[h].purpose = keys'[kcall[h].old].purpose
        BY <3>6 DEF KeyRowsKept, IdentityRowsKept
      <3> QED
        BY <3>1, <3>4, <3>6, <3>7 DEF KeyCallSound, RotatePc
    <2> QED
      BY <1>1, <2>1, <2>2
  <1>7. CASE GenerateKeyInsert(h)
    <2>1. \/ KReturn(h)
          \/ /\ KeyCreate(kcall[h].tenant, kcall[h].identity, kcall[h].type,
                          kcall[h].purpose, CryptoKeyID(kcall[h]), kcall[h].pair)
             /\ kcall' = [kcall EXCEPT ![h].pc = "generate.audit", ![h].new = Len(keys) + 1]
      BY <1>7 DEF GenerateKeyInsert, InsertKey
    <2>2. CASE /\ KeyCreate(kcall[h].tenant, kcall[h].identity, kcall[h].type,
                            kcall[h].purpose, CryptoKeyID(kcall[h]), kcall[h].pair)
               /\ kcall' = [kcall EXCEPT ![h].pc = "generate.audit", ![h].new = Len(keys) + 1]
      <3>1. kcall'[h].pc = "generate.audit" /\ kcall'[h].new = Len(keys) + 1
        BY <1>0, <2>2 DEF KeyCall
      <3>2. Len(keys) + 1 \in DOMAIN keys'
        BY <1>0, <2>2 DEF KeyCreate
      <3> QED
        BY <3>1, <3>2 DEF KeyCallSound, RotatePc
    <2> QED
      BY <1>1, <2>1, <2>2
  <1>8. ASSUME NEW pc, KGoto(h, pc)
        PROVE  /\ kcall'[h].pc = pc /\ kcall'[h].identity = kcall[h].identity
               /\ kcall'[h].old = kcall[h].old /\ kcall'[h].new = kcall[h].new
               /\ kcall'[h].tenant = kcall[h].tenant /\ kcall'[h].type = kcall[h].type
               /\ kcall'[h].purpose = kcall[h].purpose
    BY <1>0, <1>8 DEF KGoto, KeyCall
  <1>8a. ASSUME kcall[h].pc \in {"rotate.mark", "rotate.identity", "rotate.primary"},
                NEW pc, KGoto(h, pc)
         PROVE  RotationSound(kcall[h]) /\ RotationSound(kcall[h])'
    <2>1. RotationSound(kcall[h])
      BY <1>0, <1>8a DEF KeyCallSound, RotationSound, RotatePc
    <2>2. /\ kcall'[h].identity = kcall[h].identity
          /\ kcall'[h].old = kcall[h].old /\ kcall'[h].new = kcall[h].new
          /\ kcall'[h].tenant = kcall[h].tenant /\ kcall'[h].type = kcall[h].type
          /\ kcall'[h].purpose = kcall[h].purpose
      BY <1>8, <1>8a
    <2>3. /\ kcall[h].identity \in DOMAIN identities'
          /\ kcall[h].old \in DOMAIN keys' /\ kcall[h].new \in DOMAIN keys'
          /\ keys'[kcall[h].old].tenant = kcall[h].tenant
          /\ keys'[kcall[h].old].type = kcall[h].type
          /\ keys'[kcall[h].old].purpose = kcall[h].purpose
          /\ keys'[kcall[h].new].identity = kcall[h].identity
          /\ keys'[kcall[h].new].tenant = kcall[h].tenant
          /\ keys'[kcall[h].new].type = kcall[h].type
          /\ keys'[kcall[h].new].purpose = kcall[h].purpose
      BY <2>1 DEF RotationSound, KeyRowsKept, IdentityRowsKept
    <2> QED
      BY <2>1, <2>2, <2>3 DEF RotationSound
  <1>8b. ASSUME RotationSound(kcall[h])', keys'[kcall'[h].old].status # "active",
                kcall'[h].pc \in {"rotate.identity", "rotate.audit"}
         PROVE  KeyCallSound(kcall[h])'
    BY <1>8b DEF KeyCallSound, RotationSound, RotatePc
  <1>9. CASE RotateKeyMark(h)
    <2>1. /\ kcall[h].pc = "rotate.mark" /\ KGoto(h, "rotate.identity")
          /\ KeyRotate(kcall[h].old, kcall[h].new)
      BY <1>9 DEF RotateKeyMark
    <2>2. RotationSound(kcall[h]) /\ RotationSound(kcall[h])'
      BY <1>8a, <2>1
    <2>3. kcall[h].old \in DOMAIN keys /\ kcall[h].new \in Nat
      BY <1>0, <2>2, IdsAreNat DEF RotationSound
    <2>4. keys'[kcall[h].old].status = "rotated"
      BY <1>0, <2>1, <2>3, KeyRotateEffect
    <2> QED
      BY <1>8, <1>8b, <2>1, <2>2, <2>4
  <1>10. CASE RotateKeyIdentity(h)
    <2>1. kcall[h].pc = "rotate.identity" /\ keys[kcall[h].old].status # "active"
      BY <1>0, <1>10 DEF RotateKeyIdentity, KeyCallSound
    <2>2. CASE KGoto(h, "rotate.primary")
      <3>1. /\ identities[kcall[h].identity].tenant = kcall[h].tenant
            /\ identities[kcall[h].identity].primary = kcall[h].old
        BY <1>0, <1>10, <2>2 DEF RotateKeyIdentity, KGoto, KReturn, KeyIdle, KeyCall
      <3>2. RotationSound(kcall[h]) /\ RotationSound(kcall[h])'
        BY <1>8a, <2>1, <2>2
      <3>3. kcall[h].old # NULL
        BY <1>0, <3>2, IdsAreNat DEF RotationSound
      <3>4. kcall[h].purpose = "signing"
        BY <1>0, <3>1, <3>2, <3>3 DEF PrimaryKeyOwned, RotationSound
      <3>5. /\ kcall'[h].pc = "rotate.primary" /\ kcall'[h].identity = kcall[h].identity
            /\ kcall'[h].old = kcall[h].old /\ kcall'[h].tenant = kcall[h].tenant
            /\ kcall'[h].purpose = kcall[h].purpose
        BY <1>8, <2>2
      <3>6. /\ identities'[kcall[h].identity].tenant = kcall[h].tenant
            /\ keys'[kcall[h].old].status # "active"
        BY <2>1, <3>1, <3>2 DEF RotationSound, KeyRowsKept, IdentityRowsKept
      <3> QED
        BY <3>2, <3>4, <3>5, <3>6 DEF KeyCallSound, RotationSound, RotatePc
    <2>3. CASE KGoto(h, "rotate.audit")
      <3>1. RotationSound(kcall[h]) /\ RotationSound(kcall[h])'
        BY <1>8a, <2>1, <2>3
      <3>2. keys'[kcall[h].old].status # "active"
        BY <2>1, <3>1 DEF RotationSound, KeyRowsKept
      <3> QED
        BY <1>8, <1>8b, <2>3, <3>1, <3>2
    <2> QED
      BY <1>1, <1>10, <2>2, <2>3 DEF RotateKeyIdentity
  <1>11. CASE RotateKeyPrimary(h)
    <2>1. /\ kcall[h].pc = "rotate.primary" /\ KGoto(h, "rotate.audit")
          /\ keys[kcall[h].old].status # "active"
      BY <1>0, <1>11 DEF RotateKeyPrimary, KeyCallSound
    <2>2. RotationSound(kcall[h]) /\ RotationSound(kcall[h])'
      BY <1>8a, <2>1
    <2>3. keys'[kcall[h].old].status # "active"
      BY <2>1, <2>2 DEF RotationSound, KeyRowsKept
    <2> QED
      BY <1>8, <1>8b, <2>1, <2>2, <2>3
  <1>12. CASE RevokeKey(h)
    <2>1. \E k \in DOMAIN keys : kcall'[h].pc = "revoke.update" /\ kcall'[h].old = k
      BY <1>0, <1>12 DEF RevokeKey, KeyIdle
    <2> QED
      BY <2>1 DEF KeyCallSound, RotatePc, KeyRowsKept
  <1>13. CASE RevokeKeyUpdate(h)
    <2>1. /\ kcall[h].pc = "revoke.update" /\ KGoto(h, "revoke.audit")
          /\ KeyRevoke(kcall[h].old)
      BY <1>13 DEF RevokeKeyUpdate
    <2>2. kcall[h].old \in DOMAIN keys
      BY <1>0, <2>1 DEF KeyCallSound
    <2>3. keys[kcall[h].old] \in KeyRow
      BY <1>0, <2>2, IdsAreNat
    <2>4. keys'[kcall[h].old].status = "revoked"
      BY <1>0, <2>1, <2>2, <2>3, KeyRevokeEffect DEF KeyRow
    <2>5. kcall'[h].pc = "revoke.audit" /\ kcall'[h].old = kcall[h].old
      BY <1>8, <2>1
    <2>6. kcall'[h].old \in DOMAIN keys' /\ keys'[kcall'[h].old].status # "active"
      BY <2>2, <2>4, <2>5 DEF KeyRowsKept
    <2> QED
      BY <2>5, <2>6 DEF KeyCallSound, RotatePc
  <1>14. CASE GenerateKeyAudit(h) \/ RotateKeyAudit(h) \/ RevokeKeyAudit(h) \/ KAbort(h)
    BY <1>1, <1>14 DEF GenerateKeyAudit, RotateKeyAudit, RevokeKeyAudit, AuditKeyEvent, KAbort
  <1> QED
    BY <1>2, <1>3, <1>4, <1>5, <1>6, <1>7, <1>9, <1>10, <1>11, <1>12, <1>13, <1>14
      DEF KeyStep

\* Only the moving identity handler changes its locals.
LEMMA IdentityStepMovesOne ==
  ASSUME NEW h \in IHandler, IdentityStep(h), icall \in [IHandler -> IdentityCall]
  PROVE  \A g \in IHandler \ {h} : icall'[g] = icall[g]
  BY DEF IdentityStep, CreateIdentity, CreateIdentityInsert, CreateIdentityGenerate,
         CreateIdentityKey, CreateIdentityPrimary, CreateIdentityActivate,
         CreateIdentityAudit, DeactivateIdentity, SuspendIdentity, ReactivateIdentity,
         ReadNotTerminal, ChangeStatusUpdate, ChangeStatusAudit, ReadForUpdate,
         UpdateIdentity, IAbort, IGoto, IReturn

\* What the last steps of CreateIdentity rely on: the row and the key it made.
CreationRowSound(c) ==
  /\ c.identity \in DOMAIN identities /\ identities[c.identity].tenant = c.tenant
  /\ c.key \in DOMAIN keys
  /\ keys[c.key].identity = c.identity
  /\ keys[c.key].tenant = c.tenant
  /\ keys[c.key].purpose = "signing"

\* The moving identity handler establishes its guarantees, action by action.
LEMMA IdentityStepOwnCall ==
  ASSUME IInv, TypeOK', NEW h \in IHandler, IdentityStep(h), KeyRowsKept, IdentityRowsKept
  PROVE  IdentityCallSound(icall[h])'
  <1>0. /\ icall \in [IHandler -> IdentityCall] /\ icall[h] \in IdentityCall
        /\ IdentityCallSound(icall[h])
        /\ identities \in Seq(IdentityRow) /\ keys \in Seq(KeyRow)
    BY DEF IInv, TypeOK, IdentityCallsSound
  <1>1. ASSUME IReturn(h) PROVE IdentityCallSound(icall[h])'
    <2>1. icall'[h] = IdentityIdle
      BY <1>0, <1>1 DEF IReturn
    <2>2. icall'[h].pc = "idle"
      BY <2>1 DEF IdentityIdle
    <2> QED
      BY <2>2 DEF IdentityCallSound, CreatePc
  <1>2. ASSUME NEW pc, IGoto(h, pc)
        PROVE  /\ icall'[h].pc = pc /\ icall'[h].identity = icall[h].identity
               /\ icall'[h].tenant = icall[h].tenant /\ icall'[h].key = icall[h].key
               /\ icall'[h].target = icall[h].target
    BY <1>0, <1>2 DEF IGoto, IdentityCall
  <1>2a. ASSUME icall[h].pc \in {"create.primary", "create.activate"},
                icall'[h].identity = icall[h].identity,
                icall'[h].tenant = icall[h].tenant, icall'[h].key = icall[h].key
         PROVE  CreationRowSound(icall[h])'
    <2>1. CreationRowSound(icall[h])
      BY <1>0, <1>2a DEF IdentityCallSound, CreationRowSound, CreatePc
    <2> QED
      BY <1>2a, <2>1 DEF CreationRowSound, KeyRowsKept, IdentityRowsKept
  <1>3. CASE CreateIdentity(h)
    <2>1. icall'[h].pc = "create.insert"
      BY <1>0, <1>3 DEF CreateIdentity, IdentityIdle
    <2> QED
      BY <2>1 DEF IdentityCallSound, CreatePc
  <1>4. CASE CreateIdentityInsert(h)
    <2>1. CASE ~IReturn(h)
      <3>1. PICK handle \in Handle, attrs \in Attributes \cup {NoAttributes} :
              IdentityCreate(icall[h].tenant, handle, EncryptAttributes(attrs))
        BY <1>4, <2>1 DEF CreateIdentityInsert
      <3>2. icall' = [icall EXCEPT ![h].pc = "create.generate",
                                   ![h].identity = Len(identities) + 1]
        BY <1>4, <2>1 DEF CreateIdentityInsert
      <3>3. /\ icall'[h].pc = "create.generate" /\ icall'[h].tenant = icall[h].tenant
            /\ icall'[h].identity = Len(identities) + 1
        BY <1>0, <3>2 DEF IdentityCall
      <3>4. icall[h].tenant \in Nat
        BY <1>0 DEF IdentityCall
      <3>5. /\ Len(identities) + 1 \in DOMAIN identities'
            /\ identities'[Len(identities) + 1].tenant = icall[h].tenant
        BY <1>0, <3>1, <3>4, StoredForms, IdentityCreateEffect
      <3> QED
        BY <3>3, <3>5 DEF IdentityCallSound, CreatePc
    <2> QED
      BY <1>1, <2>1
  <1>5. CASE CreateIdentityGenerate(h)
    <2>1. /\ icall'[h].pc = "create.key" /\ icall'[h].identity = icall[h].identity
          /\ icall'[h].tenant = icall[h].tenant /\ icall[h].pc = "create.generate"
      BY <1>0, <1>5 DEF CreateIdentityGenerate, IdentityCall
    <2> QED
      BY <1>0, <2>1 DEF IdentityCallSound, CreatePc, IdentityRowsKept
  <1>6. CASE CreateIdentityKey(h)
    <2>1. CASE ~IReturn(h)
      <3>1. /\ KeyCreate(icall[h].tenant, icall[h].identity, "ed25519", "signing",
                         CreationRef(icall[h].identity), icall[h].pair)
            /\ icall' = [icall EXCEPT ![h].pc = "create.primary", ![h].key = Len(keys) + 1]
            /\ icall[h].pc = "create.key"
        BY <1>6, <2>1 DEF CreateIdentityKey
      <3>2. /\ icall'[h].pc = "create.primary" /\ icall'[h].identity = icall[h].identity
            /\ icall'[h].tenant = icall[h].tenant /\ icall'[h].key = Len(keys) + 1
        BY <1>0, <3>1 DEF IdentityCall
      <3>3. /\ icall[h].tenant \in Nat /\ icall[h].identity \in Nat /\ icall[h].pair \in Nat
            /\ "ed25519" \in KeyType /\ "signing" \in KeyPurpose
        BY <1>0 DEF IdentityCall, KeyType, KeyPurpose
      <3>4. CreationRef(icall[h].identity) \in Ref
        BY <3>3, CreationRefType
      <3>5. /\ Len(keys) + 1 \in DOMAIN keys'
            /\ keys'[Len(keys) + 1].identity = icall[h].identity
            /\ keys'[Len(keys) + 1].tenant = icall[h].tenant
            /\ keys'[Len(keys) + 1].purpose = "signing"
        BY <1>0, <3>1, <3>3, <3>4, KeyCreateEffect
      <3> QED
        BY <1>0, <3>1, <3>2, <3>5 DEF IdentityCallSound, CreatePc, IdentityRowsKept
    <2> QED
      BY <1>1, <2>1
  <1>7. CASE CreateIdentityPrimary(h)
    <2>1. /\ icall[h].pc = "create.primary" /\ IGoto(h, "create.activate")
          /\ IdentitySetPrimaryKey(icall[h].identity, icall[h].key)
      BY <1>7 DEF CreateIdentityPrimary
    <2>2. icall[h].identity \in DOMAIN identities /\ icall[h].key \in DOMAIN keys
      BY <1>0, <2>1 DEF IdentityCallSound, CreatePc
    <2>3. icall[h].key \in Nat /\ icall[h].key # NULL
      BY <1>0, <2>2, IdsAreNat
    <2>4. identities'[icall[h].identity].primary # NULL
      BY <1>0, <2>1, <2>2, <2>3, SetPrimaryKeyEffect
    <2>5. /\ icall'[h].pc = "create.activate" /\ icall'[h].identity = icall[h].identity
          /\ icall'[h].tenant = icall[h].tenant /\ icall'[h].key = icall[h].key
      BY <1>2, <2>1
    <2>6. CreationRowSound(icall[h])'
      BY <2>5, <1>2a, <2>1
    <2> QED
      BY <2>4, <2>5, <2>6 DEF IdentityCallSound, CreationRowSound, CreatePc
  <1>8. CASE CreateIdentityActivate(h)
    <2>1. icall[h].pc = "create.activate" /\ IGoto(h, "create.audit")
      BY <1>8 DEF CreateIdentityActivate
    <2>2. /\ icall'[h].pc = "create.audit" /\ icall'[h].identity = icall[h].identity
          /\ icall'[h].tenant = icall[h].tenant /\ icall'[h].key = icall[h].key
      BY <1>2, <2>1
    <2>3. icall[h].identity \in DOMAIN identities /\ identities[icall[h].identity].primary # NULL
      BY <1>0, <2>1 DEF IdentityCallSound, CreatePc
    <2>4. identities'[icall[h].identity].primary # NULL
      BY <2>3 DEF IdentityRowsKept
    <2>5. CreationRowSound(icall[h])'
      BY <2>2, <1>2a, <2>1
    <2> QED
      BY <2>2, <2>4, <2>5 DEF IdentityCallSound, CreationRowSound, CreatePc
  <1>9. CASE DeactivateIdentity(h) \/ SuspendIdentity(h) \/ ReactivateIdentity(h)
    <2>1. \E i \in DOMAIN identities :
            icall'[h].pc = "status.update" /\ icall'[h].identity = i
      BY <1>0, <1>9, ZenonT(60) DEF DeactivateIdentity, SuspendIdentity, ReactivateIdentity,
                        ReadNotTerminal, IdentityIdle
    <2> QED
      BY <2>1 DEF IdentityCallSound, CreatePc, IdentityRowsKept
  <1>10. CASE ChangeStatusUpdate(h)
    <2>1. /\ icall[h].pc = "status.update" /\ IGoto(h, "status.audit")
          /\ IdentityUpdateStatus(icall[h].identity, icall[h].target)
      BY <1>10 DEF ChangeStatusUpdate
    <2>2. icall[h].identity \in DOMAIN identities
      BY <1>0, <2>1 DEF IdentityCallSound
    <2>3. ASSUME icall[h].target = "deactivated"
          PROVE  identities'[icall[h].identity].deactivatedAt
      <3>1. identities[icall[h].identity] \in IdentityRow
        BY <1>0, <2>2, IdsAreNat
      <3> QED
        BY <1>0, <2>1, <2>2, <2>3, <3>1 DEF IdentityUpdateStatus, IsTerminal, IdentityRow
    <2>4. /\ icall'[h].pc = "status.audit" /\ icall'[h].identity = icall[h].identity
          /\ icall'[h].target = icall[h].target
      BY <1>2, <2>1
    <2>5. icall[h].identity \in DOMAIN identities'
      BY <2>2 DEF IdentityRowsKept
    <2> QED
      BY <2>3, <2>4, <2>5 DEF IdentityCallSound, CreatePc
  <1>11. CASE ReadForUpdate(h)
    <2>1. PICK i \in DOMAIN identities :
            icall' = [icall EXCEPT ![h] =
                       [IdentityIdle EXCEPT !.pc = "update.write", !.identity = i,
                                            !.version = identities[i].version,
                                            !.seen = identities[i].attributes]]
      BY <1>11 DEF ReadForUpdate
    <2>2. /\ icall'[h].pc = "update.write" /\ icall'[h].identity = i
          /\ icall'[h].version = identities[i].version
          /\ icall'[h].seen = identities[i].attributes
      BY <1>0, <2>1 DEF IdentityIdle
    <2>3. identities' = identities /\ identities[i] \in IdentityRow
      BY <1>0, <1>11, IdsAreNat DEF ReadForUpdate, tables
    <2>4. identities[i].version \in Nat
      BY <2>3 DEF IdentityRow
    <2> QED
      BY <2>2, <2>3, <2>4 DEF IdentityCallSound, CreatePc
  <1>12. CASE \/ CreateIdentityAudit(h) \/ ChangeStatusAudit(h) \/ UpdateIdentity(h)
              \/ IAbort(h)
    BY <1>1, <1>12 DEF CreateIdentityAudit, ChangeStatusAudit, UpdateIdentity, IAbort
  <1> QED
    BY <1>3, <1>4, <1>5, <1>6, <1>7, <1>8, <1>9, <1>10, <1>11, <1>12 DEF IdentityStep

(***************************************************************************)
(* The induction.                                                          *)
(***************************************************************************)
\* The seeded rows satisfy the invariant; no call is in flight.
LEMMA InitInv ==
  ASSUME Init
  PROVE  IInv
  <1>1. TypeOK
    BY InitType
  <1>2. /\ DOMAIN identities = DOMAIN SeedIdentities /\ DOMAIN keys = DOMAIN SeedIdentities
        /\ \A i \in DOMAIN SeedIdentities :
             /\ identities[i].primary = i /\ identities[i].tenant = SeedIdentities[i]
             /\ keys[i].identity = i /\ keys[i].tenant = SeedIdentities[i]
             /\ keys[i].purpose = "signing" /\ keys[i].status = "active"
             /\ keys[i].rotatedTo = NULL
    BY DEF Init, SeedIdentity, SeedKey
  <1>3. TablesInv
    <2>1. OneActiveKeyPerPurpose
      <3>1. \A k \in DOMAIN keys : keys[k].identity = k
        BY <1>2
      <3> QED
        BY <3>1, Zenon DEF OneActiveKeyPerPurpose
    <2>2. PrimaryKeyOwned
      BY <1>2 DEF PrimaryKeyOwned
    <2>3. SuccessionForward
      BY <1>2 DEF SuccessionForward
    <2> QED
      BY <2>1, <2>2, <2>3 DEF TablesInv
  <1>4. KeyCallsSound
    BY DEF Init, KeyCallsSound, KeyCallSound, KeyIdle, RotatePc
  <1>5. IdentityCallsSound
    BY DEF Init, IdentityCallsSound, IdentityCallSound, IdentityIdle, CreatePc
  <1> QED
    BY <1>1, <1>3, <1>4, <1>5 DEF IInv

\* Rows are kept by every step.
LEMMA NextKeepsRows ==
  ASSUME IInv, [Next]_vars
  PROVE  KeyRowsKept /\ IdentityRowsKept
  BY NextTables, KeyTableKeepsRows, IdentityTableKeepsRows DEF IInv, TypeOK

\* The locals of the key handlers stay sound.
LEMMA NextKeyCalls ==
  ASSUME IInv, TypeOK', [Next]_vars
  PROVE  KeyCallsSound'
  <1>0. KeyRowsKept /\ IdentityRowsKept
    BY NextKeepsRows
  <1>1. CASE kcall' = kcall
    BY <1>0, <1>1, KeyCallKept DEF IInv, KeyCallsSound
  <1>2. ASSUME NEW h \in KHandler, KeyStep(h) PROVE KeyCallsSound'
    <2>1. KeyCallSound(kcall[h])'
      BY <1>0, <1>2, KeyStepOwnCall
    <2>2. \A g \in KHandler \ {h} : kcall'[g] = kcall[g]
      BY <1>2, KeyStepMovesOne DEF IInv, TypeOK
    <2>3. \A g \in KHandler \ {h} : KeyCallSound(kcall[g])'
      BY <1>0, <2>2, KeyCallKept DEF IInv, KeyCallsSound
    <2> QED
      BY <2>1, <2>3 DEF KeyCallsSound
  <1>3. CASE Restart
    BY <1>3 DEF Restart, KeyCallsSound, KeyCallSound, KeyIdle, RotatePc
  <1> QED
    BY <1>1, <1>2, <1>3 DEF Next, vars

\* The locals of the identity handlers stay sound.
LEMMA NextIdentityCalls ==
  ASSUME IInv, TypeOK', [Next]_vars
  PROVE  IdentityCallsSound'
  <1>0. KeyRowsKept /\ IdentityRowsKept /\ TypeOK
    BY NextKeepsRows DEF IInv
  <1>1. CASE icall' = icall
    BY <1>0, <1>1, IdentityCallKept DEF IInv, IdentityCallsSound
  <1>2. ASSUME NEW h \in IHandler, IdentityStep(h) PROVE IdentityCallsSound'
    <2>1. IdentityCallSound(icall[h])'
      BY <1>0, <1>2, IdentityStepOwnCall
    <2>2. \A g \in IHandler \ {h} : icall'[g] = icall[g]
      BY <1>2, IdentityStepMovesOne DEF IInv, TypeOK
    <2>3. \A g \in IHandler \ {h} : IdentityCallSound(icall[g])'
      BY <1>0, <2>2, IdentityCallKept DEF IInv, IdentityCallsSound
    <2> QED
      BY <2>1, <2>3 DEF IdentityCallsSound
  <1>3. CASE Restart
    BY <1>3 DEF Restart, IdentityCallsSound, IdentityCallSound, IdentityIdle, CreatePc
  <1> QED
    BY <1>1, <1>2, <1>3 DEF Next, vars

\* The invariant is inductive.
LEMMA NextInv ==
  ASSUME IInv, [Next]_vars
  PROVE  IInv'
  <1>1. TypeOK'
    BY NextType DEF IInv
  <1>2. KeyTableStep /\ IdentityTableStep
    BY NextTables
  <1>3. TablesInv'
    BY <1>2, KeyTableOneActive, KeyTableSuccession, TablesPrimaryOwned
      DEF IInv, TypeOK, TablesInv
  <1> QED
    BY <1>1, <1>3, NextKeyCalls, NextIdentityCalls DEF IInv

\* IInv holds in every reachable state.
LEMMA Invariance == Spec => []IInv
  BY InitInv, NextInv, PTL DEF Spec

\* At most one active key per identity and purpose, for any number of handlers
\* generating, rotating, creating and crashing (migration 003's index is enough).
THEOREM UniqueActiveKey == Spec => []OneActiveKeyPerPurpose
  <1>1. IInv => OneActiveKeyPerPurpose
    BY DEF IInv, TablesInv
  <1> QED
    BY <1>1, Invariance, PTL

\* primary_key_id always names a signing key of the identity and its tenant: what
\* RotateKey and CreateIdentity carry from one statement to the next suffices.
THEOREM PrimaryKeySound == Spec => []PrimaryKeyOwned
  <1>1. IInv => PrimaryKeyOwned
    BY DEF IInv, TablesInv
  <1> QED
    BY <1>1, Invariance, PTL

\* rotated_to never forms a cycle and never changes type, purpose or tenant.
THEOREM RotationAcyclic == Spec => []SuccessionForward
  <1>1. IInv => SuccessionForward
    BY DEF IInv, TablesInv
  <1> QED
    BY <1>1, Invariance, PTL

\* What RotateKey, RevokeKey and GenerateKey carry from one statement to the next
\* stays right whatever the other handlers write in between.
THEOREM KeyLocalsSound == Spec => []KeyCallsSound
  <1>1. IInv => KeyCallsSound
    BY DEF IInv
  <1> QED
    BY <1>1, Invariance, PTL

\* The same for CreateIdentity, UpdateIdentity and the status changes.
THEOREM IdentityLocalsSound == Spec => []IdentityCallsSound
  <1>1. IInv => IdentityCallsSound
    BY DEF IInv
  <1> QED
    BY <1>1, Invariance, PTL

\* No step reactivates a key, changes what identifies it or drops its successor.
THEOREM KeyRowHistory == Spec => KeyHistory
  <1>1. IInv /\ [Next]_vars => [KeyRowsKept]_keys
    BY NextKeepsRows
  <1> QED
    BY <1>1, Invariance, PTL DEF Spec, KeyHistory

\* No step moves an identity, drops its primary key or its deactivation time, or
\* changes its attributes without its version.
THEOREM IdentityRowHistory == Spec => IdentityHistory
  <1>1. IInv /\ [Next]_vars => [IdentityRowsKept]_identities
    BY NextKeepsRows
  <1> QED
    BY <1>1, Invariance, PTL DEF Spec, IdentityHistory

\* The optimistic lock works: an UpdateIdentity whose statement takes effect
\* replaces the content its caller had read.
LEMMA UpdateReplacesSeen ==
  ASSUME IInv, [Next]_vars, NEW h \in IHandler, icall[h].pc = "update.write",
         icall'[h] # icall[h],
         identities'[icall[h].identity].version # identities[icall[h].identity].version
  PROVE  identities[icall[h].identity].attributes = icall[h].seen
  <1>1. IdentityStep(h)
    <2>1. \E g \in IHandler : IdentityStep(g)
      BY DEF Next, vars, Restart, tables
    <2> QED
      BY <2>1, IdentityStepMovesOne DEF IInv, TypeOK
  <1>2. UpdateIdentity(h)
    BY <1>1 DEF IdentityStep, CreateIdentity, CreateIdentityInsert, CreateIdentityGenerate,
         CreateIdentityKey, CreateIdentityPrimary, CreateIdentityActivate,
         CreateIdentityAudit, DeactivateIdentity, SuspendIdentity, ReactivateIdentity,
         ReadNotTerminal, ChangeStatusUpdate, ChangeStatusAudit, ReadForUpdate, IAbort, tables
  <1>3. icall[h].version = identities[icall[h].identity].version
    BY <1>2 DEF UpdateIdentity, UpdateTakes
  <1> QED
    BY <1>3 DEF IInv, IdentityCallsSound, IdentityCallSound

\* No update between a caller's read and its own write is lost.
THEOREM OptimisticLock == Spec => NoLostUpdate
  <1>1. IInv /\ [Next]_vars =>
          [\A h \in IHandler :
             /\ icall[h].pc = "update.write" /\ icall'[h] # icall[h]
             /\ identities'[icall[h].identity].version
                  # identities[icall[h].identity].version
             => identities[icall[h].identity].attributes = icall[h].seen]_vars
    BY UpdateReplacesSeen
  <1> QED
    BY <1>1, Invariance, PTL DEF Spec, NoLostUpdate

=============================================================================
