-------------------------- MODULE VerionCoreTyping --------------------------
(***************************************************************************)
(* TypeOK is an invariant of VerionCore, for every set of handlers, every  *)
(* seed and every bound.  The proof goes by what a statement does to its   *)
(* table (one lemma per statement) and then by the steps of each service.  *)
(***************************************************************************)
EXTENDS VerionCore, SequenceTheorems, TLAPS

(***************************************************************************)
(* Tables are sequences: inserting and updating a row keeps the row type.  *)
(***************************************************************************)
\* Appending a row of the table's type gives a table of that type.
LEMMA AppendKeepsType ==
  ASSUME NEW S, NEW s \in Seq(S), NEW e \in S
  PROVE  /\ Append(s, e) \in Seq(S)
         /\ Len(Append(s, e)) = Len(s) + 1
         /\ DOMAIN Append(s, e) = DOMAIN s \cup {Len(s) + 1}
         /\ \A i \in DOMAIN s : Append(s, e)[i] = s[i]
         /\ Append(s, e)[Len(s) + 1] = e
  OBVIOUS

\* Replacing a row by one of the table's type, whether or not the id exists,
\* gives a table of that type with the same ids.
LEMMA ReplaceKeepsType ==
  ASSUME NEW S, NEW s \in Seq(S), NEW i, NEW e, i \in DOMAIN s => e \in S
  PROVE  /\ [s EXCEPT ![i] = e] \in Seq(S)
         /\ DOMAIN [s EXCEPT ![i] = e] = DOMAIN s
  <1>1. CASE i \in DOMAIN s
    BY <1>1, ExceptSeq
  <1>2. CASE i \notin DOMAIN s
    <2>1. [s EXCEPT ![i] = e] = s
      BY <1>2
    <2> QED
      BY <2>1
  <1> QED
    BY <1>1, <1>2

\* An id is a positive natural number.
LEMMA IdsAreNat ==
  ASSUME NEW S, NEW s \in Seq(S), NEW i \in DOMAIN s
  PROVE  i \in Nat /\ i # NULL /\ s[i] \in S
  BY DEF NULL

\* The stored form of any attribute map a caller sends, and the absent one.
LEMMA StoredForms ==
  /\ <<>> \in StoredAttributes
  /\ \A a \in Attributes \cup {NoAttributes} : EncryptAttributes(a) \in StoredAttributes
  BY DEF StoredAttributes, EncryptAttributes, NoAttributes

(***************************************************************************)
(* The statements of the repositories keep the types of their tables.      *)
(***************************************************************************)
\* TenantRepo.Create inserts a tenant.
LEMMA TenantInsertType ==
  ASSUME tenants \in Seq(TenantRow), NEW slug \in Slug, TenantInsert(slug)
  PROVE  tenants' \in Seq(TenantRow)
  <1>1. [slug |-> slug, status |-> "active"] \in TenantRow
    BY CallerInputs DEF TenantRow, TenantStatus
  <1> QED
    BY <1>1, AppendKeepsType DEF TenantInsert

\* TenantRepo.UpdateStatus writes a status of the enumeration.
LEMMA TenantUpdateStatusType ==
  ASSUME tenants \in Seq(TenantRow), NEW t, NEW status \in TenantStatus,
         TenantUpdateStatus(t, status)
  PROVE  tenants' \in Seq(TenantRow)
  <1>0. t \in DOMAIN tenants => tenants[t] \in TenantRow
    BY IdsAreNat
  <1>1. t \in DOMAIN tenants => [tenants[t] EXCEPT !.status = status] \in TenantRow
    BY <1>0 DEF TenantRow
  <1>2. tenants' = [tenants EXCEPT ![t] = [tenants[t] EXCEPT !.status = status]]
    BY DEF TenantUpdateStatus
  <1> QED
    BY <1>1, <1>2, ReplaceKeepsType

\* IdentityRepo.Create inserts a pending identity.
LEMMA IdentityCreateType ==
  ASSUME identities \in Seq(IdentityRow), NEW t \in Nat, NEW handle \in Handle,
         NEW attributes \in StoredAttributes, IdentityCreate(t, handle, attributes)
  PROVE  identities' \in Seq(IdentityRow)
  <1> DEFINE row == [tenant |-> t, handle |-> handle, status |-> "pending",
                     primary |-> NULL, attributes |-> attributes, attributesIV |-> <<>>,
                     version |-> 1, deactivatedAt |-> FALSE]
  <1>1. row \in IdentityRow
    BY CallerInputs DEF IdentityRow, IdentityStatus, NULL
  <1>2. identities' = Append(identities, row)
    BY DEF IdentityCreate
  <1> HIDE DEF row
  <1> QED
    BY <1>1, <1>2, AppendKeepsType

\* IdentityRepo.Update writes attributes and the next version.
LEMMA IdentityUpdateType ==
  ASSUME identities \in Seq(IdentityRow), NEW i, NEW attributes \in StoredAttributes,
         IdentityUpdate(i, attributes)
  PROVE  identities' \in Seq(IdentityRow)
  <1> DEFINE row == [identities[i] EXCEPT !.attributes = attributes,
                                          !.attributesIV = <<>>, !.version = @ + 1]
  <1>0. i \in DOMAIN identities => identities[i] \in IdentityRow
    BY IdsAreNat
  <1>1. i \in DOMAIN identities => row \in IdentityRow
    <2> SUFFICES ASSUME identities[i] \in IdentityRow
                 PROVE  row \in IdentityRow
      BY <1>0
    <2>1. identities[i].version + 1 \in Nat
      BY DEF IdentityRow
    <2> QED
      BY <2>1, Zenon DEF IdentityRow
  <1>2. identities' = [identities EXCEPT ![i] = row]
    BY DEF IdentityUpdate
  <1> HIDE DEF row
  <1> QED
    BY <1>1, <1>2, ReplaceKeepsType

\* IdentityRepo.UpdateStatus writes a status of the enumeration.
LEMMA IdentityUpdateStatusType ==
  ASSUME identities \in Seq(IdentityRow), NEW i, NEW status \in IdentityStatus,
         IdentityUpdateStatus(i, status)
  PROVE  identities' \in Seq(IdentityRow)
  <1> DEFINE row == [identities[i] EXCEPT !.status = status,
                                          !.deactivatedAt = IsTerminal(status) \/ @]
  <1>0. i \in DOMAIN identities => identities[i] \in IdentityRow
    BY IdsAreNat
  <1>1. i \in DOMAIN identities => row \in IdentityRow
    BY <1>0 DEF IdentityRow, IsTerminal
  <1>2. identities' = [identities EXCEPT ![i] = row]
    BY DEF IdentityUpdateStatus
  <1> HIDE DEF row
  <1> QED
    BY <1>1, <1>2, ReplaceKeepsType

\* IdentityRepo.SetPrimaryKey writes an id.
LEMMA IdentitySetPrimaryKeyType ==
  ASSUME identities \in Seq(IdentityRow), NEW i, NEW k \in Nat, IdentitySetPrimaryKey(i, k)
  PROVE  identities' \in Seq(IdentityRow)
  <1> DEFINE row == [identities[i] EXCEPT !.primary = k]
  <1>0. i \in DOMAIN identities => identities[i] \in IdentityRow
    BY IdsAreNat
  <1>1. i \in DOMAIN identities => row \in IdentityRow
    BY <1>0 DEF IdentityRow
  <1>2. identities' = [identities EXCEPT ![i] = row]
    BY DEF IdentitySetPrimaryKey
  <1> HIDE DEF row
  <1> QED
    BY <1>1, <1>2, ReplaceKeepsType

\* KeyRepo.Create inserts an active key.
LEMMA KeyCreateType ==
  ASSUME keys \in Seq(KeyRow), NEW t \in Nat, NEW i \in Nat, NEW type \in KeyType,
         NEW purpose \in KeyPurpose, NEW ref \in Ref, NEW pair \in Nat,
         KeyCreate(t, i, type, purpose, ref, pair)
  PROVE  keys' \in Seq(KeyRow)
  <1> DEFINE row == [identity |-> i, tenant |-> t, type |-> type, purpose |-> purpose,
                     status |-> "active", ref |-> ref, pair |-> pair, rotatedTo |-> NULL]
  <1>1. row \in KeyRow
    BY DEF KeyRow, KeyStatus, NULL
  <1>2. keys' = Append(keys, row)
    BY DEF KeyCreate
  <1> HIDE DEF row
  <1> QED
    BY <1>1, <1>2, AppendKeepsType

\* KeyRepo.Rotate writes a status of the enumeration and an id.
LEMMA KeyRotateType ==
  ASSUME keys \in Seq(KeyRow), NEW old, NEW new \in Nat, KeyRotate(old, new)
  PROVE  keys' \in Seq(KeyRow)
  <1> DEFINE row == [keys[old] EXCEPT !.status = "rotated", !.rotatedTo = new]
  <1>0. old \in DOMAIN keys => keys[old] \in KeyRow
    BY IdsAreNat
  <1>1. old \in DOMAIN keys => row \in KeyRow
    BY <1>0 DEF KeyRow, KeyStatus
  <1>2. keys' = [keys EXCEPT ![old] = row]
    BY DEF KeyRotate
  <1> HIDE DEF row
  <1> QED
    BY <1>1, <1>2, ReplaceKeepsType

\* KeyRepo.Revoke writes a status of the enumeration.
LEMMA KeyRevokeType ==
  ASSUME keys \in Seq(KeyRow), NEW k, KeyRevoke(k)
  PROVE  keys' \in Seq(KeyRow)
  <1> DEFINE row == [keys[k] EXCEPT !.status = "revoked"]
  <1>0. k \in DOMAIN keys => keys[k] \in KeyRow
    BY IdsAreNat
  <1>1. k \in DOMAIN keys => row \in KeyRow
    BY <1>0 DEF KeyRow, KeyStatus
  <1>2. keys' = [keys EXCEPT ![k] = row]
    BY DEF KeyRevoke
  <1> HIDE DEF row
  <1> QED
    BY <1>1, <1>2, ReplaceKeepsType

(***************************************************************************)
(* Steps of the tenant service.                                            *)
(***************************************************************************)
\* A step of a tenant handler keeps the types; what it does not touch is left
\* as it was.
LEMMA TenantStepType ==
  ASSUME TypeOK, NEW h \in THandler, TenantStep(h), UNCHANGED <<keyStoreVars, icall, kcall>>
  PROVE  TypeOK'
  <1> USE DEF TypeOK, tables, keyStoreVars
  <1>0. /\ \A t \in DOMAIN tenants : t \in Nat
        /\ Len(tenants) + 1 \in Nat
        /\ TenantIdle \in TenantCall
        /\ tcall[h] \in TenantCall
    BY IdsAreNat DEF TenantIdle, TenantCall, NULL
  <1>1. ASSUME TReturn(h) PROVE tcall' \in [THandler -> TenantCall]
    BY <1>0, <1>1 DEF TReturn
  <1>2. CASE CreateTenant(h)
    <2>1. tenants' \in Seq(TenantRow)
      BY <1>2, TenantInsertType DEF CreateTenant
    <2>2. [pc |-> "create.audit", tenant |-> Len(tenants) + 1] \in TenantCall
      BY <1>0 DEF TenantCall
    <2> QED
      BY <1>2, <2>1, <2>2 DEF CreateTenant
  <1>3. CASE CreateTenantAudit(h)
    BY <1>1, <1>3 DEF CreateTenantAudit
  <1>4. CASE SuspendTenant(h)
    <2>1. \A t \in DOMAIN tenants : [pc |-> "suspend.update", tenant |-> t] \in TenantCall
      BY <1>0 DEF TenantCall
    <2> QED
      BY <1>4, <2>1 DEF SuspendTenant
  <1>5. CASE SuspendTenantUpdate(h)
    <2>1. tenants' \in Seq(TenantRow)
      BY <1>5, TenantUpdateStatusType DEF SuspendTenantUpdate, TenantStatus
    <2>2. [tcall[h] EXCEPT !.pc = "suspend.audit"] \in TenantCall
      BY <1>0 DEF TenantCall
    <2> QED
      BY <1>5, <2>1, <2>2 DEF SuspendTenantUpdate, TGoto
  <1>6. CASE SuspendTenantAudit(h)
    BY <1>1, <1>6 DEF SuspendTenantAudit
  <1>7. CASE ActivateTenant(h)
    <2>1. \A t \in DOMAIN tenants : [pc |-> "activate.update", tenant |-> t] \in TenantCall
      BY <1>0 DEF TenantCall
    <2> QED
      BY <1>7, <2>1 DEF ActivateTenant
  <1>8. CASE ActivateTenantUpdate(h)
    <2>1. tenants' \in Seq(TenantRow)
      BY <1>8, TenantUpdateStatusType DEF ActivateTenantUpdate, TenantStatus
    <2> QED
      BY <1>1, <1>8, <2>1 DEF ActivateTenantUpdate
  <1>9. CASE TAbort(h)
    BY <1>1, <1>9 DEF TAbort
  <1> QED
    BY <1>2, <1>3, <1>4, <1>5, <1>6, <1>7, <1>8, <1>9 DEF TenantStep

(***************************************************************************)
(* Steps of the identity service.                                          *)
(***************************************************************************)
\* Generating a key pair leaves only generated private keys in the store.
LEMMA GeneratePairType ==
  ASSUME minted \in Nat, \A r \in DOMAIN vault : vault[r] \in 1..minted,
         NEW ref, GeneratePair(ref)
  PROVE  minted' \in Nat /\ \A r \in DOMAIN vault' : vault'[r] \in 1..minted'
  BY DEF GeneratePair, Store

\* The key id of CreateIdentity is a key_ref.
LEMMA CreationRefType ==
  ASSUME NEW i \in Nat
  PROVE  CreationRef(i) \in Ref
  BY DEF CreationRef, Ref, NULL, KeyType

\* A step of an identity handler keeps the types.
LEMMA IdentityStepType ==
  ASSUME TypeOK, NEW h \in IHandler, IdentityStep(h), UNCHANGED <<tcall, kcall>>
  PROVE  TypeOK'
  <1> USE DEF TypeOK, tables, keyStoreVars
  <1>0. /\ \A t \in DOMAIN tenants : t \in Nat
        /\ \A i \in DOMAIN identities : i \in Nat /\ identities[i] \in IdentityRow
        /\ Len(identities) + 1 \in Nat /\ Len(keys) + 1 \in Nat /\ minted + 1 \in Nat
        /\ icall[h] \in IdentityCall
    BY IdsAreNat
  <1>1. IdentityIdle \in IdentityCall
    BY StoredForms DEF IdentityIdle, IdentityCall, IdentityStatus, NULL
  <1>2. ASSUME IReturn(h) PROVE icall' \in [IHandler -> IdentityCall]
    BY <1>1, <1>2 DEF IReturn
  <1>3. ASSUME NEW pc \in {"status.audit"} \cup CreatePc, IGoto(h, pc)
        PROVE  icall' \in [IHandler -> IdentityCall]
    <2>1. [icall[h] EXCEPT !.pc = pc] \in IdentityCall
      BY <1>0, <1>3 DEF IdentityCall
    <2> QED
      BY <1>3, <2>1 DEF IGoto
  <1>4. CASE CreateIdentity(h)
    <2>1. \A t \in DOMAIN tenants :
            [IdentityIdle EXCEPT !.pc = "create.insert", !.tenant = t] \in IdentityCall
      BY <1>0, <1>1 DEF IdentityCall, CreatePc
    <2> QED
      BY <1>4, <2>1 DEF CreateIdentity
  <1>5. CASE CreateIdentityInsert(h)
    <2>1. icall[h].tenant \in Nat
      BY <1>0 DEF IdentityCall
    <2>2. identities' \in Seq(IdentityRow)
      BY <1>5, <2>1, IdentityCreateType, StoredForms DEF CreateIdentityInsert
    <2>3. [icall[h] EXCEPT !.pc = "create.generate", !.identity = Len(identities) + 1]
            \in IdentityCall
      BY <1>0 DEF IdentityCall, CreatePc
    <2>4. icall' \in [IHandler -> IdentityCall]
      BY <1>2, <1>5, <2>3 DEF CreateIdentityInsert
    <2> QED
      BY <1>5, <2>2, <2>4 DEF CreateIdentityInsert
  <1>6. CASE CreateIdentityGenerate(h)
    <2>1. [icall[h] EXCEPT !.pc = "create.key", !.pair = minted + 1] \in IdentityCall
      BY <1>0 DEF IdentityCall, CreatePc
    <2> QED
      BY <1>6, <2>1, GeneratePairType DEF CreateIdentityGenerate
  <1>7. CASE CreateIdentityKey(h)
    <2>1. /\ icall[h].tenant \in Nat /\ icall[h].identity \in Nat /\ icall[h].pair \in Nat
          /\ "ed25519" \in KeyType /\ "signing" \in KeyPurpose
      BY <1>0 DEF IdentityCall, KeyType, KeyPurpose
    <2>2. CreationRef(icall[h].identity) \in Ref
      BY <2>1, CreationRefType
    <2>5. keys' \in Seq(KeyRow)
      BY <1>7, <2>1, <2>2, KeyCreateType DEF CreateIdentityKey
    <2>3. [icall[h] EXCEPT !.pc = "create.primary", !.key = Len(keys) + 1] \in IdentityCall
      BY <1>0 DEF IdentityCall, CreatePc
    <2>4. icall' \in [IHandler -> IdentityCall]
      BY <1>2, <1>7, <2>3 DEF CreateIdentityKey
    <2> QED
      BY <1>7, <2>4, <2>5 DEF CreateIdentityKey
  <1>8. CASE CreateIdentityPrimary(h)
    <2>1. identities' \in Seq(IdentityRow)
      BY <1>0, <1>8, IdentitySetPrimaryKeyType DEF CreateIdentityPrimary, IdentityCall
    <2> QED
      BY <1>3, <1>8, <2>1 DEF CreateIdentityPrimary, CreatePc
  <1>9. CASE CreateIdentityActivate(h)
    <2>1. identities' \in Seq(IdentityRow)
      BY <1>9, IdentityUpdateStatusType DEF CreateIdentityActivate, IdentityStatus
    <2> QED
      BY <1>3, <1>9, <2>1 DEF CreateIdentityActivate, CreatePc
  <1>10. CASE CreateIdentityAudit(h)
    BY <1>2, <1>10 DEF CreateIdentityAudit
  <1>11. ASSUME NEW i \in DOMAIN identities, NEW target \in IdentityStatus,
                ReadNotTerminal(h, i, target)
         PROVE  TypeOK'
    <2>1. [IdentityIdle EXCEPT !.pc = "status.update", !.identity = i, !.target = target]
            \in IdentityCall
      BY <1>0, <1>1 DEF IdentityCall
    <2> QED
      BY <1>11, <2>1 DEF ReadNotTerminal
  <1>12. CASE DeactivateIdentity(h) \/ SuspendIdentity(h) \/ ReactivateIdentity(h)
    BY <1>11, <1>12
      DEF DeactivateIdentity, SuspendIdentity, ReactivateIdentity, IdentityStatus
  <1>13. CASE ChangeStatusUpdate(h)
    <2>1. identities' \in Seq(IdentityRow)
      BY <1>0, <1>13, IdentityUpdateStatusType DEF ChangeStatusUpdate, IdentityCall
    <2> QED
      BY <1>3, <1>13, <2>1 DEF ChangeStatusUpdate
  <1>14. CASE ChangeStatusAudit(h)
    BY <1>2, <1>14 DEF ChangeStatusAudit
  <1>15. CASE ReadForUpdate(h)
    <2>1. ASSUME NEW i \in DOMAIN identities
          PROVE  [IdentityIdle EXCEPT !.pc = "update.write", !.identity = i,
                                      !.version = identities[i].version,
                                      !.seen = identities[i].attributes] \in IdentityCall
      <3>1. identities[i].version \in Nat /\ identities[i].attributes \in StoredAttributes
        BY <1>0 DEF IdentityRow
      <3> QED
        BY <1>0, <1>1, <3>1 DEF IdentityCall
    <2> QED
      BY <1>15, <2>1 DEF ReadForUpdate
  <1>16. CASE UpdateIdentity(h)
    <2>1. identities' \in Seq(IdentityRow)
      BY <1>16, IdentityUpdateType, StoredForms DEF UpdateIdentity
    <2> QED
      BY <1>2, <1>16, <2>1 DEF UpdateIdentity
  <1>17. CASE IAbort(h)
    BY <1>2, <1>17 DEF IAbort
  <1> QED
    BY <1>4, <1>5, <1>6, <1>7, <1>8, <1>9, <1>10, <1>12, <1>13, <1>14, <1>15, <1>16, <1>17
      DEF IdentityStep

(***************************************************************************)
(* Steps of the key service.                                               *)
(***************************************************************************)
\* A step of a key handler keeps the types.
LEMMA KeyStepType ==
  ASSUME TypeOK, NEW h \in KHandler, KeyStep(h), UNCHANGED <<tcall, icall>>
  PROVE  TypeOK'
  <1> USE DEF TypeOK, tables, keyStoreVars
  <1>0. /\ \A i \in DOMAIN identities : i \in Nat /\ identities[i] \in IdentityRow
        /\ \A k \in DOMAIN keys : k \in Nat /\ keys[k] \in KeyRow
        /\ Len(keys) + 1 \in Nat /\ minted + 1 \in Nat
        /\ kcall[h] \in KeyCall
    BY IdsAreNat
  <1>1. KeyIdle \in KeyCall
    BY DEF KeyIdle, KeyCall, KeyType, KeyPurpose, NULL
  <1>2. ASSUME KReturn(h) PROVE kcall' \in [KHandler -> KeyCall]
    BY <1>1, <1>2 DEF KReturn
  <1>3. ASSUME NEW pc \in {"revoke.audit"} \cup RotatePc, KGoto(h, pc)
        PROVE  kcall' \in [KHandler -> KeyCall]
    <2>1. [kcall[h] EXCEPT !.pc = pc] \in KeyCall
      BY <1>0, <1>3 DEF KeyCall
    <2> QED
      BY <1>3, <2>1 DEF KGoto
  <1>4. ASSUME NEW from, NEW to \in RotatePc \cup GeneratePc, GenerateKeyPair(h, from, to)
        PROVE  TypeOK'
    <2>1. [kcall[h] EXCEPT !.pc = to, !.pair = minted + 1] \in KeyCall
      BY <1>0, <1>4 DEF KeyCall
    <2> QED
      BY <1>2, <1>4, <2>1, GeneratePairType DEF GenerateKeyPair
  <1>5. ASSUME NEW from, NEW to \in RotatePc \cup GeneratePc, InsertKey(h, from, to)
        PROVE  TypeOK'
    <2>1. /\ kcall[h].tenant \in Nat /\ kcall[h].identity \in Nat /\ kcall[h].pair \in Nat
          /\ kcall[h].type \in KeyType /\ kcall[h].purpose \in KeyPurpose
      BY <1>0 DEF KeyCall
    <2>2. CryptoKeyID(kcall[h]) \in Ref
      BY <2>1 DEF CryptoKeyID, Ref
    <2>3. keys' \in Seq(KeyRow)
      BY <1>5, <2>1, <2>2, KeyCreateType DEF InsertKey
    <2>4. [kcall[h] EXCEPT !.pc = to, !.new = Len(keys) + 1] \in KeyCall
      BY <1>0, <1>5 DEF KeyCall
    <2>5. kcall' \in [KHandler -> KeyCall]
      BY <1>2, <1>5, <2>4 DEF InsertKey
    <2> QED
      BY <1>5, <2>3, <2>5 DEF InsertKey
  <1>6. CASE GenerateKey(h)
    <2>1. ASSUME NEW i \in DOMAIN identities, NEW type \in AskedType, NEW purpose \in AskedPurpose
          PROVE  [KeyIdle EXCEPT !.pc = "generate.pair", !.identity = i,
                                 !.tenant = identities[i].tenant,
                                 !.type = type, !.purpose = purpose] \in KeyCall
      <3>1. identities[i].tenant \in Nat /\ type \in KeyType /\ purpose \in KeyPurpose
        BY <1>0, KeyServiceAssumption DEF IdentityRow
      <3> QED
        BY <1>0, <1>1, <3>1 DEF KeyCall, GeneratePc
    <2>2. PICK i \in DOMAIN identities, type \in AskedType, purpose \in AskedPurpose :
            kcall' = [kcall EXCEPT ![h] =
                        [KeyIdle EXCEPT !.pc = "generate.pair", !.identity = i,
                                        !.tenant = identities[i].tenant,
                                        !.type = type, !.purpose = purpose]]
      BY <1>6 DEF GenerateKey
    <2>3. kcall' \in [KHandler -> KeyCall]
      BY <2>1, <2>2
    <2> QED
      BY <1>6, <2>3 DEF GenerateKey
  <1>7. CASE GenerateKeyKeyPair(h) \/ RotateKeyKeyPair(h)
    BY <1>4, <1>7 DEF GenerateKeyKeyPair, RotateKeyKeyPair, RotatePc, GeneratePc
  <1>8. CASE GenerateKeyInsert(h) \/ RotateKeyInsert(h)
    BY <1>5, <1>8 DEF GenerateKeyInsert, RotateKeyInsert, RotatePc, GeneratePc
  <1>9. CASE GenerateKeyAudit(h)
    BY <1>2, <1>9 DEF GenerateKeyAudit
  <1>10. CASE RotateKey(h)
    <2>1. ASSUME NEW i \in DOMAIN identities, NEW k \in DOMAIN keys
          PROVE  [KeyIdle EXCEPT !.pc = "rotate.pair", !.identity = i, !.old = k,
                                 !.tenant = keys[k].tenant, !.type = keys[k].type,
                                 !.purpose = keys[k].purpose] \in KeyCall
      <3>1. /\ keys[k].tenant \in Nat /\ keys[k].type \in KeyType
            /\ keys[k].purpose \in KeyPurpose
        BY <1>0 DEF KeyRow
      <3> QED
        BY <1>0, <1>1, <3>1 DEF KeyCall, RotatePc
    <2> QED
      BY <1>10, <2>1 DEF RotateKey
  <1>11. CASE RotateKeyMark(h)
    <2>1. keys' \in Seq(KeyRow)
      BY <1>0, <1>11, KeyRotateType DEF RotateKeyMark, KeyCall
    <2> QED
      BY <1>3, <1>11, <2>1 DEF RotateKeyMark, RotatePc
  <1>12. CASE RotateKeyIdentity(h)
    BY <1>2, <1>3, <1>12 DEF RotateKeyIdentity, RotatePc
  <1>13. CASE RotateKeyPrimary(h)
    <2>1. identities' \in Seq(IdentityRow)
      BY <1>0, <1>13, IdentitySetPrimaryKeyType DEF RotateKeyPrimary, KeyCall
    <2> QED
      BY <1>3, <1>13, <2>1 DEF RotateKeyPrimary, RotatePc
  <1>14. CASE RotateKeyAudit(h) \/ RevokeKeyAudit(h)
    BY <1>2, <1>14 DEF RotateKeyAudit, RevokeKeyAudit, AuditKeyEvent
  <1>15. CASE RevokeKey(h)
    <2>1. \A k \in DOMAIN keys : [KeyIdle EXCEPT !.pc = "revoke.update", !.old = k] \in KeyCall
      BY <1>0, <1>1 DEF KeyCall
    <2> QED
      BY <1>15, <2>1 DEF RevokeKey
  <1>16. CASE RevokeKeyUpdate(h)
    <2>1. keys' \in Seq(KeyRow)
      BY <1>16, KeyRevokeType DEF RevokeKeyUpdate
    <2> QED
      BY <1>3, <1>16, <2>1 DEF RevokeKeyUpdate
  <1>17. CASE KAbort(h)
    BY <1>2, <1>17 DEF KAbort
  <1> QED
    BY <1>6, <1>7, <1>8, <1>9, <1>10, <1>11, <1>12, <1>13, <1>14, <1>15, <1>16, <1>17
      DEF KeyStep

(***************************************************************************)
(* The theorem.                                                            *)
(***************************************************************************)
\* The seeded rows have the types of the tables, and the seeded ids are the
\* positions of those rows.
LEMMA InitType ==
  ASSUME Init
  PROVE  TypeOK
  <1>1. /\ DOMAIN SeedIdentities = 1..Len(SeedIdentities)
        /\ Len(SeedIdentities) \in Nat
        /\ \A i \in DOMAIN SeedIdentities : i \in Nat /\ SeedIdentities[i] \in Nat
    BY SeedAssumption
  <1>2. tenants \in Seq(TenantRow)
    <2>1. \A t \in 1..SeedTenants : [slug |-> t, status |-> "active"] \in TenantRow
      BY SeedAssumption DEF TenantRow, TenantStatus
    <2>2. tenants \in [1..SeedTenants -> TenantRow]
      BY <2>1 DEF Init
    <2> QED
      BY <2>2, SeedAssumption, SeqDef
  <1>3. identities \in Seq(IdentityRow)
    <2>1. \A i \in DOMAIN SeedIdentities : SeedIdentity(i) \in IdentityRow
      BY <1>1, StoredForms DEF SeedIdentity, IdentityRow, IdentityStatus
    <2>2. identities \in [1..Len(SeedIdentities) -> IdentityRow]
      BY <1>1, <2>1 DEF Init
    <2> QED
      BY <1>1, <2>2, SeqDef
  <1>4. keys \in Seq(KeyRow)
    <2>1. \A i \in DOMAIN SeedIdentities : SeedKey(i) \in KeyRow
      BY <1>1, CreationRefType
        DEF SeedKey, KeyRow, KeyType, KeyPurpose, KeyStatus, NULL
    <2>2. keys \in [1..Len(SeedIdentities) -> KeyRow]
      BY <1>1, <2>1 DEF Init
    <2> QED
      BY <1>1, <2>2, SeqDef
  <1>5. minted \in Nat /\ \A ref \in DOMAIN vault : vault[ref] \in 1..minted
    <2>1. \A i \in DOMAIN SeedIdentities : CreationRef(i)[2] = i
      BY DEF CreationRef
    <2>2. \A ref \in DOMAIN vault : \E i \in DOMAIN SeedIdentities :
            ref = CreationRef(i) /\ vault[ref] = ref[2]
      BY DEF Init
    <2>3. minted = Len(SeedIdentities)
      BY DEF Init
    <2> QED
      BY <1>1, <2>1, <2>2, <2>3
  <1>6. TenantIdle \in TenantCall
    BY DEF TenantIdle, TenantCall, NULL
  <1>7. IdentityIdle \in IdentityCall
    BY StoredForms DEF IdentityIdle, IdentityCall, IdentityStatus, NULL
  <1>8. KeyIdle \in KeyCall
    BY DEF KeyIdle, KeyCall, KeyType, KeyPurpose, NULL
  <1> QED
    BY <1>2, <1>3, <1>4, <1>5, <1>6, <1>7, <1>8 DEF TypeOK, Init

\* Every step keeps the types.
LEMMA NextType ==
  ASSUME TypeOK, [Next]_vars
  PROVE  TypeOK'
  <1>1. CASE \E h \in THandler : TenantStep(h) /\ UNCHANGED <<keyStoreVars, icall, kcall>>
    BY <1>1, TenantStepType
  <1>2. CASE \E h \in IHandler : IdentityStep(h) /\ UNCHANGED <<tcall, kcall>>
    BY <1>2, IdentityStepType
  <1>3. CASE \E h \in KHandler : KeyStep(h) /\ UNCHANGED <<tcall, icall>>
    BY <1>3, KeyStepType
  <1>4. CASE Restart
    <2>1. TenantIdle \in TenantCall /\ KeyIdle \in KeyCall
      BY DEF TenantIdle, TenantCall, KeyIdle, KeyCall, KeyType, KeyPurpose, NULL
    <2>2. IdentityIdle \in IdentityCall
      BY StoredForms DEF IdentityIdle, IdentityCall, IdentityStatus, NULL
    <2> QED
      BY <1>4, <2>1, <2>2 DEF Restart, TypeOK, tables, EmptyVault
  <1>5. CASE UNCHANGED vars
    BY <1>5 DEF TypeOK, vars, tables, keyStoreVars
  <1> QED
    BY <1>1, <1>2, <1>3, <1>4, <1>5 DEF Next

\* Whatever the interleaving of requests, failures and restarts, the tables and
\* the handlers' locals keep the shapes the Go structs and the columns give them.
THEOREM Typing == Spec => []TypeOK
  <1>1. Init => TypeOK
    BY InitType
  <1>2. TypeOK /\ [Next]_vars => TypeOK'
    BY NextType
  <1> QED
    BY <1>1, <1>2, PTL DEF Spec

=============================================================================
