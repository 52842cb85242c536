-------------------------- MODULE VerionCoreHistory -------------------------
(***************************************************************************)
(* How the tables of VerionCore change, for every seed, every bound     *)
(* and every set of handlers: VerionCore implements KeyLedger, and what a  *)
(* deactivation, a revocation and a change of the primary key settle once  *)
(* the calls that were already under way have answered.                    *)
(***************************************************************************)
EXTENDS VerionCoreSafety

(***************************************************************************)
(* The ledger.  The tables change only as KeyTableStep and                 *)
(* IdentityTableStep say (VerionCoreSafety, layer 1) and never both in one *)
(* statement; each such change is an operation of the ledger on the mapped *)
(* state, or leaves the mapped state alone.                                *)
(***************************************************************************)
\* The mapped state, entry by entry.
LEMMA Mapping ==
  /\ DOMAIN BookOf = DOMAIN keys
  /\ \A k \in DOMAIN keys :
       /\ BookOf[k].holder = keys[k].identity
       /\ BookOf[k].realm = keys[k].tenant
       /\ BookOf[k].type = keys[k].type
       /\ BookOf[k].purpose = keys[k].purpose
       /\ BookOf[k].active <=> keys[k].status = "active"
       /\ BookOf[k].heir = keys[k].rotatedTo
  /\ DOMAIN RollOf = DOMAIN identities
  /\ \A i \in DOMAIN identities :
       /\ RollOf[i].realm = identities[i].tenant
       /\ RollOf[i].signer = identities[i].primary
  BY DEF BookOf, RollOf

\* The same in the next state.
LEMMA MappingNext ==
  /\ DOMAIN BookOf' = DOMAIN keys'
  /\ \A k \in DOMAIN keys' :
       /\ BookOf'[k].holder = keys'[k].identity
       /\ BookOf'[k].realm = keys'[k].tenant
       /\ BookOf'[k].type = keys'[k].type
       /\ BookOf'[k].purpose = keys'[k].purpose
       /\ BookOf'[k].active <=> keys'[k].status = "active"
       /\ BookOf'[k].heir = keys'[k].rotatedTo
  /\ DOMAIN RollOf' = DOMAIN identities'
  /\ \A i \in DOMAIN identities' :
       /\ RollOf'[i].realm = identities'[i].tenant
       /\ RollOf'[i].signer = identities'[i].primary
  BY DEF BookOf, RollOf

\* A row that does not change has the same entry.
LEMMA EntryKept ==
  /\ \A k \in DOMAIN keys \cap DOMAIN keys' : keys'[k] = keys[k] => BookOf'[k] = BookOf[k]
  /\ \A i \in DOMAIN identities \cap DOMAIN identities' :
       /\ identities'[i].tenant = identities[i].tenant
       /\ identities'[i].primary = identities[i].primary
       => RollOf'[i] = RollOf[i]
  BY DEF BookOf, RollOf

\* No statement writes both identity_keys and identities.
LEMMA OneTable ==
  ASSUME [Next]_vars
  PROVE  UNCHANGED keys \/ UNCHANGED identities
  <1>1. ASSUME NEW h \in THandler, TenantStep(h) PROVE UNCHANGED keys
    BY <1>1, TenantStepTables
  <1>2. ASSUME NEW h \in IHandler, IdentityStep(h)
        PROVE  UNCHANGED keys \/ UNCHANGED identities
    BY <1>2 DEF IdentityStep, CreateIdentity, CreateIdentityInsert, CreateIdentityGenerate,
         CreateIdentityKey, CreateIdentityPrimary, CreateIdentityActivate,
         CreateIdentityAudit, DeactivateIdentity, SuspendIdentity, ReactivateIdentity,
         ReadNotTerminal, ChangeStatusUpdate, ChangeStatusAudit, ReadForUpdate,
         UpdateIdentity, IAbort, tables
  <1>3. ASSUME NEW h \in KHandler, KeyStep(h)
        PROVE  UNCHANGED keys \/ UNCHANGED identities
    BY <1>3 DEF KeyStep, GenerateKey, GenerateKeyKeyPair, GenerateKeyInsert, GenerateKeyAudit,
         RotateKey, RotateKeyKeyPair, RotateKeyInsert, RotateKeyMark, RotateKeyIdentity,
         RotateKeyPrimary, RotateKeyAudit, RevokeKey, RevokeKeyUpdate, RevokeKeyAudit,
         KAbort, GenerateKeyPair, InsertKey, AuditKeyEvent, tables
  <1> QED
    BY <1>1, <1>2, <1>3 DEF Next, Restart, vars, tables

\* An admitted insertion of a key is an issue.
LEMMA InsertionIssues ==
  ASSUME keys \in Seq(KeyRow), KeyInsertion
  PROVE  Ledger!Issue
  <1> DEFINE n == Len(keys) + 1
  <1>1. PICK i \in Nat, purpose \in KeyPurpose :
          /\ NoActiveKey(i, purpose)
          /\ DOMAIN keys' = DOMAIN keys \cup {n}
          /\ \A k \in DOMAIN keys : keys'[k] = keys[k] /\ n > k
          /\ keys'[n].identity = i
          /\ keys'[n].purpose = purpose
          /\ keys'[n].status = "active"
          /\ keys'[n].rotatedTo = NULL
    BY KeyInsertionEffect
  <1>2. n \in Nat /\ n \notin DOMAIN keys /\ \A k \in DOMAIN keys : k < n
    OBVIOUS
  <1> HIDE DEF n
  <1>3. n \in DOMAIN BookOf' \ DOMAIN BookOf /\ DOMAIN BookOf' = DOMAIN BookOf \cup {n}
    BY <1>1, <1>2, Mapping, MappingNext
  <1>4. \A j \in DOMAIN BookOf : j < n /\ BookOf'[j] = BookOf[j]
    BY <1>1, <1>2, Mapping, EntryKept
  <1>5. /\ BookOf'[n].holder = i /\ BookOf'[n].purpose = purpose
        /\ BookOf'[n].active /\ BookOf'[n].heir = Ledger!None
    BY <1>1, MappingNext DEF Ledger!None, NULL
  <1>6. Ledger!Vacant(i, purpose)
    BY <1>1, Mapping DEF NoActiveKey, Ledger!Vacant
  <1> QED
    BY <1>3, <1>4, <1>5, <1>6 DEF Ledger!Issue

\* Rotate and Revoke retire one key; Rotate names a later key of the same kind.
LEMMA RotationRetires ==
  ASSUME keys \in Seq(KeyRow), KeyRotation \/ KeyRevocation
  PROVE  Ledger!Retire
  <1>0. \A k \in DOMAIN keys : k \in Nat /\ keys[k] \in KeyRow
    BY IdsAreNat
  <1>1. CASE KeyRotation
    <2>1. PICK old \in DOMAIN keys, new \in DOMAIN keys :
            /\ new > old
            /\ keys[new].tenant = keys[old].tenant
            /\ keys[new].type = keys[old].type
            /\ keys[new].purpose = keys[old].purpose
            /\ KeyRotate(old, new)
      BY <1>1 DEF KeyRotation
    <2>2. /\ DOMAIN keys' = DOMAIN keys
          /\ \A k \in DOMAIN keys \ {old} : keys'[k] = keys[k]
          /\ keys'[old].status = "rotated" /\ keys'[old].rotatedTo = new
          /\ keys'[old].identity = keys[old].identity /\ keys'[old].tenant = keys[old].tenant
          /\ keys'[old].type = keys[old].type /\ keys'[old].purpose = keys[old].purpose
      BY <1>0, <2>1, KeyRotateEffect
    <2>3. DOMAIN BookOf' = DOMAIN BookOf /\ \A j \in DOMAIN BookOf \ {old} : BookOf'[j] = BookOf[j]
      BY <2>2, Mapping, MappingNext, EntryKept
    <2>4. Ledger!SameKey(old) /\ ~BookOf'[old].active /\ BookOf'[old].heir = new
      BY <2>1, <2>2, Mapping, MappingNext DEF Ledger!SameKey
    <2>5. /\ old \in DOMAIN BookOf /\ new \in DOMAIN BookOf /\ new > old
          /\ BookOf[new].realm = BookOf[old].realm
          /\ BookOf[new].type = BookOf[old].type
          /\ BookOf[new].purpose = BookOf[old].purpose
      BY <2>1, Mapping
    <2> QED
      BY <2>3, <2>4, <2>5 DEF Ledger!Retire
  <1>2. CASE KeyRevocation
    <2>1. PICK k \in DOMAIN keys : KeyRevoke(k)
      BY <1>2 DEF KeyRevocation
    <2>2. /\ DOMAIN keys' = DOMAIN keys
          /\ \A j \in DOMAIN keys \ {k} : keys'[j] = keys[j]
          /\ keys'[k] = [keys[k] EXCEPT !.status = "revoked"]
      BY <2>1, KeyRevokeEffect
    <2>3. keys[k] \in KeyRow
      BY <1>0
    <2>4. /\ keys'[k].identity = keys[k].identity /\ keys'[k].tenant = keys[k].tenant
          /\ keys'[k].type = keys[k].type /\ keys'[k].purpose = keys[k].purpose
          /\ keys'[k].status = "revoked" /\ keys'[k].rotatedTo = keys[k].rotatedTo
      BY <2>2, <2>3 DEF KeyRow
    <2>5. DOMAIN BookOf' = DOMAIN BookOf /\ \A j \in DOMAIN BookOf \ {k} : BookOf'[j] = BookOf[j]
      BY <2>2, Mapping, MappingNext, EntryKept
    <2>6. /\ Ledger!SameKey(k) /\ ~BookOf'[k].active /\ BookOf'[k].heir = BookOf[k].heir
          /\ k \in DOMAIN BookOf
      BY <2>1, <2>2, <2>4, Mapping, MappingNext DEF Ledger!SameKey
    <2> QED
      BY <2>5, <2>6 DEF Ledger!Retire
  <1> QED
    BY <1>1, <1>2

\* A change of identity_keys alone is a step of the ledger's book.
LEMMA KeyTableMaps ==
  ASSUME keys \in Seq(KeyRow), KeyTableStep, BookOf' # BookOf
  PROVE  Ledger!Issue \/ Ledger!Retire
  <1>1. keys' # keys
    BY DEF BookOf
  <1> QED
    BY <1>1, InsertionIssues, RotationRetires DEF KeyTableStep

\* A change of identities alone is a step of the ledger's roll, or invisible.
LEMMA IdentityTableMaps ==
  ASSUME identities \in Seq(IdentityRow), keys \in Seq(KeyRow), IdentityTableStep,
         RollOf' # RollOf
  PROVE  Ledger!Enrol \/ Ledger!Appoint
  <1>1. CASE IdentityInsertion
    <2> DEFINE n == Len(identities) + 1
    <2>1. /\ DOMAIN identities' = DOMAIN identities \cup {n}
          /\ \A i \in DOMAIN identities : identities'[i] = identities[i]
          /\ identities'[n].primary = NULL
      BY <1>1, IdentityInsertionEffect
    <2>2. n \notin DOMAIN identities
      OBVIOUS
    <2> HIDE DEF n
    <2>3. n \in DOMAIN RollOf' \ DOMAIN RollOf /\ DOMAIN RollOf' = DOMAIN RollOf \cup {n}
      BY <2>1, <2>2, Mapping, MappingNext
    <2>4. \A j \in DOMAIN RollOf : RollOf'[j] = RollOf[j]
      BY <2>1, Mapping, EntryKept
    <2>5. RollOf'[n].signer = Ledger!None
      BY <2>1, MappingNext DEF Ledger!None, NULL
    <2> QED
      BY <2>3, <2>4, <2>5 DEF Ledger!Enrol
  <1>2. CASE IdentityChange
    <2>1. PICK i \in DOMAIN identities :
            /\ DOMAIN identities' = DOMAIN identities
            /\ \A j \in DOMAIN identities \ {i} : identities'[j] = identities[j]
            /\ identities'[i].tenant = identities[i].tenant
            /\ identities'[i].primary = identities[i].primary
      BY <1>2, IdentityChangeEffect
    <2>2. \A j \in DOMAIN identities : /\ identities'[j].tenant = identities[j].tenant
                                       /\ identities'[j].primary = identities[j].primary
      BY <2>1
    <2>3. RollOf' = RollOf
      BY <2>1, <2>2 DEF RollOf
    <2> QED
      BY <2>3
  <1>3. CASE PrimaryKeyChange
    <2>1. PICK i \in DOMAIN identities, k \in DOMAIN keys :
            /\ keys[k].identity = i
            /\ keys[k].tenant = identities[i].tenant
            /\ keys[k].purpose = "signing"
            /\ IdentitySetPrimaryKey(i, k)
      BY <1>3 DEF PrimaryKeyChange
    <2>2. k \in Nat
      BY IdsAreNat
    <2>3. /\ DOMAIN identities' = DOMAIN identities
          /\ \A j \in DOMAIN identities \ {i} : identities'[j] = identities[j]
          /\ identities'[i].primary = k
          /\ identities'[i].tenant = identities[i].tenant
      BY <2>1, <2>2, SetPrimaryKeyEffect
    <2>4. Ledger!MaySign(i, k) /\ i \in DOMAIN RollOf /\ k \in DOMAIN BookOf
      BY <2>1, Mapping DEF Ledger!MaySign
    <2>5. DOMAIN RollOf' = DOMAIN RollOf /\ \A j \in DOMAIN RollOf \ {i} : RollOf'[j] = RollOf[j]
      BY <2>3, Mapping, MappingNext, EntryKept
    <2>6. RollOf'[i].realm = RollOf[i].realm /\ RollOf'[i].signer = k
      BY <2>1, <2>3, Mapping, MappingNext
    <2> QED
      BY <2>4, <2>5, <2>6 DEF Ledger!Appoint
  <1>4. CASE UNCHANGED identities
    BY <1>4 DEF RollOf
  <1> QED
    BY <1>1, <1>2, <1>3, <1>4 DEF IdentityTableStep

\* The seeded rows map to an initial ledger.
LEMMA InitMaps ==
  ASSUME Init
  PROVE  Ledger!LedgerInit
  <1>1. /\ DOMAIN identities = DOMAIN SeedIdentities /\ DOMAIN keys = DOMAIN SeedIdentities
        /\ \A i \in DOMAIN SeedIdentities :
             /\ identities[i].primary = i /\ identities[i].tenant = SeedIdentities[i]
             /\ keys[i].identity = i /\ keys[i].tenant = SeedIdentities[i]
             /\ keys[i].purpose = "signing" /\ keys[i].status = "active"
             /\ keys[i].rotatedTo = NULL
    BY DEF Init, SeedIdentity, SeedKey
  <1>2. \A i \in DOMAIN RollOf : Ledger!MaySign(i, RollOf[i].signer)
    BY <1>1, Mapping DEF Ledger!MaySign
  <1>3. \A k \in DOMAIN BookOf : BookOf[k].active /\ BookOf[k].heir = Ledger!None
    BY <1>1, Mapping DEF Ledger!None, NULL
  <1>4. \A j, k \in DOMAIN BookOf :
          BookOf[j].holder = BookOf[k].holder /\ BookOf[j].purpose = BookOf[k].purpose => j = k
    BY <1>1, Mapping
  <1> QED
    BY <1>2, <1>3, <1>4 DEF Ledger!LedgerInit

\* Every step maps to a step of the ledger or leaves it alone.
LEMMA NextMaps ==
  ASSUME IInv, [Next]_vars
  PROVE  [Ledger!LedgerNext]_(Ledger!ledger)
  <1>0. /\ KeyTableStep /\ IdentityTableStep
        /\ keys \in Seq(KeyRow) /\ identities \in Seq(IdentityRow)
    BY NextTables DEF IInv, TypeOK
  <1>1. UNCHANGED keys => BookOf' = BookOf
    BY DEF BookOf
  <1>2. UNCHANGED identities => RollOf' = RollOf
    BY DEF RollOf
  <1>3. BookOf' = BookOf \/ RollOf' = RollOf
    BY <1>1, <1>2, OneTable
  <1>4. BookOf' # BookOf => Ledger!LedgerNext
    BY <1>0, <1>3, KeyTableMaps DEF Ledger!LedgerNext
  <1>5. RollOf' # RollOf => Ledger!LedgerNext
    BY <1>0, <1>3, IdentityTableMaps DEF Ledger!LedgerNext
  <1> QED
    BY <1>4, <1>5 DEF Ledger!ledger

\* However creations, generations, rotations, revocations and crashes overlap,
\* the key tables behave as the ledger of module KeyLedger.
THEOREM ImplementsKeyLedger == Spec => KeyLedgerKept
  <1>1. Init => Ledger!LedgerInit
    BY InitMaps
  <1>2. IInv /\ [Next]_vars => [Ledger!LedgerNext]_(Ledger!ledger)
    BY NextMaps
  <1> QED
    BY <1>1, <1>2, Invariance, PTL DEF Spec, KeyLedgerKept, Ledger!LedgerSpec

(***************************************************************************)
(* What settles.  A handler checks a row in one statement and writes it in *)
(* a later one, and nothing in between checks it again, so a call that is  *)
(* under way may still undo a deactivation or a revocation.  The three     *)
(* predicates Closed, Withdrawn and Superseded of VerionCore add to the    *)
(* state of the row that no call under way holds such a check; the lemmas  *)
(* below say which statements write the row, and which steps bring a call  *)
(* to the point where it is about to.                                      *)
(***************************************************************************)

\* A creation that has not set the primary key of its identity yet.
Unbound(h) == icall[h].pc \in {"create.generate", "create.key", "create.primary"}

\* UpdateStatus writes the status of one identity.
LEMMA UpdateStatusEffect ==
  ASSUME identities \in Seq(IdentityRow), NEW i \in DOMAIN identities,
         NEW status \in IdentityStatus, IdentityUpdateStatus(i, status)
  PROVE  /\ DOMAIN identities' = DOMAIN identities
         /\ \A j \in DOMAIN identities \ {i} : identities'[j] = identities[j]
         /\ identities'[i].status = status
         /\ identities'[i].primary = identities[i].primary
  <1>1. identities[i] \in IdentityRow
    BY IdsAreNat
  <1> DEFINE row == [identities[i] EXCEPT !.status = status,
                                          !.deactivatedAt = IsTerminal(status) \/ @]
  <1>2. identities' = [identities EXCEPT ![i] = row]
    BY DEF IdentityUpdateStatus
  <1>3. row.status = status /\ row.primary = identities[i].primary
    BY <1>1 DEF IdentityRow
  <1> HIDE DEF row
  <1> QED
    BY <1>2, <1>3

\* Update writes neither the status nor the primary key of an identity.
LEMMA UpdateEffect ==
  ASSUME identities \in Seq(IdentityRow), NEW i \in DOMAIN identities,
         NEW attributes, IdentityUpdate(i, attributes)
  PROVE  /\ DOMAIN identities' = DOMAIN identities
         /\ \A j \in DOMAIN identities :
              /\ identities'[j].status = identities[j].status
              /\ identities'[j].primary = identities[j].primary
  <1>1. identities[i] \in IdentityRow
    BY IdsAreNat
  <1> DEFINE row == [identities[i] EXCEPT !.attributes = attributes,
                                          !.attributesIV = <<>>, !.version = @ + 1]
  <1>2. identities' = [identities EXCEPT ![i] = row]
    BY DEF IdentityUpdate
  <1>3. row.status = identities[i].status /\ row.primary = identities[i].primary
    BY <1>1 DEF IdentityRow
  <1> HIDE DEF row
  <1> QED
    BY <1>2, <1>3

\* What an insertion by CreateIdentity leaves: a pending identity without primary
\* key, the older rows as they were.
LEMMA InsertEffect ==
  ASSUME IInv, NEW h \in IHandler, CreateIdentityInsert(h)
  PROVE  /\ \A i \in DOMAIN identities : i \in DOMAIN identities' /\ identities'[i] = identities[i]
         /\ icall'[h].pc = "create.generate" =>
              /\ icall'[h].identity \notin DOMAIN identities
              /\ identities'[icall'[h].identity].status = "pending"
              /\ identities'[icall'[h].identity].primary = NULL
         /\ icall'[h].pc \in {"create.generate", "idle"}
  <1>1. /\ icall \in [IHandler -> IdentityCall] /\ icall[h] \in IdentityCall
        /\ identities \in Seq(IdentityRow)
    BY DEF IInv, TypeOK
  <1>2. CASE UNCHANGED identities /\ IReturn(h)
    BY <1>1, <1>2 DEF IReturn, IdentityIdle
  <1>3. ASSUME NEW handle \in Handle, NEW attrs \in Attributes \cup {NoAttributes},
               IdentityCreate(icall[h].tenant, handle, EncryptAttributes(attrs)),
               icall' = [icall EXCEPT ![h].pc = "create.generate",
                                      ![h].identity = Len(identities) + 1]
        PROVE  /\ \A i \in DOMAIN identities :
                    i \in DOMAIN identities' /\ identities'[i] = identities[i]
               /\ icall'[h].pc = "create.generate"
               /\ icall'[h].identity \notin DOMAIN identities
               /\ identities'[icall'[h].identity].status = "pending"
               /\ identities'[icall'[h].identity].primary = NULL
    <2>1. icall[h].tenant \in Nat /\ EncryptAttributes(attrs) \in StoredAttributes
      BY <1>1, StoredForms DEF IdentityCall
    <2>2. icall'[h].pc = "create.generate" /\ icall'[h].identity = Len(identities) + 1
      BY <1>1, <1>3 DEF IdentityCall
    <2>3. Len(identities) + 1 \notin DOMAIN identities
      BY <1>1
    <2> QED
      BY <1>1, <1>3, <2>1, <2>2, <2>3, IdentityCreateEffect
  <1> QED
    BY <1>2, <1>3 DEF CreateIdentityInsert

\* How a creation moves on once the identity is inserted: same identity, one
\* statement further, and past SetPrimaryKey only by CreateIdentityPrimary.
LEMMA CreationMoves ==
  ASSUME IInv, NEW h \in IHandler, IdentityStep(h), ~CreateIdentityInsert(h),
         icall'[h].pc \in {"create.generate", "create.key", "create.primary",
                           "create.activate"}
  PROVE  /\ Unbound(h)
         /\ icall'[h].identity = icall[h].identity
         /\ icall'[h].pc = "create.activate" => CreateIdentityPrimary(h)
         /\ icall'[h].pc # "create.activate" => UNCHANGED identities
  <1>0. icall \in [IHandler -> IdentityCall] /\ icall[h] \in IdentityCall
    BY DEF IInv, TypeOK
  <1>1. ASSUME IReturn(h) PROVE icall'[h].pc = "idle"
    BY <1>0, <1>1 DEF IReturn, IdentityIdle
  <1>2. ASSUME NEW pc, IGoto(h, pc)
        PROVE  icall'[h].pc = pc /\ icall'[h].identity = icall[h].identity
    BY <1>0, <1>2 DEF IGoto, IdentityCall
  <1>3. CASE CreateIdentityGenerate(h)
    <2>1. /\ icall'[h].pc = "create.key" /\ icall'[h].identity = icall[h].identity
          /\ icall[h].pc = "create.generate"
      BY <1>0, <1>3 DEF CreateIdentityGenerate, IdentityCall
    <2>2. UNCHANGED identities
      BY <1>3 DEF CreateIdentityGenerate, tables
    <2> QED
      BY <2>1, <2>2 DEF Unbound
  <1>4. CASE CreateIdentityKey(h)
    <2>1. UNCHANGED identities /\ icall[h].pc = "create.key"
      BY <1>4 DEF CreateIdentityKey
    <2>2. icall' = [icall EXCEPT ![h].pc = "create.primary", ![h].key = Len(keys) + 1]
      BY <1>1, <1>4 DEF CreateIdentityKey
    <2>3. icall'[h].pc = "create.primary" /\ icall'[h].identity = icall[h].identity
      BY <1>0, <2>2 DEF IdentityCall
    <2> QED
      BY <2>1, <2>3 DEF Unbound
  <1>5. CASE CreateIdentityPrimary(h)
    BY <1>2, <1>5 DEF CreateIdentityPrimary, Unbound
  <1>6. CASE CreateIdentity(h)
    <2>1. icall'[h].pc = "create.insert"
      BY <1>0, <1>6 DEF CreateIdentity, IdentityIdle
    <2> QED
      BY <2>1
  <1>7. CASE DeactivateIdentity(h) \/ SuspendIdentity(h) \/ ReactivateIdentity(h)
    <2>1. icall'[h].pc = "status.update"
      BY <1>0, <1>7, ZenonT(60) DEF DeactivateIdentity, SuspendIdentity, ReactivateIdentity,
                        ReadNotTerminal, IdentityIdle
    <2> QED
      BY <2>1
  <1>8. CASE CreateIdentityActivate(h) \/ ChangeStatusUpdate(h)
    BY <1>2, <1>8 DEF CreateIdentityActivate, ChangeStatusUpdate
  <1>9. CASE ReadForUpdate(h)
    <2>1. icall'[h].pc = "update.write"
      BY <1>0, <1>9 DEF ReadForUpdate, IdentityIdle
    <2> QED
      BY <2>1
  <1>10. CASE \/ CreateIdentityAudit(h) \/ ChangeStatusAudit(h) \/ UpdateIdentity(h)
              \/ IAbort(h)
    BY <1>1, <1>10 DEF CreateIdentityAudit, ChangeStatusAudit, UpdateIdentity, IAbort
  <1> QED
    BY <1>3, <1>4, <1>5, <1>6, <1>7, <1>8, <1>9, <1>10 DEF IdentityStep

\* A status change starts on an identity that is not terminal.
LEMMA StatusChangeStarts ==
  ASSUME IInv, NEW h \in IHandler, IdentityStep(h), icall'[h].pc = "status.update"
  PROVE  UNCHANGED identities /\ ~IsTerminal(identities[icall'[h].identity].status)
  <1>0. icall \in [IHandler -> IdentityCall] /\ icall[h] \in IdentityCall
    BY DEF IInv, TypeOK
  <1>1. ASSUME IReturn(h) PROVE FALSE
    BY <1>0, <1>1 DEF IReturn, IdentityIdle
  <1>2. ASSUME NEW pc, IGoto(h, pc) PROVE pc = "status.update"
    BY <1>0, <1>2 DEF IGoto, IdentityCall
  <1>3. CASE DeactivateIdentity(h) \/ SuspendIdentity(h) \/ ReactivateIdentity(h)
    <2>1. PICK i \in DOMAIN identities, target \in {"deactivated", "suspended", "active"} :
            ReadNotTerminal(h, i, target)
      BY <1>3 DEF DeactivateIdentity, SuspendIdentity, ReactivateIdentity
    <2>2. icall'[h].identity = i
      BY <1>0, <2>1, ZenonT(60) DEF ReadNotTerminal, IdentityIdle
    <2> QED
      BY <2>1, <2>2 DEF ReadNotTerminal, tables
  <1>4. CASE CreateIdentity(h)
    <2>1. icall'[h].pc = "create.insert"
      BY <1>0, <1>4 DEF CreateIdentity, IdentityIdle
    <2> QED
      BY <2>1
  <1>5. CASE ReadForUpdate(h)
    <2>1. icall'[h].pc = "update.write"
      BY <1>0, <1>5 DEF ReadForUpdate, IdentityIdle
    <2> QED
      BY <2>1
  <1>6. CASE CreateIdentityInsert(h)
    BY <1>6, InsertEffect
  <1>7. CASE CreateIdentityGenerate(h)
    <2>1. icall'[h].pc = "create.key"
      BY <1>0, <1>7 DEF CreateIdentityGenerate, IdentityCall
    <2> QED
      BY <2>1
  <1>8. CASE CreateIdentityKey(h)
    <2>1. icall' = [icall EXCEPT ![h].pc = "create.primary", ![h].key = Len(keys) + 1]
      BY <1>1, <1>8 DEF CreateIdentityKey
    <2>2. icall'[h].pc = "create.primary"
      BY <1>0, <2>1 DEF IdentityCall
    <2> QED
      BY <2>2
  <1>9. CASE CreateIdentityPrimary(h) \/ CreateIdentityActivate(h) \/ ChangeStatusUpdate(h)
    BY <1>2, <1>9 DEF CreateIdentityPrimary, CreateIdentityActivate, ChangeStatusUpdate
  <1>10. CASE \/ CreateIdentityAudit(h) \/ ChangeStatusAudit(h) \/ UpdateIdentity(h)
              \/ IAbort(h)
    BY <1>1, <1>10 DEF CreateIdentityAudit, ChangeStatusAudit, UpdateIdentity, IAbort
  <1> QED
    BY <1>3, <1>4, <1>5, <1>6, <1>7, <1>8, <1>9, <1>10 DEF IdentityStep

\* The rows of identities keep status and primary key.
SameStatus == \A i \in DOMAIN identities : identities'[i].status = identities[i].status

SamePrimary == \A i \in DOMAIN identities : identities'[i].primary = identities[i].primary

\* Only three statements write a status or a primary key of an existing identity
\* for the identity handlers.
LEMMA IdentityWriters ==
  ASSUME IInv, NEW h \in IHandler, IdentityStep(h)
  PROVE  \/ SameStatus /\ SamePrimary
         \/ CreateIdentityPrimary(h)
         \/ CreateIdentityActivate(h)
         \/ ChangeStatusUpdate(h)
  <1>1. identities \in Seq(IdentityRow) /\ IdentityCallSound(icall[h])
    BY DEF IInv, TypeOK, IdentityCallsSound
  <1>2. CASE CreateIdentityInsert(h)
    BY <1>2, InsertEffect DEF SameStatus, SamePrimary
  <1>3. CASE UpdateIdentity(h)
    <2>1. icall[h].identity \in DOMAIN identities
      BY <1>1, <1>3 DEF UpdateIdentity, IdentityCallSound
    <2>2. UNCHANGED identities \/ \E a : IdentityUpdate(icall[h].identity, a)
      BY <1>3 DEF UpdateIdentity
    <2> QED
      BY <1>1, <2>1, <2>2, UpdateEffect DEF SameStatus, SamePrimary
  <1>4. CASE \/ CreateIdentity(h) \/ CreateIdentityGenerate(h) \/ CreateIdentityKey(h)
             \/ CreateIdentityAudit(h) \/ DeactivateIdentity(h) \/ SuspendIdentity(h)
             \/ ReactivateIdentity(h) \/ ChangeStatusAudit(h) \/ ReadForUpdate(h) \/ IAbort(h)
    <2>1. UNCHANGED identities
      BY <1>4 DEF CreateIdentity, CreateIdentityGenerate, CreateIdentityKey,
                  CreateIdentityAudit, DeactivateIdentity, SuspendIdentity,
                  ReactivateIdentity, ReadNotTerminal, ChangeStatusAudit, ReadForUpdate,
                  IAbort, tables
    <2> QED
      BY <2>1 DEF SameStatus, SamePrimary
  <1> QED
    BY <1>2, <1>3, <1>4 DEF IdentityStep

\* What CreateIdentityPrimary writes.
LEMMA CreationBinds ==
  ASSUME IInv, NEW h \in IHandler, CreateIdentityPrimary(h)
  PROVE  /\ Unbound(h)
         /\ icall[h].identity \in DOMAIN identities
         /\ SameStatus
         /\ \A i \in DOMAIN identities \ {icall[h].identity} :
              identities'[i].primary = identities[i].primary
         /\ identities'[icall[h].identity].primary = icall[h].key
         /\ icall[h].key \in Nat
         /\ ~Unbound(h)'
  <1>1. /\ identities \in Seq(IdentityRow) /\ keys \in Seq(KeyRow)
        /\ IdentityCallSound(icall[h]) /\ icall \in [IHandler -> IdentityCall]
    BY DEF IInv, TypeOK, IdentityCallsSound
  <1>2. /\ icall[h].pc = "create.primary" /\ IGoto(h, "create.activate")
        /\ IdentitySetPrimaryKey(icall[h].identity, icall[h].key)
    BY DEF CreateIdentityPrimary
  <1>3. icall[h].identity \in DOMAIN identities /\ icall[h].key \in DOMAIN keys
    BY <1>1, <1>2 DEF IdentityCallSound, CreatePc
  <1>4. icall[h].key \in Nat
    BY <1>1, <1>3, IdsAreNat
  <1>5. icall'[h].pc = "create.activate"
    BY <1>1, <1>2 DEF IGoto, IdentityCall
  <1> QED
    BY <1>1, <1>2, <1>3, <1>4, <1>5, SetPrimaryKeyEffect DEF SameStatus, Unbound

\* What the two statements that write a status write.
LEMMA StatusWritten ==
  ASSUME IInv, NEW h \in IHandler, CreateIdentityActivate(h) \/ ChangeStatusUpdate(h)
  PROVE  /\ icall[h].pc \in {"create.activate", "status.update"}
         /\ icall[h].identity \in DOMAIN identities
         /\ SamePrimary
         /\ \A i \in DOMAIN identities \ {icall[h].identity} :
              identities'[i].status = identities[i].status
         /\ icall'[h].pc \in {"create.audit", "status.audit"}
  <1>1. /\ identities \in Seq(IdentityRow) /\ IdentityCallSound(icall[h])
        /\ icall \in [IHandler -> IdentityCall] /\ icall[h] \in IdentityCall
    BY DEF IInv, TypeOK, IdentityCallsSound
  <1>2. PICK status \in IdentityStatus : IdentityUpdateStatus(icall[h].identity, status)
    BY <1>1 DEF CreateIdentityActivate, ChangeStatusUpdate, IdentityCall, IdentityStatus
  <1>3. icall[h].pc \in {"create.activate", "status.update"}
    BY DEF CreateIdentityActivate, ChangeStatusUpdate
  <1>4. icall[h].identity \in DOMAIN identities
    BY <1>1, <1>3 DEF IdentityCallSound, CreatePc
  <1>5. \E pc \in {"create.audit", "status.audit"} : IGoto(h, pc)
    BY DEF CreateIdentityActivate, ChangeStatusUpdate
  <1>6. icall'[h].pc \in {"create.audit", "status.audit"}
    BY <1>1, <1>5 DEF IGoto, IdentityCall
  <1> QED
    BY <1>1, <1>2, <1>3, <1>4, <1>6, UpdateStatusEffect DEF SamePrimary

\* For the key handlers only RotateKey writes identities: the primary key of the
\* identity it was given.
LEMMA KeyStepWrites ==
  ASSUME IInv, NEW h \in KHandler, KeyStep(h)
  PROVE  /\ SameStatus
         /\ \/ UNCHANGED identities
            \/ /\ RotateKeyPrimary(h)
               /\ kcall[h].pc = "rotate.primary"
               /\ kcall[h].identity \in DOMAIN identities
               /\ \A i \in DOMAIN identities \ {kcall[h].identity} :
                    identities'[i].primary = identities[i].primary
               /\ identities'[kcall[h].identity].primary = kcall[h].new
               /\ kcall[h].new \in Nat /\ kcall[h].old \in Nat /\ kcall[h].new > kcall[h].old
               /\ kcall[h].old # NULL
               /\ kcall'[h].pc = "rotate.audit"
  <1>1. CASE RotateKeyPrimary(h)
    <2>1. /\ identities \in Seq(IdentityRow) /\ keys \in Seq(KeyRow)
          /\ KeyCallSound(kcall[h]) /\ kcall \in [KHandler -> KeyCall]
      BY DEF IInv, TypeOK, KeyCallsSound
    <2>2. /\ kcall[h].pc = "rotate.primary" /\ KGoto(h, "rotate.audit")
          /\ IdentitySetPrimaryKey(kcall[h].identity, kcall[h].new)
      BY <1>1 DEF RotateKeyPrimary
    <2>3. /\ kcall[h].identity \in DOMAIN identities
          /\ kcall[h].new \in DOMAIN keys /\ kcall[h].old \in DOMAIN keys
          /\ kcall[h].new > kcall[h].old
      BY <2>1, <2>2 DEF KeyCallSound, RotatePc
    <2>4. kcall[h].new \in Nat /\ kcall[h].old \in Nat /\ kcall[h].old # NULL
      BY <2>1, <2>3, IdsAreNat
    <2>5. kcall'[h].pc = "rotate.audit"
      BY <2>1, <2>2 DEF KGoto, KeyCall
    <2> QED
      BY <1>1, <2>1, <2>2, <2>3, <2>4, <2>5, SetPrimaryKeyEffect DEF SameStatus
  <1>2. CASE ~RotateKeyPrimary(h)
    <2>1. UNCHANGED identities
      BY <1>2 DEF KeyStep, GenerateKey, GenerateKeyKeyPair, GenerateKeyInsert,
         GenerateKeyAudit, RotateKey, RotateKeyKeyPair, RotateKeyInsert, RotateKeyMark,
         RotateKeyIdentity, RotateKeyAudit, RevokeKey, RevokeKeyUpdate, RevokeKeyAudit,
         KAbort, GenerateKeyPair, InsertKey, AuditKeyEvent, tables
    <2> QED
      BY <2>1 DEF SameStatus
  <1> QED
    BY <1>1, <1>2

\* A closed identity stays closed: who writes its status is a call Closed excludes,
\* and no call becomes one, since the checks refuse a terminal row.
LEMMA ClosedStep ==
  ASSUME IInv, [Next]_vars, NEW i \in DOMAIN identities, Closed(i)
  PROVE  Closed(i)'
  <1> DEFINE Writing == {"status.update", "create.generate", "create.key",
                         "create.primary", "create.activate"}
  <1>1. ASSUME identities'[i].status = identities[i].status, icall' = icall
        PROVE  Closed(i)'
    BY <1>1 DEF Closed
  <1>2. ASSUME NEW h \in IHandler, IdentityStep(h)
        PROVE  Closed(i)'
    <2>1. identities'[i].status = identities[i].status
      <3>1. CASE CreateIdentityActivate(h) \/ ChangeStatusUpdate(h)
        <4>1. icall[h].identity # i
          BY <3>1, StatusWritten DEF Closed
        <4> QED
          BY <3>1, <4>1, StatusWritten
      <3>2. CASE SameStatus
        BY <3>2 DEF SameStatus
      <3> QED
        BY <1>2, <3>1, <3>2, IdentityWriters, CreationBinds
    <2>2. \A g \in IHandler \ {h} : icall'[g] = icall[g]
      BY <1>2, IdentityStepMovesOne DEF IInv, TypeOK
    <2>3. ASSUME icall'[h].pc \in Writing
          PROVE  icall'[h].identity # i
      <3>1. CASE icall'[h].pc = "status.update"
        BY <1>2, <3>1, StatusChangeStarts DEF Closed
      <3>2. CASE CreateIdentityInsert(h)
        <4>1. icall'[h].pc = "create.generate"
          BY <2>3, <3>2, InsertEffect
        <4> QED
          BY <3>2, <4>1, InsertEffect
      <3>3. CASE icall'[h].pc # "status.update" /\ ~CreateIdentityInsert(h)
        <4>1. Unbound(h) /\ icall'[h].identity = icall[h].identity
          BY <1>2, <2>3, <3>3, CreationMoves
        <4> QED
          BY <4>1 DEF Unbound, Closed
      <3> QED
        BY <3>1, <3>2, <3>3
    <2> QED
      BY <2>1, <2>2, <2>3 DEF Closed
  <1>3. ASSUME NEW h \in KHandler, KeyStep(h), UNCHANGED icall
        PROVE  Closed(i)'
    BY <1>1, <1>3, KeyStepWrites DEF SameStatus
  <1>4. CASE \/ \E h \in THandler : TenantStep(h) /\ UNCHANGED icall
             \/ UNCHANGED vars
    <2>1. identities' = identities /\ icall' = icall
      BY <1>4, TenantStepTables DEF vars, tables
    <2> QED
      BY <1>1, <2>1
  <1>5. CASE Restart
    <2>1. identities' = identities /\ \A h \in IHandler : icall'[h].pc = "idle"
      BY <1>5 DEF Restart, tables, IdentityIdle
    <2> QED
      BY <2>1 DEF Closed
  <1> QED
    BY <1>2, <1>3, <1>4, <1>5 DEF Next

\* For any number of overlapping requests, failures and restarts: once an identity
\* is deactivated and every status change and creation that had checked it before
\* has answered, it is deactivated for good (errors.go:36, enums.go:82).
THEOREM TerminalSettled == Spec => TerminalSettles
  <1>1. IInv /\ [Next]_vars =>
          [\A i \in DOMAIN identities : Closed(i) => Closed(i)']_vars
    BY ClosedStep
  <1> QED
    BY <1>1, Invariance, PTL DEF Spec, TerminalSettles

\* How a rotation moves up to the statement that marks the old key: it starts on
\* a usable key and keeps naming it.
LEMMA RotationMoves ==
  ASSUME IInv, NEW h \in KHandler, KeyStep(h),
         kcall'[h].pc \in {"rotate.pair", "rotate.insert", "rotate.mark"}
  PROVE  /\ kcall'[h].old \in DOMAIN keys
         /\ \/ keys[kcall'[h].old].status # "revoked"
            \/ /\ kcall[h].pc \in {"rotate.pair", "rotate.insert"}
               /\ kcall'[h].old = kcall[h].old
         /\ ~RotateKeyMark(h) /\ ~RevokeKeyUpdate(h)
  <1>0. /\ kcall \in [KHandler -> KeyCall] /\ kcall[h] \in KeyCall
        /\ KeyCallSound(kcall[h])
    BY DEF IInv, TypeOK, KeyCallsSound
  <1>1. ASSUME KReturn(h) PROVE FALSE
    BY <1>0, <1>1 DEF KReturn, KeyIdle
  <1>2. ASSUME NEW pc, KGoto(h, pc) PROVE pc = kcall'[h].pc
    BY <1>0, <1>2 DEF KGoto, KeyCall
  <1>3. ~RotateKeyMark(h) /\ ~RevokeKeyUpdate(h)
    BY <1>2 DEF RotateKeyMark, RevokeKeyUpdate
  <1>4. CASE RotateKey(h)
    <2>1. PICK i \in DOMAIN identities, k \in DOMAIN keys :
            /\ IsUsable(keys[k])
            /\ kcall' = [kcall EXCEPT ![h] =
                        [KeyIdle EXCEPT !.pc = "rotate.pair", !.identity = i, !.old = k,
                                        !.tenant = keys[k].tenant, !.type = keys[k].type,
                                        !.purpose = keys[k].purpose]]
      BY <1>4 DEF RotateKey
    <2>2. kcall'[h].old = k
      BY <1>0, <2>1 DEF KeyIdle
    <2>3. keys[k].status # "revoked"
      BY <2>1 DEF IsUsable, IsTrusted
    <2> QED
      BY <1>3, <2>2, <2>3
  <1>5. CASE RotateKeyKeyPair(h)
    <2>1. /\ kcall[h].pc = "rotate.pair"
          /\ kcall' = [kcall EXCEPT ![h].pc = "rotate.insert", ![h].pair = minted + 1]
      BY <1>1, <1>5 DEF RotateKeyKeyPair, GenerateKeyPair
    <2>2. kcall'[h].old = kcall[h].old
      BY <1>0, <2>1 DEF KeyCall
    <2> QED
      BY <1>0, <1>3, <2>1, <2>2 DEF KeyCallSound, RotatePc
  <1>6. CASE RotateKeyInsert(h)
    <2>1. /\ kcall[h].pc = "rotate.insert"
          /\ kcall' = [kcall EXCEPT ![h].pc = "rotate.mark", ![h].new = Len(keys) + 1]
      BY <1>1, <1>6 DEF RotateKeyInsert, InsertKey
    <2>2. kcall'[h].old = kcall[h].old
      BY <1>0, <2>1 DEF KeyCall
    <2> QED
      BY <1>0, <1>3, <2>1, <2>2 DEF KeyCallSound, RotatePc
  <1>7. ASSUME GenerateKey(h) PROVE FALSE
    <2>1. kcall'[h].pc = "generate.pair"
      BY <1>0, <1>7 DEF GenerateKey, KeyIdle
    <2> QED
      BY <2>1
  <1>8. ASSUME GenerateKeyKeyPair(h) PROVE FALSE
    <2>1. kcall'[h].pc = "generate.insert"
      BY <1>0, <1>1, <1>8 DEF GenerateKeyKeyPair, GenerateKeyPair, KeyCall
    <2> QED
      BY <2>1
  <1>9. ASSUME GenerateKeyInsert(h) PROVE FALSE
    <2>1. kcall' = [kcall EXCEPT ![h].pc = "generate.audit", ![h].new = Len(keys) + 1]
      BY <1>1, <1>9 DEF GenerateKeyInsert, InsertKey
    <2>2. kcall'[h].pc = "generate.audit"
      BY <1>0, <2>1 DEF KeyCall
    <2> QED
      BY <2>2
  <1>10. ASSUME RotateKeyIdentity(h) \/ RotateKeyPrimary(h) PROVE FALSE
    BY <1>1, <1>2, <1>10 DEF RotateKeyIdentity, RotateKeyPrimary
  <1>11. ASSUME RevokeKey(h) PROVE FALSE
    <2>1. kcall'[h].pc = "revoke.update"
      BY <1>0, <1>11 DEF RevokeKey, KeyIdle
    <2> QED
      BY <2>1
  <1>12. ASSUME GenerateKeyAudit(h) \/ RotateKeyAudit(h) \/ RevokeKeyAudit(h) \/ KAbort(h)
         PROVE  FALSE
    BY <1>1, <1>12 DEF GenerateKeyAudit, RotateKeyAudit, RevokeKeyAudit, AuditKeyEvent, KAbort
  <1> QED
    BY <1>3, <1>4, <1>5, <1>6, <1>7, <1>8, <1>9, <1>10, <1>11, <1>12 DEF KeyStep

\* The rows of identity_keys keep their status.
SameKeyStatus == \A k \in DOMAIN keys : keys'[k].status = keys[k].status

\* Only Rotate and Revoke write the status of an existing key; Rotate never writes
\* "revoked", Revoke nothing else.
LEMMA KeyStatusWriters ==
  ASSUME IInv, NEW h \in KHandler, KeyStep(h)
  PROVE  \/ SameKeyStatus
         \/ /\ RotateKeyMark(h)
            /\ kcall[h].pc = "rotate.mark"
            /\ \A k \in DOMAIN keys \ {kcall[h].old} : keys'[k].status = keys[k].status
         \/ /\ RevokeKeyUpdate(h)
            /\ \A k \in DOMAIN keys :
                 keys'[k].status = keys[k].status \/ keys'[k].status = "revoked"
  <1>0. keys \in Seq(KeyRow) /\ KeyCallSound(kcall[h]) /\ kcall[h] \in KeyCall
    BY DEF IInv, TypeOK, KeyCallsSound
  <1>1. CASE RotateKeyMark(h)
    <2>1. kcall[h].pc = "rotate.mark" /\ KeyRotate(kcall[h].old, kcall[h].new)
      BY <1>1 DEF RotateKeyMark
    <2>2. kcall[h].old \in DOMAIN keys /\ kcall[h].new \in Nat
      BY <1>0, <2>1 DEF KeyCallSound, RotatePc, KeyCall
    <2> QED
      BY <1>0, <1>1, <2>1, <2>2, KeyRotateEffect
  <1>2. CASE RevokeKeyUpdate(h)
    <2>1. kcall[h].pc = "revoke.update" /\ KeyRevoke(kcall[h].old)
      BY <1>2 DEF RevokeKeyUpdate
    <2>2. kcall[h].old \in DOMAIN keys
      BY <1>0, <2>1 DEF KeyCallSound
    <2>3. keys[kcall[h].old] \in KeyRow
      BY <1>0, <2>2, IdsAreNat
    <2>4. keys'[kcall[h].old].status = "revoked"
      BY <1>0, <2>1, <2>2, <2>3, KeyRevokeEffect DEF KeyRow
    <2> QED
      BY <1>0, <1>2, <2>1, <2>2, <2>4, KeyRevokeEffect
  <1>3. CASE GenerateKeyInsert(h) \/ RotateKeyInsert(h)
    <2>1. UNCHANGED keys \/ KeyInsertion
      <3>1. /\ kcall[h].tenant \in Nat /\ kcall[h].identity \in Nat /\ kcall[h].pair \in Nat
            /\ kcall[h].type \in KeyType /\ kcall[h].purpose \in KeyPurpose
        BY <1>0 DEF KeyCall
      <3>2. CryptoKeyID(kcall[h]) \in Ref
        BY <3>1 DEF CryptoKeyID, Ref
      <3> QED
        BY <1>3, <3>1, <3>2 DEF GenerateKeyInsert, RotateKeyInsert, InsertKey, KeyInsertion
    <2> QED
      BY <1>0, <2>1, KeyInsertionEffect DEF SameKeyStatus
  <1>4. CASE \/ GenerateKey(h) \/ GenerateKeyKeyPair(h) \/ GenerateKeyAudit(h)
             \/ RotateKey(h) \/ RotateKeyKeyPair(h) \/ RotateKeyIdentity(h)
             \/ RotateKeyPrimary(h) \/ RotateKeyAudit(h) \/ RevokeKey(h)
             \/ RevokeKeyAudit(h) \/ KAbort(h)
    <2>1. UNCHANGED keys
      BY <1>4 DEF GenerateKey, GenerateKeyKeyPair, GenerateKeyPair, GenerateKeyAudit,
                  RotateKey, RotateKeyKeyPair, RotateKeyIdentity, RotateKeyPrimary,
                  RotateKeyAudit, AuditKeyEvent, RevokeKey, RevokeKeyAudit, KAbort, tables
    <2> QED
      BY <2>1 DEF SameKeyStatus
  <1> QED
    BY <1>1, <1>2, <1>3, <1>4 DEF KeyStep

\* The identity handlers only insert keys.
LEMMA IdentityStepKeepsKeyStatus ==
  ASSUME IInv, NEW h \in IHandler, IdentityStep(h)
  PROVE  SameKeyStatus
  <1>1. keys \in Seq(KeyRow) /\ icall[h] \in IdentityCall
    BY DEF IInv, TypeOK
  <1>2. CASE CreateIdentityKey(h)
    <2>1. /\ icall[h].tenant \in Nat /\ icall[h].identity \in Nat /\ icall[h].pair \in Nat
          /\ "ed25519" \in KeyType /\ "signing" \in KeyPurpose
      BY <1>1 DEF IdentityCall, KeyType, KeyPurpose
    <2>2. CreationRef(icall[h].identity) \in Ref
      BY <2>1, CreationRefType
    <2>3. UNCHANGED keys \/ KeyInsertion
      BY <1>2, <2>1, <2>2 DEF CreateIdentityKey, KeyInsertion
    <2> QED
      BY <1>1, <2>3, KeyInsertionEffect DEF SameKeyStatus
  <1>3. CASE ~CreateIdentityKey(h)
    <2>1. UNCHANGED keys
      BY <1>3 DEF IdentityStep, CreateIdentity, CreateIdentityInsert, CreateIdentityGenerate,
                  CreateIdentityPrimary, CreateIdentityActivate, CreateIdentityAudit,
                  DeactivateIdentity, SuspendIdentity, ReactivateIdentity, ReadNotTerminal,
                  ChangeStatusUpdate, ChangeStatusAudit, ReadForUpdate, UpdateIdentity,
                  IAbort, tables
    <2> QED
      BY <2>1 DEF SameKeyStatus
  <1> QED
    BY <1>2, <1>3

\* A withdrawn key stays withdrawn: who marks it is a rotation Withdrawn excludes,
\* and no rotation starts on it, since it is not usable.
LEMMA WithdrawnStep ==
  ASSUME IInv, [Next]_vars, NEW k \in DOMAIN keys, Withdrawn(k)
  PROVE  Withdrawn(k)'
  <1> DEFINE Marking == {"rotate.pair", "rotate.insert", "rotate.mark"}
  <1>1. ASSUME SameKeyStatus, kcall' = kcall
        PROVE  Withdrawn(k)'
    BY <1>1 DEF Withdrawn, SameKeyStatus
  <1>2. ASSUME NEW h \in KHandler, KeyStep(h)
        PROVE  Withdrawn(k)'
    <2>1. keys'[k].status = "revoked"
      <3>1. kcall[h].pc = "rotate.mark" => k # kcall[h].old
        BY DEF Withdrawn
      <3>2. keys[k].status = "revoked"
        BY DEF Withdrawn
      <3> QED
        BY <1>2, <3>1, <3>2, KeyStatusWriters DEF SameKeyStatus
    <2>2. \A g \in KHandler \ {h} : kcall'[g] = kcall[g]
      BY <1>2, KeyStepMovesOne DEF IInv, TypeOK
    <2>3. ASSUME kcall'[h].pc \in Marking
          PROVE  kcall'[h].old # k
      <3>1. \/ keys[kcall'[h].old].status # "revoked"
            \/ /\ kcall[h].pc \in {"rotate.pair", "rotate.insert"}
               /\ kcall'[h].old = kcall[h].old
        BY <1>2, <2>3, RotationMoves
      <3> QED
        BY <3>1 DEF Withdrawn
    <2> QED
      BY <2>1, <2>2, <2>3 DEF Withdrawn
  <1>3. ASSUME NEW h \in IHandler, IdentityStep(h), UNCHANGED kcall
        PROVE  Withdrawn(k)'
    BY <1>1, <1>3, IdentityStepKeepsKeyStatus
  <1>4. CASE \/ \E h \in THandler : TenantStep(h) /\ UNCHANGED kcall
             \/ UNCHANGED vars
    <2>1. SameKeyStatus /\ kcall' = kcall
      BY <1>4, TenantStepTables DEF vars, tables, SameKeyStatus
    <2> QED
      BY <1>1, <2>1
  <1>5. CASE Restart
    <2>1. keys' = keys /\ \A h \in KHandler : kcall'[h].pc = "idle"
      BY <1>5 DEF Restart, tables, KeyIdle
    <2> QED
      BY <2>1 DEF Withdrawn
  <1> QED
    BY <1>2, <1>3, <1>4, <1>5 DEF Next

\* For any number of overlapping requests, failures and restarts: once a key is
\* revoked and every rotation that had found it usable before has answered, it is
\* revoked for good (repository.go:128).
THEOREM RevocationSettled == Spec => RevocationSettles
  <1>1. IInv /\ [Next]_vars =>
          [\A k \in DOMAIN keys : Withdrawn(k) => Withdrawn(k)']_vars
    BY WithdrawnStep
  <1> QED
    BY <1>1, Invariance, PTL DEF Spec, RevocationSettles

\* A rotation on its way to SetPrimaryKey names the key it inserted: it keeps it,
\* or has just inserted it.
LEMMA PromotionMoves ==
  ASSUME IInv, NEW h \in KHandler, KeyStep(h),
         kcall'[h].pc \in {"rotate.mark", "rotate.identity", "rotate.primary"}
  PROVE  \/ kcall'[h].new \notin DOMAIN keys
         \/ /\ kcall[h].pc \in {"rotate.mark", "rotate.identity"}
            /\ kcall'[h].new = kcall[h].new
  <1>0. /\ kcall \in [KHandler -> KeyCall] /\ kcall[h] \in KeyCall
        /\ keys \in Seq(KeyRow)
    BY DEF IInv, TypeOK
  <1>1. ASSUME KReturn(h) PROVE FALSE
    BY <1>0, <1>1 DEF KReturn, KeyIdle
  <1>2. ASSUME NEW pc, KGoto(h, pc)
        PROVE  pc = kcall'[h].pc /\ kcall'[h].new = kcall[h].new
    BY <1>0, <1>2 DEF KGoto, KeyCall
  <1>3. CASE RotateKeyMark(h) \/ RotateKeyIdentity(h)
    BY <1>1, <1>2, <1>3 DEF RotateKeyMark, RotateKeyIdentity
  <1>4. CASE RotateKeyInsert(h) \/ GenerateKeyInsert(h)
    <2>1. PICK to : kcall' = [kcall EXCEPT ![h].pc = to, ![h].new = Len(keys) + 1]
      BY <1>1, <1>4 DEF RotateKeyInsert, GenerateKeyInsert, InsertKey
    <2>2. kcall'[h].new = Len(keys) + 1
      BY <1>0, <2>1 DEF KeyCall
    <2> QED
      BY <1>0, <2>2
  <1>5. ASSUME RotateKeyPrimary(h) \/ RevokeKeyUpdate(h) PROVE FALSE
    BY <1>2, <1>5 DEF RotateKeyPrimary, RevokeKeyUpdate
  <1>6. ASSUME NEW from, NEW to, to \in {"rotate.insert", "generate.insert"},
               GenerateKeyPair(h, from, to)
        PROVE  FALSE
    <2>1. kcall' = [kcall EXCEPT ![h].pc = to, ![h].pair = minted + 1]
      BY <1>1, <1>6 DEF GenerateKeyPair
    <2>2. kcall'[h].pc = to
      BY <1>0, <2>1 DEF KeyCall
    <2> QED
      BY <1>6, <2>2
  <1>7. ASSUME RotateKeyKeyPair(h) \/ GenerateKeyKeyPair(h) PROVE FALSE
    BY <1>6, <1>7 DEF RotateKeyKeyPair, GenerateKeyKeyPair
  <1>8. ASSUME GenerateKey(h) PROVE FALSE
    <2>1. kcall'[h].pc = "generate.pair"
      BY <1>0, <1>8 DEF GenerateKey, KeyIdle
    <2> QED
      BY <2>1
  <1>9. ASSUME RotateKey(h) PROVE FALSE
    <2>1. kcall'[h].pc = "rotate.pair"
      BY <1>0, <1>9 DEF RotateKey, KeyIdle
    <2> QED
      BY <2>1
  <1>10. ASSUME RevokeKey(h) PROVE FALSE
    <2>1. kcall'[h].pc = "revoke.update"
      BY <1>0, <1>10 DEF RevokeKey, KeyIdle
    <2> QED
      BY <2>1
  <1>11. ASSUME GenerateKeyAudit(h) \/ RotateKeyAudit(h) \/ RevokeKeyAudit(h) \/ KAbort(h)
         PROVE  FALSE
    BY <1>1, <1>11 DEF GenerateKeyAudit, RotateKeyAudit, RevokeKeyAudit, AuditKeyEvent, KAbort
  <1> QED
    BY <1>3, <1>4, <1>5, <1>7, <1>8, <1>9, <1>10, <1>11 DEF KeyStep

\* A creation is about to set the primary key only right after it inserted the key.
LEMMA BindingMoves ==
  ASSUME IInv, NEW h \in IHandler, IdentityStep(h), icall'[h].pc = "create.primary"
  PROVE  icall'[h].key \notin DOMAIN keys
  <1>0. /\ icall \in [IHandler -> IdentityCall] /\ icall[h] \in IdentityCall
        /\ keys \in Seq(KeyRow)
    BY DEF IInv, TypeOK
  <1>1. ASSUME IReturn(h) PROVE FALSE
    BY <1>0, <1>1 DEF IReturn, IdentityIdle
  <1>2. ASSUME NEW pc, IGoto(h, pc) PROVE pc = "create.primary"
    BY <1>0, <1>2 DEF IGoto, IdentityCall
  <1>3. CASE CreateIdentityKey(h)
    <2>1. icall' = [icall EXCEPT ![h].pc = "create.primary", ![h].key = Len(keys) + 1]
      BY <1>1, <1>3 DEF CreateIdentityKey
    <2>2. icall'[h].key = Len(keys) + 1
      BY <1>0, <2>1 DEF IdentityCall
    <2> QED
      BY <1>0, <2>2
  <1>4. ASSUME CreateIdentityInsert(h) PROVE FALSE
    BY <1>4, InsertEffect
  <1>5. ASSUME CreateIdentityGenerate(h) PROVE FALSE
    <2>1. icall'[h].pc = "create.key"
      BY <1>0, <1>5 DEF CreateIdentityGenerate, IdentityCall
    <2> QED
      BY <2>1
  <1>6. ASSUME CreateIdentity(h) PROVE FALSE
    <2>1. icall'[h].pc = "create.insert"
      BY <1>0, <1>6 DEF CreateIdentity, IdentityIdle
    <2> QED
      BY <2>1
  <1>7. ASSUME DeactivateIdentity(h) \/ SuspendIdentity(h) \/ ReactivateIdentity(h)
        PROVE  FALSE
    <2>1. icall'[h].pc = "status.update"
      BY <1>0, <1>7, ZenonT(60) DEF DeactivateIdentity, SuspendIdentity, ReactivateIdentity,
                        ReadNotTerminal, IdentityIdle
    <2> QED
      BY <2>1
  <1>8. ASSUME ReadForUpdate(h) PROVE FALSE
    <2>1. icall'[h].pc = "update.write"
      BY <1>0, <1>8 DEF ReadForUpdate, IdentityIdle
    <2> QED
      BY <2>1
  <1>9. ASSUME CreateIdentityPrimary(h) \/ CreateIdentityActivate(h) \/ ChangeStatusUpdate(h)
        PROVE  FALSE
    BY <1>2, <1>9 DEF CreateIdentityPrimary, CreateIdentityActivate, ChangeStatusUpdate
  <1>10. ASSUME \/ CreateIdentityAudit(h) \/ ChangeStatusAudit(h) \/ UpdateIdentity(h)
                \/ IAbort(h)
         PROVE  FALSE
    BY <1>1, <1>10 DEF CreateIdentityAudit, ChangeStatusAudit, UpdateIdentity, IAbort
  <1> QED
    BY <1>3, <1>4, <1>5, <1>6, <1>7, <1>8, <1>9, <1>10 DEF IdentityStep

\* A new identity has no primary key.
LEMMA NewIdentityUnbound ==
  ASSUME IInv, [Next]_vars
  PROVE  \A i \in DOMAIN identities' \ DOMAIN identities : identities'[i].primary = NULL
  <1>1. identities \in Seq(IdentityRow) /\ keys \in Seq(KeyRow)
    BY DEF IInv, TypeOK
  <1>2. CASE IdentityInsertion
    BY <1>1, <1>2, IdentityInsertionEffect
  <1>3. CASE ~IdentityInsertion
    <2>1. DOMAIN identities' = DOMAIN identities
      BY <1>1, <1>3, NextTables, IdsAreNat
        DEF IdentityTableStep, IdentityChange, PrimaryKeyChange, IdentityUpdate,
            IdentityUpdateStatus, IdentitySetPrimaryKey
    <2> QED
      BY <2>1
  <1> QED
    BY <1>2, <1>3

\* A superseded key stays superseded: SetPrimaryKey writes the key its own call has
\* inserted, which Superseded excludes, and later calls insert later keys.
LEMMA SupersededStep ==
  ASSUME IInv, [Next]_vars, NEW k \in DOMAIN keys, Superseded(k)
  PROVE  Superseded(k)'
  <1> DEFINE Promoting == {"rotate.mark", "rotate.identity", "rotate.primary"}
  <1>0. \A i \in DOMAIN identities' \ DOMAIN identities : identities'[i].primary # k
    <2>1. k # NULL
      BY IdsAreNat DEF IInv, TypeOK
    <2> QED
      BY <2>1, NewIdentityUnbound
  <1>1. ASSUME SamePrimary, kcall' = kcall, icall' = icall
        PROVE  Superseded(k)'
    BY <1>0, <1>1 DEF Superseded, SamePrimary
  <1>2. ASSUME NEW h \in KHandler, KeyStep(h), UNCHANGED icall
        PROVE  Superseded(k)'
    <2>1. \A i \in DOMAIN identities : identities'[i].primary # k
      <3>1. CASE UNCHANGED identities
        BY <3>1 DEF Superseded
      <3>2. CASE ~UNCHANGED identities
        <4>1. /\ kcall[h].pc = "rotate.primary"
              /\ \A i \in DOMAIN identities \ {kcall[h].identity} :
                   identities'[i].primary = identities[i].primary
              /\ identities'[kcall[h].identity].primary = kcall[h].new
          BY <1>2, <3>2, KeyStepWrites
        <4>2. kcall[h].new # k
          BY <4>1 DEF Superseded
        <4> QED
          BY <4>1, <4>2 DEF Superseded
      <3> QED
        BY <3>1, <3>2
    <2>2. \A g \in KHandler \ {h} : kcall'[g] = kcall[g]
      BY <1>2, KeyStepMovesOne DEF IInv, TypeOK
    <2>3. ASSUME kcall'[h].pc \in Promoting
          PROVE  kcall'[h].new # k
      BY <1>2, <2>3, PromotionMoves DEF Superseded
    <2> QED
      BY <1>0, <1>2, <2>1, <2>2, <2>3 DEF Superseded
  <1>3. ASSUME NEW h \in IHandler, IdentityStep(h), UNCHANGED kcall
        PROVE  Superseded(k)'
    <2>1. \A i \in DOMAIN identities : identities'[i].primary # k
      <3>1. CASE SamePrimary
        BY <3>1 DEF SamePrimary, Superseded
      <3>2. CASE CreateIdentityPrimary(h)
        <4>1. icall[h].key # k
          BY <3>2 DEF CreateIdentityPrimary, Superseded
        <4> QED
          BY <3>2, <4>1, CreationBinds DEF Superseded
      <3> QED
        BY <1>3, <3>1, <3>2, IdentityWriters, StatusWritten
    <2>2. \A g \in IHandler \ {h} : icall'[g] = icall[g]
      BY <1>3, IdentityStepMovesOne DEF IInv, TypeOK
    <2>3. icall'[h].pc = "create.primary" => icall'[h].key # k
      BY <1>3, BindingMoves
    <2> QED
      BY <1>0, <1>3, <2>1, <2>2, <2>3 DEF Superseded
  <1>4. CASE \/ \E h \in THandler : TenantStep(h) /\ UNCHANGED <<keyStoreVars, icall, kcall>>
             \/ UNCHANGED vars
    <2>1. SamePrimary /\ kcall' = kcall /\ icall' = icall
      BY <1>4, TenantStepTables DEF vars, tables, SamePrimary
    <2> QED
      BY <1>1, <2>1
  <1>5. CASE Restart
    <2>1. identities' = identities
      BY <1>5 DEF Restart, tables
    <2>2. \A h \in IHandler : icall'[h].pc = "idle"
      BY <1>5 DEF Restart, IdentityIdle
    <2>3. \A h \in KHandler : kcall'[h].pc = "idle"
      BY <1>5 DEF Restart, KeyIdle
    <2> QED
      BY <2>1, <2>2, <2>3 DEF Superseded
  <1> QED
    BY <1>2, <1>3, <1>4, <1>5 DEF Next

\* primary_key_id never comes back to a key it has left and never reaches the key
\* of a rotation that gave up, for any number of rotations and creations in flight
\* (key_service.go:130-139, identity_service.go:146-150).
THEOREM PrimarySettled == Spec => SupersededStays
  <1>1. IInv /\ [Next]_vars =>
          [\A k \in DOMAIN keys : Superseded(k) => Superseded(k)']_vars
    BY SupersededStep
  <1> QED
    BY <1>1, Invariance, PTL DEF Spec, SupersededStays

=============================================================================
