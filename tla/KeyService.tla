----------------------------- MODULE KeyService -----------------------------
(***************************************************************************)
(* key_service.go: GenerateKey, RotateKey and RevokeKey, one action per    *)
(* repository or key store call.                                           *)
(***************************************************************************)
EXTENDS Postgres, KeyStore

CONSTANTS
  KHandler,       \* goroutines serving key requests
  AskedType,      \* key types callers of GenerateKey ask for
  AskedPurpose,   \* key purposes callers of GenerateKey ask for
  MaxKeys         \* bound on the rows of identity_keys before a request inserts

ASSUME KeyServiceAssumption ==
  /\ AskedType \subseteq KeyType
  /\ AskedPurpose \subseteq KeyPurpose
  /\ MaxKeys \in Nat

VARIABLE kcall   \* per handler: where it is and the locals that survive a call

KeyIdle ==
  [pc |-> "idle", tenant |-> NULL, identity |-> NULL, old |-> NULL, new |-> NULL,
   type |-> "ed25519", purpose |-> "signing", pair |-> 0]

RotatePc == {"rotate.pair", "rotate.insert", "rotate.mark", "rotate.identity",
             "rotate.primary", "rotate.audit"}

GeneratePc == {"generate.pair", "generate.insert", "generate.audit"}

KeyCall ==
  [pc : {"idle", "revoke.update", "revoke.audit"} \cup RotatePc \cup GeneratePc,
   tenant : Nat, identity : Nat, old : Nat, new : Nat,
   type : KeyType, purpose : KeyPurpose, pair : Nat]

KGoto(h, pc) == kcall' = [kcall EXCEPT ![h].pc = pc]

KReturn(h) == kcall' = [kcall EXCEPT ![h] = KeyIdle]

(***************************************************************************)
(* generateKeyPair: the id given to the key store is made of the tenant,   *)
(* the identity and the key type.  Other types than these two are refused. *)
(***************************************************************************)
SupportedType == {"ed25519", "ecdsa_p256"}

\* Mutant: the identity alone, as in CreateIdentity.
CryptoKeyIDIdentity(c) == <<NULL, c.identity, "">>

CryptoKeyID(c) == <<c.tenant, c.identity, c.type>>

GenerateKeyPair(h, from, to) ==
  /\ kcall[h].pc = from
  /\ \/ /\ kcall[h].type \in SupportedType
        /\ GeneratePair(CryptoKeyID(kcall[h]))
        /\ kcall' = [kcall EXCEPT ![h].pc = to, ![h].pair = minted + 1]
     \/ /\ kcall[h].type \notin SupportedType      \* ValidationError
        /\ KReturn(h)
        /\ UNCHANGED keyStoreVars
  /\ UNCHANGED tables

\* KeyRepo.Create for the generated pair; a unique violation ends the call.
InsertKey(h, from, to) ==
  /\ kcall[h].pc = from
  /\ LET c == kcall[h] IN
       \/ /\ NoActiveKey(c.identity, c.purpose)
          /\ Len(keys) < MaxKeys
          /\ KeyCreate(c.tenant, c.identity, c.type, c.purpose, CryptoKeyID(c), c.pair)
          /\ kcall' = [kcall EXCEPT ![h].pc = to, ![h].new = Len(keys) + 1]
       \/ /\ ~NoActiveKey(c.identity, c.purpose)
          /\ KReturn(h)
          /\ UNCHANGED keys
  /\ UNCHANGED <<tenants, identities, audit, keyStoreVars>>

(***************************************************************************)
(* GenerateKey.                                                            *)
(***************************************************************************)
GenerateKey(h) ==
  /\ kcall[h].pc = "idle"
  /\ \E i \in DOMAIN identities, type \in AskedType, purpose \in AskedPurpose :
       /\ identities[i].status = "active"
       /\ kcall' = [kcall EXCEPT ![h] =
                      [KeyIdle EXCEPT !.pc = "generate.pair", !.identity = i,
                                      !.tenant = identities[i].tenant,
                                      !.type = type, !.purpose = purpose]]
  /\ UNCHANGED <<tables, keyStoreVars>>

GenerateKeyKeyPair(h) == GenerateKeyPair(h, "generate.pair", "generate.insert")

GenerateKeyInsert(h) == InsertKey(h, "generate.insert", "generate.audit")

GenerateKeyAudit(h) ==
  /\ kcall[h].pc = "generate.audit"
  /\ AuditInsert("key.created", kcall[h].new)
  /\ KReturn(h)
  /\ UNCHANGED <<tenants, identities, keys, keyStoreVars>>

(***************************************************************************)
(* RotateKey.  The caller names the identity besides the key; the code     *)
(* does not compare it with the key's own identity.                        *)
(***************************************************************************)
RotateKey(h) ==
  /\ kcall[h].pc = "idle"
  /\ \E i \in DOMAIN identities, k \in DOMAIN keys :
       /\ IsUsable(keys[k])
       /\ kcall' = [kcall EXCEPT ![h] =
                      [KeyIdle EXCEPT !.pc = "rotate.pair", !.identity = i, !.old = k,
                                      !.tenant = keys[k].tenant,
                                      !.type = keys[k].type, !.purpose = keys[k].purpose]]
  /\ UNCHANGED <<tables, keyStoreVars>>

RotateKeyKeyPair(h) == GenerateKeyPair(h, "rotate.pair", "rotate.insert")

RotateKeyInsert(h) == InsertKey(h, "rotate.insert", "rotate.mark")

RotateKeyMark(h) ==
  /\ kcall[h].pc = "rotate.mark"
  /\ KeyRotate(kcall[h].old, kcall[h].new)
  /\ KGoto(h, "rotate.identity")
  /\ UNCHANGED <<tenants, identities, audit, keyStoreVars>>

\* Mutant: the primary key is moved whichever key was rotated.
RotateKeyIdentityAny(h) ==
  /\ kcall[h].pc = "rotate.identity"
  /\ IF identities[kcall[h].identity].tenant = kcall[h].tenant
       THEN KGoto(h, "rotate.primary")
       ELSE KReturn(h)
  /\ UNCHANGED <<tables, keyStoreVars>>

\* Identities.GetByID under the key's tenant: another tenant's identity is not
\* found and the call ends with an error.
RotateKeyIdentity(h) ==
  /\ kcall[h].pc = "rotate.identity"
  /\ LET c == kcall[h] IN
       \/ /\ identities[c.identity].tenant = c.tenant
          /\ identities[c.identity].primary = c.old
          /\ KGoto(h, "rotate.primary")
       \/ /\ identities[c.identity].tenant = c.tenant
          /\ identities[c.identity].primary # c.old
          /\ KGoto(h, "rotate.audit")
       \/ /\ identities[c.identity].tenant # c.tenant
          /\ KReturn(h)
  /\ UNCHANGED <<tables, keyStoreVars>>

RotateKeyPrimary(h) ==
  /\ kcall[h].pc = "rotate.primary"
  /\ IdentitySetPrimaryKey(kcall[h].identity, kcall[h].new)
  /\ KGoto(h, "rotate.audit")
  /\ UNCHANGED <<tenants, keys, audit, keyStoreVars>>

\* The actor id is passed on even when it is empty, which no UUID column takes:
\* the insert then fails and the call returns an error.
AuditKeyEvent(h, from, event, k) ==
  /\ kcall[h].pc = from
  /\ \E actorGiven \in BOOLEAN :
       IF actorGiven THEN AuditInsert(event, k) ELSE UNCHANGED audit
  /\ KReturn(h)
  /\ UNCHANGED <<tenants, identities, keys, keyStoreVars>>

\* Mutant: a failed event makes the call take its primary key back.
RotateKeyAuditUndo(h) ==
  LET c == kcall[h] IN
    /\ c.pc = "rotate.audit"
    /\ \/ AuditInsert("key.rotated", c.new) /\ UNCHANGED identities
       \/ /\ identities[c.identity].primary = c.new
          /\ IdentitySetPrimaryKey(c.identity, c.old)
          /\ UNCHANGED audit
    /\ KReturn(h)
    /\ UNCHANGED <<tenants, keys, keyStoreVars>>

RotateKeyAudit(h) == AuditKeyEvent(h, "rotate.audit", "key.rotated", kcall[h].new)

(***************************************************************************)
(* RevokeKey: the row only has to exist.                                   *)
(***************************************************************************)
\* Mutant: the event is written before the status, the status never.
RevokeKeyEventFirst(h) ==
  /\ kcall[h].pc = "idle"
  /\ \E k \in DOMAIN keys :
       kcall' = [kcall EXCEPT ![h] =
                   [KeyIdle EXCEPT !.pc = "revoke.audit", !.old = k]]
  /\ UNCHANGED <<tables, keyStoreVars>>

RevokeKey(h) ==
  /\ kcall[h].pc = "idle"
  /\ \E k \in DOMAIN keys :
       kcall' = [kcall EXCEPT ![h] =
                   [KeyIdle EXCEPT !.pc = "revoke.update", !.old = k]]
  /\ UNCHANGED <<tables, keyStoreVars>>

RevokeKeyUpdate(h) ==
  /\ kcall[h].pc = "revoke.update"
  /\ KeyRevoke(kcall[h].old)
  /\ KGoto(h, "revoke.audit")
  /\ UNCHANGED <<tenants, identities, audit, keyStoreVars>>

RevokeKeyAudit(h) == AuditKeyEvent(h, "revoke.audit", "key.revoked", kcall[h].old)

\* A statement fails, or the caller's context ends.
KAbort(h) ==
  /\ kcall[h].pc # "idle"
  /\ KReturn(h)
  /\ UNCHANGED <<tables, keyStoreVars>>

KeyStep(h) ==
  \/ GenerateKey(h)
  \/ GenerateKeyKeyPair(h)
  \/ GenerateKeyInsert(h)
  \/ GenerateKeyAudit(h)
  \/ RotateKey(h)
  \/ RotateKeyKeyPair(h)
  \/ RotateKeyInsert(h)
  \/ RotateKeyMark(h)
  \/ RotateKeyIdentity(h)
  \/ RotateKeyPrimary(h)
  \/ RotateKeyAudit(h)
  \/ RevokeKey(h)
  \/ RevokeKeyUpdate(h)
  \/ RevokeKeyAudit(h)
  \/ KAbort(h)

=============================================================================
