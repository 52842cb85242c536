-------------------------- MODULE IdentityService --------------------------
(***************************************************************************)
(* identity_service.go: CreateIdentity, UpdateIdentity and the three       *)
(* status changes, one action per repository or key store call.            *)
(***************************************************************************)
EXTENDS Postgres, KeyStore

CONSTANTS
  IHandler,         \* goroutines serving identity requests
  Handle,           \* handles callers ask for
  Attributes,       \* attribute maps callers send
  MaxIdentities,    \* bound on the rows of identities
  MaxVersion        \* bound on identities.version

ASSUME IdentityBounds == MaxIdentities \in Nat /\ MaxVersion \in Nat

VARIABLE icall   \* per handler: where it is and the locals that survive a call

(***************************************************************************)
(* encryptAttributes: nil for an empty map, otherwise one byte string, IV  *)
(* first.                                                                  *)
(***************************************************************************)
NoAttributes == <<>>

EncryptAttributes(attrs) == IF attrs = NoAttributes THEN <<>> ELSE <<"iv", attrs>>

StoredAttributes == {EncryptAttributes(a) : a \in Attributes \cup {NoAttributes}}

IdentityIdle ==
  [pc |-> "idle", tenant |-> NULL, identity |-> NULL, key |-> NULL,
   pair |-> 0, target |-> "active", version |-> 0, seen |-> <<>>]

CreatePc == {"create.insert", "create.generate", "create.key", "create.primary",
             "create.activate", "create.audit"}

IdentityCall ==
  [pc : {"idle", "status.update", "status.audit", "update.write"} \cup CreatePc,
   tenant : Nat, identity : Nat, key : Nat, pair : Nat,
   target : IdentityStatus, version : Nat, seen : StoredAttributes]

IGoto(h, pc) == icall' = [icall EXCEPT ![h].pc = pc]

IReturn(h) == icall' = [icall EXCEPT ![h] = IdentityIdle]

(***************************************************************************)
(* CreateIdentity.                                                         *)
(***************************************************************************)
CreateIdentity(h) ==
  /\ icall[h].pc = "idle"
  /\ Len(identities) < MaxIdentities
  /\ \E t \in DOMAIN tenants :
       /\ tenants[t].status = "active"
       /\ icall' = [icall EXCEPT ![h] =
                      [IdentityIdle EXCEPT !.pc = "create.insert", !.tenant = t]]
  /\ UNCHANGED <<tables, keyStoreVars>>

CreateIdentityInsert(h) ==
  /\ icall[h].pc = "create.insert"
  /\ \E handle \in Handle, attrs \in Attributes \cup {NoAttributes} :
       \/ /\ HandleFree(icall[h].tenant, handle)
          /\ Len(identities) < MaxIdentities
          /\ IdentityCreate(icall[h].tenant, handle, EncryptAttributes(attrs))
          /\ icall' = [icall EXCEPT ![h].pc = "create.generate",
                                    ![h].identity = Len(identities) + 1]
       \/ /\ ~HandleFree(icall[h].tenant, handle)   \* ErrHandleTaken
          /\ IReturn(h)
          /\ UNCHANGED <<identities, audit>>
  /\ UNCHANGED <<tenants, keys, keyStoreVars>>

\* The key id given to the key store is the new identity's id alone.
CreationRef(i) == <<NULL, i, "">>

CreateIdentityGenerate(h) ==
  /\ icall[h].pc = "create.generate"
  /\ GeneratePair(CreationRef(icall[h].identity))
  /\ icall' = [icall EXCEPT ![h].pc = "create.key", ![h].pair = minted + 1]
  /\ UNCHANGED tables

CreateIdentityKey(h) ==
  /\ icall[h].pc = "create.key"
  /\ LET c == icall[h] IN
       \/ /\ NoActiveKey(c.identity, "signing")
          /\ KeyCreate(c.tenant, c.identity, "ed25519", "signing",
                       CreationRef(c.identity), c.pair)
          /\ icall' = [icall EXCEPT ![h].pc = "create.primary",
                                    ![h].key = Len(keys) + 1]
       \/ /\ ~NoActiveKey(c.identity, "signing")    \* unique violation
          /\ IReturn(h)
          /\ UNCHANGED keys
  /\ UNCHANGED <<tenants, identities, audit, keyStoreVars>>

CreateIdentityPrimary(h) ==
  /\ icall[h].pc = "create.primary"
  /\ IdentitySetPrimaryKey(icall[h].identity, icall[h].key)
  /\ IGoto(h, "create.activate")
  /\ UNCHANGED <<tenants, keys, audit, keyStoreVars>>

CreateIdentityActivate(h) ==
  /\ icall[h].pc = "create.activate"
  /\ IdentityUpdateStatus(icall[h].identity, "active")
  /\ IGoto(h, "create.audit")
  /\ UNCHANGED <<tenants, keys, audit, keyStoreVars>>

\* The event of the last step carries no event type.
CreateIdentityAudit(h) ==
  /\ icall[h].pc = "create.audit"
  /\ AuditInsert("", icall[h].identity)
  /\ IReturn(h)
  /\ UNCHANGED <<tenants, identities, keys, keyStoreVars>>

(***************************************************************************)
(* DeactivateIdentity, SuspendIdentity, ReactivateIdentity: read the row,  *)
(* refuse a terminal one, write the status, record the event.              *)
(***************************************************************************)
\* Mutant: a terminal identity is not refused.
ReadAny(h, i, target) ==
  /\ icall[h].pc = "idle"
  /\ icall' = [icall EXCEPT ![h] =
                 [IdentityIdle EXCEPT !.pc = "status.update", !.identity = i,
                                      !.target = target]]
  /\ UNCHANGED <<tables, keyStoreVars>>

ReadNotTerminal(h, i, target) ==
  /\ icall[h].pc = "idle"
  /\ ~IsTerminal(identities[i].status)
  /\ icall' = [icall EXCEPT ![h] =
                 [IdentityIdle EXCEPT !.pc = "status.update", !.identity = i,
                                      !.target = target]]
  /\ UNCHANGED <<tables, keyStoreVars>>

DeactivateIdentity(h) ==
  \E i \in DOMAIN identities : ReadNotTerminal(h, i, "deactivated")

SuspendIdentity(h) ==
  \E i \in DOMAIN identities : ReadNotTerminal(h, i, "suspended")

ReactivateIdentity(h) ==
  \E i \in DOMAIN identities : ReadNotTerminal(h, i, "active")

ChangeStatusUpdate(h) ==
  /\ icall[h].pc = "status.update"
  /\ IdentityUpdateStatus(icall[h].identity, icall[h].target)
  /\ IGoto(h, "status.audit")
  /\ UNCHANGED <<tenants, keys, audit, keyStoreVars>>

StatusEvent(target) ==
  CASE target = "deactivated" -> "identity.deactivated"
    [] target = "suspended"   -> "identity.suspended"
    [] OTHER                  -> "identity.activated"

ChangeStatusAudit(h) ==
  /\ icall[h].pc = "status.audit"
  /\ AuditInsert(StatusEvent(icall[h].target), icall[h].identity)
  /\ IReturn(h)
  /\ UNCHANGED <<tenants, identities, keys, keyStoreVars>>

(***************************************************************************)
(* UpdateIdentity, as its callers use it: they read the identity           *)
(* (GetIdentity), then send back the version they saw.  seen is the stored *)
(* content at the time of that read; the code does not keep it, only the   *)
(* properties look at it.                                                  *)
(***************************************************************************)
ReadForUpdate(h) ==
  /\ icall[h].pc = "idle"
  /\ \E i \in DOMAIN identities :
       icall' = [icall EXCEPT ![h] =
                   [IdentityIdle EXCEPT !.pc = "update.write", !.identity = i,
                                        !.version = identities[i].version,
                                        !.seen = identities[i].attributes]]
  /\ UNCHANGED <<tables, keyStoreVars>>

\* Mutant: the version written back is the re-fetched one.
UpdateTakesRefetched(c, attrs) == attrs # NoAttributes

\* Nothing is written on a version mismatch (ErrVersionConflict), nor when there
\* are no attributes: their nil encoding is SQL NULL in a NOT NULL column.
UpdateTakes(c, attrs) ==
  c.version = identities[c.identity].version /\ attrs # NoAttributes

\* The re-fetch of the row always finds it and only its id is used.
UpdateIdentity(h) ==
  /\ icall[h].pc = "update.write"
  /\ \E attrs \in Attributes \cup {NoAttributes} :
       LET c == icall[h] IN
         \/ /\ UpdateTakes(c, attrs)
            /\ identities[c.identity].version < MaxVersion
            /\ IdentityUpdate(c.identity, EncryptAttributes(attrs))
         \/ ~UpdateTakes(c, attrs) /\ UNCHANGED identities
  /\ IReturn(h)
  /\ UNCHANGED <<tenants, keys, audit, keyStoreVars>>

\* A statement fails, or the caller's context ends.
IAbort(h) ==
  /\ icall[h].pc # "idle"
  /\ IReturn(h)
  /\ UNCHANGED <<tables, keyStoreVars>>

IdentityStep(h) ==
  \/ CreateIdentity(h)
  \/ CreateIdentityInsert(h)
  \/ CreateIdentityGenerate(h)
  \/ CreateIdentityKey(h)
  \/ CreateIdentityPrimary(h)
  \/ CreateIdentityActivate(h)
  \/ CreateIdentityAudit(h)
  \/ DeactivateIdentity(h)
  \/ SuspendIdentity(h)
  \/ ReactivateIdentity(h)
  \/ ChangeStatusUpdate(h)
  \/ ChangeStatusAudit(h)
  \/ ReadForUpdate(h)
  \/ UpdateIdentity(h)
  \/ IAbort(h)

=============================================================================
