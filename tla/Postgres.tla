------------------------------ MODULE Postgres ------------------------------
(***************************************************************************)
(* The four tables the services of Verion share and the SQL statements of  *)
(* their repositories (internal/identity/postgres).  A repository call is  *)
(* one statement in its own implicit transaction, except                   *)
(* IdentityRepo.Create, which inserts a row and its audit event in one     *)
(* explicit transaction; each is therefore one atomic change of the tables *)
(* and statements of concurrent calls interleave.                          *)
(*                                                                         *)
(* A table is a sequence of rows: the id (a UUID in the code) is the index *)
(* of the row, rows are appended and never deleted, so ids are fresh and   *)
(* ordered by creation.  0 stands for SQL NULL in a column holding an id.  *)
(* UPDATE statements also test tenant_id; every caller has read the row    *)
(* under the same tenant before, and tenant_id never changes, so the test  *)
(* is always true and is left out.                                         *)
(* The connection is the owner of the tables, so row level security, which *)
(* binds other roles only, filters nothing here.                           *)
(***************************************************************************)
EXTENDS Naturals, Sequences

CONSTANT Recorded   \* the event types whose audit events are kept in the model;
                    \* nothing ever reads audit_events, the rest are dropped

VARIABLES
  tenants,      \* tenants(slug, status)
  identities,   \* identities(tenant, handle, status, primary, attributes,
                \*            attributesIV, version, deactivatedAt)
  keys,         \* identity_keys(identity, tenant, type, purpose, status,
                \*               ref, pair, rotatedTo)
  audit         \* audit_events, as the set of <<event_type, entity_id>> recorded

tables == <<tenants, identities, keys, audit>>

NULL == 0

(***************************************************************************)
(* Enumerations of enums.go.                                               *)
(***************************************************************************)
TenantStatus == {"active", "suspended", "deactivated"}

IdentityStatus == {"pending", "active", "suspended", "deactivated", "archived"}

IsTerminal(status) == status \in {"deactivated", "archived"}

KeyType == {"ed25519", "ecdsa_p256", "ecdsa_p384", "rsa_4096"}

KeyPurpose == {"signing", "encryption", "authentication", "recovery"}

KeyStatus == {"active", "rotated", "revoked", "compromised"}

\* Mutant: a revoked key is still trusted.
IsTrustedUnlessCompromised(status) == status # "compromised"

IsTrusted(status) == status \in {"active", "rotated"}

(***************************************************************************)
(* Identity keys are written with the zero valid_from and no valid_until,  *)
(* so the two time tests of IsUsable always succeed.                       *)
(***************************************************************************)
IsUsable(key) == IsTrusted(key.status)

(***************************************************************************)
(* TenantRepo.                                                             *)
(***************************************************************************)
SlugFree(slug) == \A t \in DOMAIN tenants : tenants[t].slug # slug

TenantInsert(slug) ==
  tenants' = Append(tenants, [slug |-> slug, status |-> "active"])

TenantUpdateStatus(t, status) ==
  tenants' = [tenants EXCEPT ![t].status = status]

(***************************************************************************)
(* AuditRepo.Insert: append-only, no update or delete exists.              *)
(***************************************************************************)
AuditInsert(event, entity) ==
  audit' = IF event \in Recorded THEN audit \cup {<<event, entity>>} ELSE audit

(***************************************************************************)
(* IdentityRepo.  Create writes attributes_iv as the empty string always   *)
(* and an absent attribute map as the empty string, since the columns are  *)
(* NOT NULL; the row and its identity.created event commit together.       *)
(***************************************************************************)
HandleFree(t, handle) ==
  \A i \in DOMAIN identities :
    ~(identities[i].tenant = t /\ identities[i].handle = handle)

\* Mutant: the row is committed without its event.
IdentityCreateNoEvent(t, handle, attributes) ==
  /\ identities' = Append(identities,
       [tenant |-> t, handle |-> handle, status |-> "pending", primary |-> NULL,
        attributes |-> attributes, attributesIV |-> <<>>, version |-> 1,
        deactivatedAt |-> FALSE])
  /\ UNCHANGED audit

IdentityCreate(t, handle, attributes) ==
  /\ identities' = Append(identities,
       [tenant |-> t, handle |-> handle, status |-> "pending", primary |-> NULL,
        attributes |-> attributes, attributesIV |-> <<>>, version |-> 1,
        deactivatedAt |-> FALSE])
  /\ AuditInsert("identity.created", Len(identities) + 1)

\* Mutant: the version is not incremented.
IdentityUpdateSameVersion(i, attributes) ==
  identities' = [identities EXCEPT ![i].attributes = attributes,
                                   ![i].attributesIV = <<>>]

IdentityUpdate(i, attributes) ==
  identities' = [identities EXCEPT ![i].attributes = attributes,
                                   ![i].attributesIV = <<>>,
                                   ![i].version = @ + 1]

\* deactivated_at is stamped by a terminal status and kept by any other.
IdentityUpdateStatus(i, status) ==
  identities' = [identities EXCEPT ![i].status = status,
                                   ![i].deactivatedAt = IsTerminal(status) \/ @]

IdentitySetPrimaryKey(i, k) ==
  identities' = [identities EXCEPT ![i].primary = k]

(***************************************************************************)
(* KeyRepo.  The partial unique index on (identity_id, purpose) refuses a  *)
(* second active key; Rotate and Revoke write whatever the status was.     *)
(***************************************************************************)
\* Mutant: the index of migration 003 is not unique.
NoUniqueIndex(i, purpose) == TRUE

NoActiveKey(i, purpose) ==
  \A k \in DOMAIN keys :
    ~(/\ keys[k].identity = i
      /\ keys[k].purpose = purpose
      /\ keys[k].status = "active")

KeyCreate(t, i, type, purpose, ref, pair) ==
  keys' = Append(keys,
    [identity |-> i, tenant |-> t, type |-> type, purpose |-> purpose,
     status |-> "active", ref |-> ref, pair |-> pair, rotatedTo |-> NULL])

\* Mutant: the two ids are swapped.
KeyRotateSwapped(old, new) ==
  keys' = [keys EXCEPT ![new].status = "rotated", ![new].rotatedTo = old]

KeyRotate(old, new) ==
  keys' = [keys EXCEPT ![old].status = "rotated", ![old].rotatedTo = new]

\* Mutant: revoking also clears rotated_to.
KeyRevokeReset(k) ==
  keys' = [keys EXCEPT ![k].status = "revoked", ![k].rotatedTo = NULL]

\* Mutant: the statement selects the rows by identity_id.
KeyRevokeAll(k) ==
  keys' = [j \in DOMAIN keys |->
             IF keys[j].identity = keys[k].identity
               THEN [keys[j] EXCEPT !.status = "revoked"] ELSE keys[j]]

KeyRevoke(k) == keys' = [keys EXCEPT ![k].status = "revoked"]

=============================================================================
