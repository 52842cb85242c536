--------------------------- MODULE TenantService ---------------------------
(***************************************************************************)
(* tenant_service.go: one action per repository call of each operation.    *)
(* THandler is the set of goroutines serving tenant requests; a handler    *)
(* serves any number of requests, one after the other.                     *)
(*                                                                         *)
(* Here and in the other services a request refused before its first write *)
(* (invalid input, unknown id, wrong status) changes nothing and is a      *)
(* stuttering step: the guard of the first action is the condition under   *)
(* which the code goes on.                                                 *)
(***************************************************************************)
EXTENDS Postgres

CONSTANTS THandler, Slug, MaxTenants

ASSUME MaxTenantsAssumption == MaxTenants \in Nat

VARIABLE tcall   \* per handler: where it is, and the tenant it works on

TenantIdle == [pc |-> "idle", tenant |-> NULL]

TenantCall ==
  [pc : {"idle", "create.audit", "suspend.update", "suspend.audit", "activate.update"},
   tenant : Nat]

TGoto(h, pc) == tcall' = [tcall EXCEPT ![h].pc = pc]

TReturn(h) == tcall' = [tcall EXCEPT ![h] = TenantIdle]

CreateTenant(h) ==
  /\ tcall[h].pc = "idle"
  /\ Len(tenants) < MaxTenants
  /\ \E slug \in Slug : SlugFree(slug) /\ TenantInsert(slug)
  /\ tcall' = [tcall EXCEPT ![h] =
                 [pc |-> "create.audit", tenant |-> Len(tenants) + 1]]
  /\ UNCHANGED <<identities, keys, audit>>

CreateTenantAudit(h) ==
  /\ tcall[h].pc = "create.audit"
  /\ AuditInsert("tenant.created", tcall[h].tenant)
  /\ TReturn(h)
  /\ UNCHANGED <<tenants, identities, keys>>

SuspendTenant(h) ==
  /\ tcall[h].pc = "idle"
  /\ \E t \in DOMAIN tenants :
       /\ tenants[t].status = "active"
       /\ tcall' = [tcall EXCEPT ![h] = [pc |-> "suspend.update", tenant |-> t]]
  /\ UNCHANGED tables

SuspendTenantUpdate(h) ==
  /\ tcall[h].pc = "suspend.update"
  /\ TenantUpdateStatus(tcall[h].tenant, "suspended")
  /\ TGoto(h, "suspend.audit")
  /\ UNCHANGED <<identities, keys, audit>>

SuspendTenantAudit(h) ==
  /\ tcall[h].pc = "suspend.audit"
  /\ AuditInsert("tenant.suspended", tcall[h].tenant)
  /\ TReturn(h)
  /\ UNCHANGED <<tenants, identities, keys>>

ActivateTenant(h) ==
  /\ tcall[h].pc = "idle"
  /\ \E t \in DOMAIN tenants :
       /\ tenants[t].status # "deactivated"
       /\ tcall' = [tcall EXCEPT ![h] = [pc |-> "activate.update", tenant |-> t]]
  /\ UNCHANGED tables

\* The operation ends here: ActivateTenant writes no audit event.
ActivateTenantUpdate(h) ==
  /\ tcall[h].pc = "activate.update"
  /\ TenantUpdateStatus(tcall[h].tenant, "active")
  /\ TReturn(h)
  /\ UNCHANGED <<identities, keys, audit>>

\* A statement fails, or the caller's context ends: the call returns an error
\* and what it has written so far stays.
TAbort(h) ==
  /\ tcall[h].pc # "idle"
  /\ TReturn(h)
  /\ UNCHANGED tables

TenantStep(h) ==
  \/ CreateTenant(h)
  \/ CreateTenantAudit(h)
  \/ SuspendTenant(h)
  \/ SuspendTenantUpdate(h)
  \/ SuspendTenantAudit(h)
  \/ ActivateTenant(h)
  \/ ActivateTenantUpdate(h)
  \/ TAbort(h)

=============================================================================
