-------------------------- MODULE VerionCoreStores --------------------------
(***************************************************************************)
(* What audit_events says and what the key store holds, for every set of   *)
(* handlers, every seed and every bound.  Both are written apart from the  *)
(* rows they are about: an event one or more statements after the change   *)
(* it reports, a private key one statement before the row that names it.   *)
(***************************************************************************)
EXTENDS VerionCoreSafety

(***************************************************************************)
(* The audit log.  An event is written from the locals of the call;        *)
(* meanwhile other handlers write the same rows.  So the proof needs the   *)
(* invariant IInv on those locals, its counterpart for the tenant handlers *)
(* (TenantCallsSound), and that the rows an event is about only change in  *)
(* ways that keep it true.                                                 *)
(***************************************************************************)
\* What one event claims.
EventSound(e) ==
  /\ e[1] \in {"tenant.created", "tenant.suspended"} => e[2] \in DOMAIN tenants
  /\ e[1] \in {"identity.deactivated", ""} => e[2] \in DOMAIN identities
  /\ e[1] = "identity.deactivated" => identities[e[2]].deactivatedAt
  /\ e[1] = "" => identities[e[2]].primary # NULL
  /\ e[1] \in {"key.created", "key.rotated", "key.revoked"} => e[2] \in DOMAIN keys
  /\ e[1] = "key.revoked" => keys[e[2]].status # "active"
  /\ e[1] = "key.rotated" =>
       \E k \in DOMAIN keys :
         /\ k < e[2]
         /\ keys[k].status # "active"
         /\ keys[k].type = keys[e[2]].type
         /\ keys[k].purpose = keys[e[2]].purpose

CreationsRecorded ==
  "identity.created" \in Recorded =>
    DOMAIN identities = {e[2] : e \in {f \in audit : f[1] = "identity.created"}}

\* A tenant call in flight works on an existing tenant.
TenantCallsSound ==
  \A h \in THandler : tcall[h].pc # "idle" => tcall[h].tenant \in DOMAIN tenants

AuditInv ==
  /\ IInv
  /\ TenantCallsSound
  /\ \A e \in audit : EventSound(e)
  /\ CreationsRecorded

\* The second components of a set of pairs with one more element.
LEMMA SecondsWith ==
  ASSUME NEW S, NEW a
  PROVE  {e[2] : e \in S \cup {a}} = {e[2] : e \in S} \cup {a[2]}
  OBVIOUS

\* The second components of pairs that share their first.
LEMMA SecondsOf ==
  ASSUME NEW S, NEW c, NEW P, \A e : e \in P <=> \E i \in S : e = <<c, i>>
  PROVE  {e[2] : e \in P} = S
  <1>1. \A i \in S : <<c, i>> \in P /\ <<c, i>>[2] = i
    OBVIOUS
  <1>2. \A e \in P : e[2] \in S
    OBVIOUS
  <1> QED
    BY <1>1, <1>2

\* An element of a product is a pair.
LEMMA PairOf ==
  ASSUME NEW S, NEW T, NEW e \in S \X T
  PROVE  \E x \in S, y \in T : e = <<x, y>>
  OBVIOUS

\* Tenants are only added.
LEMMA TenantsKept ==
  ASSUME TypeOK, [Next]_vars
  PROVE  DOMAIN tenants \subseteq DOMAIN tenants'
  <1>0. tenants \in Seq(TenantRow)
    BY DEF TypeOK
  <1>1. ASSUME NEW h \in THandler, TenantStep(h)
        PROVE  DOMAIN tenants \subseteq DOMAIN tenants'
    <2>1. CASE CreateTenant(h)
      <3>1. \E row : tenants' = Append(tenants, row)
        BY <2>1 DEF CreateTenant, TenantInsert
      <3> QED
        BY <1>0, <3>1
    <2>2. CASE SuspendTenantUpdate(h) \/ ActivateTenantUpdate(h)
      BY <2>2 DEF SuspendTenantUpdate, ActivateTenantUpdate, TenantUpdateStatus
    <2>3. CASE \/ CreateTenantAudit(h) \/ SuspendTenant(h) \/ SuspendTenantAudit(h)
               \/ ActivateTenant(h) \/ TAbort(h)
      BY <2>3 DEF CreateTenantAudit, SuspendTenant, SuspendTenantAudit, ActivateTenant,
                  TAbort, tables
    <2> QED
      BY <1>1, <2>1, <2>2, <2>3 DEF TenantStep
  <1>2. ASSUME NEW h \in IHandler, IdentityStep(h) PROVE tenants' = tenants
    BY <1>2 DEF IdentityStep, CreateIdentity, CreateIdentityInsert, CreateIdentityGenerate,
         CreateIdentityKey, CreateIdentityPrimary, CreateIdentityActivate,
         CreateIdentityAudit, DeactivateIdentity, SuspendIdentity, ReactivateIdentity,
         ReadNotTerminal, ChangeStatusUpdate, ChangeStatusAudit, ReadForUpdate,
         UpdateIdentity, IAbort, tables
  <1>3. ASSUME NEW h \in KHandler, KeyStep(h) PROVE tenants' = tenants
    BY <1>3 DEF KeyStep, GenerateKey, GenerateKeyKeyPair, GenerateKeyInsert, GenerateKeyAudit,
         RotateKey, RotateKeyKeyPair, RotateKeyInsert, RotateKeyMark, RotateKeyIdentity,
         RotateKeyPrimary, RotateKeyAudit, RevokeKey, RevokeKeyUpdate, RevokeKeyAudit,
         KAbort, GenerateKeyPair, InsertKey, AuditKeyEvent, tables
  <1> QED
    BY <1>1, <1>2, <1>3 DEF Next, Restart, vars, tables

\* The locals of the tenant handlers stay sound.
LEMMA NextTenantCalls ==
  ASSUME TypeOK, TenantCallsSound, [Next]_vars
  PROVE  TenantCallsSound'
  <1>0. /\ tenants \in Seq(TenantRow) /\ tcall \in [THandler -> TenantCall]
        /\ DOMAIN tenants \subseteq DOMAIN tenants'
    BY TenantsKept DEF TypeOK
  <1>1. CASE tcall' = tcall
    BY <1>0, <1>1 DEF TenantCallsSound
  <1>2. ASSUME NEW h \in THandler, TenantStep(h) PROVE TenantCallsSound'
    <2>1. \A g \in THandler \ {h} : tcall'[g] = tcall[g]
      BY <1>0, <1>2 DEF TenantStep, CreateTenant, CreateTenantAudit, SuspendTenant,
           SuspendTenantUpdate, SuspendTenantAudit, ActivateTenant, ActivateTenantUpdate,
           TAbort, TGoto, TReturn
    <2>2. tcall'[h].pc # "idle" => tcall'[h].tenant \in DOMAIN tenants'
      <3>1. CASE CreateTenant(h)
        <4>1. tcall'[h].tenant = Len(tenants) + 1
          BY <1>0, <3>1 DEF CreateTenant
        <4>2. \E row : tenants' = Append(tenants, row)
          BY <3>1 DEF CreateTenant, TenantInsert
        <4> QED
          BY <1>0, <4>1, <4>2
      <3>2. CASE SuspendTenant(h) \/ ActivateTenant(h)
        BY <1>0, <3>2 DEF SuspendTenant, ActivateTenant
      <3>3. CASE SuspendTenantUpdate(h)
        BY <1>0, <3>3 DEF SuspendTenantUpdate, TGoto, TenantCall, TenantCallsSound
      <3>4. CASE \/ CreateTenantAudit(h) \/ SuspendTenantAudit(h)
                 \/ ActivateTenantUpdate(h) \/ TAbort(h)
        BY <1>0, <3>4 DEF CreateTenantAudit, SuspendTenantAudit, ActivateTenantUpdate,
                          TAbort, TReturn, TenantIdle
      <3> QED
        BY <1>2, <3>1, <3>2, <3>3, <3>4 DEF TenantStep
    <2> QED
      BY <1>0, <2>1, <2>2 DEF TenantCallsSound
  <1>3. CASE Restart
    BY <1>3 DEF Restart, TenantCallsSound, TenantIdle
  <1> QED
    BY <1>1, <1>2, <1>3 DEF Next, vars

\* Kept rows keep an event true.
LEMMA EventKept ==
  ASSUME keys \in Seq(KeyRow), KeyRowsKept, IdentityRowsKept,
         DOMAIN tenants \subseteq DOMAIN tenants', NEW e, EventSound(e)
  PROVE  EventSound(e)'
  <1>1. e[1] = "key.rotated" =>
          \E k \in DOMAIN keys' :
            /\ k < e[2]
            /\ keys'[k].status # "active"
            /\ keys'[k].type = keys'[e[2]].type
            /\ keys'[k].purpose = keys'[e[2]].purpose
    BY DEF EventSound, KeyRowsKept
  <1>2. /\ e[1] \in {"identity.deactivated", ""} => e[2] \in DOMAIN identities'
        /\ e[1] = "identity.deactivated" => identities'[e[2]].deactivatedAt
        /\ e[1] = "" => identities'[e[2]].primary # NULL
    BY DEF EventSound, IdentityRowsKept
  <1>3. /\ e[1] \in {"key.created", "key.rotated", "key.revoked"} => e[2] \in DOMAIN keys'
        /\ e[1] = "key.revoked" => keys'[e[2]].status # "active"
    BY DEF EventSound, KeyRowsKept
  <1>4. e[1] \in {"tenant.created", "tenant.suspended"} => e[2] \in DOMAIN tenants'
    BY DEF EventSound
  <1> QED
    BY <1>1, <1>2, <1>3, <1>4 DEF EventSound

\* A call records an event of its own, and it is true at that moment.
Recording ==
  \E event, entity :
    /\ event # "identity.created"
    /\ EventSound(<<event, entity>>)
    /\ AuditInsert(event, entity)
    /\ UNCHANGED <<tenants, identities, keys>>

\* What a step may do to audit_events.
AuditStep ==
  \/ UNCHANGED audit /\ DOMAIN identities' = DOMAIN identities
  \/ Recording
  \/ IdentityInsertion

\* The tenant handlers.
LEMMA TenantStepAudit ==
  ASSUME TenantCallsSound, NEW h \in THandler, TenantStep(h)
  PROVE  AuditStep
  <1>1. CASE CreateTenantAudit(h)
    <2>1. EventSound(<<"tenant.created", tcall[h].tenant>>)
      BY <1>1 DEF CreateTenantAudit, TenantCallsSound, EventSound
    <2> QED
      BY <1>1, <2>1 DEF CreateTenantAudit, AuditStep, Recording
  <1>2. CASE SuspendTenantAudit(h)
    <2>1. EventSound(<<"tenant.suspended", tcall[h].tenant>>)
      BY <1>2 DEF SuspendTenantAudit, TenantCallsSound, EventSound
    <2> QED
      BY <1>2, <2>1 DEF SuspendTenantAudit, AuditStep, Recording
  <1>3. CASE \/ CreateTenant(h) \/ SuspendTenant(h) \/ SuspendTenantUpdate(h)
             \/ ActivateTenant(h) \/ ActivateTenantUpdate(h) \/ TAbort(h)
    BY <1>3 DEF CreateTenant, SuspendTenant, SuspendTenantUpdate, ActivateTenant,
                ActivateTenantUpdate, TAbort, tables, AuditStep
  <1> QED
    BY <1>1, <1>2, <1>3 DEF TenantStep

\* The identity handlers.  The event of a creation is part of the insertion.
LEMMA IdentityStepAudit ==
  ASSUME IInv, NEW h \in IHandler, IdentityStep(h)
  PROVE  AuditStep
  <1>0. icall[h] \in IdentityCall /\ IdentityCallSound(icall[h])
    BY DEF IInv, TypeOK, IdentityCallsSound
  <1>1. CASE CreateIdentityInsert(h)
    <2>1. icall[h].tenant \in Nat
      BY <1>0 DEF IdentityCall
    <2> QED
      BY <1>1, <2>1, StoredForms DEF CreateIdentityInsert, IdentityInsertion, AuditStep
  <1>2. CASE CreateIdentityAudit(h)
    <2>1. EventSound(<<"", icall[h].identity>>)
      BY <1>0, <1>2 DEF CreateIdentityAudit, IdentityCallSound, CreatePc, EventSound
    <2> QED
      BY <1>2, <2>1 DEF CreateIdentityAudit, AuditStep, Recording
  <1>3. CASE ChangeStatusAudit(h)
    <2> DEFINE event == StatusEvent(icall[h].target)
    <2>1. /\ event \in {"identity.deactivated", "identity.suspended", "identity.activated"}
          /\ event = "identity.deactivated" => icall[h].target = "deactivated"
      BY DEF StatusEvent
    <2>2. icall[h].pc = "status.audit" /\ AuditInsert(event, icall[h].identity)
      BY <1>3 DEF ChangeStatusAudit
    <2> HIDE DEF event
    <2>3. EventSound(<<event, icall[h].identity>>)
      BY <1>0, <2>1, <2>2 DEF IdentityCallSound, EventSound
    <2>4. UNCHANGED <<tenants, identities, keys>>
      BY <1>3 DEF ChangeStatusAudit
    <2> QED
      BY <2>1, <2>2, <2>3, <2>4 DEF AuditStep, Recording
  <1>4. CASE \/ CreateIdentityPrimary(h) \/ CreateIdentityActivate(h) \/ ChangeStatusUpdate(h)
             \/ UpdateIdentity(h)
    BY <1>4 DEF CreateIdentityPrimary, CreateIdentityActivate, ChangeStatusUpdate,
                UpdateIdentity, IdentitySetPrimaryKey, IdentityUpdateStatus, IdentityUpdate,
                AuditStep
  <1>5. CASE \/ CreateIdentity(h) \/ CreateIdentityGenerate(h) \/ CreateIdentityKey(h)
             \/ DeactivateIdentity(h) \/ SuspendIdentity(h) \/ ReactivateIdentity(h)
             \/ ReadForUpdate(h) \/ IAbort(h)
    BY <1>5 DEF CreateIdentity, CreateIdentityGenerate, CreateIdentityKey,
                DeactivateIdentity, SuspendIdentity, ReactivateIdentity, ReadNotTerminal,
                ReadForUpdate, IAbort, tables, AuditStep
  <1> QED
    BY <1>1, <1>2, <1>3, <1>4, <1>5 DEF IdentityStep

\* The key handlers.
LEMMA KeyStepAudit ==
  ASSUME IInv, NEW h \in KHandler, KeyStep(h)
  PROVE  AuditStep
  <1>0. kcall[h] \in KeyCall /\ KeyCallSound(kcall[h])
    BY DEF IInv, TypeOK, KeyCallsSound
  <1>1. CASE GenerateKeyAudit(h)
    <2>1. EventSound(<<"key.created", kcall[h].new>>)
      BY <1>0, <1>1 DEF GenerateKeyAudit, KeyCallSound, EventSound
    <2> QED
      BY <1>1, <2>1 DEF GenerateKeyAudit, AuditStep, Recording
  <1>2. CASE RotateKeyAudit(h)
    <2>1. kcall[h].pc = "rotate.audit"
      BY <1>2 DEF RotateKeyAudit, AuditKeyEvent
    <2>2. /\ kcall[h].old \in DOMAIN keys /\ kcall[h].new \in DOMAIN keys
          /\ kcall[h].new > kcall[h].old /\ keys[kcall[h].old].status # "active"
          /\ keys[kcall[h].old].type = keys[kcall[h].new].type
          /\ keys[kcall[h].old].purpose = keys[kcall[h].new].purpose
      BY <1>0, <2>1 DEF KeyCallSound, RotatePc
    <2>3. kcall[h].old \in Nat /\ kcall[h].new \in Nat
      BY <1>0 DEF KeyCall
    <2>4. EventSound(<<"key.rotated", kcall[h].new>>)
      BY <2>2, <2>3 DEF EventSound
    <2> QED
      BY <1>2, <2>4 DEF RotateKeyAudit, AuditKeyEvent, AuditStep, Recording
  <1>3. CASE RevokeKeyAudit(h)
    <2>1. kcall[h].pc = "revoke.audit"
      BY <1>3 DEF RevokeKeyAudit, AuditKeyEvent
    <2>2. EventSound(<<"key.revoked", kcall[h].old>>)
      BY <1>0, <2>1 DEF KeyCallSound, EventSound
    <2> QED
      BY <1>3, <2>2 DEF RevokeKeyAudit, AuditKeyEvent, AuditStep, Recording
  <1>4. CASE \/ GenerateKey(h) \/ GenerateKeyKeyPair(h) \/ GenerateKeyInsert(h)
             \/ RotateKey(h) \/ RotateKeyKeyPair(h) \/ RotateKeyInsert(h) \/ RotateKeyMark(h)
             \/ RotateKeyIdentity(h) \/ RevokeKey(h) \/ RevokeKeyUpdate(h) \/ KAbort(h)
    BY <1>4 DEF GenerateKey, GenerateKeyKeyPair, GenerateKeyInsert, RotateKey,
                RotateKeyKeyPair, RotateKeyInsert, RotateKeyMark, RotateKeyIdentity,
                RevokeKey, RevokeKeyUpdate, KAbort, GenerateKeyPair, InsertKey, tables,
                AuditStep
  <1>5. CASE RotateKeyPrimary(h)
    BY <1>5 DEF RotateKeyPrimary, IdentitySetPrimaryKey, AuditStep
  <1> QED
    BY <1>1, <1>2, <1>3, <1>4, <1>5 DEF KeyStep

\* Every step changes audit_events in one of the listed ways.
LEMMA NextAudit ==
  ASSUME IInv, TenantCallsSound, [Next]_vars
  PROVE  AuditStep
  <1>1. CASE Restart \/ UNCHANGED vars
    BY <1>1 DEF Restart, vars, tables, AuditStep
  <1> QED
    BY <1>1, TenantStepAudit, IdentityStepAudit, KeyStepAudit DEF Next

\* The events of the next state are true in it.
LEMMA NextEvents ==
  ASSUME AuditInv, [Next]_vars
  PROVE  \A e \in audit' : EventSound(e)'
  <1>0. /\ keys \in Seq(KeyRow) /\ KeyRowsKept /\ IdentityRowsKept
        /\ DOMAIN tenants \subseteq DOMAIN tenants'
    BY NextKeepsRows, TenantsKept DEF AuditInv, IInv, TypeOK
  <1>1. \A e \in audit : EventSound(e)'
    BY <1>0, EventKept DEF AuditInv
  <1>2. CASE UNCHANGED audit
    BY <1>1, <1>2
  <1>3. CASE Recording
    <2>1. PICK event, entity : EventSound(<<event, entity>>) /\ AuditInsert(event, entity)
      BY <1>3 DEF Recording
    <2>2. EventSound(<<event, entity>>)'
      BY <1>0, <2>1, EventKept
    <2> QED
      BY <1>1, <2>1, <2>2 DEF AuditInsert
  <1>4. CASE IdentityInsertion
    <2>1. \A e \in audit' \ audit : e[1] = "identity.created"
      BY <1>4 DEF IdentityInsertion, IdentityCreate, AuditInsert
    <2>2. \A e \in audit' \ audit : EventSound(e)'
      BY <2>1 DEF EventSound
    <2> QED
      BY <1>1, <2>2
  <1> QED
    BY <1>2, <1>3, <1>4, NextAudit DEF AuditStep, AuditInv

\* Identities and their creation events appear together.
LEMMA NextCreations ==
  ASSUME AuditInv, [Next]_vars
  PROVE  CreationsRecorded'
  <1> SUFFICES ASSUME "identity.created" \in Recorded
               PROVE  DOMAIN identities' = {e[2] : e \in {f \in audit' : f[1] = "identity.created"}}
    BY DEF CreationsRecorded
  <1>0. DOMAIN identities = {e[2] : e \in {f \in audit : f[1] = "identity.created"}}
    BY DEF AuditInv, CreationsRecorded
  <1>1. CASE UNCHANGED audit /\ DOMAIN identities' = DOMAIN identities
    BY <1>0, <1>1
  <1>2. CASE Recording
    <2>1. /\ {f \in audit' : f[1] = "identity.created"} = {f \in audit : f[1] = "identity.created"}
          /\ identities' = identities
      BY <1>2 DEF Recording, AuditInsert
    <2> QED
      BY <1>0, <2>1
  <1>3. CASE IdentityInsertion
    <2>1. DOMAIN identities' = DOMAIN identities \cup {Len(identities) + 1}
      BY <1>3, IdentityInsertionEffect DEF AuditInv, IInv, TypeOK
    <2>2. audit' = audit \cup {<<"identity.created", Len(identities) + 1>>}
      BY <1>3 DEF IdentityInsertion, IdentityCreate, AuditInsert
    <2>3. {f \in audit' : f[1] = "identity.created"} =
            {f \in audit : f[1] = "identity.created"} \cup {<<"identity.created", Len(identities) + 1>>}
      BY <2>2
    <2>4. {e[2] : e \in {f \in audit' : f[1] = "identity.created"}} =
            {e[2] : e \in {f \in audit : f[1] = "identity.created"}} \cup {Len(identities) + 1}
      <3>1. <<"identity.created", Len(identities) + 1>>[2] = Len(identities) + 1
        OBVIOUS
      <3> QED
        BY <2>3, <3>1, SecondsWith, Zenon
    <2> QED
      BY <1>0, <2>1, <2>4
  <1> QED
    BY <1>1, <1>2, <1>3, NextAudit DEF AuditStep, AuditInv

\* The seeded events are those of the seeded rows.
LEMMA InitAudit ==
  ASSUME Init
  PROVE  AuditInv
  <1>1. TenantCallsSound
    BY DEF Init, TenantCallsSound, TenantIdle
  <1>2. /\ DOMAIN tenants = 1..SeedTenants
        /\ DOMAIN identities = DOMAIN SeedIdentities
        /\ \A i \in DOMAIN SeedIdentities : identities[i].primary = i
    BY DEF Init, SeedIdentity
  <1>3. \A i \in DOMAIN SeedIdentities : i # NULL
    BY SeedAssumption DEF NULL
  <1>4. audit = ({"tenant.created"} \cap Recorded) \X (1..SeedTenants)
                  \cup ({"identity.created", ""} \cap Recorded) \X DOMAIN SeedIdentities
    BY DEF Init
  <1>5. \A e \in audit : EventSound(e)
    BY <1>2, <1>3, <1>4 DEF EventSound
  <1>6. ASSUME "identity.created" \in Recorded
        PROVE  DOMAIN identities = {e[2] : e \in {f \in audit : f[1] = "identity.created"}}
    <2> DEFINE creations == {f \in audit : f[1] = "identity.created"}
    <2>1. ASSUME NEW e
          PROVE  e \in creations <=> \E i \in DOMAIN SeedIdentities : e = <<"identity.created", i>>
      <3>1. ASSUME e \in creations
            PROVE  \E i \in DOMAIN SeedIdentities : e = <<"identity.created", i>>
        <4>1. e \in audit /\ e[1] = "identity.created"
          BY <3>1
        <4> DEFINE events == {"identity.created", ""} \cap Recorded
                   ids == DOMAIN SeedIdentities
        <4>2. e \in events \X ids
          BY <1>4, <4>1
        <4> HIDE DEF events, ids
        <4>3. PICK x \in events, i \in ids : e = <<x, i>>
          BY <4>2, PairOf
        <4>4. x = "identity.created"
          BY <4>1, <4>3
        <4> QED
          BY <4>3, <4>4 DEF ids
      <3>2. ASSUME NEW i \in DOMAIN SeedIdentities, e = <<"identity.created", i>>
            PROVE  e \in creations
        BY <1>4, <1>6, <3>2
      <3> QED
        BY <3>1, <3>2
    <2> HIDE DEF creations
    <2>2. {e[2] : e \in creations} = DOMAIN SeedIdentities
      BY <2>1, SecondsOf
    <2> QED
      BY <1>2, <2>2 DEF creations
  <1> QED
    BY <1>1, <1>5, <1>6, InitInv DEF AuditInv, CreationsRecorded

\* AuditInv holds in every reachable state.
LEMMA AuditInvariance == Spec => []AuditInv
  <1>1. Init => AuditInv
    BY InitAudit
  <1>2. AuditInv /\ [Next]_vars => AuditInv'
    BY NextInv, NextTenantCalls, NextEvents, NextCreations DEF AuditInv, IInv
  <1> QED
    BY <1>1, <1>2, PTL DEF Spec

\* An identity exists exactly when its creation is recorded, and no lifecycle
\* event reports what has not happened, whatever overlaps and wherever the
\* process stops.
THEOREM LifecycleEventsTrue == Spec => []LifecycleEventsSound
  <1>1. AuditInv => LifecycleEventsSound
    BY DEF AuditInv, EventSound, CreationsRecorded, LifecycleEventsSound
  <1> QED
    BY <1>1, AuditInvariance, PTL

\* No key event reports what has not happened, although it is written up to four
\* statements after the key was read and others may have written the key since.
THEOREM KeyEventsTrue == Spec => []KeyEventsSound
  <1>1. ASSUME AuditInv PROVE KeyEventsSound
    <2>1. \A k \in DOMAIN keys : k \in Nat /\ k >= 1
      BY <1>1 DEF AuditInv, IInv, TypeOK
    <2>2. ASSUME NEW e \in audit
          PROVE  /\ e[1] \in {"key.created", "key.rotated", "key.revoked"} => e[2] \in DOMAIN keys
                 /\ e[1] = "key.revoked" => keys[e[2]].status # "active"
      BY <1>1 DEF AuditInv, EventSound
    <2>3. ASSUME NEW e \in audit, e[1] = "key.rotated"
          PROVE  \E k \in 1..(e[2] - 1) :
                   /\ keys[k].status # "active"
                   /\ keys[k].type = keys[e[2]].type
                   /\ keys[k].purpose = keys[e[2]].purpose
      <3>1. /\ e[2] \in DOMAIN keys
            /\ \E k \in DOMAIN keys :
                 /\ k < e[2]
                 /\ keys[k].status # "active"
                 /\ keys[k].type = keys[e[2]].type
                 /\ keys[k].purpose = keys[e[2]].purpose
        BY <1>1, <2>3 DEF AuditInv, EventSound
      <3> QED
        BY <2>1, <3>1
    <2> QED
      BY <2>2, <2>3 DEF KeyEventsSound
  <1> QED
    BY <1>1, AuditInvariance, PTL

(***************************************************************************)
(* The key store.  CreateIdentity stores the private key after it inserted *)
(* the identity and before it inserts the key row, so the invariant has to *)
(* say what the key store holds for a creation in between: its own pair,   *)
(* under a ref no key row has yet and no other creation uses.              *)
(***************************************************************************)
\* A creation whose key row is not inserted yet.
Keyless(h) == icall[h].pc \in {"create.generate", "create.key"}

VaultInv ==
  /\ FirstKeyKept
  /\ \A k \in DOMAIN keys : \A i : keys[k].ref = CreationRef(i) => i \in DOMAIN identities
  /\ \A h \in IHandler : Keyless(h) =>
       \A k \in DOMAIN keys : keys[k].ref # CreationRef(icall[h].identity)
  /\ \A g, h \in IHandler : Keyless(g) /\ Keyless(h) /\ icall[g].identity = icall[h].identity
       => g = h
  /\ \A h \in IHandler :
       icall[h].pc = "create.key" /\ CreationRef(icall[h].identity) \in DOMAIN vault
         => vault[CreationRef(icall[h].identity)] = icall[h].pair

\* The refs of CreateIdentity tell identities apart, and GenerateKey and RotateKey
\* never use one of them.
LEMMA RefsDistinct ==
  /\ \A i, j : CreationRef(i) = CreationRef(j) => i = j
  /\ \A c : c.type \in KeyType => \A i : CryptoKeyID(c) # CreationRef(i)
  <1>1. \A i, j : CreationRef(i) = CreationRef(j) => i = j
    BY DEF CreationRef
  <1>2. "" \notin KeyType
    BY DEF KeyType
  <1>3. ASSUME NEW c, c.type \in KeyType, NEW i
        PROVE  CryptoKeyID(c) # CreationRef(i)
    BY <1>2, <1>3 DEF CryptoKeyID, CreationRef
  <1> QED
    BY <1>1, <1>3

\* What every step but three of CreateIdentity does: no key row with a creation's
\* ref is added, no creation's ref is stored, no creation comes closer to its key.
Quiet ==
  /\ \A k \in DOMAIN keys' \ DOMAIN keys : \A i : keys'[k].ref # CreationRef(i)
  /\ \A i : CreationRef(i) \in DOMAIN vault' =>
       /\ CreationRef(i) \in DOMAIN vault
       /\ vault'[CreationRef(i)] = vault[CreationRef(i)]
  /\ \A h \in IHandler : Keyless(h)' => icall'[h] = icall[h]

\* Such a step preserves the invariant.
LEMMA QuietKeeps ==
  ASSUME VaultInv, Quiet, KeyRowsKept, IdentityRowsKept
  PROVE  VaultInv'
  <1>1. ASSUME NEW k \in DOMAIN keys', NEW i, keys'[k].ref = CreationRef(i)
        PROVE  /\ k \in DOMAIN keys /\ keys[k].ref = CreationRef(i)
               /\ keys'[k].identity = keys[k].identity /\ keys'[k].pair = keys[k].pair
    BY <1>1 DEF Quiet, KeyRowsKept
  <1>2. FirstKeyKept'
    BY <1>1 DEF FirstKeyKept, VaultInv, Quiet
  <1>3. \A k \in DOMAIN keys' : \A i : keys'[k].ref = CreationRef(i) => i \in DOMAIN identities'
    BY <1>1 DEF VaultInv, IdentityRowsKept
  <1>4. ASSUME NEW h \in IHandler, Keyless(h)'
        PROVE  icall'[h] = icall[h] /\ Keyless(h)
    BY <1>4 DEF Quiet, Keyless
  <1>5. \A h \in IHandler : Keyless(h)' =>
          \A k \in DOMAIN keys' : keys'[k].ref # CreationRef(icall'[h].identity)
    BY <1>1, <1>4 DEF VaultInv
  <1>6. \A g, h \in IHandler :
          Keyless(g)' /\ Keyless(h)' /\ icall'[g].identity = icall'[h].identity => g = h
    BY <1>4 DEF VaultInv
  <1>7. \A h \in IHandler :
          icall'[h].pc = "create.key" /\ CreationRef(icall'[h].identity) \in DOMAIN vault'
            => vault'[CreationRef(icall'[h].identity)] = icall'[h].pair
    <2>1. \A h \in IHandler : icall'[h].pc = "create.key" => Keyless(h)'
      BY DEF Keyless
    <2> QED
      BY <1>4, <2>1 DEF VaultInv, Quiet
  <1> QED
    BY <1>2, <1>3, <1>5, <1>6, <1>7 DEF VaultInv, CreationRef

\* The steps of the key handlers are quiet: they store under their own refs.
LEMMA KeyStepQuiet ==
  ASSUME IInv, NEW h \in KHandler, KeyStep(h), UNCHANGED icall
  PROVE  Quiet
  <1>0. kcall[h] \in KeyCall /\ keys \in Seq(KeyRow)
    BY DEF IInv, TypeOK
  <1>1. /\ kcall[h].type \in KeyType /\ kcall[h].tenant \in Nat /\ kcall[h].identity \in Nat
        /\ kcall[h].purpose \in KeyPurpose /\ kcall[h].pair \in Nat
    BY <1>0 DEF KeyCall
  <1>2. \A i : CryptoKeyID(kcall[h]) # CreationRef(i)
    BY <1>1, RefsDistinct
  <1>3. CASE GenerateKeyInsert(h) \/ RotateKeyInsert(h)
    <2>1. UNCHANGED vault
      BY <1>3 DEF GenerateKeyInsert, RotateKeyInsert, InsertKey, keyStoreVars
    <2>2. CASE UNCHANGED keys
      BY <2>1, <2>2 DEF Quiet
    <2>3. CASE ~UNCHANGED keys
      <3> DEFINE row == [identity |-> kcall[h].identity, tenant |-> kcall[h].tenant,
                         type |-> kcall[h].type, purpose |-> kcall[h].purpose,
                         status |-> "active", ref |-> CryptoKeyID(kcall[h]),
                         pair |-> kcall[h].pair, rotatedTo |-> NULL]
      <3>1. keys' = Append(keys, row) /\ row.ref = CryptoKeyID(kcall[h])
        BY <1>3, <2>3 DEF GenerateKeyInsert, RotateKeyInsert, InsertKey, KeyCreate
      <3>2. row \in KeyRow
        BY <1>1 DEF KeyRow, KeyStatus, NULL, CryptoKeyID, Ref
      <3> HIDE DEF row
      <3>3. \A k \in DOMAIN keys' \ DOMAIN keys : keys'[k].ref = CryptoKeyID(kcall[h])
        BY <1>0, <3>1, <3>2, AppendKeepsType
      <3> QED
        BY <1>2, <2>1, <3>3 DEF Quiet
    <2> QED
      BY <2>2, <2>3
  <1>4. CASE GenerateKeyKeyPair(h) \/ RotateKeyKeyPair(h)
    <2>1. UNCHANGED keys
      BY <1>4 DEF GenerateKeyKeyPair, RotateKeyKeyPair, GenerateKeyPair, tables
    <2>2. UNCHANGED vault \/ Store(CryptoKeyID(kcall[h]), minted + 1)
      BY <1>4 DEF GenerateKeyKeyPair, RotateKeyKeyPair, GenerateKeyPair, GeneratePair,
                  keyStoreVars
    <2>3. ASSUME NEW i, CreationRef(i) \in DOMAIN vault'
          PROVE  /\ CreationRef(i) \in DOMAIN vault
                 /\ vault'[CreationRef(i)] = vault[CreationRef(i)]
      <3> DEFINE ref == CryptoKeyID(kcall[h])
                 first == CreationRef(i)
      <3>1. first # ref
        BY <1>2
      <3>2. first \in DOMAIN vault' /\ (UNCHANGED vault \/ Store(ref, minted + 1))
        BY <2>2, <2>3
      <3> HIDE DEF ref, first
      <3>3. first \in DOMAIN vault /\ vault'[first] = vault[first]
        BY <3>1, <3>2 DEF Store
      <3> QED
        BY <3>3 DEF first
    <2> QED
      BY <2>1, <2>3 DEF Quiet
  <1>5. CASE RotateKeyMark(h) \/ RevokeKeyUpdate(h)
    BY <1>5 DEF RotateKeyMark, RevokeKeyUpdate, KeyRotate, KeyRevoke, keyStoreVars, Quiet
  <1>6. CASE \/ GenerateKey(h) \/ GenerateKeyAudit(h) \/ RotateKey(h) \/ RotateKeyIdentity(h)
             \/ RotateKeyPrimary(h) \/ RotateKeyAudit(h) \/ RevokeKey(h) \/ RevokeKeyAudit(h)
             \/ KAbort(h)
    <2>1. UNCHANGED <<keys, vault>>
      BY <1>6 DEF GenerateKey, GenerateKeyAudit, RotateKey, RotateKeyIdentity,
           RotateKeyPrimary, RotateKeyAudit, AuditKeyEvent, RevokeKey, RevokeKeyAudit, KAbort,
           keyStoreVars, tables
    <2> QED
      BY <2>1 DEF Quiet
  <1> QED
    BY <1>3, <1>4, <1>5, <1>6 DEF KeyStep

\* So are those of the identity handlers that do not work towards a key.
LEMMA IdentityStepQuiet ==
  ASSUME IInv, NEW h \in IHandler, IdentityStep(h),
         ~CreateIdentityInsert(h), ~CreateIdentityGenerate(h), ~CreateIdentityKey(h)
  PROVE  Quiet
  <1>0. icall \in [IHandler -> IdentityCall]
    BY DEF IInv, TypeOK
  <1>1. UNCHANGED <<keys, vault>>
    BY DEF IdentityStep, CreateIdentity, CreateIdentityPrimary, CreateIdentityActivate,
         CreateIdentityAudit, DeactivateIdentity, SuspendIdentity, ReactivateIdentity,
         ReadNotTerminal, ChangeStatusUpdate, ChangeStatusAudit, ReadForUpdate,
         UpdateIdentity, IAbort, tables, keyStoreVars
  <1>2. icall'[h].pc \notin {"create.generate", "create.key"}
    <2>1. CASE CreateIdentity(h)
      BY <1>0, <2>1 DEF CreateIdentity, IdentityIdle
    <2>2. CASE CreateIdentityPrimary(h) \/ CreateIdentityActivate(h) \/ ChangeStatusUpdate(h)
      BY <1>0, <2>2 DEF CreateIdentityPrimary, CreateIdentityActivate, ChangeStatusUpdate,
                        IGoto, IdentityCall
    <2>3. CASE DeactivateIdentity(h) \/ SuspendIdentity(h) \/ ReactivateIdentity(h)
      BY <1>0, <2>3, ZenonT(60) DEF DeactivateIdentity, SuspendIdentity, ReactivateIdentity,
                        ReadNotTerminal, IdentityIdle
    <2>4. CASE ReadForUpdate(h)
      BY <1>0, <2>4 DEF ReadForUpdate, IdentityIdle
    <2>5. CASE \/ CreateIdentityAudit(h) \/ ChangeStatusAudit(h) \/ UpdateIdentity(h)
               \/ IAbort(h)
      <3>1. IReturn(h)
        BY <2>5 DEF CreateIdentityAudit, ChangeStatusAudit, UpdateIdentity, IAbort
      <3> QED
        BY <1>0, <3>1 DEF IReturn, IdentityIdle
    <2> QED
      BY <2>1, <2>2, <2>3, <2>4, <2>5 DEF IdentityStep
  <1>3. \A g \in IHandler \ {h} : icall'[g] = icall[g]
    BY <1>0, IdentityStepMovesOne
  <1> QED
    BY <1>1, <1>2, <1>3 DEF Quiet, Keyless

\* A tenant handler, a crash and a stuttering step are quiet.
LEMMA OtherQuiet ==
  ASSUME \/ \E h \in THandler : TenantStep(h) /\ UNCHANGED <<keyStoreVars, icall, kcall>>
         \/ Restart
         \/ UNCHANGED vars
  PROVE  Quiet
  <1>1. CASE Restart
    BY <1>1 DEF Restart, tables, EmptyVault, IdentityIdle, Keyless, Quiet
  <1>2. CASE ~Restart
    <2>1. UNCHANGED <<keys, vault, icall>>
      BY <1>2, TenantStepTables DEF keyStoreVars, vars, tables
    <2> QED
      BY <2>1 DEF Quiet
  <1> QED
    BY <1>1, <1>2

\* A new identity's id is in no ref and in no other creation.
LEMMA CreationStarts ==
  ASSUME IInv, VaultInv, KeyRowsKept, IdentityRowsKept, NEW h \in IHandler,
         CreateIdentityInsert(h)
  PROVE  VaultInv'
  <1>0. /\ icall \in [IHandler -> IdentityCall] /\ identities \in Seq(IdentityRow)
        /\ UNCHANGED <<keys, vault>>
    BY DEF IInv, TypeOK, CreateIdentityInsert, keyStoreVars
  <1>1. \A g \in IHandler \ {h} : icall'[g] = icall[g]
    BY <1>0, IdentityStepMovesOne DEF IdentityStep
  <1>2. Keyless(h)' => icall'[h].pc = "create.generate" /\ icall'[h].identity = Len(identities) + 1
    BY <1>0 DEF CreateIdentityInsert, IReturn, IdentityIdle, IdentityCall, Keyless
  <1>3. Len(identities) + 1 \notin DOMAIN identities
    BY <1>0
  <1>4. \A g \in IHandler : Keyless(g) => icall[g].identity \in DOMAIN identities
    BY DEF IInv, IdentityCallsSound, IdentityCallSound, CreatePc, Keyless
  <1>5. FirstKeyKept'
    BY <1>0 DEF VaultInv, FirstKeyKept
  <1>6. \A k \in DOMAIN keys' : \A i : keys'[k].ref = CreationRef(i) => i \in DOMAIN identities'
    BY <1>0 DEF VaultInv, IdentityRowsKept
  <1>7. \A g \in IHandler : Keyless(g)' =>
          \A k \in DOMAIN keys' : keys'[k].ref # CreationRef(icall'[g].identity)
    <2>1. \A g \in IHandler \ {h} : Keyless(g)' <=> Keyless(g)
      BY <1>1 DEF Keyless
    <2>2. Keyless(h)' => \A k \in DOMAIN keys : keys[k].ref # CreationRef(icall'[h].identity)
      BY <1>2, <1>3 DEF VaultInv
    <2>3. \A g \in IHandler \ {h} : Keyless(g)' =>
            \A k \in DOMAIN keys : keys[k].ref # CreationRef(icall'[g].identity)
      BY <1>1, <2>1 DEF VaultInv
    <2> QED
      BY <1>0, <2>2, <2>3
  <1>8. \A f, g \in IHandler :
          Keyless(f)' /\ Keyless(g)' /\ icall'[f].identity = icall'[g].identity => f = g
    BY <1>1, <1>2, <1>3, <1>4 DEF VaultInv, Keyless
  <1>9. \A g \in IHandler :
          icall'[g].pc = "create.key" /\ CreationRef(icall'[g].identity) \in DOMAIN vault'
            => vault'[CreationRef(icall'[g].identity)] = icall'[g].pair
    <2>1. icall'[h].pc # "create.key"
      BY <1>2 DEF Keyless
    <2> QED
      BY <1>0, <1>1, <2>1 DEF VaultInv
  <1> QED
    BY <1>5, <1>6, <1>7, <1>8, <1>9 DEF VaultInv, CreationRef

\* Its key is stored under a ref no row and no other creation has.
LEMMA CreationStores ==
  ASSUME IInv, VaultInv, IdentityRowsKept, NEW h \in IHandler, CreateIdentityGenerate(h)
  PROVE  VaultInv'
  <1> DEFINE c == icall[h]
             first == CreationRef(c.identity)
  <1>0. /\ icall \in [IHandler -> IdentityCall] /\ UNCHANGED <<keys, identities>>
        /\ c.pc = "create.generate" /\ Keyless(h)
    BY DEF IInv, TypeOK, CreateIdentityGenerate, tables, Keyless
  <1>1. \A g \in IHandler \ {h} : icall'[g] = icall[g]
    BY <1>0, IdentityStepMovesOne DEF IdentityStep
  <1>2. /\ icall'[h].pc = "create.key" /\ icall'[h].identity = c.identity
        /\ icall'[h].pair = minted + 1
    BY <1>0 DEF CreateIdentityGenerate, IdentityCall
  <1>3. /\ first \in DOMAIN vault' /\ vault'[first] = minted + 1
        /\ \A r \in DOMAIN vault' : r # first => r \in DOMAIN vault /\ vault'[r] = vault[r]
    <2>1. vault' = [r \in DOMAIN vault \cup {first} |-> IF r = first THEN minted + 1 ELSE vault[r]]
      BY DEF CreateIdentityGenerate, GeneratePair, Store
    <2> HIDE DEF first
    <2> QED
      BY <2>1
  <1>4. \A g \in IHandler : Keyless(g)' => Keyless(g) /\ icall'[g].identity = icall[g].identity
    BY <1>0, <1>1, <1>2 DEF Keyless
  <1>5. \A k \in DOMAIN keys : keys[k].ref # first
    BY <1>0 DEF VaultInv
  <1>6. FirstKeyKept'
    <2> HIDE DEF first
    <2> QED
      BY <1>0, <1>3, <1>5 DEF VaultInv, FirstKeyKept
  <1>7. \A k \in DOMAIN keys' : \A i : keys'[k].ref = CreationRef(i) => i \in DOMAIN identities'
    BY <1>0 DEF VaultInv
  <1>8. /\ \A g \in IHandler : Keyless(g)' =>
             \A k \in DOMAIN keys' : keys'[k].ref # CreationRef(icall'[g].identity)
        /\ \A f, g \in IHandler :
             Keyless(f)' /\ Keyless(g)' /\ icall'[f].identity = icall'[g].identity => f = g
    BY <1>0, <1>4 DEF VaultInv
  <1>9. ASSUME NEW g \in IHandler, icall'[g].pc = "create.key",
               CreationRef(icall'[g].identity) \in DOMAIN vault'
        PROVE  vault'[CreationRef(icall'[g].identity)] = icall'[g].pair
    <2>1. CASE g = h
      BY <1>2, <1>3, <2>1
    <2>2. CASE g # h
      <3>1. icall'[g] = icall[g] /\ Keyless(g)
        BY <1>1, <1>9, <2>2 DEF Keyless
      <3>2. icall[g].identity # c.identity
        BY <1>0, <2>2, <3>1 DEF VaultInv
      <3>3. CreationRef(icall[g].identity) # first
        BY <3>2, RefsDistinct
      <3>4. /\ CreationRef(icall[g].identity) \in DOMAIN vault
            /\ vault'[CreationRef(icall[g].identity)] = vault[CreationRef(icall[g].identity)]
        BY <1>3, <1>9, <3>1, <3>3
      <3> QED
        BY <1>9, <3>1, <3>4 DEF VaultInv
    <2> QED
      BY <2>1, <2>2
  <1> QED
    BY <1>6, <1>7, <1>8, <1>9 DEF VaultInv, CreationRef

\* The key row it inserts carries the pair the key store holds under its ref.
LEMMA CreationEnds ==
  ASSUME IInv, VaultInv, KeyRowsKept, IdentityRowsKept, NEW h \in IHandler,
         CreateIdentityKey(h)
  PROVE  VaultInv'
  <1> DEFINE c == icall[h]
             n == Len(keys) + 1
  <1>0. /\ icall \in [IHandler -> IdentityCall] /\ c \in IdentityCall
        /\ keys \in Seq(KeyRow) /\ UNCHANGED <<identities, vault>>
        /\ c.pc = "create.key" /\ Keyless(h) /\ c.identity \in DOMAIN identities
    BY DEF IInv, TypeOK, IdentityCallsSound, IdentityCallSound, CreatePc, CreateIdentityKey,
           keyStoreVars, Keyless
  <1>1. \A g \in IHandler \ {h} : icall'[g] = icall[g]
    BY <1>0, IdentityStepMovesOne DEF IdentityStep
  <1>2. ~Keyless(h)'
    BY <1>0 DEF CreateIdentityKey, IReturn, IdentityIdle, IdentityCall, Keyless
  <1>3. CASE UNCHANGED keys
    <2>1. Quiet
      BY <1>0, <1>1, <1>2, <1>3 DEF Quiet
    <2> QED
      BY <2>1, QuietKeeps
  <1>4. CASE ~UNCHANGED keys
    <2> DEFINE row == [identity |-> c.identity, tenant |-> c.tenant, type |-> "ed25519",
                       purpose |-> "signing", status |-> "active",
                       ref |-> CreationRef(c.identity), pair |-> c.pair, rotatedTo |-> NULL]
    <2>1. /\ keys' = Append(keys, row) /\ row.ref = CreationRef(c.identity)
          /\ row.identity = c.identity /\ row.pair = c.pair
      BY <1>4 DEF CreateIdentityKey, KeyCreate
    <2>2. row \in KeyRow
      <3>1. c.identity \in Nat /\ c.tenant \in Nat /\ c.pair \in Nat
        BY <1>0 DEF IdentityCall
      <3> QED
        BY <3>1, CreationRefType DEF KeyRow, KeyType, KeyPurpose, KeyStatus, NULL
    <2> HIDE DEF row
    <2>3. /\ DOMAIN keys' = DOMAIN keys \cup {n}
          /\ \A k \in DOMAIN keys : keys'[k] = keys[k]
          /\ keys'[n] = row
      BY <1>0, <2>1, <2>2, AppendKeepsType
    <2>4. FirstKeyKept'
      <3>1. CreationRef(c.identity) \in DOMAIN vault => vault[CreationRef(c.identity)] = c.pair
        BY <1>0 DEF VaultInv
      <3> HIDE DEF n, c
      <3> QED
        BY <1>0, <2>1, <2>3, <3>1 DEF VaultInv, FirstKeyKept
    <2>5. \A k \in DOMAIN keys' : \A i : keys'[k].ref = CreationRef(i) => i \in DOMAIN identities'
      BY <1>0, <2>1, <2>3, RefsDistinct DEF VaultInv
    <2>6. \A g \in IHandler : Keyless(g)' => icall'[g] = icall[g] /\ Keyless(g) /\ g # h
      BY <1>1, <1>2 DEF Keyless
    <2>7. ASSUME NEW g \in IHandler, Keyless(g)', NEW k \in DOMAIN keys'
          PROVE  keys'[k].ref # CreationRef(icall'[g].identity)
      <3>1. icall[g].identity # c.identity
        BY <1>0, <2>6, <2>7 DEF VaultInv
      <3>2. k \in DOMAIN keys => keys[k].ref # CreationRef(icall[g].identity)
        BY <2>6, <2>7 DEF VaultInv
      <3> QED
        BY <2>1, <2>3, <2>6, <2>7, <3>1, <3>2, RefsDistinct
    <2>8. \A f, g \in IHandler :
            Keyless(f)' /\ Keyless(g)' /\ icall'[f].identity = icall'[g].identity => f = g
      BY <2>6 DEF VaultInv
    <2>9. \A g \in IHandler :
            icall'[g].pc = "create.key" /\ CreationRef(icall'[g].identity) \in DOMAIN vault'
              => vault'[CreationRef(icall'[g].identity)] = icall'[g].pair
      <3>1. \A g \in IHandler : icall'[g].pc = "create.key" => Keyless(g)'
        BY DEF Keyless
      <3> QED
        BY <1>0, <2>6, <3>1 DEF VaultInv
    <2> QED
      BY <2>4, <2>5, <2>7, <2>8, <2>9 DEF VaultInv, CreationRef
  <1> QED
    BY <1>3, <1>4

\* The seeded key store holds the seeded keys.
LEMMA InitVault ==
  ASSUME Init
  PROVE  VaultInv
  <1>1. /\ DOMAIN keys = DOMAIN SeedIdentities /\ DOMAIN identities = DOMAIN SeedIdentities
        /\ \A k \in DOMAIN keys :
             keys[k].ref = CreationRef(k) /\ keys[k].identity = k /\ keys[k].pair = k
    BY DEF Init, SeedKey
  <1>2. \A ref \in DOMAIN vault : vault[ref] = ref[2]
    BY DEF Init
  <1>3. \A i : CreationRef(i)[2] = i
    BY DEF CreationRef
  <1>4. FirstKeyKept
    BY <1>1, <1>2, <1>3 DEF FirstKeyKept
  <1>5. \A k \in DOMAIN keys : \A i : keys[k].ref = CreationRef(i) => i \in DOMAIN identities
    BY <1>1, RefsDistinct
  <1>6. \A h \in IHandler : icall[h].pc = "idle"
    BY DEF Init, IdentityIdle
  <1> QED
    BY <1>4, <1>5, <1>6 DEF VaultInv, Keyless

\* The key CreateIdentity stored is never replaced while the process runs,
\* whatever is created, generated and rotated concurrently.
THEOREM CreationKeyStored == Spec => []FirstKeyKept
  <1>1. Init => IInv /\ VaultInv
    BY InitInv, InitVault
  <1>2. ASSUME IInv, VaultInv, [Next]_vars PROVE VaultInv'
    <2>0. KeyRowsKept /\ IdentityRowsKept
      BY <1>2, NextKeepsRows
    <2>1. ASSUME NEW h \in IHandler, IdentityStep(h) PROVE VaultInv'
      BY <1>2, <2>0, <2>1, QuietKeeps, IdentityStepQuiet, CreationStarts, CreationStores,
         CreationEnds
    <2>2. ASSUME NEW h \in KHandler, KeyStep(h), UNCHANGED icall PROVE VaultInv'
      BY <1>2, <2>0, <2>2, QuietKeeps, KeyStepQuiet
    <2> QED
      BY <1>2, <2>0, <2>1, <2>2, QuietKeeps, OtherQuiet DEF Next
  <1>3. IInv /\ VaultInv /\ [Next]_vars => (IInv /\ VaultInv)'
    BY <1>2, NextInv
  <1>4. VaultInv => FirstKeyKept
    BY DEF VaultInv
  <1> QED
    BY <1>1, <1>3, <1>4, PTL DEF Spec

=============================================================================
