# Verion in TLA+

A specification of Verion's concurrent behaviour, model-checked with TLC on
small instances and proved with TLAPS for all of them. Paths are relative to the
repository (`src/`); `PROJECT.json` maps every definition to its lines.

## The system

Verion is a multi-tenant identity server: one Go process behind gRPC and HTTP,
over PostgreSQL (tenants, identities, keys, credentials, audit events), Redis
(WebAuthn challenges, sessions) and an in-memory store of private keys. Requests
run concurrently. A service operation is a chain of repository calls; each call
is one SQL statement in its own implicit transaction (`IdentityRepo.Create` alone
opens an explicit one), and each session or challenge operation is a chain of Redis
commands. Nothing locks across the calls of an operation, so the interleaving of
statements, and a failure between two of them, is where correctness is decided.

| Part | State and operations | Hard behaviours | Module |
|---|---|---|---|
| Relational store `identity/postgres`, `db/migrations` | tables, unique indexes, the statements | one transaction for row and event, unconditional updates, optimistic lock | `Postgres` |
| Tenant service | create, suspend, activate | check then write | `TenantService` |
| Identity service | create (six commits), update, three status changes | stale checks, partial creation, version conflicts | `IdentityService` |
| Key service | generate, rotate, revoke | index against rotation order, caller-named identity, overlapping rotations, events after the change | `KeyService` |
| Key store, key generation `crypto` | private keys by ref | overwriting, loss at restart | `KeyStore` |
| The five above together | start and restart | calls in flight are lost | `VerionCore` |
| What the key tables promise | four operations | none: it is the abstract specification | `KeyLedger` |
| Session store, tokens, HTTP authentication | sessions and their index with expiry, token lifetimes; login, RequireAuth, logout, list, revoke | read then write back, three lifetimes, non-atomic pipelines | `SessionStore` |
| WebAuthn service, challenge store, credentials | challenges (GETDEL), sign counts; both ceremonies, begin and finish | repeated and mixed calls, counter read, compared and written in three steps | `WebAuthn` |
| Connection pool `postgres/db.go`, end of `cmd/verion/main.go` | connections, waiting requests, the stages of the shutdown | exhaustion, state left on a connection, draining with and without a limit | `Process` |
| gRPC server and HTTP gateway | error codes, enumerations; creating and listing identities | two lists of errors, paging while rows appear | `Transport`, `Directory` |

## Modules

- `Postgres` has the tables as sequences of rows: the row number is the id, rows
  are never deleted, 0 is NULL. The indexes are guards (`SlugFree`, `HandleFree`,
  `NoActiveKey`), the statements are the operators that prime a table. `Recorded`
  names the event types kept in a run; nothing reads `audit_events`, so dropping
  the others changes no other table.
- `TenantService`, `IdentityService`, `KeyService`: one action per repository or
  key store call. Per handler, `tcall`, `icall`, `kcall` hold the place in the
  Go function and the locals that survive the call. A request refused before its
  first write is a stuttering step. The `...Abort` actions end a call at any
  point, as a failing statement or an ended context does.
- `VerionCore` composes them. `Init` is a database with some tenants and
  identities already created, as the services leave them; `Restart` loses the
  calls in flight and the private keys. The properties are at its end.
- `KeyLedger` knows no handlers, statements or crashes: keys are issued and retired,
  identities enrolled and given a signing key, one at a time. `VerionCore`
  instantiates it with `BookOf` and `RollOf`, which read the ledger off
  `identity_keys` and `identities`.
- `SessionStore`: one action per Redis command, countdowns for expiry, `Tick` for
  time.
- `WebAuthn`: one action per Redis or repository call of the two ceremonies.
  Browsers and authenticators surround it: pieces of ceremonies are sent in any
  order, repeatedly or never, and an authenticator signs any challenge that was
  issued, of either ceremony, whenever it is asked. The library's `FinishLogin` and `UpdateCounter` are modelled from how
  `webauthn.go` uses their results.
- `Process`: `main` from `<-quit` on, beside requests reduced to their database
  calls, each in one of the three ways `db.go` offers. `net/http`, `grpc` and
  `pgxpool` are modelled from how they are used.
- `Transport` has the pure conversions; an error is the set of sentinels it matches.
  `Directory` uses them: `CreateIdentity` over both transports with the outcome
  each caller is told, and listings page by page. The insert takes its `created_at`
  when its transaction begins and becomes visible at its commit, and rows may share
  one. Each page is cut by LIMIT and OFFSET from one of the `Orders` that
  `ORDER BY created_at` admits, a new one at every call. The activation and the
  closing event are separate steps, either may fail, and statuses change at any
  time, so rows leave and enter the filter of a listing under way. Keys are left to
  `IdentityService`.
- `VerionCoreTyping`, `VerionCoreSafety`, `VerionCoreStores`, `VerionCoreHistory`,
  `ProcessSafety`, `SessionStoreSafety`, `WebAuthnSafety`, `DirectorySafety`: theorems
  and proofs.
- `MCVerionCore`, `MCSessionStore`, `MCWebAuthn`, `MCDirectory`: constants and symmetries for TLC.

The core, sessions, ceremonies, process and directory are separate specifications because
they share almost no state: a login hands over to the session store an identity
and nothing else, and the ceremonies see of the core only which identities
are active (`UpdateStatus` in `WebAuthn`).

`WebAuthn.FinishRegistration` also inserts into `identity_keys`, but passes no
`public_key_jwk`, and the column is NOT NULL: the statement always fails
(`FinishKey`). So the three services are the only effective writers of the tables
of the core, and as the schema stands no passkey gets registered through the
API; the credentials of `WebAuthn` are rows that are there from the start.

The rows keep what the properties tell apart. Attributes are opaque values,
encrypted to a pair with the IV in front. Names, regions, JSON and times (but for
"deactivated_at is set" and the order of `created_at` in `Directory`) are left
out. `seen` in `icall`, `ended` in `SessionStore`, `opened` in `WebAuthn`, `cut` in
`Process`, and `due`, `departed`, `cause` and a row's `asked` in `Directory` record
history for the properties; no action reads them, but for the bound on `departed`.

## Runs

| Run | Instance | Shows |
|---|---|---|
| `keys` | 2 key handlers, 2 tenants with an identity each, 4 keys | unique active key, owned primary key, forward succession, first private key kept, sound locals, key row history; a revocation settles, `primary_key_id` returns to no key it has left; refinement of `KeyLedger` |
| `identities` | 2 tenant and 2 identity handlers from an empty database, 1 identity, 2 attribute maps, 3 versions, lifecycle events | sound locals, identity row history, no lost update; a deactivation settles; a row exists exactly when its creation event does and later events follow their writes |
| `mixed` | 1 identity and 1 key handler, 2 identities, a supported and an unsupported key type, key events | types; no key event reports what has not happened; `primary_key_id` returns to no key it has left when both services write it |
| `sessions` | 2 HTTP handlers, 2 sessions of one or two identities, lifetimes 3 and 1 | valid tokens accepted, own sessions only, a logout settles, every session ends |
| `webauthn` | 2 HTTP handlers, 2 challenges, 2 assertions, an authenticator with counter and one without, an identity without passkey | one login per challenge, logins by the right credential of the right identity, regressions refused, clone reports justified, counts that fall back only through an older read |
| `process` | 1 gateway and 2 gRPC clients, 2 connections, 2 database calls a request | connections accounted for and clean, draining, the shutdown ends, requests end |
| `directory` | 2 creations, 1 listing, 2 handles, pages of 1 or everything, all statuses or the active ones | listings complete but for what left the filter, answers truthful, types and statuses shown as asked for |

"Settles" stands for one pattern. The code decides on a row it read and writes it in a
later statement without a condition, so a concurrent call can undo a deactivation, a
revocation, a logout or an increase of a sign count; five runs below show sentences of the
repository refuted, four of them this way. What the code does guarantee is that only calls that
read *before* the change can undo it: once the last of them is over
(`Closed`, `Withdrawn`, `LoggedOut`, `AtLeast`) no call, however many overlap, brings
the old state back. `TerminalSettles`, `RevocationSettles`, `LogoutSettles` and
`CountFloorKept` say so; a check dropped or weakened, or a write to the wrong row, breaks them.
`SupersededStays` is the same for `primary_key_id`: of two rotations in flight either may
write last, but with its own key.

Bounds. Two handlers give every pairwise interleaving; the hazards found in the
code are pairwise. Two identities in two tenants let `RotateKey` name a foreign
identity. Four keys allow two rotations in flight, or a rotation of a rotated key.
Three versions let two updates collide after one succeeded. For sessions only
`MaxDelay + TokenTTL < SessionTTL` matters (in the code 1 hour against 24), and
3, 1 and 1 are the least values with a tick inside a login. Two challenges and two
assertions let two assertions of one authenticator overlap in both orders. Three clients
share two connections, so one waits while two hold theirs. In `directory` two creations
and pages of one row let a row appear, leave the filter, become visible late or share its
`created_at` with the other between two pages; `HttpLimit` is 1 instead of 50, so that the
gateway's only page can be full. `MaxKeys`, `MaxKeyPairs`, `MaxIdentities`, `MaxTenants`,
`MaxVersion`, `MaxAssertions`, `MaxCalls` and `MaxDepartures` bound the model in the guards.
`process` and `directory` switch the deadlock check off: there the process ends, here
each caller makes one call.

Fairness. In `SessionStore` time passes (`WF(Tick)`) and a request under way gets an
answer to its commands, an error or a time-out of the Redis client included
(`WF(Serve(h))`). In `Process` the main goroutine and the timer of `shutCtx`
run, and a request under way goes on, its statements being answered sooner or
later (`WF(Serve(s))` for each client; weak is enough because the pool serves
waiting requests in order). A gRPC call whose statement is never answered would hold
`GracefulStop`, and so the shutdown, for ever. Nobody has to send requests or a signal. The
other specifications state safety only and need none.

### Where code and comments disagree

Each of these runs checks one sentence of the repository and TLC refutes it.

- `terminal_race`: "Terminal identities cannot be reactivated." A status change that
  checked before a deactivation writes after it.
- `revocation_race`: "Revocation is permanent." `sqlKeyRotate` has no condition on the
  status, so a rotation that found the key usable before a revocation marks it rotated
  after it, and a rotated key is still trusted.
- `rotation_refused`: `RotateKey` inserts the new key before it retires the old one, so
  the index on active keys refuses every ordinary rotation. Rotations succeed
  only for a key already rotated or revoked meanwhile, or for an
  identity other than the key's own.
- `logout_undone`: a request that read the session before a logout writes it back after.
- `sign_count_race`: "Must increase monotonically." Of two assertions by one
  authenticator, both compared with the count stored before, the one with the
  lower count may write last.

Reading the code for the models showed some that have no run, since no
interleaving is needed to see them. `RotateKey` accepts a rotated key though its comment says it does not. The key store id "unique within
the KeyStore" omits the purpose, so a second key of the same type replaces the
private key of the first. An aborted `CreateIdentity` leaves a pending identity
that `ReactivateIdentity` makes active without a key. `scanIdentity` scans two
columns into one field, so reads return no attributes. `set_config(..., true)`
outside a transaction lasts one statement, so `withTenantConn` sets no tenant for
the statement after it. `SuspendTenant` says "All identities become inaccessible"
(`tenant_service.go:25`), but only the first check of `CreateIdentity` looks at the
tenant's status. A status change does not increment `version`. `KeyStore.Delete` is never called.

## Proofs

For every set of handlers and clients, every seeding and every bound:

| Module | Theorems |
|---|---|
| `VerionCoreTyping` | `Typing`: `[]TypeOK` |
| `VerionCoreSafety` | `UniqueActiveKey`, `PrimaryKeySound`, `RotationAcyclic`, `KeyLocalsSound`, `IdentityLocalsSound`: the invariants `OneActiveKeyPerPurpose`, `PrimaryKeyOwned`, `SuccessionForward`, `KeyCallsSound`, `IdentityCallsSound`; `KeyRowHistory`, `IdentityRowHistory`, `OptimisticLock`: the action properties `KeyHistory`, `IdentityHistory`, `NoLostUpdate` |
| `VerionCoreStores` | `LifecycleEventsTrue`, `KeyEventsTrue`: the audit table; `CreationKeyStored`: `FirstKeyKept`, the key store |
| `VerionCoreHistory` | `ImplementsKeyLedger`: `KeyLedgerKept`, the refinement; `TerminalSettled`, `RevocationSettled`, `PrimarySettled`: `TerminalSettles`, `RevocationSettles`, `SupersededStays` |
| `SessionStoreSafety` | `SessionTypes`, `TokenOutlived`, `OnlyOwnSessions`; `LogoutSettled`: `LogoutSettles` |
| `WebAuthnSafety` | `WebAuthnTypes`, `ChallengeSingleUse`, `LoginsSound`, `RegressionsRefused`, `CloneReportsJustified`; `CountFloorsKept`: `CountFloorKept` |
| `DirectorySafety` | `ListingIsComplete`, `AnswersAreTruthful`, `ListedAsStored`: `ListingComplete`, `AnswerTruthful`, `ShownAsStored` |
| `ProcessSafety` | `ConnectionsReturned`, `PoolClean`, `ShutdownDrains` |

Assumptions: the bounds are naturals, callers' handles and slugs are naturals,
seeded rows lie within them (`SeedAssumption`, `CallerInputs` and the assumptions
of the services), a login takes no longer than the distance between the two
lifetimes (`SessionStore`), the clients of the two servers are different and
connections exist (`ProcessAssumption`), credentials belong to identities
(`WebAuthnAssumption`), page sizes are naturals and the gateway's limit is not
zero (`DirectoryAssumption`). No theorem assumes that requests do not overlap.

The arguments.

- *Core.* The table invariants are not inductive: `PrimaryKeyOwned` is made true by
  `RotateKeyPrimary` from locals read several statements earlier. So the inductive
  invariant `IInv` adds to the types and the table invariants what calls in flight
  may still rely on, `KeyCallsSound` and `IdentityCallsSound`. First, whatever
  step is taken, rows keep what they must keep (`KeyRowsKept`, `IdentityRowsKept`);
  this needs the types only. Second, facts a call relies on are of the kind these
  relations keep, so a step of another handler cannot disturb them, and a
  handler's own step is checked action by action. Third, the table invariants
  follow from the locals of the handler that moves.
- *Ledger.* Under `IInv` every step that writes `identity_keys` or `primary_key_id`
  maps to one ledger operation: the index gives `Vacant`, the locals of the rotation
  give the heir, and `MaySign` comes from `KeyCallsSound`. Every other step
  leaves `BookOf` and `RollOf` alone.
- *Events.* `AuditInv` adds that a call about to record an event has already
  made the change, and that rows keep it.
- *Vault.* `VaultInv`: while a creation has no key row, its key store ref occurs in no
  row, no two creations are for the same identity, and the store holds the
  pair that creation generated. Key calls store under refs that name a key type, which
  the ref of a creation does not.
- *Sessions.* `SessionsInv`: a session that has not been deleted lives at least as long as
  its token, and one being created has lost at most `MaxDelay` of its lifetime.
- *Ceremonies.* `CeremonyInv`: past GETDEL a call has its challenge to itself, and the
  challenge has led to no login yet; a stored count is that of an assertion for a
  challenge already used, which is what makes a clone report justified.
- *Process.* `PoolInv` ties each connection to the pool or to one request in the middle of a
  call, and a tenant on a connection to an open transaction; `StopInv` says which
  requests can still be under way at each stage of the shutdown.
- *Settling.* Each of `Closed`, `Withdrawn`, `Superseded`, `LoggedOut` and `AtLeast` says two
  things: what the row is, and that no call in flight may still write it from an older read.
  Neither alone is kept by a step; together they are. The proofs show which steps write the
  row and where their calls stood before (`StatusWritten`, `KeyStatusWriters`,
  `CountWriters`), and that a call gets to such a place only by a read that the row as it is
  now refuses (`StatusChangeStarts`, `RotationMoves`, `PromotionMoves`, `RefreshStarts`,
  `ListedSource`). Since each step moves one call and every other waits
  (`OthersWait`, `OthersListed`), the number of handlers does not matter. For
  `SupersededStays` one more fact is needed: an identity that appears has no primary key yet
  (`NewIdentityUnbound`).
- *Directory.* `Position` is the number of matching rows with an earlier `created_at`. A row
  that shares its `created_at` with no other gets its position as its place in every order
  PostgreSQL may choose (`PlaceOfAlone`), and a page that is not full has reached the end
  (`WindowFull`). A row that appears never moves another to the front (`PositionGrows`); one
  that leaves the filter moves others by one place (`PositionWithout`), so at most one
  row crosses the offset. Hence the invariant: `Behind`, the owed rows not shown whose position
  lies before the offset, are at most `departed` many, and when the listing is done these
  are all that can be missing. `DirectoryInv` adds that ids and handles name a row and that
  a call's answer still fits the row it made or the row that stood in its way.

Only model-checked: the liveness properties `SessionsEnd`, `ShutdownEnds` and
`RequestsEnd`, since this prover has no rules for fairness. Every other property of a
passing run is proved. The five properties
TLC refutes have no theorem.

## Not modelled

- Row level security: the server connects as the owner, for whom it is not forced.
- Operations without a caller: `TenantRepo.Update`, `KeyRepo.MarkCompromised`,
  `CredentialRepo.Revoke`, the audit queries, `KeyStore.Sign` and `Delete`,
  `SessionStore.DeleteAll`; the recovery methods, which have a schema and an interface only.
- Ciphers, hashing and signatures (`crypto/aes.go`, `hash.go`, the arithmetic of
  `keys.go` and of JWTs): arithmetic on large numbers is out of a model checker's
  reach; they are taken as working.
- Generated protobuf code, the conversion of tenants and keys to it, JSON, the
  middleware for logging, CORS, request ids and panics: they keep no state.
- Reading the configuration, and loss of data by PostgreSQL or Redis.
