------------------------------ MODULE WebAuthn ------------------------------
(***************************************************************************)
(* The WebAuthn ceremonies (internal/auth/webauthn.go) with the HTTP       *)
(* handlers that start and finish them, over the challenges in Redis       *)
(* (internal/store/redis.go) and the table credentials.  One action per    *)
(* Redis or repository call; calls that only read what no operation        *)
(* changes, or whose result is not used, belong to the action after them.  *)
(*                                                                         *)
(* The rows of credentials are there from the start: FinishRegistration,   *)
(* the only code that adds one, never gets that far (see FinishKey).       *)
(* CredentialRepo.Revoke has no caller, so sign_count and last_used_at are *)
(* all that changes in them; nothing reads last_used_at or audit_events,   *)
(* which are left out.                                                     *)
(*                                                                         *)
(* Around the server: browsers keep what they got and may send it in any   *)
(* order, more than once or never; an authenticator answers a challenge as *)
(* often as it is asked to; a challenge may reach its expiry at any time.  *)
(***************************************************************************)
EXTENDS Naturals, Sequences, FiniteSets

CONSTANTS
  Handler,       \* goroutines serving HTTP requests
  Identity,
  Credential,    \* credential ids
  Enrolment,     \* credentials(identity, type, status), by credential id
  Counterless,   \* credentials whose authenticator has no signature counter
  Challenge,     \* ids generateChallengeID draws, each used once
  MaxAssertions, \* bound on the assertions authenticators sign
  None           \* an absent value: a nil pointer, an empty user id

CredentialType ==
  {"passkey", "totp", "hardware_token", "recovery_code", "api_key", "mtls_cert", "biometric"}

CredentialStatus == {"active", "revoked", "expired"}

ASSUME WebAuthnAssumption ==
  /\ Enrolment \in
       [Credential -> [identity : Identity, type : CredentialType, status : CredentialStatus]]
  /\ MaxAssertions \in Nat
  /\ None \notin Identity

VARIABLES
  active,      \* identities whose status is active
  signCount,   \* credentials.sign_count
  issued,      \* the SessionData stored under each challenge id ever used
  live,        \* the challenge ids Redis still holds
  counter,     \* signature counter of each authenticator
  responses,   \* assertions authenticators have signed
  opened,      \* the logins that went on to open a session, in order
  wcall        \* per handler: where it is and the locals that survive a call

wvars == <<active, signCount, issued, live, counter, responses, opened, wcall>>

NoResponse == [challenge |-> None, credential |-> None, count |-> 0]

NothingListed == [c \in {} |-> 0]

WebAuthnIdle ==
  [pc |-> "idle", identity |-> None, session |-> None, response |-> NoResponse,
   listed |-> NothingListed]

WGoto(h, pc) == wcall' = [wcall EXCEPT ![h].pc = pc]

WReturn(h) == wcall' = [wcall EXCEPT ![h] = WebAuthnIdle]

(***************************************************************************)
(* The store of challenges.                                                *)
(***************************************************************************)
\* Mutant: the key is set without its value.
SetChallengeEmpty(ch, session) == live' = live \cup {ch} /\ UNCHANGED issued

SetChallenge(ch, session) ==
  /\ issued' = [x \in DOMAIN issued \cup {ch} |-> IF x = ch THEN session ELSE issued[x]]
  /\ live' = live \cup {ch}

\* Mutant: GET instead of GETDEL.
GetChallengeKept(ch) == ch \in live /\ UNCHANGED live

\* GETDEL finds the challenge and removes it.
GetChallenge(ch) == ch \in live /\ live' = live \ {ch}

(***************************************************************************)
(* CredentialRepo.ListByIdentity(active), and the filter of both assertion *)
(* functions on top of it.                                                 *)
(***************************************************************************)
Authenticator == {c \in Credential : Enrolment[c].type \in {"passkey", "hardware_token"}}

\* Mutant: the condition on identity_id is missing.
PasskeysOfAll(i) == {c \in Authenticator : Enrolment[c].status = "active"}

Passkeys(i) ==
  {c \in Authenticator : Enrolment[c].identity = i /\ Enrolment[c].status = "active"}

(***************************************************************************)
(* Starting a ceremony.  An unknown or inactive identity changes nothing.  *)
(* BeginLogin binds the session to the user and the credentials listed;    *)
(* without any, BeginDiscoverableLogin binds it to no user.                *)
(***************************************************************************)
Begin(h, pc) ==
  /\ wcall[h].pc = "idle"
  /\ \E i \in active :
       wcall' = [wcall EXCEPT ![h] = [WebAuthnIdle EXCEPT !.pc = pc, !.identity = i]]
  /\ UNCHANGED <<active, signCount, issued, live, counter, responses, opened>>

LoginBegin(h) == Begin(h, "login.store")

RegisterBegin(h) == Begin(h, "register.store")

LoginSession(i) ==
  [owner |-> IF Passkeys(i) = {} THEN None ELSE i, allowed |-> Passkeys(i)]

RegisterSession(i) == [owner |-> i, allowed |-> {}]

StoreSession(h, from, session) ==
  /\ wcall[h].pc = from
  /\ \E ch \in Challenge \ DOMAIN issued : SetChallenge(ch, session)
  /\ WReturn(h)
  /\ UNCHANGED <<active, signCount, counter, responses, opened>>

BeginAssertion(h) == StoreSession(h, "login.store", LoginSession(wcall[h].identity))

BeginRegistration(h) == StoreSession(h, "register.store", RegisterSession(wcall[h].identity))

(***************************************************************************)
(* An authenticator signs a challenge of either ceremony, offered to it or *)
(* not, counting up if it counts at all.                                   *)
(***************************************************************************)
Sign(c, ch) ==
  /\ ch \in DOMAIN issued
  /\ Cardinality(responses) < MaxAssertions
  /\ counter' = [counter EXCEPT ![c] = IF c \in Counterless THEN 0 ELSE @ + 1]
  /\ responses' = responses \cup {[challenge |-> ch, credential |-> c, count |-> counter'[c]]}
  /\ UNCHANGED <<active, signCount, issued, live, opened, wcall>>

(***************************************************************************)
(* LoginComplete and FinishAssertion.  The browser names the identity and  *)
(* the challenge id in headers and sends an assertion.                     *)
(***************************************************************************)
LoginComplete(h) ==
  /\ wcall[h].pc = "idle"
  /\ \E i \in active, ch \in DOMAIN issued, r \in responses :
       wcall' = [wcall EXCEPT ![h] =
                   [WebAuthnIdle EXCEPT !.pc = "finish.list", !.identity = i,
                                        !.session = ch, !.response = r]]
  /\ UNCHANGED <<active, signCount, issued, live, counter, responses, opened>>

FinishList(h) ==
  /\ wcall[h].pc = "finish.list"
  /\ wcall' = [wcall EXCEPT
                 ![h].pc = "finish.take",
                 ![h].listed = [c \in Passkeys(wcall[h].identity) |-> signCount[c]]]
  /\ UNCHANGED <<active, signCount, issued, live, counter, responses, opened>>

\* FinishLogin of the library: the session belongs to this user and the
\* assertion is for this challenge by one of the user's credentials; if the
\* session allows some only (a registration's does not), the user still has
\* all of them and it is one of them.
Verified(c) ==
  LET session == issued[c.session] IN
    /\ session.owner = c.identity
    /\ c.response.challenge = c.session
    /\ c.response.credential \in DOMAIN c.listed
    /\ session.allowed # {} => /\ session.allowed \subseteq DOMAIN c.listed
                               /\ c.response.credential \in session.allowed

\* The library's UpdateCounter: a count that is not greater than the stored one
\* is not taken over.  storedCred is the credential listed before.
NewCount(c) ==
  LET stored == c.listed[c.response.credential]
  IN  IF c.response.count <= stored THEN stored ELSE c.response.count

\* Mutant: an equal count is not taken for a regression.
RegressionStrict(c) ==
  NewCount(c) # 0 /\ NewCount(c) < c.listed[c.response.credential]

Regression(c) ==
  NewCount(c) # 0 /\ NewCount(c) <= c.listed[c.response.credential]

\* A challenge that is not there ends the call without an event.
FinishTake(h) ==
  /\ wcall[h].pc = "finish.take"
  /\ LET c == wcall[h] IN
       \/ /\ c.session \notin live
          /\ WReturn(h)
          /\ UNCHANGED live
       \/ /\ GetChallenge(c.session)
          /\ Verified(c) /\ ~Regression(c)
          /\ WGoto(h, "finish.count")
       \/ /\ GetChallenge(c.session)
          /\ ~(Verified(c) /\ ~Regression(c))
          /\ WGoto(h, "finish.failure")
  /\ UNCHANGED <<active, signCount, issued, counter, responses, opened>>

\* The failure is recorded, or not: the error of the insert is ignored.
FinishFailure(h) ==
  /\ wcall[h].pc = "finish.failure"
  /\ WReturn(h)
  /\ UNCHANGED <<active, signCount, issued, live, counter, responses, opened>>

\* Mutant: the search for storedCred stops at any passkey of the identity.
FinishCountAny(h) ==
  /\ wcall[h].pc = "finish.count"
  /\ \E c \in DOMAIN wcall[h].listed :
       signCount' = [signCount EXCEPT ![c] = NewCount(wcall[h])]
  /\ WGoto(h, "login.session")
  /\ UNCHANGED <<active, issued, live, counter, responses, opened>>

\* UpdateSignCount, its error ignored; it writes whatever is stored by now.
\* UpdateLastUsed and the event of the success follow.
FinishCount(h) ==
  /\ wcall[h].pc = "finish.count"
  /\ \/ signCount' = [signCount EXCEPT ![wcall[h].response.credential] = NewCount(wcall[h])]
     \/ UNCHANGED signCount
  /\ WGoto(h, "login.session")
  /\ UNCHANGED <<active, issued, live, counter, responses, opened>>

\* Mutant: a session that could not be created is tried again without GetChallenge.
LoginOpenRetried(h) ==
  /\ wcall[h].pc = "login.session"
  /\ opened' = Append(opened, [challenge |-> wcall[h].session,
                               identity |-> wcall[h].identity,
                               credential |-> wcall[h].response.credential])
  /\ WReturn(h) \/ UNCHANGED wcall
  /\ UNCHANGED <<active, signCount, issued, live, counter, responses>>

\* The handler goes on to create a session and issue its token.
LoginOpen(h) ==
  /\ wcall[h].pc = "login.session"
  /\ opened' = Append(opened, [challenge |-> wcall[h].session,
                               identity |-> wcall[h].identity,
                               credential |-> wcall[h].response.credential])
  /\ WReturn(h)
  /\ UNCHANGED <<active, signCount, issued, live, counter, responses>>

(***************************************************************************)
(* RegisterComplete and FinishRegistration.  The identity only has to      *)
(* exist; the browser's attestation may or may not verify, and does so     *)
(* only with the challenge of a ceremony of this user.                     *)
(***************************************************************************)
RegisterComplete(h) ==
  /\ wcall[h].pc = "idle"
  /\ \E i \in Identity, ch \in DOMAIN issued :
       wcall' = [wcall EXCEPT ![h] =
                   [WebAuthnIdle EXCEPT !.pc = "register.take", !.identity = i,
                                        !.session = ch]]
  /\ UNCHANGED <<active, signCount, issued, live, counter, responses, opened>>

Attested(c) == issued[c.session].owner = c.identity

FinishRegistrationTake(h) ==
  /\ wcall[h].pc = "register.take"
  /\ LET c == wcall[h] IN
       \/ /\ c.session \notin live
          /\ WReturn(h)
          /\ UNCHANGED live
       \/ /\ GetChallenge(c.session)
          /\ Attested(c)
          /\ WGoto(h, "register.key")
       \/ /\ GetChallenge(c.session)
          /\ WReturn(h)
  /\ UNCHANGED <<active, signCount, issued, counter, responses, opened>>

\* The key row FinishRegistration makes has no JWK, and identity_keys takes only
\* rows that have one.
RegistrationKey == [algorithm |-> "ES256", publicKeyJWK |-> None]

TakesKey(row) == row.publicKeyJWK # None

\* Keys.Create fails and the call returns its error: the primary key, the
\* credential and its event, which come after it, are never written.
FinishKey(h) ==
  /\ wcall[h].pc = "register.key"
  /\ ~TakesKey(RegistrationKey)
  /\ WReturn(h)
  /\ UNCHANGED <<active, signCount, issued, live, counter, responses, opened>>

(***************************************************************************)
(* Everything else that happens: the identity service changes a status, a  *)
(* challenge expires, a call fails, the process starts again.              *)
(***************************************************************************)
UpdateStatus(i) ==
  /\ active' = IF i \in active THEN active \ {i} ELSE active \cup {i}
  /\ UNCHANGED <<signCount, issued, live, counter, responses, opened, wcall>>

ExpireChallenge(ch) ==
  /\ ch \in live
  /\ live' = live \ {ch}
  /\ UNCHANGED <<active, signCount, issued, counter, responses, opened, wcall>>

\* A Redis command or a statement fails, or the caller's context ends.
WAbort(h) ==
  /\ wcall[h].pc # "idle"
  /\ WReturn(h)
  /\ UNCHANGED <<active, signCount, issued, live, counter, responses, opened>>

WRestart ==
  /\ wcall' = [h \in Handler |-> WebAuthnIdle]
  /\ UNCHANGED <<active, signCount, issued, live, counter, responses, opened>>

WebAuthnInit ==
  /\ active = Identity
  /\ signCount = [c \in Credential |-> 0]
  /\ issued = [ch \in {} |-> LoginSession(None)]
  /\ live = {}
  /\ counter = [c \in Credential |-> 0]
  /\ responses = {}
  /\ opened = <<>>
  /\ wcall = [h \in Handler |-> WebAuthnIdle]

\* The requests that begin, and the later steps of a request under way.
WebAuthnStep(h) ==
  \/ LoginBegin(h) \/ BeginAssertion(h)
  \/ RegisterBegin(h) \/ BeginRegistration(h)
  \/ LoginComplete(h) \/ FinishList(h) \/ FinishTake(h) \/ FinishFailure(h)
  \/ FinishCount(h) \/ LoginOpen(h)
  \/ RegisterComplete(h) \/ FinishRegistrationTake(h) \/ FinishKey(h)
  \/ WAbort(h)

WebAuthnNext ==
  \/ \E h \in Handler : WebAuthnStep(h)
  \/ \E c \in Authenticator, ch \in Challenge : Sign(c, ch)
  \/ \E i \in Identity : UpdateStatus(i)
  \/ \E ch \in Challenge : ExpireChallenge(ch)
  \/ WRestart

WebAuthnSpec == WebAuthnInit /\ [][WebAuthnNext]_wvars

(***************************************************************************)
(* Properties.                                                             *)
(***************************************************************************)
SessionRecord == [owner : Identity \cup {None}, allowed : SUBSET Credential]

Response == [challenge : Challenge, credential : Credential, count : Nat]

FinishPc == {"finish.list", "finish.take", "finish.failure", "finish.count", "login.session"}

RegisterPc == {"register.take", "register.key"}

\* Only calls that were given a challenge and an assertion hold one, and what
\* Redis holds was stored by a ceremony.
WebAuthnTypeOK ==
  /\ active \subseteq Identity
  /\ signCount \in [Credential -> Nat] /\ counter \in [Credential -> Nat]
  /\ DOMAIN issued \subseteq Challenge
  /\ \A ch \in DOMAIN issued : issued[ch] \in SessionRecord
  /\ live \subseteq DOMAIN issued
  /\ responses \subseteq Response
  /\ \A n \in DOMAIN opened : opened[n].challenge \in DOMAIN issued
  /\ \A h \in Handler :
       /\ wcall[h].pc \in {"idle", "login.store", "register.store"} \cup FinishPc \cup RegisterPc
       /\ wcall[h].pc # "idle" => wcall[h].identity \in Identity
       /\ wcall[h].pc \in FinishPc \cup RegisterPc => wcall[h].session \in DOMAIN issued
       /\ wcall[h].pc \in FinishPc => wcall[h].response \in responses

\* A challenge leads to at most one login, however often the browser repeats
\* its finish call and however the repetitions overlap (GetChallenge,
\* "single-use").
OneLoginPerChallenge ==
  \A m, n \in DOMAIN opened : opened[m].challenge = opened[n].challenge => m = n

\* A login is for the identity its challenge was issued to, by an assertion
\* that a passkey or hardware token of that identity signed for this challenge,
\* whatever pieces of other ceremonies the browser mixed into its calls.
LoginSound ==
  \A n \in DOMAIN opened :
    LET l == opened[n] IN
      /\ issued[l.challenge].owner = l.identity
      /\ l.credential \in Authenticator
      /\ Enrolment[l.credential].identity = l.identity
      /\ Enrolment[l.credential].status = "active"
      /\ \E r \in responses : r.challenge = l.challenge /\ r.credential = l.credential

\* A call accepts only a count greater than the one it read, or zero from an
\* authenticator that never counted: the library keeps the stored count when it
\* refuses one, and FinishAssertion must recognise that.
RegressionRefused ==
  \A h \in Handler :
    wcall[h].pc \in {"finish.count", "login.session"} =>
      LET r == wcall[h].response
          stored == wcall[h].listed[r.credential]
      IN  r.count > stored \/ (r.count = 0 /\ stored = 0)

\* An assertion that verifies is refused as a clone's only when the same
\* credential has signed another challenge with a count that is no smaller: a
\* repeated call, a lost answer, a failed update or an authenticator without
\* counter is never reported (ErrCloneDetected).
CloneReportJustified ==
  \A h \in Handler :
    wcall[h].pc = "finish.failure" /\ Verified(wcall[h]) =>
      LET r == wcall[h].response
      IN  /\ r.credential \notin Counterless
          /\ \E other \in responses :
               /\ other.credential = r.credential
               /\ other.challenge # r.challenge
               /\ other.count >= r.count

\* The credential has reached count n, and no login under way listed it before
\* it had.
AtLeast(c, n) ==
  /\ signCount[c] >= n
  /\ \A h \in Handler :
       wcall[h].pc \in {"finish.take", "finish.count"} /\ c \in DOMAIN wcall[h].listed =>
         wcall[h].listed[c] >= n

\* Logins that list a credential after it reached a count keep it there for
\* good, whatever the order in which they compare and update: the only way back
\* is a login that listed the credential before (UpdateSignCount writes what
\* FinishAssertion compared with that list).
CountFloorKept ==
  [][\A c \in Credential, n \in 0..MaxAssertions : AtLeast(c, n) => AtLeast(c, n)']_wvars

(***************************************************************************)
(* What the repository's comments say and the code does not do.            *)
(***************************************************************************)
\* migration 004: sign_count must increase monotonically.
SignCountMonotone ==
  [][\A c \in Credential : signCount'[c] >= signCount[c]]_signCount

=============================================================================
