--------------------------- MODULE WebAuthnSafety ---------------------------
(***************************************************************************)
(* The safety properties of WebAuthn for every number of handlers,         *)
(* challenges, identities, credentials and assertions.                     *)
(*                                                                         *)
(* Everything rests on GETDEL: a call that went past it holds a challenge  *)
(* that is stored no longer, that no other such call holds and that led to *)
(* no login yet.  For the clone report the invariant also says where a     *)
(* stored signature count comes from: an assertion for a challenge that is *)
(* used up, hence not the one a later call has just taken.                 *)
(***************************************************************************)
EXTENDS WebAuthn, TLAPS

WebAuthnPc == {"idle", "login.store", "register.store"} \cup FinishPc \cup RegisterPc

Listing == UNION {[S -> Nat] : S \in SUBSET Credential}

WebAuthnCall ==
  [pc : WebAuthnPc, identity : Identity \cup {None}, session : Challenge \cup {None},
   response : Response \cup {NoResponse}, listed : Listing]

Login == [challenge : Challenge, identity : Identity, credential : Credential]

Used(ch) == ch \in DOMAIN issued /\ ch \notin live

\* A count of zero, or one an assertion for a used challenge has brought.
Known(k, n) ==
  n \in Nat /\ (n # 0 => \E r \in responses : r.credential = k /\ r.count = n /\ Used(r.challenge))

\* The call has taken its challenge and will open a session.
Passed(c) == c.pc \in {"finish.count", "login.session"}

Justified(r) ==
  /\ r.credential \notin Counterless
  /\ \E other \in responses : /\ other.credential = r.credential
                              /\ other.challenge # r.challenge
                              /\ other.count >= r.count

WebAuthnCallSound(c) ==
  /\ c.pc # "idle" => c.identity \in Identity
  /\ c.pc \in FinishPc \cup RegisterPc => c.session \in DOMAIN issued
  /\ c.pc \in FinishPc => c.response \in responses
  /\ c.pc \in FinishPc \ {"finish.list"} =>
       DOMAIN c.listed = Passkeys(c.identity) /\ \A k \in DOMAIN c.listed : Known(k, c.listed[k])
  /\ Passed(c) => Used(c.session) /\ Verified(c) /\ ~Regression(c)
  /\ c.pc = "finish.failure" /\ Verified(c) => Justified(c.response)

StoredInv ==
  /\ active \subseteq Identity
  /\ signCount \in [Credential -> Nat] /\ counter \in [Credential -> Nat]
  /\ DOMAIN issued \subseteq Challenge
  /\ \A ch \in DOMAIN issued : issued[ch] \in SessionRecord
  /\ live \subseteq DOMAIN issued
  /\ responses \subseteq Response
  /\ \A r \in responses : r.credential \in Counterless => r.count = 0
  /\ \A k \in Counterless \cap Credential : counter[k] = 0
  /\ \A k \in Credential : Known(k, signCount[k])
  /\ opened \in Seq(Login)
  /\ \A n \in DOMAIN opened : Used(opened[n].challenge)
  /\ OneLoginPerChallenge
  /\ LoginSound

Exclusive ==
  \A h \in Handler : Passed(wcall[h]) =>
    /\ \A n \in DOMAIN opened : opened[n].challenge # wcall[h].session
    /\ \A g \in Handler : Passed(wcall[g]) /\ wcall[g].session = wcall[h].session => g = h

CeremonyInv ==
  /\ StoredInv
  /\ wcall \in [Handler -> WebAuthnCall]
  /\ \A h \in Handler : WebAuthnCallSound(wcall[h])
  /\ Exclusive

\* Challenges are never changed nor stored again, and assertions stay.
Monotone ==
  /\ \A ch \in DOMAIN issued : ch \in DOMAIN issued' /\ issued'[ch] = issued[ch]
  /\ \A ch \in live' : ch \in live \/ ch \notin DOMAIN issued
  /\ responses \subseteq responses'

\* What is used up stays so, and a count once explained stays explained.
LEMMA KnownKept ==
  ASSUME Monotone
  PROVE  /\ \A ch : Used(ch) => Used(ch)'
         /\ \A k, n : Known(k, n) => Known(k, n)'
  BY DEF Monotone, Used, Known

\* So what a call relies on stays true while it waits.
LEMMA WaitingCall ==
  ASSUME Monotone, NEW c, WebAuthnCallSound(c)
  PROVE  WebAuthnCallSound(c)'
  <1>1. c.session \in DOMAIN issued => (Verified(c)' <=> Verified(c))
    BY DEF Verified, Monotone
  <1>2. c.pc \in FinishPc \cup RegisterPc => c.session \in DOMAIN issued'
    BY DEF WebAuthnCallSound, Monotone
  <1>3. c.pc \in FinishPc => c.response \in responses'
    BY DEF WebAuthnCallSound, Monotone
  <1>4. c.pc \in FinishPc \ {"finish.list"} =>
          /\ DOMAIN c.listed = Passkeys(c.identity)
          /\ \A k \in DOMAIN c.listed : Known(k, c.listed[k])'
    BY KnownKept DEF WebAuthnCallSound
  <1>5. Passed(c) => Used(c.session)' /\ Verified(c)' /\ ~Regression(c)
    BY <1>1, KnownKept DEF WebAuthnCallSound, Passed, FinishPc
  <1>6. Justified(c.response) => Justified(c.response)'
    BY DEF Justified, Monotone
  <1>7. c.pc = "finish.failure" /\ Verified(c)' => Justified(c.response)'
    BY <1>1, <1>6 DEF WebAuthnCallSound, FinishPc
  <1>8. Passed(c)' <=> Passed(c)
    BY DEF Passed
  <1>9. c.pc # "idle" => c.identity \in Identity
    BY DEF WebAuthnCallSound
  <1> QED
    BY <1>2, <1>3, <1>4, <1>5, <1>7, <1>8, <1>9 DEF WebAuthnCallSound

\* One handler moves; it gets past GETDEL only with a challenge nobody holds.
LEMMA OneMove ==
  ASSUME CeremonyInv, Monotone, StoredInv', NEW h \in Handler, NEW d \in WebAuthnCall,
         WebAuthnCallSound(d)', wcall' = [wcall EXCEPT ![h] = d],
         \A g \in Handler \ {h} : Passed(wcall[g]) =>
           /\ \A n \in DOMAIN opened' : opened'[n].challenge # wcall[g].session
           /\ Passed(d) => d.session # wcall[g].session,
         Passed(d) => \A n \in DOMAIN opened' : opened'[n].challenge # d.session
  PROVE  CeremonyInv'
  <1>1. /\ wcall' \in [Handler -> WebAuthnCall] /\ wcall'[h] = d
        /\ \A g \in Handler \ {h} : wcall'[g] = wcall[g]
    BY DEF CeremonyInv
  <1>2. \A g \in Handler : WebAuthnCallSound(wcall[g])'
    <2>1. ASSUME NEW g \in Handler \ {h} PROVE WebAuthnCallSound(wcall[g])'
      <3>1. PICK c : c = wcall[g]
        OBVIOUS
      <3>2. WebAuthnCallSound(c)'
        BY <3>1, WaitingCall DEF CeremonyInv
      <3> QED
        BY <1>1, <3>1, <3>2
    <2> QED
      BY <1>1, <2>1
  <1>3. Exclusive'
    BY <1>1 DEF Exclusive, CeremonyInv, Passed
  <1> QED
    BY <1>1, <1>2, <1>3 DEF CeremonyInv

\* The usual case: no login is opened and the handler is not past GETDEL.
LEMMA Bystander ==
  ASSUME CeremonyInv, Monotone, StoredInv', UNCHANGED opened, NEW h \in Handler,
         NEW d \in WebAuthnCall, WebAuthnCallSound(d)', ~Passed(d),
         wcall' = [wcall EXCEPT ![h] = d]
  PROVE  CeremonyInv'
  <1>1. \A g \in Handler \ {h} : Passed(wcall[g]) =>
          \A n \in DOMAIN opened' : opened'[n].challenge # wcall[g].session
    BY DEF CeremonyInv, Exclusive
  <1> QED
    BY <1>1, OneMove

LEMMA IdleCall == WebAuthnIdle \in WebAuthnCall /\ ~Passed(WebAuthnIdle)
                  /\ WebAuthnCallSound(WebAuthnIdle) /\ WebAuthnCallSound(WebAuthnIdle)'
  <1>1. NothingListed \in Listing
    <2>1. NothingListed \in [{} -> Nat] /\ {} \in SUBSET Credential
      BY DEF NothingListed
    <2> QED
      BY <2>1 DEF Listing
  <1>2. WebAuthnIdle \in WebAuthnCall
    BY <1>1 DEF WebAuthnIdle, WebAuthnCall, WebAuthnPc
  <1> QED
    BY <1>2 DEF WebAuthnIdle, Passed, WebAuthnCallSound, FinishPc, RegisterPc

\* Counts and logins that are stored stay explained.
LEMMA StaysExplained ==
  ASSUME StoredInv, Monotone, UNCHANGED <<signCount, opened>>
  PROVE  /\ \A k \in Credential : Known(k, signCount[k])'
         /\ \A n \in DOMAIN opened : Used(opened[n].challenge)'
         /\ OneLoginPerChallenge' /\ LoginSound'
  <1>1. ASSUME NEW k \in Credential PROVE Known(k, signCount[k])'
    <2>1. PICK n : n = signCount[k]
      OBVIOUS
    <2>2. Known(k, n)'
      BY <2>1, KnownKept DEF StoredInv
    <2> QED
      BY <2>1, <2>2
  <1>2. ASSUME NEW n \in DOMAIN opened PROVE Used(opened[n].challenge)'
    <2>1. PICK x : x = opened[n].challenge
      OBVIOUS
    <2>2. Used(x)'
      BY <2>1, KnownKept DEF StoredInv
    <2> QED
      BY <2>1, <2>2
  <1>3. OneLoginPerChallenge'
    BY DEF StoredInv, OneLoginPerChallenge
  <1>4. LoginSound'
    BY DEF StoredInv, LoginSound, Used, Monotone
  <1> QED
    BY <1>1, <1>2, <1>3, <1>4

\* Taking and expiring challenges, and reading, keep what is stored consistent.
LEMMA StoredKept ==
  ASSUME StoredInv, UNCHANGED <<signCount, issued, counter, responses, opened>>,
         live' \subseteq live, active' \subseteq Identity
  PROVE  StoredInv' /\ Monotone
  <1>1. Monotone
    BY DEF StoredInv, Monotone
  <1> QED
    BY <1>1, StaysExplained DEF StoredInv

\* Requests that begin, the listing of credentials, and calls that end.
LEMMA LocalStep ==
  ASSUME CeremonyInv, NEW h \in Handler,
         \/ LoginBegin(h) \/ RegisterBegin(h) \/ LoginComplete(h) \/ RegisterComplete(h)
         \/ FinishList(h) \/ FinishFailure(h) \/ FinishKey(h) \/ WAbort(h)
  PROVE  CeremonyInv'
  <1> DEFINE c == wcall[h]
  <1>0. /\ UNCHANGED <<active, signCount, issued, live, counter, responses, opened>>
        /\ c \in WebAuthnCall /\ WebAuthnCallSound(c) /\ wcall \in [Handler -> WebAuthnCall]
    BY DEF LoginBegin, RegisterBegin, Begin, LoginComplete, RegisterComplete, FinishList,
           FinishFailure, FinishKey, WAbort, CeremonyInv
  <1>1. StoredInv' /\ Monotone
    <2>1. StoredInv /\ active' \subseteq Identity /\ live' \subseteq live
      BY <1>0 DEF CeremonyInv, StoredInv
    <2> QED
      BY <1>0, <2>1, StoredKept
  <1>2. \E d \in WebAuthnCall :
          WebAuthnCallSound(d) /\ ~Passed(d) /\ wcall' = [wcall EXCEPT ![h] = d]
    <2>1. CASE LoginBegin(h) \/ RegisterBegin(h)
      <3>1. PICK pc \in {"login.store", "register.store"}, i \in active :
              wcall' = [wcall EXCEPT ![h] = [WebAuthnIdle EXCEPT !.pc = pc, !.identity = i]]
        BY <2>1 DEF LoginBegin, RegisterBegin, Begin
      <3>2. i \in Identity
        BY DEF CeremonyInv, StoredInv
      <3> DEFINE d == [WebAuthnIdle EXCEPT !.pc = pc, !.identity = i]
      <3>3. d \in WebAuthnCall
        BY <3>2, IdleCall DEF WebAuthnCall, WebAuthnPc
      <3>4. WebAuthnCallSound(d) /\ ~Passed(d)
        BY <3>2 DEF WebAuthnIdle, WebAuthnCallSound, Passed, FinishPc, RegisterPc
      <3> QED
        BY <3>1, <3>3, <3>4
    <2>2. CASE LoginComplete(h)
      <3>1. PICK i \in active, ch \in DOMAIN issued, r \in responses :
              wcall' = [wcall EXCEPT ![h] =
                         [WebAuthnIdle EXCEPT !.pc = "finish.list", !.identity = i,
                                              !.session = ch, !.response = r]]
        BY <2>2 DEF LoginComplete
      <3>2. i \in Identity /\ ch \in Challenge /\ r \in Response
        BY DEF CeremonyInv, StoredInv
      <3> DEFINE d == [WebAuthnIdle EXCEPT !.pc = "finish.list", !.identity = i,
                                           !.session = ch, !.response = r]
      <3>3. d \in WebAuthnCall
        BY <3>2, IdleCall DEF WebAuthnCall, WebAuthnPc, FinishPc
      <3>4. /\ d.pc = "finish.list" /\ d.identity = i /\ d.session = ch /\ d.response = r
        BY DEF WebAuthnIdle
      <3> HIDE DEF d
      <3>5. WebAuthnCallSound(d) /\ ~Passed(d)
        BY <3>2, <3>4 DEF WebAuthnCallSound, Passed
      <3> QED
        BY <3>1, <3>3, <3>5 DEF d
    <2>3. CASE RegisterComplete(h)
      <3>1. PICK i \in Identity, ch \in DOMAIN issued :
              wcall' = [wcall EXCEPT ![h] =
                         [WebAuthnIdle EXCEPT !.pc = "register.take", !.identity = i,
                                              !.session = ch]]
        BY <2>3 DEF RegisterComplete
      <3>2. ch \in Challenge
        BY DEF CeremonyInv, StoredInv
      <3> DEFINE d == [WebAuthnIdle EXCEPT !.pc = "register.take", !.identity = i,
                                           !.session = ch]
      <3>3. d \in WebAuthnCall
        BY <3>2, IdleCall DEF WebAuthnCall, WebAuthnPc, RegisterPc
      <3>4. d.pc = "register.take" /\ d.identity = i /\ d.session = ch
        BY DEF WebAuthnIdle
      <3> HIDE DEF d
      <3>5. WebAuthnCallSound(d) /\ ~Passed(d)
        BY <3>4 DEF WebAuthnCallSound, Passed, FinishPc
      <3> QED
        BY <3>1, <3>3, <3>5 DEF d
    <2>4. CASE FinishList(h)
      <3> DEFINE list == [k \in Passkeys(c.identity) |-> signCount[k]]
                 d == [c EXCEPT !.pc = "finish.take", !.listed = list]
      <3>1. c.pc = "finish.list" /\ wcall' = [wcall EXCEPT ![h] = d]
        BY <1>0, <2>4 DEF FinishList
      <3>2. Passkeys(c.identity) \subseteq Credential
        BY DEF Passkeys, Authenticator
      <3>3. /\ DOMAIN list = Passkeys(c.identity)
            /\ \A k \in DOMAIN list : list[k] = signCount[k] /\ Known(k, list[k])
        BY <3>2 DEF CeremonyInv, StoredInv
      <3>4. list \in Listing
        <4>1. list \in [Passkeys(c.identity) -> Nat]
          BY <3>2 DEF CeremonyInv, StoredInv
        <4> HIDE DEF list
        <4> QED
          BY <3>2, <4>1 DEF Listing
      <3> HIDE DEF list
      <3>5. d \in WebAuthnCall
        BY <1>0, <3>4 DEF WebAuthnCall, WebAuthnPc, FinishPc
      <3>6. /\ d.pc = "finish.take" /\ d.identity = c.identity /\ d.session = c.session
            /\ d.response = c.response /\ d.listed = list
        BY <1>0 DEF WebAuthnCall
      <3> HIDE DEF d
      <3>7. WebAuthnCallSound(d) /\ ~Passed(d)
        BY <1>0, <3>1, <3>3, <3>6 DEF WebAuthnCallSound, Passed, FinishPc
      <3> QED
        BY <3>1, <3>5, <3>7
    <2>5. CASE FinishFailure(h) \/ FinishKey(h) \/ WAbort(h)
      BY <2>5, IdleCall DEF FinishFailure, FinishKey, WAbort, WReturn
    <2> QED
      BY <2>1, <2>2, <2>3, <2>4, <2>5
  <1> QED
    BY <1>0, <1>1, <1>2, WaitingCall, Bystander

\* A ceremony that begins stores its session under an id never used before.
LEMMA StoreStep ==
  ASSUME CeremonyInv, NEW h \in Handler, BeginAssertion(h) \/ BeginRegistration(h)
  PROVE  CeremonyInv'
  <1>1. PICK session \in {LoginSession(wcall[h].identity), RegisterSession(wcall[h].identity)},
             ch \in Challenge \ DOMAIN issued : SetChallenge(ch, session)
    BY DEF BeginAssertion, BeginRegistration, StoreSession
  <1>2. /\ UNCHANGED <<active, signCount, counter, responses, opened>> /\ WReturn(h)
        /\ wcall[h].pc \in {"login.store", "register.store"}
    BY DEF BeginAssertion, BeginRegistration, StoreSession
  <1>3. session \in SessionRecord
    <2>1. wcall[h].identity \in Identity
      BY <1>2 DEF CeremonyInv, WebAuthnCallSound
    <2> QED
      BY <1>1, <2>1 DEF LoginSession, RegisterSession, SessionRecord, Passkeys, Authenticator
  <1>4. /\ DOMAIN issued' = DOMAIN issued \cup {ch} /\ live' = live \cup {ch}
        /\ issued'[ch] = session /\ \A x \in DOMAIN issued : issued'[x] = issued[x]
    BY <1>1 DEF SetChallenge
  <1>5. Monotone
    BY <1>2, <1>4 DEF Monotone
  <1>6. StoredInv'
    <2>0. StoredInv
      BY DEF CeremonyInv
    <2>1. /\ DOMAIN issued' \subseteq Challenge /\ live' \subseteq DOMAIN issued'
          /\ \A x \in DOMAIN issued' : issued'[x] \in SessionRecord
      BY <1>3, <1>4, <2>0 DEF StoredInv
    <2> QED
      BY <1>2, <1>5, <2>0, <2>1, StaysExplained DEF StoredInv
  <1> QED
    BY <1>2, <1>5, <1>6, IdleCall, Bystander DEF WReturn

\* GETDEL: the challenge is gone, and whoever was past it before had another.
LEMMA TakeStep ==
  ASSUME CeremonyInv, NEW h \in Handler, FinishTake(h) \/ FinishRegistrationTake(h)
  PROVE  CeremonyInv'
  <1>0. PICK c : c = wcall[h]
    OBVIOUS
  <1>1. /\ UNCHANGED <<active, signCount, issued, counter, responses, opened>>
        /\ c \in WebAuthnCall /\ WebAuthnCallSound(c) /\ wcall \in [Handler -> WebAuthnCall]
    BY <1>0 DEF FinishTake, FinishRegistrationTake, CeremonyInv
  <1>2. live' \subseteq live
    BY DEF FinishTake, FinishRegistrationTake, GetChallenge
  <1>3. StoredInv' /\ Monotone
    <2>1. StoredInv /\ active' \subseteq Identity
      BY <1>1 DEF CeremonyInv, StoredInv
    <2> QED
      BY <1>1, <1>2, <2>1, StoredKept
  <1>4. CASE WReturn(h)
    BY <1>1, <1>3, <1>4, IdleCall, Bystander DEF WReturn
  <1>5. CASE FinishRegistrationTake(h) /\ ~WReturn(h)
    <2>1. c.pc = "register.take" /\ WGoto(h, "register.key")
      BY <1>0, <1>5 DEF FinishRegistrationTake
    <2>2. PICK d : d = [c EXCEPT !.pc = "register.key"]
      OBVIOUS
    <2>3. /\ d \in WebAuthnCall /\ d.pc = "register.key" /\ d.identity = c.identity
          /\ d.session = c.session /\ wcall' = [wcall EXCEPT ![h] = d]
      BY <1>0, <1>1, <2>1, <2>2 DEF WGoto, WebAuthnCall, WebAuthnPc, RegisterPc
    <2>4. WebAuthnCallSound(d) /\ ~Passed(d)
      BY <1>1, <2>1, <2>3 DEF WebAuthnCallSound, Passed, FinishPc, RegisterPc
    <2> QED
      BY <1>1, <1>3, <2>3, <2>4, WaitingCall, Bystander
  <1>6. CASE FinishTake(h) /\ ~WReturn(h)
    <2>1. PICK pc \in {"finish.count", "finish.failure"} :
            /\ c.pc = "finish.take" /\ c.session \in live /\ live' = live \ {c.session}
            /\ (pc = "finish.count") <=> (Verified(c) /\ ~Regression(c))
            /\ WGoto(h, pc)
      BY <1>0, <1>6 DEF FinishTake, GetChallenge
    <2>2. PICK d : d = [c EXCEPT !.pc = pc]
      OBVIOUS
    <2>3. /\ d \in WebAuthnCall /\ d.pc = pc /\ d.identity = c.identity
          /\ d.session = c.session /\ d.response = c.response /\ d.listed = c.listed
          /\ wcall' = [wcall EXCEPT ![h] = d]
      BY <1>0, <1>1, <2>1, <2>2 DEF WGoto, WebAuthnCall, WebAuthnPc, FinishPc
    <2>4. /\ Verified(d) <=> Verified(c)
          /\ Regression(d) <=> Regression(c)
      BY <2>3 DEF Verified, Regression, NewCount
    <2>5. /\ c.session \in DOMAIN issued /\ c.identity \in Identity
          /\ c.response \in responses /\ c.response \in Response
          /\ DOMAIN c.listed = Passkeys(c.identity)
          /\ \A k \in DOMAIN c.listed : Known(k, c.listed[k])
      BY <1>1, <2>1 DEF WebAuthnCallSound, FinishPc, CeremonyInv, StoredInv
    <2>6. ASSUME Verified(c), Regression(c) PROVE Justified(c.response)
      <3> DEFINE r == c.response
                 stored == c.listed[r.credential]
      <3>1. r.challenge = c.session /\ r.credential \in DOMAIN c.listed /\ r.count \in Nat
        BY <2>5, <2>6 DEF Verified, Response
      <3>2. Known(r.credential, stored) /\ stored \in Nat
        BY <2>5, <3>1 DEF Known
      <3>3. stored # 0 /\ r.count <= stored
        BY <2>6, <3>1, <3>2 DEF Regression, NewCount
      <3>4. PICK other \in responses : /\ other.credential = r.credential
                                       /\ other.count = stored /\ Used(other.challenge)
        BY <3>2, <3>3 DEF Known
      <3>5. other.challenge # r.challenge
        BY <2>1, <3>1, <3>4 DEF Used
      <3>6. r.credential \notin Counterless
        BY <3>3, <3>4 DEF CeremonyInv, StoredInv
      <3> QED
        BY <3>3, <3>4, <3>5, <3>6 DEF Justified
    <2>7. WebAuthnCallSound(d)'
      <3>1. c.session \in DOMAIN issued' /\ Used(c.session)'
        BY <1>1, <2>1, <2>5 DEF Used
      <3>2. \A k \in DOMAIN c.listed : Known(k, c.listed[k])'
        BY <1>3, <2>5, KnownKept
      <3>3. Verified(d)' <=> Verified(d)
        BY <1>1 DEF Verified
      <3>4. Justified(c.response)' <=> Justified(c.response)
        BY <1>1 DEF Justified
      <3>5. Passed(d) <=> pc = "finish.count"
        BY <2>1, <2>3 DEF Passed
      <3>6. Passed(d) => Verified(d)' /\ ~Regression(d)
        BY <2>1, <2>4, <3>3, <3>5
      <3>7. d.pc = "finish.failure" /\ Verified(d)' => Justified(d.response)'
        BY <2>1, <2>3, <2>4, <2>6, <3>3, <3>4
      <3>8. d.response \in responses'
        BY <1>1, <2>3, <2>5
      <3> QED
        BY <2>3, <2>5, <3>1, <3>2, <3>6, <3>7, <3>8 DEF WebAuthnCallSound, Passed
    <2>8. \A g \in Handler \ {h} : Passed(wcall[g]) => wcall[g].session # d.session
      <3>1. \A g \in Handler : Passed(wcall[g]) => Used(wcall[g].session)
        BY DEF CeremonyInv, WebAuthnCallSound
      <3> QED
        BY <2>1, <2>3, <3>1 DEF Used
    <2>9. \A n \in DOMAIN opened' : opened'[n].challenge # d.session
      <3>1. \A n \in DOMAIN opened : Used(opened[n].challenge)
        BY DEF CeremonyInv, StoredInv
      <3> QED
        BY <1>1, <2>1, <2>3, <3>1 DEF Used
    <2>10. \A g \in Handler \ {h} : Passed(wcall[g]) =>
             \A n \in DOMAIN opened' : opened'[n].challenge # wcall[g].session
      BY <1>1 DEF CeremonyInv, Exclusive
    <2> QED
      BY <1>3, <2>3, <2>7, <2>8, <2>9, <2>10, OneMove
  <1> QED
    BY <1>4, <1>5, <1>6

\* What a call that is past GETDEL knows about its assertion.
LEMMA PassedCall ==
  ASSUME CeremonyInv, NEW h \in Handler, Passed(wcall[h])
  PROVE  LET c == wcall[h]
             r == c.response
             stored == c.listed[r.credential]
         IN  /\ c \in WebAuthnCall /\ WebAuthnCallSound(c)
             /\ r \in responses /\ r \in Response /\ c.identity \in Identity
             /\ r.challenge = c.session /\ Used(c.session) /\ issued[c.session].owner = c.identity
             /\ r.credential \in Passkeys(c.identity) /\ Known(r.credential, stored)
             /\ r.count \in Nat /\ stored \in Nat
             /\ r.count > stored \/ (r.count = 0 /\ stored = 0)
  <1> DEFINE c == wcall[h]
             r == c.response
             stored == c.listed[r.credential]
  <1>1. c \in WebAuthnCall /\ WebAuthnCallSound(c) /\ c.pc \in FinishPc \ {"finish.list"}
    BY DEF CeremonyInv, Passed, FinishPc
  <1>2. /\ r \in responses /\ r \in Response /\ c.identity \in Identity /\ Used(c.session)
        /\ DOMAIN c.listed = Passkeys(c.identity)
        /\ \A k \in DOMAIN c.listed : Known(k, c.listed[k])
        /\ Verified(c) /\ ~Regression(c)
    BY <1>1 DEF WebAuthnCallSound, CeremonyInv, StoredInv, Passed, FinishPc
  <1>3. /\ r.challenge = c.session /\ issued[c.session].owner = c.identity
        /\ r.credential \in Passkeys(c.identity)
    BY <1>2 DEF Verified
  <1>4. Known(r.credential, stored) /\ stored \in Nat /\ r.count \in Nat
    BY <1>2, <1>3 DEF Known, Response
  <1>5. r.count > stored \/ (r.count = 0 /\ stored = 0)
    BY <1>2, <1>4 DEF Regression, NewCount
  <1> QED
    BY <1>1, <1>2, <1>3, <1>4, <1>5

\* UpdateSignCount writes a count that some used challenge explains.
LEMMA CountStep ==
  ASSUME CeremonyInv, NEW h \in Handler, FinishCount(h)
  PROVE  CeremonyInv'
  <1>0. PICK c : c = wcall[h]
    OBVIOUS
  <1>1. /\ UNCHANGED <<active, issued, live, counter, responses, opened>>
        /\ c.pc = "finish.count" /\ Passed(c) /\ wcall' = [wcall EXCEPT ![h].pc = "login.session"]
    BY <1>0 DEF FinishCount, WGoto, Passed
  <1>2. /\ c \in WebAuthnCall /\ WebAuthnCallSound(c)
        /\ c.response \in responses /\ c.response \in Response
        /\ c.response.challenge = c.session /\ Used(c.session)
        /\ c.response.credential \in Passkeys(c.identity)
        /\ Known(c.response.credential, c.listed[c.response.credential])
        /\ c.response.count \in Nat /\ c.listed[c.response.credential] \in Nat
    BY <1>0, <1>1, PassedCall
  <1>3. Monotone
    BY <1>1 DEF Monotone
  <1>4. Known(c.response.credential, NewCount(c)) /\ c.response.credential \in Credential
    BY <1>2 DEF NewCount, Known, Passkeys, Authenticator
  <1>5. StoredInv'
    <2>0. StoredInv
      BY DEF CeremonyInv
    <2>1. \/ signCount' = [signCount EXCEPT ![c.response.credential] = NewCount(c)]
          \/ UNCHANGED signCount
      BY <1>0 DEF FinishCount
    <2>2. /\ signCount' \in [Credential -> Nat]
          /\ \A k \in Credential : Known(k, signCount'[k])
      <3>1. NewCount(c) \in Nat
        BY <1>4 DEF Known
      <3>2. signCount \in [Credential -> Nat] /\ \A k \in Credential : Known(k, signCount[k])
        BY <2>0 DEF StoredInv
      <3>3. CASE UNCHANGED signCount
        BY <3>2, <3>3
      <3>4. CASE signCount' = [signCount EXCEPT ![c.response.credential] = NewCount(c)]
        BY <1>4, <3>1, <3>2, <3>4
      <3> QED
        BY <2>1, <3>3, <3>4
    <2>3. \A k \in Credential : Known(k, signCount[k])'
      BY <1>1, <2>2 DEF Known, Used
    <2>4. \A n \in DOMAIN opened : Used(opened[n].challenge)'
      BY <1>1, <2>0 DEF StoredInv, Used
    <2>5. OneLoginPerChallenge' /\ LoginSound'
      BY <1>1, <2>0 DEF StoredInv, OneLoginPerChallenge, LoginSound
    <2> QED
      BY <1>1, <2>0, <2>2, <2>3, <2>4, <2>5 DEF StoredInv
  <1>6. PICK d : d = [c EXCEPT !.pc = "login.session"]
    OBVIOUS
  <1>7. /\ d \in WebAuthnCall /\ d.pc = "login.session" /\ d.identity = c.identity
        /\ d.session = c.session /\ d.response = c.response /\ d.listed = c.listed
        /\ wcall' = [wcall EXCEPT ![h] = d]
    BY <1>0, <1>1, <1>2, <1>6 DEF WebAuthnCall, WebAuthnPc, FinishPc, CeremonyInv
  <1>8. WebAuthnCallSound(d)
    <2>1. Verified(d) <=> Verified(c)
      BY <1>7 DEF Verified
    <2>2. Regression(d) <=> Regression(c)
      BY <1>7 DEF Regression, NewCount
    <2> QED
      BY <1>1, <1>2, <1>7, <2>1, <2>2 DEF WebAuthnCallSound, Passed, FinishPc
  <1>9. /\ \A g \in Handler \ {h} : Passed(wcall[g]) =>
             /\ \A n \in DOMAIN opened' : opened'[n].challenge # wcall[g].session
             /\ d.session # wcall[g].session
        /\ \A n \in DOMAIN opened' : opened'[n].challenge # d.session
    BY <1>0, <1>1, <1>7 DEF CeremonyInv, Exclusive
  <1> QED
    BY <1>3, <1>5, <1>7, <1>8, <1>9, WaitingCall, OneMove

\* The login is recorded under a challenge no other login has.
LEMMA OpenStep ==
  ASSUME CeremonyInv, NEW h \in Handler, LoginOpen(h)
  PROVE  CeremonyInv'
  <1> DEFINE c == wcall[h]
             m == Len(opened) + 1
  <1>0. PICK l : l = [challenge |-> c.session, identity |-> c.identity,
                      credential |-> c.response.credential]
    OBVIOUS
  <1>1. /\ UNCHANGED <<active, signCount, issued, live, counter, responses>> /\ Passed(c)
        /\ opened' = Append(opened, l) /\ WReturn(h)
    BY <1>0 DEF LoginOpen, Passed
  <1>2. /\ c.response \in responses /\ c.response \in Response /\ c.identity \in Identity
        /\ c.response.challenge = c.session /\ Used(c.session)
        /\ issued[c.session].owner = c.identity
        /\ c.response.credential \in Passkeys(c.identity)
    BY <1>1, PassedCall
  <1>3. /\ l.challenge = c.session /\ l.identity = c.identity
        /\ l.credential = c.response.credential /\ l \in Login
    BY <1>0, <1>2 DEF Login, Response
  <1>4. /\ opened' \in Seq(Login) /\ DOMAIN opened' = DOMAIN opened \cup {m}
        /\ opened'[m] = l /\ \A n \in DOMAIN opened : opened'[n] = opened[n]
    BY <1>1, <1>3 DEF CeremonyInv, StoredInv
  <1>5. Monotone
    BY <1>1 DEF Monotone
  <1>6. StoredInv'
    <2>0. StoredInv
      BY DEF CeremonyInv
    <2>1. \A k \in Credential : Known(k, signCount[k])'
      BY <1>1, <2>0 DEF StoredInv, Known, Used
    <2>2. \A n \in DOMAIN opened' : Used(opened'[n].challenge)
      BY <1>2, <1>3, <1>4, <2>0 DEF StoredInv
    <2>3. \A n \in DOMAIN opened' : Used(opened[n].challenge)'
      BY <1>1, <2>2 DEF Used
    <2>4. OneLoginPerChallenge'
      <3>1. \A n \in DOMAIN opened : opened[n].challenge # l.challenge
        BY <1>1, <1>3 DEF CeremonyInv, Exclusive
      <3> QED
        BY <1>4, <2>0, <3>1 DEF StoredInv, OneLoginPerChallenge
    <2>5. LoginSound'
      <3>1. /\ issued[l.challenge].owner = l.identity
            /\ l.credential \in Authenticator
            /\ Enrolment[l.credential].identity = l.identity
            /\ Enrolment[l.credential].status = "active"
            /\ \E r \in responses : r.challenge = l.challenge /\ r.credential = l.credential
        BY <1>2, <1>3 DEF Passkeys, Authenticator
      <3> QED
        BY <1>1, <1>4, <2>0, <3>1 DEF StoredInv, LoginSound
    <2> QED
      BY <1>1, <1>4, <2>0, <2>1, <2>3, <2>4, <2>5 DEF StoredInv
  <1>7. \A g \in Handler \ {h} : Passed(wcall[g]) =>
          \A n \in DOMAIN opened' : opened'[n].challenge # wcall[g].session
    <2>1. \A g \in Handler \ {h} : Passed(wcall[g]) =>
            /\ \A n \in DOMAIN opened : opened[n].challenge # wcall[g].session
            /\ wcall[g].session # c.session
      BY <1>1 DEF CeremonyInv, Exclusive
    <2> HIDE DEF c, m
    <2> QED
      BY <1>3, <1>4, <2>1
  <1> QED
    BY <1>1, <1>5, <1>6, <1>7, IdleCall, OneMove DEF WReturn

\* What happens around the calls.
LEMMA OutsideStep ==
  ASSUME CeremonyInv,
         \/ \E c \in Authenticator, ch \in Challenge : Sign(c, ch)
         \/ \E i \in Identity : UpdateStatus(i)
         \/ \E ch \in Challenge : ExpireChallenge(ch)
         \/ WRestart
         \/ UNCHANGED wvars
  PROVE  CeremonyInv'
  <1>0. StoredInv
    BY DEF CeremonyInv
  <1>1. StoredInv' /\ Monotone /\ UNCHANGED opened
    <2>1. ASSUME NEW k \in Authenticator, NEW ch \in Challenge, Sign(k, ch)
          PROVE  StoredInv' /\ Monotone /\ UNCHANGED opened
      <3>1. PICK r : r = [challenge |-> ch, credential |-> k, count |-> counter'[k]]
        OBVIOUS
      <3>2. /\ UNCHANGED <<active, signCount, issued, live, opened>>
            /\ responses' = responses \cup {r}
            /\ counter' = [counter EXCEPT ![k] = IF k \in Counterless THEN 0 ELSE counter[k] + 1]
        BY <2>1, <3>1 DEF Sign
      <3>3. /\ k \in Credential /\ counter' \in [Credential -> Nat]
            /\ \A j \in Counterless \cap Credential : counter'[j] = 0
        BY <1>0, <3>2 DEF StoredInv, Authenticator
      <3>4. r \in Response /\ (r.credential \in Counterless => r.count = 0)
        BY <3>1, <3>3 DEF Response
      <3>5. Monotone
        BY <3>2 DEF Monotone
      <3> QED
        BY <1>0, <3>2, <3>3, <3>4, <3>5, StaysExplained DEF StoredInv
    <2>2. CASE ~\E k \in Authenticator, ch \in Challenge : Sign(k, ch)
      <3>1. UNCHANGED <<signCount, issued, counter, responses, opened>>
        BY <2>2 DEF UpdateStatus, ExpireChallenge, WRestart, wvars
      <3>2. live' \subseteq live /\ active' \subseteq Identity
        BY <1>0, <2>2 DEF UpdateStatus, ExpireChallenge, WRestart, wvars, StoredInv
      <3> QED
        BY <1>0, <3>1, <3>2, StoredKept
    <2> QED
      BY <2>1, <2>2
  <1>2. CASE WRestart
    <2>1. wcall' = [h \in Handler |-> WebAuthnIdle]
      BY <1>2 DEF WRestart
    <2>2. wcall' \in [Handler -> WebAuthnCall] /\ \A h \in Handler : wcall'[h] = WebAuthnIdle
      BY <2>1, IdleCall
    <2>3. \A h \in Handler : WebAuthnCallSound(wcall[h])'
      BY <2>2, IdleCall
    <2>4. Exclusive'
      BY <2>2, IdleCall DEF Exclusive, Passed
    <2> QED
      BY <1>1, <2>2, <2>3, <2>4 DEF CeremonyInv
  <1>3. CASE ~WRestart
    <2>1. UNCHANGED wcall
      BY <1>3 DEF Sign, UpdateStatus, ExpireChallenge, wvars
    <2>2. ASSUME NEW h \in Handler PROVE WebAuthnCallSound(wcall[h])'
      <3>1. PICK c : c = wcall[h]
        OBVIOUS
      <3>2. WebAuthnCallSound(c)'
        BY <1>1, <3>1, WaitingCall DEF CeremonyInv
      <3> QED
        BY <2>1, <3>1, <3>2
    <2>3. Exclusive'
      BY <1>1, <2>1 DEF CeremonyInv, Exclusive, Passed
    <2> QED
      BY <1>1, <2>1, <2>2, <2>3 DEF CeremonyInv
  <1> QED
    BY <1>2, <1>3

\* CeremonyInv holds in every reachable state.
LEMMA CeremonyInvariance == WebAuthnSpec => []CeremonyInv
  <1>1. WebAuthnInit => CeremonyInv
    <2> SUFFICES ASSUME WebAuthnInit PROVE CeremonyInv
      OBVIOUS
    <2>1. /\ DOMAIN issued = {} /\ DOMAIN opened = {} /\ opened \in Seq(Login)
          /\ \A k \in Credential : signCount[k] = 0 /\ counter[k] = 0
      BY DEF WebAuthnInit
    <2>2. StoredInv
      BY <2>1 DEF WebAuthnInit, StoredInv, Known, OneLoginPerChallenge, LoginSound
    <2>3. wcall \in [Handler -> WebAuthnCall] /\ \A h \in Handler : wcall[h] = WebAuthnIdle
      BY IdleCall DEF WebAuthnInit
    <2> QED
      BY <2>2, <2>3, IdleCall DEF CeremonyInv, Exclusive
  <1>2. CeremonyInv /\ [WebAuthnNext]_wvars => CeremonyInv'
    BY LocalStep, StoreStep, TakeStep, CountStep, OpenStep, OutsideStep
       DEF WebAuthnNext, WebAuthnStep
  <1> QED
    BY <1>1, <1>2, PTL DEF WebAuthnSpec

\* Calls hold only challenges and assertions they were given, and what Redis
\* holds was stored by a ceremony.
THEOREM WebAuthnTypes == WebAuthnSpec => []WebAuthnTypeOK
  <1>1. CeremonyInv => WebAuthnTypeOK
    <2> SUFFICES ASSUME CeremonyInv PROVE WebAuthnTypeOK
      OBVIOUS
    <2>1. ASSUME NEW h \in Handler
          PROVE  /\ wcall[h].pc \in WebAuthnPc
                 /\ wcall[h].pc # "idle" => wcall[h].identity \in Identity
                 /\ wcall[h].pc \in FinishPc \cup RegisterPc => wcall[h].session \in DOMAIN issued
                 /\ wcall[h].pc \in FinishPc => wcall[h].response \in responses
      BY DEF CeremonyInv, WebAuthnCallSound, WebAuthnCall
    <2> QED
      BY <2>1 DEF CeremonyInv, StoredInv, Used, WebAuthnTypeOK, WebAuthnPc
  <1> QED
    BY <1>1, CeremonyInvariance, PTL

\* A challenge leads to at most one login, however often FinishAssertion is
\* called with it and however the calls overlap.
THEOREM ChallengeSingleUse == WebAuthnSpec => []OneLoginPerChallenge
  <1>1. CeremonyInv => OneLoginPerChallenge
    BY DEF CeremonyInv, StoredInv
  <1> QED
    BY <1>1, CeremonyInvariance, PTL

\* Every login is for the identity its challenge was issued to, with an
\* assertion a usable credential of that identity made for that challenge.
THEOREM LoginsSound == WebAuthnSpec => []LoginSound
  <1>1. CeremonyInv => LoginSound
    BY DEF CeremonyInv, StoredInv
  <1> QED
    BY <1>1, CeremonyInvariance, PTL

\* FinishAssertion goes on only with a count greater than the one it read, or
\* with zero from an authenticator that never counted.
THEOREM RegressionsRefused == WebAuthnSpec => []RegressionRefused
  <1>1. CeremonyInv => RegressionRefused
    BY PassedCall DEF RegressionRefused, Passed
  <1> QED
    BY <1>1, CeremonyInvariance, PTL

\* FinishAssertion reports a clone only when the credential has signed another
\* challenge with a count that is no smaller.
THEOREM CloneReportsJustified == WebAuthnSpec => []CloneReportJustified
  <1>1. CeremonyInv => CloneReportJustified
    BY DEF CeremonyInv, WebAuthnCallSound, Justified, CloneReportJustified
  <1> QED
    BY <1>1, CeremonyInvariance, PTL

(***************************************************************************)
(* The counts.  A login writes no less than it listed, so a count that is  *)
(* stored and listed by every login under way is a floor.                  *)
(***************************************************************************)

Counting == {"finish.take", "finish.count"}

\* sign_count is written by FinishCount alone.
LEMMA CountWriters ==
  ASSUME [WebAuthnNext]_wvars
  PROVE  UNCHANGED signCount \/ \E h \in Handler : FinishCount(h)
  <1>1. ASSUME NEW h \in Handler, WebAuthnStep(h), ~FinishCount(h) PROVE UNCHANGED signCount
    BY <1>1 DEF WebAuthnStep, LoginBegin, RegisterBegin, Begin, BeginAssertion,
         BeginRegistration, StoreSession, LoginComplete, FinishList, FinishTake, FinishFailure,
         LoginOpen, RegisterComplete, FinishRegistrationTake, FinishKey, WAbort
  <1>2. CASE \/ \E c \in Authenticator, ch \in Challenge : Sign(c, ch)
             \/ \E i \in Identity : UpdateStatus(i)
             \/ \E ch \in Challenge : ExpireChallenge(ch)
             \/ WRestart
    BY <1>2 DEF Sign, UpdateStatus, ExpireChallenge, WRestart
  <1> QED
    BY <1>1, <1>2 DEF WebAuthnNext, wvars

\* What a call that will write has listed, it has read in this step or held before.
LEMMA ListedSource ==
  ASSUME CeremonyInv, NEW h \in Handler, WebAuthnStep(h), wcall'[h].pc \in Counting
  PROVE  \/ /\ UNCHANGED signCount
            /\ \A k \in DOMAIN wcall'[h].listed : wcall'[h].listed[k] = signCount[k]
         \/ wcall[h].pc \in Counting /\ wcall'[h].listed = wcall[h].listed
  <1>0. wcall \in [Handler -> WebAuthnCall] /\ wcall[h] \in WebAuthnCall
    BY DEF CeremonyInv
  <1>1. ASSUME WReturn(h) PROVE FALSE
    BY <1>0, <1>1 DEF WReturn, WebAuthnIdle, Counting
  <1>2. ASSUME NEW pc, WGoto(h, pc)
        PROVE  wcall'[h].pc = pc /\ wcall'[h].listed = wcall[h].listed
    BY <1>0, <1>2 DEF WGoto, WebAuthnCall
  <1>3. CASE FinishList(h)
    <2>1. wcall'[h].listed = [k \in Passkeys(wcall[h].identity) |-> signCount[k]]
      BY <1>0, <1>3 DEF FinishList, WebAuthnCall
    <2> QED
      BY <1>3, <2>1 DEF FinishList
  <1>4. CASE FinishTake(h)
    <2>1. WGoto(h, "finish.count") \/ WGoto(h, "finish.failure")
      BY <1>1, <1>4 DEF FinishTake
    <2>2. wcall[h].pc = "finish.take"
      BY <1>4 DEF FinishTake
    <2> QED
      BY <1>2, <2>1, <2>2 DEF Counting
  <1>5. ASSUME NEW pc \in {"login.store", "register.store"}, Begin(h, pc) PROVE FALSE
    <2>1. wcall'[h].pc = pc
      BY <1>0, <1>5 DEF Begin, WebAuthnIdle
    <2> QED
      BY <2>1 DEF Counting
  <1>6. ASSUME LoginComplete(h) PROVE FALSE
    <2>1. wcall'[h].pc = "finish.list"
      BY <1>0, <1>6 DEF LoginComplete, WebAuthnIdle
    <2> QED
      BY <2>1 DEF Counting
  <1>7. ASSUME RegisterComplete(h) PROVE FALSE
    <2>1. wcall'[h].pc = "register.take"
      BY <1>0, <1>7 DEF RegisterComplete, WebAuthnIdle
    <2> QED
      BY <2>1 DEF Counting
  <1>8. ASSUME FinishCount(h) \/ FinishRegistrationTake(h) PROVE FALSE
    BY <1>1, <1>2, <1>8 DEF FinishCount, FinishRegistrationTake, Counting
  <1>9. ASSUME \/ BeginAssertion(h) \/ BeginRegistration(h) \/ FinishFailure(h)
               \/ LoginOpen(h) \/ FinishKey(h) \/ WAbort(h)
        PROVE  FALSE
    BY <1>1, <1>9 DEF BeginAssertion, BeginRegistration, StoreSession, FinishFailure,
         LoginOpen, FinishKey, WAbort
  <1> QED
    BY <1>3, <1>4, <1>5, <1>6, <1>7, <1>8, <1>9 DEF WebAuthnStep, LoginBegin, RegisterBegin

\* A step of one handler leaves what the others listed.
LEMMA OthersListed ==
  ASSUME CeremonyInv, NEW h \in Handler, WebAuthnStep(h), NEW g \in Handler \ {h}
  PROVE  wcall'[g] = wcall[g]
  BY DEF CeremonyInv, WebAuthnStep, LoginBegin, RegisterBegin, Begin, BeginAssertion,
         BeginRegistration, StoreSession, LoginComplete, FinishList, FinishTake, FinishFailure,
         FinishCount, LoginOpen, RegisterComplete, FinishRegistrationTake, FinishKey, WAbort,
         WReturn, WGoto

\* What FinishCount writes is no less than what it listed.
LEMMA CountWritten ==
  ASSUME CeremonyInv, NEW h \in Handler, FinishCount(h), NEW k \in Credential
  PROVE  \/ signCount'[k] = signCount[k]
         \/ /\ wcall[h].pc \in Counting /\ k \in DOMAIN wcall[h].listed
            /\ wcall[h].listed[k] \in Nat /\ signCount'[k] \in Nat
            /\ signCount'[k] >= wcall[h].listed[k]
  <1> DEFINE c == wcall[h]
             r == c.response
  <1>1. signCount \in [Credential -> Nat]
    BY DEF CeremonyInv, StoredInv
  <1>2. c.pc = "finish.count" /\ Passed(c) /\ WebAuthnCallSound(c)
    BY DEF FinishCount, CeremonyInv, Passed
  <1>3. r.credential \in DOMAIN c.listed /\ r.count \in Nat /\ c.listed[r.credential] \in Nat
    <2>1. r.count \in Nat /\ c.listed[r.credential] \in Nat
      BY <1>2, PassedCall
    <2>2. r.credential \in DOMAIN c.listed
      BY <1>2 DEF WebAuthnCallSound, Verified
    <2> QED
      BY <2>1, <2>2
  <1>4. NewCount(c) \in Nat /\ NewCount(c) >= c.listed[r.credential]
    BY <1>3 DEF NewCount
  <1>5. UNCHANGED signCount \/ signCount' = [signCount EXCEPT ![r.credential] = NewCount(c)]
    BY DEF FinishCount
  <1>6. c.pc \in Counting
    BY <1>2 DEF Counting
  <1> HIDE DEF c, r
  <1>7. CASE k = r.credential
    BY <1>1, <1>3, <1>4, <1>5, <1>6, <1>7 DEF c
  <1>8. CASE k # r.credential
    BY <1>1, <1>5, <1>8
  <1> QED
    BY <1>7, <1>8

\* No step lowers a floor.
LEMMA FloorStep ==
  ASSUME CeremonyInv, [WebAuthnNext]_wvars, NEW k \in Credential, NEW n \in Nat, AtLeast(k, n)
  PROVE  AtLeast(k, n)'
  <1>0. signCount[k] \in Nat /\ signCount[k] >= n
    BY DEF CeremonyInv, StoredInv, AtLeast
  <1>1. ASSUME NEW g \in Handler, wcall[g].pc \in Counting, k \in DOMAIN wcall[g].listed
        PROVE  wcall[g].listed[k] >= n
    BY <1>1 DEF AtLeast, Counting
  <1>2. signCount'[k] >= n
    <2>1. CASE UNCHANGED signCount
      BY <1>0, <2>1
    <2>2. ASSUME NEW h \in Handler, FinishCount(h) PROVE signCount'[k] >= n
      BY <1>0, <1>1, <2>2, CountWritten
    <2> QED
      BY <2>1, <2>2, CountWriters
  <1>3. ASSUME NEW g \in Handler, wcall'[g].pc \in Counting, k \in DOMAIN wcall'[g].listed
        PROVE  wcall'[g].listed[k] >= n
    <2>1. ASSUME NEW h \in Handler, WebAuthnStep(h) PROVE wcall'[g].listed[k] >= n
      <3>1. CASE g = h
        BY <1>0, <1>1, <1>3, <2>1, <3>1, ListedSource
      <3>2. CASE g # h
        BY <1>1, <1>3, <2>1, <3>2, OthersListed
      <3> QED
        BY <3>1, <3>2
    <2>2. CASE \/ \E c \in Authenticator, ch \in Challenge : Sign(c, ch)
               \/ \E i \in Identity : UpdateStatus(i)
               \/ \E ch \in Challenge : ExpireChallenge(ch)
               \/ UNCHANGED wvars
      <3>1. UNCHANGED wcall
        BY <2>2 DEF Sign, UpdateStatus, ExpireChallenge, wvars
      <3> QED
        BY <1>1, <1>3, <3>1
    <2>3. CASE WRestart
      BY <1>3, <2>3 DEF WRestart, WebAuthnIdle, Counting
    <2> QED
      BY <2>1, <2>2, <2>3 DEF WebAuthnNext
  <1> QED
    BY <1>2, <1>3 DEF AtLeast, Counting

\* A credential whose count has reached n stays at n or above once no login
\* under way listed it with less, for any number of overlapping logins, failed
\* updates and restarts.  So sign_count goes back (against the comment of
\* migration 004) only through a login that listed it before it was raised.
THEOREM CountFloorsKept == WebAuthnSpec => CountFloorKept
  <1>1. CeremonyInv /\ [WebAuthnNext]_wvars =>
          [\A c \in Credential, n \in 0..MaxAssertions : AtLeast(c, n) => AtLeast(c, n)']_wvars
    BY FloorStep, WebAuthnAssumption
  <1> QED
    BY <1>1, CeremonyInvariance, PTL DEF WebAuthnSpec, CountFloorKept

=============================================================================
