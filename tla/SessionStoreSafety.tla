------------------------- MODULE SessionStoreSafety -------------------------
(***************************************************************************)
(* The safety properties of SessionStore for every number of handlers,     *)
(* sessions and identities and for all lifetimes with                      *)
(* MaxDelay + TokenTTL < SessionTTL.                                       *)
(*                                                                         *)
(* ValidTokenAccepted is not inductive: the invariant compares the two     *)
(* countdowns (a session that nobody deleted has at least as long to live  *)
(* as its token) and says how much of its life a session may have lost     *)
(* before the login issues the token.                                      *)
(***************************************************************************)
EXTENDS SessionStore, TLAPS

SessionPc ==
  CreatePc \cup {"idle", "auth.set", "route", "delete.del", "delete.srem", "revoke.set",
                 "revoke.check", "list.get", "list.srem"}

SessionCall == [pc : SessionPc, own : SUBSET drawn, target : SUBSET drawn,
                pending : SUBSET drawn]

SessionCallSound(c) ==
  /\ c.pc # "idle" => \E own \in drawn : c.own = {own}
  /\ c.pc \in {"delete.del", "delete.srem"} =>
       \E s, own \in drawn : c.target = {s} /\ c.own = {own} /\ owner[own] = owner[s]
  /\ c.pc \in CreatePc =>
       \A s \in c.own : s \notin ended => life[s] >= SessionTTL - MaxDelay

LifeInv ==
  /\ SessionTypeOK
  /\ \A i \in Identity : index[i] \subseteq drawn
  /\ \A s \in Session : life[s] > 0 => s \in drawn
  /\ \A s \in Session \ ended : life[s] >= token[s]

SessionsInv ==
  /\ LifeInv
  /\ scall \in [Handler -> SessionCall]
  /\ \A h \in Handler : SessionCallSound(scall[h])

\* The lifetimes are numbers, and a session set to its full life outlives every
\* token and every delay of a login.
LEMMA Lifetimes ==
  /\ SessionTTL \in Nat /\ TokenTTL \in Nat /\ MaxDelay \in Nat /\ Forever \in Nat
  /\ TokenTTL > 0 /\ SessionTTL - MaxDelay > TokenTTL
  /\ SessionTTL - MaxDelay <= SessionTTL /\ SessionTTL > 1 /\ Forever > SessionTTL
  BY SessionAssumption DEF Forever

\* No command but time itself shortens the life of a session that nobody
\* deletes, gives a session another owner or makes its id free again.
Gentle ==
  /\ owner' = owner /\ drawn \subseteq drawn' /\ ended \subseteq ended'
  /\ \A s \in Session \ ended' : life'[s] >= life[s]

\* So what the other handlers rely on stays true.
LEMMA OneCall ==
  ASSUME SessionsInv, Gentle, LifeInv', NEW h \in Handler, NEW c,
         c \in SessionCall', SessionCallSound(c)', scall' = [scall EXCEPT ![h] = c]
  PROVE  SessionsInv'
  <1>1. \A g \in Handler : scall'[g] = IF g = h THEN c ELSE scall[g]
    BY DEF SessionsInv
  <1>2. scall' \in [Handler -> SessionCall']
    <2>1. \A g \in Handler : scall[g] \in SessionCall'
      BY DEF SessionsInv, SessionCall, Gentle
    <2> QED
      BY <1>1, <2>1 DEF SessionsInv
  <1>3. ASSUME NEW g \in Handler, g # h
        PROVE  SessionCallSound(scall[g])'
    <2>1. scall'[g] = scall[g] /\ SessionCallSound(scall[g]) /\ scall[g] \in SessionCall
      BY <1>1, <1>3 DEF SessionsInv
    <2>2. /\ life \in [Session -> Nat] /\ life' \in [Session -> Nat]
          /\ drawn \subseteq Session
      BY DEF SessionsInv, LifeInv, SessionTypeOK, Gentle
    <2>3. scall[g].pc \in CreatePc =>
            \A s \in scall[g].own : s \notin ended' => life'[s] >= SessionTTL - MaxDelay
      BY <2>1, <2>2, Lifetimes DEF SessionCallSound, SessionCall, Gentle
    <2> QED
      BY <2>1, <2>3 DEF SessionCallSound, Gentle
  <1>4. \A g \in Handler : SessionCallSound(scall[g])'
    BY <1>1, <1>3
  <1> QED
    BY <1>2, <1>4 DEF SessionsInv

\* Steps that touch neither Redis nor a token.
LEMMA LocalStep ==
  ASSUME SessionsInv, NEW h \in Handler,
         \/ RequireAuth(h) \/ OtherRoute(h) \/ Logout(h) \/ RevokeSession(h)
         \/ RevokeSessionCheck(h) \/ ListSessions(h) \/ ListGet(h) \/ SAbort(h)
  PROVE  SessionsInv'
  <1> DEFINE c == scall[h]
  <1>0. /\ UNCHANGED <<redis, token, drawn, ended>>
        /\ c \in SessionCall /\ SessionCallSound(c) /\ scall \in [Handler -> SessionCall]
        /\ drawn \subseteq Session
    BY DEF RequireAuth, OtherRoute, Logout, RevokeSession, RevokeSessionCheck, ListSessions,
           ListGet, SAbort, SessionsInv, LifeInv, SessionTypeOK
  <1>1. Gentle /\ LifeInv'
    BY <1>0 DEF Gentle, LifeInv, SessionsInv, SessionTypeOK, redis
  <1>2. SessionIdle \in SessionCall /\ SessionCallSound(SessionIdle)
    BY DEF SessionIdle, SessionCall, SessionPc, SessionCallSound, CreatePc
  <1>3. \E d \in SessionCall : SessionCallSound(d) /\ scall' = [scall EXCEPT ![h] = d]
    <2>1. CASE RequireAuth(h)
      <3>1. PICK s \in Session :
              /\ life[s] > 0
              /\ scall' = [scall EXCEPT ![h] = [SessionIdle EXCEPT !.pc = "auth.set", !.own = {s}]]
        BY <2>1 DEF RequireAuth
      <3>2. s \in drawn
        BY <3>1 DEF SessionsInv, LifeInv
      <3> QED
        BY <3>1, <3>2 DEF SessionIdle, SessionCall, SessionPc, SessionCallSound, CreatePc
    <2>2. CASE OtherRoute(h) \/ SAbort(h)
      BY <1>2, <2>2 DEF OtherRoute, SAbort, SReturn
    <2>3. ASSUME NEW s \in drawn, Delete(h, s), c.pc # "idle",
                 \A own \in c.own : owner[s] = owner[own]
          PROVE  \E d \in SessionCall : SessionCallSound(d) /\ scall' = [scall EXCEPT ![h] = d]
      <3> DEFINE d == [c EXCEPT !.pc = "delete.del", !.target = {s}]
      <3>1. d \in SessionCall
        BY <1>0 DEF SessionCall, SessionPc
      <3>2. SessionCallSound(d)
        BY <1>0, <2>3 DEF SessionCallSound, SessionCall, CreatePc
      <3>3. scall' = [scall EXCEPT ![h] = d] \/ SReturn(h)
        BY <1>0, <2>3 DEF Delete
      <3> QED
        BY <1>2, <3>1, <3>2, <3>3 DEF SReturn
    <2>4. CASE Logout(h)
      <3>1. PICK s \in c.own : Delete(h, s) /\ c.pc = "route"
        BY <2>4 DEF Logout
      <3>2. s \in drawn /\ \A own \in c.own : own = s
        BY <1>0, <3>1 DEF SessionCallSound
      <3> QED
        BY <2>3, <3>1, <3>2
    <2>5. CASE RevokeSession(h)
      <3>1. PICK s \in Session :
              /\ life[s] > 0
              /\ scall' = [scall EXCEPT ![h].pc = "revoke.set", ![h].target = {s}]
        BY <2>5 DEF RevokeSession
      <3>2. s \in drawn /\ c.pc = "route"
        BY <2>5, <3>1 DEF SessionsInv, LifeInv, RevokeSession
      <3> DEFINE d == [c EXCEPT !.pc = "revoke.set", !.target = {s}]
      <3>3. d \in SessionCall /\ SessionCallSound(d)
        BY <1>0, <3>2 DEF SessionCall, SessionPc, SessionCallSound, CreatePc
      <3>4. scall' = [scall EXCEPT ![h] = d]
        BY <1>0, <3>1
      <3> QED
        BY <3>3, <3>4
    <2>6. CASE RevokeSessionCheck(h)
      <3>1. PICK s \in c.target, own \in c.own :
              \/ owner[s] = owner[own] /\ Delete(h, s)
              \/ owner[s] # owner[own] /\ SReturn(h)
        BY <2>6 DEF RevokeSessionCheck
      <3>2. s \in drawn /\ c.pc = "revoke.check" /\ \A o \in c.own : o = own
        BY <1>0, <2>6 DEF SessionCallSound, SessionCall, RevokeSessionCheck
      <3>3. CASE owner[s] = owner[own] /\ Delete(h, s)
        BY <2>3, <3>2, <3>3
      <3>4. CASE SReturn(h)
        BY <1>2, <3>4 DEF SReturn
      <3> QED
        BY <3>1, <3>3, <3>4
    <2>7. CASE ListSessions(h)
      <3>1. PICK s \in c.own :
              scall' = [scall EXCEPT ![h].pc = "list.get", ![h].pending = index[owner[s]]]
        BY <2>7 DEF ListSessions
      <3>2. index[owner[s]] \subseteq drawn /\ c.pc = "route"
        BY <1>0, <2>7 DEF SessionsInv, LifeInv, SessionTypeOK, SessionCall, ListSessions
      <3> DEFINE d == [c EXCEPT !.pc = "list.get", !.pending = index[owner[s]]]
      <3>3. d \in SessionCall /\ SessionCallSound(d)
        BY <1>0, <3>2 DEF SessionCall, SessionPc, SessionCallSound, CreatePc
      <3>4. scall' = [scall EXCEPT ![h] = d]
        BY <1>0, <3>1
      <3> QED
        BY <3>3, <3>4
    <2>8. CASE ListGet(h)
      <3>0. c.pc = "list.get"
        BY <2>8 DEF ListGet
      <3>1. CASE SReturn(h)
        BY <1>2, <3>1 DEF SReturn
      <3>2. ASSUME NEW s \in c.pending,
                   \/ scall' = [scall EXCEPT ![h].pending = @ \ {s}]
                   \/ scall' = [scall EXCEPT ![h].pending = @ \ {s}, ![h].target = {s},
                                             ![h].pc = "list.srem"]
            PROVE  \E d \in SessionCall : SessionCallSound(d) /\ scall' = [scall EXCEPT ![h] = d]
        <4> DEFINE live == [c EXCEPT !.pending = @ \ {s}]
                   gone == [c EXCEPT !.pending = @ \ {s}, !.target = {s}, !.pc = "list.srem"]
        <4>1. live \in SessionCall /\ gone \in SessionCall
          BY <1>0 DEF SessionCall, SessionPc
        <4>2. SessionCallSound(live) /\ SessionCallSound(gone)
          BY <1>0, <3>0 DEF SessionCall, SessionCallSound, CreatePc
        <4>3. scall' = [scall EXCEPT ![h] = live] \/ scall' = [scall EXCEPT ![h] = gone]
          BY <1>0, <3>2
        <4> QED
          BY <4>1, <4>2, <4>3
      <3> QED
        BY <2>8, <3>1, <3>2 DEF ListGet
    <2> QED
      BY <2>1, <2>2, <2>4, <2>5, <2>6, <2>7, <2>8
  <1>4. \A d : SessionCallSound(d) => SessionCallSound(d)'
    BY <1>0 DEF SessionCallSound, redis
  <1>5. SessionCall' = SessionCall
    BY <1>0 DEF SessionCall
  <1> QED
    BY <1>1, <1>3, <1>4, <1>5, OneCall

\* Steps that write a session key or issue its token.
LEMMA LifeStep ==
  ASSUME SessionsInv, NEW h \in Handler,
         \/ LoginComplete(h) \/ RequireAuthSet(h) \/ RevokeSessionSet(h) \/ DeleteDel(h)
         \/ Issue(h)
  PROVE  SessionsInv'
  <1> DEFINE c == scall[h]
  <1>0. /\ c \in SessionCall /\ SessionCallSound(c) /\ scall \in [Handler -> SessionCall]
        /\ drawn \subseteq Session /\ ended \subseteq drawn
        /\ life \in [Session -> 0..SessionTTL] /\ token \in [Session -> 0..TokenTTL]
        /\ UNCHANGED <<owner, index, indexLife>>
    BY DEF LoginComplete, RequireAuthSet, RevokeSessionSet, DeleteDel, Issue, redis,
           SessionsInv, LifeInv, SessionTypeOK
  <1>1. CASE LoginComplete(h)
    <2>1. PICK s \in Session \ drawn :
            /\ drawn' = drawn \cup {s} /\ life' = [life EXCEPT ![s] = SessionTTL]
            /\ scall' = [scall EXCEPT ![h] = [SessionIdle EXCEPT !.pc = "create.sadd", !.own = {s}]]
      BY <1>1 DEF LoginComplete, Set
    <2>2. UNCHANGED <<token, ended>>
      BY <1>1 DEF LoginComplete
    <2>3. /\ life' \in [Session -> 0..SessionTTL] /\ life'[s] = SessionTTL
          /\ \A t \in Session : life'[t] >= life[t] /\ (t # s => life'[t] = life[t])
      BY <1>0, <2>1, Lifetimes
    <2>4. Gentle
      BY <1>0, <2>1, <2>2, <2>3 DEF Gentle
    <2>5. LifeInv'
      BY <1>0, <2>1, <2>2, <2>3, Lifetimes DEF SessionsInv, LifeInv, SessionTypeOK
    <2> DEFINE d == [SessionIdle EXCEPT !.pc = "create.sadd", !.own = {s}]
    <2>6. d \in SessionCall'
      BY <2>1 DEF SessionIdle, SessionCall, SessionPc, CreatePc
    <2>7. SessionCallSound(d)'
      BY <2>1, <2>3, Lifetimes DEF SessionIdle, SessionCallSound, CreatePc
    <2> QED
      BY <2>1, <2>4, <2>5, <2>6, <2>7, OneCall
  <1>2. CASE RequireAuthSet(h) \/ RevokeSessionSet(h)
    <2>1. /\ UNCHANGED <<token, drawn, ended>>
          /\ UNCHANGED life \/ \E s \in drawn : life' = [life EXCEPT ![s] = SessionTTL]
      BY <1>0, <1>2 DEF RequireAuthSet, RevokeSessionSet, Set, SessionCall
    <2>2. /\ life' \in [Session -> 0..SessionTTL]
          /\ \A t \in Session : life'[t] >= life[t] /\ (t \notin drawn => life'[t] = life[t])
      BY <1>0, <2>1, Lifetimes
    <2>3. Gentle
      BY <1>0, <2>1, <2>2 DEF Gentle
    <2>4. LifeInv'
      BY <1>0, <2>1, <2>2, Lifetimes DEF SessionsInv, LifeInv, SessionTypeOK
    <2>5. PICK pc \in {"route", "revoke.check"} : scall' = [scall EXCEPT ![h].pc = pc]
      BY <1>2 DEF RequireAuthSet, RevokeSessionSet, SGoto
    <2>6. PICK d : d = [c EXCEPT !.pc = pc]
      OBVIOUS
    <2>7. c.pc # "idle" /\ scall' = [scall EXCEPT ![h] = d]
      BY <1>0, <1>2, <2>5, <2>6 DEF RequireAuthSet, RevokeSessionSet
    <2>8. d \in SessionCall' /\ SessionCallSound(d)'
      BY <1>0, <2>1, <2>6, <2>7 DEF SessionCall, SessionPc, SessionCallSound, CreatePc
    <2> QED
      BY <2>3, <2>4, <2>7, <2>8, OneCall
  <1>3. CASE DeleteDel(h)
    <2>1. PICK s \in c.target : life' = [life EXCEPT ![s] = 0] /\ ended' = ended \cup {s}
      BY <1>3 DEF DeleteDel, Del
    <2>2. UNCHANGED <<token, drawn>> /\ s \in drawn /\ c.pc = "delete.del"
      BY <1>0, <1>3 DEF DeleteDel, SessionCall
    <2>3. /\ life' \in [Session -> 0..SessionTTL]
          /\ \A t \in Session : t # s => life'[t] = life[t]
          /\ life'[s] = 0
      BY <1>0, <2>1, <2>2, Lifetimes
    <2>4. Gentle
      BY <1>0, <2>1, <2>2, <2>3 DEF Gentle
    <2>5. LifeInv'
      BY <1>0, <2>1, <2>2, <2>3, Lifetimes DEF SessionsInv, LifeInv, SessionTypeOK
    <2>6. PICK d : d = [c EXCEPT !.pc = "delete.srem"]
      OBVIOUS
    <2>7. scall' = [scall EXCEPT ![h] = d]
      BY <1>0, <1>3, <2>6 DEF DeleteDel, SGoto
    <2>8. d \in SessionCall' /\ SessionCallSound(d)'
      BY <1>0, <2>2, <2>6 DEF SessionCall, SessionPc, SessionCallSound, CreatePc
    <2> QED
      BY <2>4, <2>5, <2>7, <2>8, OneCall
  <1>4. CASE Issue(h)
    <2>1. PICK s \in c.own : token' = [token EXCEPT ![s] = TokenTTL]
      BY <1>4 DEF Issue
    <2>2. UNCHANGED <<life, drawn, ended>> /\ c.pc = "issue" /\ s \in drawn
      BY <1>0, <1>4 DEF Issue, redis, SessionCall
    <2>3. s \notin ended => life[s] >= SessionTTL - MaxDelay
      BY <1>0, <2>2 DEF SessionCallSound, CreatePc
    <2>4. /\ token' \in [Session -> 0..TokenTTL] /\ token'[s] = TokenTTL
          /\ \A t \in Session : t # s => token'[t] = token[t]
      BY <1>0, <2>1, <2>2, Lifetimes
    <2>5. Gentle
      BY <1>0, <2>2 DEF Gentle
    <2>6. LifeInv'
      BY <1>0, <2>2, <2>3, <2>4, Lifetimes DEF SessionsInv, LifeInv, SessionTypeOK
    <2>7. SessionIdle \in SessionCall' /\ SessionCallSound(SessionIdle)'
      BY DEF SessionIdle, SessionCall, SessionPc, SessionCallSound, CreatePc
    <2> QED
      BY <1>4, <2>5, <2>6, <2>7, OneCall DEF Issue, SReturn
  <1> QED
    BY <1>1, <1>2, <1>3, <1>4

\* Steps that write the index of an identity.
LEMMA IndexStep ==
  ASSUME SessionsInv, NEW h \in Handler,
         CreateSAdd(h) \/ CreateExpire(h) \/ DeleteSRem(h) \/ ListSRem(h)
  PROVE  SessionsInv'
  <1> DEFINE c == scall[h]
  <1>0. /\ c \in SessionCall /\ SessionCallSound(c) /\ scall \in [Handler -> SessionCall]
        /\ UNCHANGED <<owner, life, token, drawn, ended>>
        /\ owner \in [Session -> Identity] /\ drawn \subseteq Session
        /\ index \in [Identity -> SUBSET Session] /\ indexLife \in [Identity -> 0..Forever]
        /\ \A i \in Identity : index[i] = {} <=> indexLife[i] = 0
        /\ \A i \in Identity : index[i] \subseteq drawn
    BY DEF CreateSAdd, CreateExpire, DeleteSRem, ListSRem, SessionsInv, LifeInv, SessionTypeOK
  <1>1. /\ index' \in [Identity -> SUBSET Session] /\ indexLife' \in [Identity -> 0..Forever]
        /\ \A i \in Identity : index'[i] = {} <=> indexLife'[i] = 0
        /\ \A i \in Identity : index'[i] \subseteq drawn
    <2>1. CASE CreateSAdd(h)
      <3>1. PICK s \in c.own : SAdd(owner[s], s)
        BY <2>1 DEF CreateSAdd
      <3>2. s \in drawn /\ owner[s] \in Identity
        BY <1>0 DEF SessionCall
      <3>3. /\ index' = [index EXCEPT ![owner[s]] = index[owner[s]] \cup {s}]
            /\ indexLife' = [indexLife EXCEPT ![owner[s]] =
                               IF index[owner[s]] = {} THEN Forever ELSE indexLife[owner[s]]]
        BY <3>1 DEF SAdd
      <3> QED
        BY <1>0, <3>2, <3>3, Lifetimes
    <2>2. CASE CreateExpire(h)
      <3>1. PICK s \in c.own : Expire(owner[s])
        BY <2>2 DEF CreateExpire
      <3>2. owner[s] \in Identity /\ UNCHANGED index
        BY <1>0, <2>2 DEF SessionCall, CreateExpire
      <3>3. indexLife' = [indexLife EXCEPT ![owner[s]] =
                            IF index[owner[s]] = {} THEN 0 ELSE SessionTTL]
        BY <3>1 DEF Expire
      <3> QED
        BY <1>0, <3>2, <3>3, Lifetimes
    <2>3. CASE DeleteSRem(h) \/ ListSRem(h)
      <3>1. PICK s \in Session, i \in Identity : SRem(i, s)
        <4>1. \A t \in c.own \cup c.target : t \in Session /\ owner[t] \in Identity
          BY <1>0 DEF SessionCall
        <4> QED
          BY <2>3, <4>1 DEF DeleteSRem, ListSRem
      <3>2. /\ index' = [index EXCEPT ![i] = index[i] \ {s}]
            /\ indexLife' = [indexLife EXCEPT ![i] =
                               IF index[i] \ {s} = {} THEN 0 ELSE indexLife[i]]
        BY <3>1 DEF SRem
      <3> QED
        BY <1>0, <3>2, Lifetimes
    <2> QED
      BY <2>1, <2>2, <2>3
  <1>2. Gentle
    BY <1>0, Lifetimes DEF Gentle, SessionsInv, LifeInv, SessionTypeOK
  <1>3. LifeInv'
    BY <1>0, <1>1 DEF SessionsInv, LifeInv, SessionTypeOK
  <1>4. CASE DeleteSRem(h)
    <2>1. SessionIdle \in SessionCall' /\ SessionCallSound(SessionIdle)'
      BY DEF SessionIdle, SessionCall, SessionPc, SessionCallSound, CreatePc
    <2> QED
      BY <1>2, <1>3, <1>4, <2>1, OneCall DEF DeleteSRem, SReturn
  <1>5. CASE CreateSAdd(h) \/ CreateExpire(h) \/ ListSRem(h)
    <2>1. PICK pc : /\ scall' = [scall EXCEPT ![h].pc = pc]
                    /\ \/ c.pc \in CreatePc /\ pc \in CreatePc
                       \/ c.pc = "list.srem" /\ pc = "list.get"
      BY <1>5 DEF CreateSAdd, CreateExpire, ListSRem, SGoto, CreatePc
    <2>2. PICK d : d = [c EXCEPT !.pc = pc]
      OBVIOUS
    <2>3. scall' = [scall EXCEPT ![h] = d]
      BY <1>0, <2>1, <2>2
    <2>4. d \in SessionCall'
      BY <1>0, <2>1, <2>2 DEF SessionCall, SessionPc
    <2>5. SessionCallSound(d)'
      BY <1>0, <2>1, <2>2 DEF SessionCall, SessionCallSound, CreatePc
    <2> QED
      BY <1>2, <1>3, <2>3, <2>4, <2>5, OneCall
  <1> QED
    BY <1>4, <1>5

\* A restart forgets the tokens; time shortens sessions and tokens alike, and a
\* login under way is finished before the delay is used up.
LEMMA OtherStep ==
  ASSUME SessionsInv, SRestart \/ Tick \/ UNCHANGED svars
  PROVE  SessionsInv'
  <1>0. /\ owner \in [Session -> Identity]
        /\ life \in [Session -> 0..SessionTTL] /\ token \in [Session -> 0..TokenTTL]
        /\ index \in [Identity -> SUBSET Session] /\ indexLife \in [Identity -> 0..Forever]
        /\ drawn \subseteq Session /\ ended \subseteq drawn
        /\ scall \in [Handler -> SessionCall]
    BY DEF SessionsInv, LifeInv, SessionTypeOK
  <1>1. CASE SRestart
    <2>1. /\ UNCHANGED <<owner, life, index, indexLife, drawn, ended>>
          /\ token' = [s \in Session |-> 0] /\ scall' = [h \in Handler |-> SessionIdle]
      BY <1>1 DEF SRestart, redis
    <2>2. LifeInv'
      BY <1>0, <2>1, Lifetimes DEF SessionsInv, LifeInv, SessionTypeOK
    <2>3. SessionIdle \in SessionCall' /\ SessionCallSound(SessionIdle)'
      BY DEF SessionIdle, SessionCall, SessionPc, SessionCallSound, CreatePc
    <2>4. scall' \in [Handler -> SessionCall'] /\ \A h \in Handler : scall'[h] = SessionIdle
      BY <2>1, <2>3
    <2>5. \A h \in Handler : SessionCallSound(scall[h])'
      BY <2>3, <2>4
    <2> QED
      BY <2>2, <2>4, <2>5 DEF SessionsInv
  <1>2. CASE Tick
    <2>1. /\ UNCHANGED <<owner, drawn, ended, scall>>
          /\ life' = [s \in Session |-> Countdown(life[s])]
          /\ token' = [s \in Session |-> Countdown(token[s])]
          /\ index' = [i \in Identity |-> IF indexLife[i] = 1 THEN {} ELSE index[i]]
          /\ indexLife' = [i \in Identity |-> IF indexLife[i] = Forever THEN Forever
                                              ELSE Countdown(indexLife[i])]
          /\ \A h \in Handler : scall[h].pc \in CreatePc =>
               \A s \in scall[h].own : life[s] > SessionTTL - MaxDelay
      BY <1>2 DEF Tick
    <2>2. /\ life' \in [Session -> 0..SessionTTL] /\ token' \in [Session -> 0..TokenTTL]
          /\ \A s \in Session : life'[s] > 0 => life[s] > 0
          /\ \A s \in Session : life[s] >= token[s] => life'[s] >= token'[s]
      BY <1>0, <2>1, Lifetimes DEF Countdown
    <2>3. /\ index' \in [Identity -> SUBSET Session] /\ indexLife' \in [Identity -> 0..Forever]
          /\ \A i \in Identity : index'[i] \subseteq index[i]
      BY <1>0, <2>1, Lifetimes DEF Countdown
    <2>4. \A i \in Identity : index'[i] = {} <=> indexLife'[i] = 0
      BY <1>0, <2>1, Lifetimes DEF SessionsInv, LifeInv, SessionTypeOK, Countdown
    <2>5. LifeInv'
      BY <1>0, <2>1, <2>2, <2>3, <2>4 DEF SessionsInv, LifeInv, SessionTypeOK
    <2>6. ASSUME NEW h \in Handler PROVE SessionCallSound(scall[h])'
      <3>1. SessionCallSound(scall[h]) /\ scall[h] \in SessionCall
        BY DEF SessionsInv
      <3>2. scall[h].pc \in CreatePc =>
              \A s \in scall[h].own : life'[s] >= SessionTTL - MaxDelay
        <4> SUFFICES ASSUME scall[h].pc \in CreatePc, NEW s \in scall[h].own
                     PROVE  life'[s] >= SessionTTL - MaxDelay
          OBVIOUS
        <4>1. life[s] > SessionTTL - MaxDelay /\ s \in Session
          BY <1>0, <2>1, <3>1 DEF SessionCall
        <4>2. life'[s] = Countdown(life[s]) /\ life[s] \in Nat
          BY <1>0, <2>1, <4>1
        <4> QED
          BY <4>1, <4>2, Lifetimes DEF Countdown
      <3> QED
        BY <2>1, <3>1, <3>2 DEF SessionCallSound
    <2> QED
      BY <1>0, <2>1, <2>5, <2>6 DEF SessionsInv, SessionCall
  <1>3. CASE UNCHANGED svars
    <2>1. UNCHANGED <<owner, life, index, indexLife, token, drawn, ended, scall>>
      BY <1>3 DEF svars, redis
    <2>2. LifeInv' /\ SessionCall' = SessionCall
      BY <2>1 DEF SessionsInv, LifeInv, SessionTypeOK, SessionCall
    <2>3. \A h \in Handler : SessionCallSound(scall[h])'
      BY <2>1 DEF SessionsInv, SessionCallSound
    <2> QED
      BY <1>0, <2>1, <2>2, <2>3 DEF SessionsInv
  <1> QED
    BY <1>1, <1>2, <1>3

\* SessionsInv holds in every reachable state.
LEMMA SessionsInvariance == SessionSpec => []SessionsInv
  <1>1. SessionInit => SessionsInv
    <2> SUFFICES ASSUME SessionInit PROVE SessionsInv
      OBVIOUS
    <2>1. LifeInv
      BY SessionAssumption, Lifetimes DEF SessionInit, LifeInv, SessionTypeOK
    <2>2. SessionIdle \in SessionCall /\ SessionCallSound(SessionIdle)
      BY DEF SessionIdle, SessionCall, SessionPc, SessionCallSound, CreatePc
    <2> QED
      BY <2>1, <2>2 DEF SessionInit, SessionsInv
  <1>2. SessionsInv /\ [SessionNext]_svars => SessionsInv'
    BY LocalStep, LifeStep, IndexStep, OtherStep DEF SessionNext, Serve
  <1> QED
    BY <1>1, <1>2, PTL DEF SessionSpec

\* Lifetimes stay within what Create, Get and Issue set, and an index key
\* exists exactly as long as it has members.
THEOREM SessionTypes == SessionSpec => []SessionTypeOK
  <1>1. SessionsInv => SessionTypeOK
    BY DEF SessionsInv, LifeInv
  <1> QED
    BY <1>1, SessionsInvariance, PTL

\* RequireAuth accepts every token that has not expired and whose session
\* nobody deleted, whatever the lifetimes and however requests interleave.
THEOREM TokenOutlived == SessionSpec => []ValidTokenAccepted
  <1>1. SessionsInv => ValidTokenAccepted
    BY Lifetimes DEF SessionsInv, LifeInv, SessionTypeOK, ValidTokenAccepted
  <1> QED
    BY <1>1, SessionsInvariance, PTL

\* Logout and RevokeSession remove only sessions of the identity whose token the
\* request carries.
THEOREM OnlyOwnSessions == SessionSpec => OwnSessionsOnly
  <1> DEFINE Removal(s) == \E h \in Handler, own \in Session :
                             /\ scall[h].pc = "delete.del" /\ scall[h].target = {s}
                             /\ scall[h].own = {own} /\ owner[own] = owner[s]
  <1>1. ASSUME SessionsInv, [SessionNext]_svars, NEW s \in ended' \ ended
        PROVE  Removal(s)
    <2>1. PICK h \in Handler : DeleteDel(h)
      BY <1>1 DEF SessionNext, Serve, LoginComplete, CreateSAdd, CreateExpire, Issue,
           RequireAuth, RequireAuthSet, OtherRoute, Logout, DeleteSRem, RevokeSession,
           RevokeSessionSet, RevokeSessionCheck, ListSessions, ListGet, ListSRem, SAbort,
           SRestart, Tick, svars
    <2>2. scall[h].pc = "delete.del" /\ s \in scall[h].target
      BY <1>1, <2>1 DEF DeleteDel
    <2>3. \E t, own \in drawn : scall[h].target = {t} /\ scall[h].own = {own}
                                /\ owner[own] = owner[t]
      BY <1>1, <2>2 DEF SessionsInv, SessionCallSound
    <2> QED
      BY <1>1, <2>2, <2>3 DEF SessionsInv, LifeInv, SessionTypeOK
  <1>2. SessionsInv /\ [SessionNext]_svars => [\A s \in ended' \ ended : Removal(s)]_svars
    BY <1>1
  <1> QED
    BY <1>2, SessionsInvariance, PTL DEF SessionSpec, OwnSessionsOnly

(***************************************************************************)
(* What a logout settles.  The logout that TLC finds undone needs a Get    *)
(* whose two commands surround the deletion: a Get that starts later does  *)
(* not find the session and writes nothing.                                *)
(***************************************************************************)

\* A Get starts on sessions that exist and deletes nothing.
LEMMA RefreshStarts ==
  ASSUME SessionsInv, NEW h \in Handler,
         LoginComplete(h) \/ RequireAuth(h) \/ Serve(h) \/ SAbort(h),
         scall'[h].pc \in {"auth.set", "revoke.set"}
  PROVE  /\ UNCHANGED ended
         /\ scall'[h].pc = "auth.set" => \A s \in scall'[h].own : s \in Session /\ life[s] > 0
         /\ scall'[h].pc = "revoke.set" => \A s \in scall'[h].target : s \in Session /\ life[s] > 0
  <1>0. scall \in [Handler -> SessionCall] /\ scall[h] \in SessionCall
    BY DEF SessionsInv
  <1>1. ASSUME SReturn(h) PROVE FALSE
    BY <1>0, <1>1 DEF SReturn, SessionIdle
  <1>2. ASSUME NEW pc, SGoto(h, pc) PROVE pc = scall'[h].pc
    BY <1>0, <1>2 DEF SGoto, SessionCall
  <1>3. CASE RequireAuth(h)
    <2>1. PICK s \in Session :
            /\ life[s] > 0
            /\ scall' = [scall EXCEPT ![h] = [SessionIdle EXCEPT !.pc = "auth.set", !.own = {s}]]
      BY <1>3 DEF RequireAuth
    <2>2. scall'[h].pc = "auth.set" /\ scall'[h].own = {s}
      BY <1>0, <2>1 DEF SessionIdle
    <2> QED
      BY <1>3, <2>1, <2>2 DEF RequireAuth
  <1>4. CASE RevokeSession(h)
    <2>1. PICK s \in Session :
            /\ life[s] > 0
            /\ scall' = [scall EXCEPT ![h].pc = "revoke.set", ![h].target = {s}]
      BY <1>4 DEF RevokeSession
    <2>2. scall'[h].pc = "revoke.set" /\ scall'[h].target = {s}
      BY <1>0, <2>1 DEF SessionCall
    <2> QED
      BY <1>4, <2>1, <2>2 DEF RevokeSession
  <1>5. ASSUME LoginComplete(h) PROVE FALSE
    <2>1. scall'[h].pc = "create.sadd"
      BY <1>0, <1>5 DEF LoginComplete, SessionIdle
    <2> QED
      BY <2>1
  <1>6. ASSUME NEW s, Delete(h, s) PROVE FALSE
    <2>1. scall'[h].pc = "delete.del"
      BY <1>0, <1>1, <1>6 DEF Delete, SessionCall
    <2> QED
      BY <2>1
  <1>7. ASSUME Logout(h) \/ RevokeSessionCheck(h) PROVE FALSE
    BY <1>1, <1>6, <1>7 DEF Logout, RevokeSessionCheck
  <1>8. ASSUME \/ CreateSAdd(h) \/ CreateExpire(h) \/ RequireAuthSet(h) \/ DeleteDel(h)
               \/ RevokeSessionSet(h) \/ ListSRem(h)
        PROVE  FALSE
    BY <1>2, <1>8
      DEF CreateSAdd, CreateExpire, RequireAuthSet, DeleteDel, RevokeSessionSet, ListSRem
  <1>9. ASSUME Issue(h) \/ OtherRoute(h) \/ DeleteSRem(h) \/ SAbort(h) PROVE FALSE
    BY <1>1, <1>9 DEF Issue, OtherRoute, DeleteSRem, SAbort
  <1>10. ASSUME ListSessions(h) PROVE FALSE
    <2>1. scall'[h].pc = "list.get"
      BY <1>0, <1>10 DEF ListSessions, SessionCall
    <2> QED
      BY <2>1
  <1>11. ASSUME ListGet(h) PROVE FALSE
    <2>1. PICK s \in scall[h].pending :
            \/ scall' = [scall EXCEPT ![h].pending = scall[h].pending \ {s}]
            \/ scall' = [scall EXCEPT ![h].pending = scall[h].pending \ {s},
                                      ![h].target = {s}, ![h].pc = "list.srem"]
      BY <1>1, <1>11, Zenon DEF ListGet
    <2>2. scall[h].pc = "list.get"
      BY <1>11 DEF ListGet
    <2>3. CASE scall' = [scall EXCEPT ![h].pending = scall[h].pending \ {s}]
      BY <1>0, <2>2, <2>3 DEF SessionCall
    <2>4. CASE scall' = [scall EXCEPT ![h].pending = scall[h].pending \ {s},
                                      ![h].target = {s}, ![h].pc = "list.srem"]
      BY <1>0, <2>4 DEF SessionCall
    <2> QED
      BY <2>1, <2>3, <2>4
  <1> QED
    BY <1>3, <1>4, <1>5, <1>7, <1>8, <1>9, <1>10, <1>11 DEF Serve

\* A step of one handler leaves the other handlers where they are.
LEMMA OthersWait ==
  ASSUME scall \in [Handler -> SessionCall], NEW h \in Handler,
         LoginComplete(h) \/ RequireAuth(h) \/ Serve(h) \/ SAbort(h)
  PROVE  \A g \in Handler \ {h} : scall'[g] = scall[g]
  <1>1. CASE \/ LoginComplete(h) \/ RequireAuth(h) \/ SAbort(h) \/ CreateSAdd(h)
             \/ CreateExpire(h) \/ Issue(h) \/ RequireAuthSet(h) \/ OtherRoute(h)
             \/ DeleteDel(h) \/ DeleteSRem(h) \/ RevokeSession(h) \/ RevokeSessionSet(h)
             \/ ListSessions(h) \/ ListSRem(h)
    BY <1>1 DEF LoginComplete, RequireAuth, SAbort, CreateSAdd, CreateExpire, Issue,
         RequireAuthSet, OtherRoute, DeleteDel, DeleteSRem, RevokeSession, RevokeSessionSet,
         ListSessions, ListSRem, SGoto, SReturn
  <1>2. CASE Logout(h) \/ RevokeSessionCheck(h)
    BY <1>2 DEF Logout, RevokeSessionCheck, Delete, SReturn
  <1>3. CASE ListGet(h)
    BY <1>3 DEF ListGet, SReturn
  <1> QED
    BY <1>1, <1>2, <1>3 DEF Serve

\* A logged out session stays so: who writes it back is a Get that LoggedOut
\* excludes, and no later Get finds it.
LEMMA LoggedOutStep ==
  ASSUME SessionsInv, [SessionNext]_svars, NEW s \in Session, LoggedOut(s)
  PROVE  LoggedOut(s)'
  <1>0. /\ life \in [Session -> 0..SessionTTL] /\ scall \in [Handler -> SessionCall]
        /\ drawn \subseteq Session /\ ended \subseteq drawn
        /\ s \in ended /\ life[s] = 0
    BY DEF SessionsInv, LifeInv, SessionTypeOK, LoggedOut
  <1>1. ASSUME NEW h \in Handler, LoginComplete(h) \/ RequireAuth(h) \/ Serve(h) \/ SAbort(h)
        PROVE  life'[s] = 0 /\ s \in ended'
    <2>1. CASE LoginComplete(h)
      BY <1>0, <2>1 DEF LoginComplete, Set
    <2>2. CASE RequireAuthSet(h)
      <3>1. /\ UNCHANGED life \/ \E t \in scall[h].own : Set(t)
            /\ s \notin scall[h].own /\ UNCHANGED ended
        BY <2>2 DEF RequireAuthSet, LoggedOut
      <3> QED
        BY <1>0, <3>1 DEF Set
    <2>3. CASE RevokeSessionSet(h)
      <3>1. /\ UNCHANGED life \/ \E t \in scall[h].target : Set(t)
            /\ s \notin scall[h].target /\ UNCHANGED ended
        BY <2>3 DEF RevokeSessionSet, LoggedOut
      <3> QED
        BY <1>0, <3>1 DEF Set
    <2>4. CASE DeleteDel(h)
      BY <1>0, <2>4 DEF DeleteDel, Del
    <2>5. CASE \/ CreateSAdd(h) \/ CreateExpire(h) \/ Issue(h) \/ OtherRoute(h) \/ Logout(h)
               \/ DeleteSRem(h) \/ RevokeSession(h) \/ RevokeSessionCheck(h)
               \/ ListSessions(h) \/ ListGet(h) \/ ListSRem(h) \/ RequireAuth(h) \/ SAbort(h)
      <3>1. UNCHANGED <<life, ended>>
        BY <2>5 DEF CreateSAdd, CreateExpire, Issue, OtherRoute, Logout, DeleteSRem,
             RevokeSession, RevokeSessionCheck, ListSessions, ListGet, ListSRem, RequireAuth,
             SAbort, redis
      <3> QED
        BY <1>0, <3>1
    <2> QED
      BY <1>1, <2>1, <2>2, <2>3, <2>4, <2>5 DEF Serve
  <1>2. ASSUME NEW h \in Handler, LoginComplete(h) \/ RequireAuth(h) \/ Serve(h) \/ SAbort(h),
               NEW g \in Handler
        PROVE  /\ scall'[g].pc = "auth.set" => s \notin scall'[g].own
               /\ scall'[g].pc = "revoke.set" => s \notin scall'[g].target
    <2>1. CASE g = h
      BY <1>0, <1>2, <2>1, RefreshStarts
    <2>2. CASE g # h
      <3>1. scall'[g] = scall[g]
        BY <1>0, <1>2, <2>2, OthersWait
      <3> QED
        BY <3>1 DEF LoggedOut
    <2> QED
      BY <2>1, <2>2
  <1>3. CASE SRestart
    <2>1. UNCHANGED <<life, ended>> /\ \A h \in Handler : scall'[h].pc = "idle"
      BY <1>3 DEF SRestart, redis, SessionIdle
    <2> QED
      BY <1>0, <2>1 DEF LoggedOut
  <1>4. CASE Tick
    <2>1. UNCHANGED <<ended, scall>> /\ life'[s] = 0
      BY <1>0, <1>4 DEF Tick, Countdown
    <2> QED
      BY <1>0, <2>1 DEF LoggedOut
  <1>5. CASE UNCHANGED svars
    BY <1>5 DEF svars, redis, LoggedOut
  <1>6. ASSUME NEW h \in Handler, LoginComplete(h) \/ RequireAuth(h) \/ Serve(h) \/ SAbort(h)
        PROVE  LoggedOut(s)'
    BY <1>1, <1>2, <1>6 DEF LoggedOut
  <1> QED
    BY <1>3, <1>4, <1>5, <1>6 DEF SessionNext

\* For any number of overlapping requests, failures and restarts: once a session is
\* deleted and every request that read it before has sent its SET, RequireAuth
\* rejects its token for good (session_handler.go:22).
THEOREM LogoutSettled == SessionSpec => LogoutSettles
  <1>1. SessionsInv /\ [SessionNext]_svars =>
          [\A s \in Session : LoggedOut(s) => LoggedOut(s)']_svars
    BY LoggedOutStep
  <1> QED
    BY <1>1, SessionsInvariance, PTL DEF SessionSpec, LogoutSettles

=============================================================================
