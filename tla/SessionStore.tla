---------------------------- MODULE SessionStore ----------------------------
(***************************************************************************)
(* Sessions in Redis (internal/store/session.go) with the HTTP handlers    *)
(* that use them: login, RequireAuth, logout, list and revoke, one action  *)
(* per Redis command.  A go-redis Pipeline sends several commands at once  *)
(* but is no transaction: commands of other clients come in between, and a *)
(* broken connection leaves a prefix executed.                             *)
(*                                                                         *)
(* Time advances in ticks; what expires is a countdown, 0 for a Redis key  *)
(* that does not exist and for a token that is not accepted.  A login      *)
(* issues one token per session and no operation renews a token.  DeleteAll*)
(* has no caller and is left out.                                          *)
(***************************************************************************)
EXTENDS Naturals

CONSTANTS
  Handler,      \* goroutines serving HTTP requests
  Session,      \* session ids logins draw, each used once
  Identity,     \* identities that log in
  Owners,       \* ways in which logins of identities draw these ids
  SessionTTL,   \* NewSessionStore's ttl (24 hours), in ticks
  TokenTTL,     \* TokenConfig.TTL (1 hour), in ticks
  MaxDelay      \* how many ticks the commands of one login may take

ASSUME SessionAssumption ==
  /\ Owners \subseteq [Session -> Identity]
  /\ SessionTTL \in Nat /\ TokenTTL \in Nat \ {0} /\ MaxDelay \in Nat
  /\ MaxDelay + TokenTTL < SessionTTL

VARIABLES
  owner,       \* SessionData.IdentityID, settled before the login draws the id
  life,        \* session:{id}: ticks until it expires
  index,       \* sessions:identity:{id}: the set stored there
  indexLife,   \* its ticks until it expires, or Forever
  token,       \* ticks until the session's token expires
  drawn,       \* session ids in use or used before
  ended,       \* sessions some Delete has removed (only properties read it)
  scall        \* per handler: where it is, session of its token, its target, ids to visit

redis == <<owner, life, index, indexLife>>
svars == <<redis, token, drawn, ended, scall>>

Forever == SessionTTL + 1

SessionIdle == [pc |-> "idle", own |-> {}, target |-> {}, pending |-> {}]

SGoto(h, pc) == scall' = [scall EXCEPT ![h].pc = pc]

SReturn(h) == scall' = [scall EXCEPT ![h] = SessionIdle]

Countdown(n) == IF n = 0 THEN 0 ELSE n - 1

(***************************************************************************)
(* The Redis commands.  A set that loses its last member is a key that no  *)
(* longer exists; SADD on no key makes one without expiry; EXPIRE on no    *)
(* key does nothing.                                                       *)
(***************************************************************************)
\* Mutant: a refresh adds the ttl to the time that is left.
SetAdded(s) == life' = [life EXCEPT ![s] = @ + SessionTTL]

Set(s) == life' = [life EXCEPT ![s] = SessionTTL]

Del(s) == life' = [life EXCEPT ![s] = 0]

SAdd(i, s) ==
  /\ index' = [index EXCEPT ![i] = @ \cup {s}]
  /\ indexLife' = [indexLife EXCEPT ![i] = IF index[i] = {} THEN Forever ELSE @]

Expire(i) ==
  indexLife' = [indexLife EXCEPT ![i] = IF index[i] = {} THEN 0 ELSE SessionTTL]

SRem(i, s) ==
  /\ index' = [index EXCEPT ![i] = @ \ {s}]
  /\ indexLife' = [indexLife EXCEPT ![i] = IF index[i] \ {s} = {} THEN 0 ELSE @]

(***************************************************************************)
(* The session part of LoginComplete and RegisterComplete.                 *)
(***************************************************************************)
LoginComplete(h) ==
  /\ scall[h].pc = "idle"
  /\ \E s \in Session \ drawn :
       /\ drawn' = drawn \cup {s}
       /\ Set(s)
       /\ scall' = [scall EXCEPT ![h] =
                      [SessionIdle EXCEPT !.pc = "create.sadd", !.own = {s}]]
  /\ UNCHANGED <<owner, index, indexLife, token, ended>>

CreateSAdd(h) ==
  /\ scall[h].pc = "create.sadd"
  /\ \E s \in scall[h].own : SAdd(owner[s], s)
  /\ SGoto(h, "create.expire")
  /\ UNCHANGED <<owner, life, token, drawn, ended>>

CreateExpire(h) ==
  /\ scall[h].pc = "create.expire"
  /\ \E s \in scall[h].own : Expire(owner[s])
  /\ SGoto(h, "issue")
  /\ UNCHANGED <<owner, life, index, token, drawn, ended>>

Issue(h) ==
  /\ scall[h].pc = "issue"
  /\ \E s \in scall[h].own : token' = [token EXCEPT ![s] = TokenTTL]
  /\ SReturn(h)
  /\ UNCHANGED <<redis, drawn, ended>>

(***************************************************************************)
(* RequireAuth: verify the token, then SessionStore.Get: GET and, on its   *)
(* own, a SET that restarts the expiry and whose failure is ignored.       *)
(***************************************************************************)
\* Mutant: the expiry of the token is not looked at.
VerifyAny(s) == s \in drawn

Verify(s) == token[s] > 0

\* Mutant: redis.Nil from GET is taken for a session without data.
RequireAuthUnread(h) ==
  /\ scall[h].pc = "idle"
  /\ \E s \in Session :
       /\ Verify(s)
       /\ scall' = [scall EXCEPT ![h] =
                      [SessionIdle EXCEPT !.pc = "auth.set", !.own = {s}]]
  /\ UNCHANGED <<redis, token, drawn, ended>>

RequireAuth(h) ==
  /\ scall[h].pc = "idle"
  /\ \E s \in Session :
       /\ Verify(s)
       /\ life[s] > 0
       /\ scall' = [scall EXCEPT ![h] =
                      [SessionIdle EXCEPT !.pc = "auth.set", !.own = {s}]]
  /\ UNCHANGED <<redis, token, drawn, ended>>

RequireAuthSet(h) ==
  /\ scall[h].pc = "auth.set"
  /\ \/ \E s \in scall[h].own : Set(s)
     \/ UNCHANGED life
  /\ SGoto(h, "route")
  /\ UNCHANGED <<owner, index, indexLife, token, drawn, ended>>

\* Any protected handler that leaves the sessions alone.
OtherRoute(h) ==
  /\ scall[h].pc = "route"
  /\ SReturn(h)
  /\ UNCHANGED <<redis, token, drawn, ended>>

(***************************************************************************)
(* SessionStore.Delete of a target: GET, then DEL and SREM in a pipeline.  *)
(* Without the session it does nothing.                                    *)
(***************************************************************************)
Delete(h, s) ==
  \/ /\ life[s] > 0
     /\ scall' = [scall EXCEPT ![h].pc = "delete.del", ![h].target = {s}]
  \/ life[s] = 0 /\ SReturn(h)

DeleteDel(h) ==
  /\ scall[h].pc = "delete.del"
  /\ \E s \in scall[h].target : Del(s) /\ ended' = ended \cup {s}
  /\ SGoto(h, "delete.srem")
  /\ UNCHANGED <<owner, index, indexLife, token, drawn>>

DeleteSRem(h) ==
  /\ scall[h].pc = "delete.srem"
  /\ \E s \in scall[h].target : SRem(owner[s], s)
  /\ SReturn(h)
  /\ UNCHANGED <<owner, life, token, drawn, ended>>

Logout(h) ==
  /\ scall[h].pc = "route"
  /\ \E s \in scall[h].own : Delete(h, s)
  /\ UNCHANGED <<redis, token, drawn, ended>>

\* RevokeSession reads the target with Get, which restarts its expiry, and goes
\* on to Delete when the target belongs to the caller.
RevokeSession(h) ==
  /\ scall[h].pc = "route"
  /\ \E s \in Session :
       /\ life[s] > 0
       /\ scall' = [scall EXCEPT ![h].pc = "revoke.set", ![h].target = {s}]
  /\ UNCHANGED <<redis, token, drawn, ended>>

\* Mutant: the target is read with GETDEL, as a challenge is, before its owner
\* is known.
RevokeSessionTake(h) ==
  /\ scall[h].pc = "revoke.set"
  /\ \E s \in scall[h].target : Del(s)
  /\ SGoto(h, "revoke.check")
  /\ UNCHANGED <<owner, index, indexLife, token, drawn, ended>>

RevokeSessionSet(h) ==
  /\ scall[h].pc = "revoke.set"
  /\ \/ \E s \in scall[h].target : Set(s)
     \/ UNCHANGED life
  /\ SGoto(h, "revoke.check")
  /\ UNCHANGED <<owner, index, indexLife, token, drawn, ended>>

\* Mutant: the owner is not compared.
RevokeAny(h) ==
  /\ scall[h].pc = "revoke.check"
  /\ \E s \in scall[h].target : Delete(h, s)
  /\ UNCHANGED <<redis, token, drawn, ended>>

RevokeSessionCheck(h) ==
  /\ scall[h].pc = "revoke.check"
  /\ \E s \in scall[h].target, own \in scall[h].own :
       \/ owner[s] = owner[own] /\ Delete(h, s)
       \/ owner[s] # owner[own] /\ SReturn(h)
  /\ UNCHANGED <<redis, token, drawn, ended>>

(***************************************************************************)
(* ListByIdentity: SMEMBERS, then a GET per id; an id without a session is *)
(* removed from the index.                                                 *)
(***************************************************************************)
ListSessions(h) ==
  /\ scall[h].pc = "route"
  /\ \E s \in scall[h].own :
       scall' = [scall EXCEPT ![h].pc = "list.get", ![h].pending = index[owner[s]]]
  /\ UNCHANGED <<redis, token, drawn, ended>>

ListGet(h) ==
  /\ scall[h].pc = "list.get"
  /\ \/ \E s \in scall[h].pending :
          IF life[s] > 0
            THEN scall' = [scall EXCEPT ![h].pending = @ \ {s}]
            ELSE scall' = [scall EXCEPT ![h].pending = @ \ {s}, ![h].target = {s},
                                        ![h].pc = "list.srem"]
     \/ scall[h].pending = {} /\ SReturn(h)
  /\ UNCHANGED <<redis, token, drawn, ended>>

\* The id is removed from the index that was listed.
ListSRem(h) ==
  /\ scall[h].pc = "list.srem"
  /\ \E s \in scall[h].target, own \in scall[h].own : SRem(owner[own], s)
  /\ SGoto(h, "list.get")
  /\ UNCHANGED <<owner, life, token, drawn, ended>>

\* A command fails, or the caller's context ends.
SAbort(h) ==
  /\ scall[h].pc # "idle"
  /\ SReturn(h)
  /\ UNCHANGED <<redis, token, drawn, ended>>

\* The server process starts again with a new token signing key.
SRestart ==
  /\ token' = [s \in Session |-> 0]
  /\ scall' = [h \in Handler |-> SessionIdle]
  /\ UNCHANGED <<redis, drawn, ended>>

CreatePc == {"create.sadd", "create.expire", "issue"}

Tick ==
  /\ \A h \in Handler : scall[h].pc \in CreatePc =>
       \A s \in scall[h].own : life[s] > SessionTTL - MaxDelay
  /\ life' = [s \in Session |-> Countdown(life[s])]
  /\ token' = [s \in Session |-> Countdown(token[s])]
  /\ index' = [i \in Identity |-> IF indexLife[i] = 1 THEN {} ELSE index[i]]
  /\ indexLife' = [i \in Identity |-> IF indexLife[i] = Forever THEN Forever
                                      ELSE Countdown(indexLife[i])]
  /\ UNCHANGED <<owner, drawn, ended, scall>>

SessionInit ==
  /\ owner \in Owners
  /\ life = [s \in Session |-> 0]
  /\ index = [i \in Identity |-> {}]
  /\ indexLife = [i \in Identity |-> 0]
  /\ token = [s \in Session |-> 0]
  /\ drawn = {}
  /\ ended = {}
  /\ scall = [h \in Handler |-> SessionIdle]

\* What a handler does once a request is under way.
Serve(h) ==
  \/ CreateSAdd(h) \/ CreateExpire(h) \/ Issue(h)
  \/ RequireAuthSet(h) \/ OtherRoute(h)
  \/ Logout(h) \/ DeleteDel(h) \/ DeleteSRem(h)
  \/ RevokeSession(h) \/ RevokeSessionSet(h) \/ RevokeSessionCheck(h)
  \/ ListSessions(h) \/ ListGet(h) \/ ListSRem(h)

SessionNext ==
  \/ \E h \in Handler : LoginComplete(h) \/ RequireAuth(h) \/ Serve(h) \/ SAbort(h)
  \/ SRestart
  \/ Tick

\* Time passes, and a request under way gets an answer to its commands (an
\* error and a time-out are answers).  Nobody has to send requests.
SessionSpec ==
  /\ SessionInit
  /\ [][SessionNext]_svars
  /\ WF_svars(Tick)
  /\ \A h \in Handler : WF_svars(Serve(h))

(***************************************************************************)
(* Properties.                                                             *)
(***************************************************************************)
\* Lifetimes stay within what Create, Get and Issue set, and the key of an index
\* is there exactly when it has members, with or without an expiry.
SessionTypeOK ==
  /\ owner \in [Session -> Identity]
  /\ life \in [Session -> 0..SessionTTL]
  /\ token \in [Session -> 0..TokenTTL]
  /\ index \in [Identity -> SUBSET Session]
  /\ indexLife \in [Identity -> 0..Forever]
  /\ \A i \in Identity : index[i] = {} <=> indexLife[i] = 0
  /\ drawn \subseteq Session /\ ended \subseteq drawn

\* A token that has not expired is accepted by RequireAuth as long as nobody
\* deleted its session: the session outlives the token whatever the order of
\* refreshes, lists, failed logins and ticks.
ValidTokenAccepted ==
  \A s \in Session : token[s] > 0 /\ s \notin ended => life[s] > 0

\* A session is removed only by a request that carries a token of the same
\* identity ("Identity can only revoke their own sessions", RevokeSession).
OwnSessionsOnly ==
  [][\A s \in ended' \ ended :
       \E h \in Handler, own \in Session :
         /\ scall[h].pc = "delete.del" /\ scall[h].target = {s}
         /\ scall[h].own = {own} /\ owner[own] = owner[s]]_svars

\* Every session is gone for good at some point: refreshes, also those by
\* RevokeSession and those that bring a session back, end with the last token.
SessionsEnd == \A s \in Session : <>[](life[s] = 0)

\* session_handler.go:22: after a logout RequireAuth rejects the token because
\* the session no longer exists.
LogoutIsFinal == \A s \in ended : life[s] = 0

\* The session was deleted, and no request that read it before has yet to write
\* it back.
LoggedOut(s) ==
  /\ s \in ended /\ life[s] = 0
  /\ \A h \in Handler :
       /\ scall[h].pc = "auth.set" => s \notin scall[h].own
       /\ scall[h].pc = "revoke.set" => s \notin scall[h].target

\* What holds instead, any number of requests overlapping: a logout or revocation
\* can be undone only by a request that read the session before it, and once the
\* last such request has sent its SET the session is gone for good.
LogoutSettles == [][\A s \in Session : LoggedOut(s) => LoggedOut(s)']_svars

=============================================================================
