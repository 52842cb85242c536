---------------------------- MODULE ProcessSafety ----------------------------
(***************************************************************************)
(* The safety properties of Process for every number of clients,           *)
(* connections and database calls.                                         *)
(*                                                                         *)
(* The invariant says who has a connection (the requests at "set" and at   *)
(* "statement", each its own), who may have left a tenant on it (a request *)
(* that works in a transaction and still holds it), and which requests may *)
(* still be under way at each stage of the shutdown.                       *)
(***************************************************************************)
EXTENDS Process, FiniteSetTheorems, TLAPS

CallRecord ==
  [pc : {"none", "running", "waiting", "set", "statement"}, way : {"pool", "conn", "tx"},
   conn : Conn \cup {None}, left : Nat]

PoolTypeOK ==
  /\ call \in [Client -> CallRecord]
  /\ free \subseteq Conn
  /\ tenant \in [Conn -> Client \cup {None}]

PoolInv ==
  /\ PoolTypeOK
  /\ \A s \in Client : call[s].conn # None <=> call[s].pc \in {"set", "statement"}
  /\ \A s \in Client : call[s].conn \notin free
  /\ \A s, t \in Client : call[s].conn = call[t].conn /\ call[s].conn # None => s = t
  /\ \A c \in Conn \ free : \E s \in Client : call[s].conn = c
  /\ \A c \in Conn : tenant[c] # None => \E s \in Client : call[s].conn = c /\ call[s].way = "tx"

StopInv ==
  /\ closed <=> main \in {"close.pool", "exited"}
  /\ closed => \A s \in Grpc : call[s].pc = "none"
  /\ main \in {"stop.grpc", "close.pool", "exited"} =>
       expired \/ \A s \in Http : call[s].pc = "none"
  /\ DrainSound

\* A request that has no connection and gets none leaves the pool as it is.
LEMMA Elsewhere ==
  ASSUME PoolInv, NEW s \in Client, NEW r \in CallRecord,
         call[s].conn = None, r.conn = None, r.pc \in {"none", "running", "waiting"},
         call' = [call EXCEPT ![s] = r], UNCHANGED <<free, tenant>>
  PROVE  PoolInv'
  <1>1. /\ call' \in [Client -> CallRecord] /\ call'[s] = r
        /\ \A t \in Client \ {s} : call'[t] = call[t]
    BY DEF PoolInv, PoolTypeOK
  <1>2. \A t \in Client : call'[t].conn = call[t].conn
    BY <1>1
  <1>3. \A t \in Client : call'[t].conn # None <=> call'[t].pc \in {"set", "statement"}
    BY <1>1 DEF PoolInv
  <1>4. \A c \in Conn : \A t \in Client :
          call[t].conn = c => call'[t].conn = c /\ call'[t].way = call[t].way
    BY <1>1, ProcessAssumption
  <1> QED
    BY <1>1, <1>2, <1>3, <1>4 DEF PoolInv, PoolTypeOK

\* Acquire, set_config and the release move one connection at a time.
LEMMA ConnectionMoves ==
  ASSUME PoolInv, NEW s \in Client, Acquire(s) \/ SetTenant(s) \/ DatabaseCall(s)
  PROVE  PoolInv'
  <1>0. call \in [Client -> CallRecord] /\ call[s] \in CallRecord
    BY DEF PoolInv, PoolTypeOK
  <1>1. CASE Acquire(s)
    <2>1. PICK c \in free :
            /\ free' = free \ {c}
            /\ call' = [call EXCEPT ![s].conn = c,
                          ![s].pc = IF call[s].way = "pool" THEN "statement" ELSE "set"]
      BY <1>1 DEF Acquire
    <2>2. c \in Conn /\ c # None /\ call[s].conn = None /\ UNCHANGED tenant
      <3>1. call[s].pc = "waiting" /\ UNCHANGED tenant
        BY <1>1 DEF Acquire
      <3>2. c \in Conn /\ c # None
        BY ProcessAssumption DEF PoolInv, PoolTypeOK
      <3>3. call[s].conn = None
        BY <3>1 DEF PoolInv
      <3> QED
        BY <3>1, <3>2, <3>3
    <2>3. /\ call' \in [Client -> CallRecord]
          /\ call'[s].conn = c /\ call'[s].pc \in {"set", "statement"}
          /\ \A t \in Client \ {s} : call'[t] = call[t]
      BY <1>0, <2>1, <2>2 DEF CallRecord
    <2>4. \A t \in Client : call[t].conn # c
      BY DEF PoolInv
    <2>5. \A d \in Conn : tenant[d] # None => d # c
      BY <2>4 DEF PoolInv
    <2>6. PoolTypeOK'
      BY <2>1, <2>2, <2>3 DEF PoolInv, PoolTypeOK
    <2>7. \A t \in Client : call'[t].conn # None <=> call'[t].pc \in {"set", "statement"}
      BY <2>2, <2>3 DEF PoolInv
    <2>8. \A t \in Client : call'[t].conn \notin free'
      BY <2>1, <2>3 DEF PoolInv
    <2>9. \A t, u \in Client : call'[t].conn = call'[u].conn /\ call'[t].conn # None => t = u
      BY <2>3, <2>4 DEF PoolInv
    <2>10. \A d \in Conn \ free' : \E t \in Client : call'[t].conn = d
      <3> TAKE d \in Conn \ free'
      <3>1. CASE d = c
        BY <2>3, <3>1
      <3>2. CASE d # c
        <4>1. PICK t \in Client : call[t].conn = d
          BY <2>1, <3>2 DEF PoolInv
        <4>2. t # s
          BY <2>2, <4>1, ProcessAssumption
        <4> QED
          BY <2>3, <4>1, <4>2
      <3> QED
        BY <3>1, <3>2
    <2>11. \A d \in Conn : tenant'[d] # None =>
             \E t \in Client : call'[t].conn = d /\ call'[t].way = "tx"
      <3> SUFFICES ASSUME NEW d \in Conn, tenant[d] # None
                   PROVE  \E t \in Client : call'[t].conn = d /\ call'[t].way = "tx"
        BY <2>2
      <3>1. PICK t \in Client : call[t].conn = d /\ call[t].way = "tx"
        BY DEF PoolInv
      <3>2. t # s
        BY <2>2, <3>1, ProcessAssumption
      <3> QED
        BY <2>3, <3>1, <3>2
    <2> QED
      BY <2>6, <2>7, <2>8, <2>9, <2>10, <2>11 DEF PoolInv
  <1>2. CASE SetTenant(s)
    <2>1. /\ call' \in [Client -> CallRecord] /\ UNCHANGED free
          /\ call[s].pc = "set" /\ call'[s].pc = "statement"
          /\ \A t \in Client : /\ call'[t].conn = call[t].conn
                               /\ call'[t].way = call[t].way
                               /\ t # s => call'[t].pc = call[t].pc
      BY <1>0, <1>2 DEF SetTenant, PGoto, CallRecord
    <2>2. call[s].conn \in Conn /\ tenant \in [Conn -> Client \cup {None}]
      BY <1>0, <2>1 DEF PoolInv, PoolTypeOK, CallRecord
    <2>3. /\ tenant' \in [Conn -> Client \cup {None}]
          /\ \A c \in Conn : tenant'[c] # tenant[c] => c = call[s].conn /\ call[s].way = "tx"
      BY <1>2, <2>2 DEF SetTenant, SetConfig
    <2>4. \A c \in Conn : tenant'[c] # None =>
            \E t \in Client : call'[t].conn = c /\ call'[t].way = "tx"
      BY <2>1, <2>3 DEF PoolInv
    <2> QED
      BY <2>1, <2>3, <2>4 DEF PoolInv, PoolTypeOK
  <1>3. CASE DatabaseCall(s)
    <2> DEFINE c == call[s].conn
    <2>1. /\ call[s].pc \in {"set", "statement"}
          /\ free' = free \cup {c}
          /\ tenant' = IF call[s].way = "tx" THEN [tenant EXCEPT ![c] = None] ELSE tenant
          /\ call' = [call EXCEPT ![s].pc = "running", ![s].conn = None]
      BY <1>3 DEF DatabaseCall, Release
    <2>2. c \in Conn /\ c # None
      BY <1>0, <2>1 DEF PoolInv, CallRecord
    <2>3. /\ call' \in [Client -> CallRecord]
          /\ call'[s].conn = None /\ call'[s].pc = "running"
          /\ \A t \in Client \ {s} : call'[t] = call[t] /\ call[t].conn # c
      BY <1>0, <2>1, <2>2 DEF CallRecord, PoolInv
    <2>4. tenant \in [Conn -> Client \cup {None}] /\ free \subseteq Conn
      BY DEF PoolInv, PoolTypeOK
    <2>5. /\ tenant' \in [Conn -> Client \cup {None}] /\ tenant'[c] = None
          /\ \A d \in Conn \ {c} : tenant'[d] = tenant[d]
      <3>1. CASE call[s].way = "tx"
        BY <2>1, <2>2, <2>4, <3>1
      <3>2. CASE call[s].way # "tx"
        <4>1. tenant[c] = None
          <5> SUFFICES ASSUME tenant[c] # None PROVE FALSE
            OBVIOUS
          <5>1. PICK t \in Client : call[t].conn = c /\ call[t].way = "tx"
            BY <2>2 DEF PoolInv
          <5> QED
            BY <2>3, <3>2, <5>1
        <4> QED
          BY <2>1, <2>4, <3>2, <4>1
      <3> QED
        BY <3>1, <3>2
    <2>6. PoolTypeOK'
      BY <2>1, <2>2, <2>3, <2>4, <2>5 DEF PoolTypeOK
    <2>7. \A t \in Client : call'[t].conn # None <=> call'[t].pc \in {"set", "statement"}
      BY <2>3 DEF PoolInv
    <2>8. \A t \in Client : call'[t].conn \notin free'
      BY <2>1, <2>2, <2>3, <2>4, ProcessAssumption DEF PoolInv
    <2>9. \A t, u \in Client : call'[t].conn = call'[u].conn /\ call'[t].conn # None => t = u
      BY <2>3 DEF PoolInv
    <2>10. \A d \in Conn \ free' : \E t \in Client : call'[t].conn = d
      BY <2>1, <2>3 DEF PoolInv
    <2>11. \A d \in Conn : tenant'[d] # None =>
             \E t \in Client : call'[t].conn = d /\ call'[t].way = "tx"
      BY <2>3, <2>5 DEF PoolInv
    <2> QED
      BY <2>6, <2>7, <2>8, <2>9, <2>10, <2>11 DEF PoolInv
  <1> QED
    BY <1>1, <1>2, <1>3

\* Every step keeps the pool consistent.
LEMMA NextPool ==
  ASSUME PoolInv, [ProcessNext]_pvars
  PROVE  PoolInv'
  <1>0. call \in [Client -> CallRecord] /\ NoCall \in CallRecord
    BY DEF PoolInv, PoolTypeOK, NoCall, CallRecord
  <1>1. ASSUME NEW s \in Client,
               Request(s) \/ Ask(s) \/ Answer(s) \/ AcquireFails(s) \/ Cancelled(s)
        PROVE  PoolInv'
    <2>1. call[s].pc \in {"none", "running", "waiting"} /\ UNCHANGED <<free, tenant>>
      BY <1>1 DEF Request, Ask, Answer, AcquireFails, Cancelled
    <2>2. call[s].conn = None /\ call[s] \in CallRecord
      BY <1>0, <2>1 DEF PoolInv
    <2>3. \E r \in CallRecord : /\ r.conn = None /\ r.pc \in {"none", "running", "waiting"}
                                /\ call' = [call EXCEPT ![s] = r]
      <3>1. CASE Request(s)
        <4>1. [NoCall EXCEPT !.pc = "running", !.left = MaxCalls] \in CallRecord
          BY ProcessAssumption DEF NoCall, CallRecord
        <4> QED
          BY <3>1, <4>1 DEF Request, NoCall
      <3>2. CASE Ask(s)
        <4>1. PICK way \in {"pool", "conn", "tx"} :
                call' = [call EXCEPT ![s].pc = "waiting", ![s].way = way, ![s].left = @ - 1]
          BY <3>2 DEF Ask
        <4>2. call[s].left \in Nat /\ call[s].left > 0
          BY <2>2, <3>2 DEF Ask, CallRecord
        <4> DEFINE r == [call[s] EXCEPT !.pc = "waiting", !.way = way, !.left = @ - 1]
        <4>3. call[s].left - 1 \in Nat
          BY <4>2
        <4>4. r \in CallRecord /\ r.conn = None /\ r.pc = "waiting"
          BY <2>2, <4>3 DEF CallRecord
        <4>5. call' = [call EXCEPT ![s] = r]
          BY <1>0, <4>1
        <4> QED
          BY <4>4, <4>5
      <3>3. CASE Answer(s) \/ AcquireFails(s) \/ Cancelled(s)
        BY <1>0, <3>3 DEF Answer, AcquireFails, Cancelled, NoCall
      <3> QED
        BY <1>1, <3>1, <3>2, <3>3
    <2> QED
      BY <2>1, <2>2, <2>3, Elsewhere
  <1>2. CASE Exit
    <2>1. /\ call' = [s \in Client |-> NoCall] /\ free' = Conn /\ UNCHANGED tenant
          /\ free = Conn
      BY <1>2 DEF Exit
    <2>2. \A s \in Client : call'[s] = NoCall
      BY <2>1
    <2>3. \A c \in Conn : tenant[c] = None
      BY <2>1 DEF PoolInv
    <2>4. PoolTypeOK'
      BY <1>0, <2>1 DEF PoolInv, PoolTypeOK
    <2> QED
      BY <2>1, <2>2, <2>3, <2>4, ProcessAssumption DEF PoolInv, NoCall
  <1>3. CASE \/ Signal \/ Timeout \/ ShutdownHttp \/ GracefulStop \/ ClosePool
             \/ UNCHANGED pvars
    <2>1. UNCHANGED <<call, free, tenant>>
      BY <1>3 DEF Signal, Timeout, ShutdownHttp, GracefulStop, ClosePool, pvars
    <2> QED
      BY <2>1 DEF PoolInv, PoolTypeOK
  <1> QED
    BY <1>1, <1>2, <1>3, ConnectionMoves DEF ProcessNext, Serve, Main

\* Every step keeps the order of the shutdown.
LEMMA NextStop ==
  ASSUME PoolInv, StopInv, [ProcessNext]_pvars
  PROVE  StopInv'
  <1>0. call \in [Client -> CallRecord]
    BY DEF PoolInv, PoolTypeOK
  <1>1. ASSUME NEW s \in Client, Request(s) PROVE StopInv'
    <2>1. \A t \in Client \ {s} : call'[t] = call[t]
      BY <1>0, <1>1 DEF Request
    <2>2. UNCHANGED <<main, closed, expired, cut>> /\ Accepts(s)
      BY <1>1 DEF Request, mainVars
    <2>3. s \in Grpc => main \in {"serving", "shutdown.http"}
      BY <2>2, ProcessAssumption DEF Accepts
    <2>4. s \in Http => main = "serving"
      BY <2>2 DEF Accepts
    <2> QED
      BY <2>1, <2>2, <2>3, <2>4 DEF StopInv, DrainSound, Client
  <1>2. ASSUME NEW s \in Client, Serve(s) \/ Cancelled(s) PROVE StopInv'
    <2>1. /\ call[s].pc # "none" /\ UNCHANGED <<main, closed, expired>>
          /\ \A t \in Client \ {s} : call'[t] = call[t]
      BY <1>0, <1>2 DEF Serve, Ask, Answer, Acquire, AcquireFails, Cancelled, SetTenant,
           PGoto, DatabaseCall, Release, mainVars
    <2>2. \A t \in Client : call[t].pc = "none" => call'[t].pc = "none"
      BY <2>1
    <2>3. cut' = cut \/ (closed /\ cut' = cut \cup {s})
      BY <1>2 DEF Serve, Ask, Answer, Acquire, AcquireFails, Cancelled, SetTenant,
           DatabaseCall
    <2>4. DrainSound'
      <3>1. closed => s \in Http /\ expired
        BY <2>1 DEF StopInv, Client
      <3> QED
        BY <2>1, <2>3, <3>1 DEF StopInv, DrainSound
    <2> QED
      BY <2>1, <2>2, <2>4 DEF StopInv, Client
  <1>3. CASE Signal \/ Timeout \/ ShutdownHttp \/ UNCHANGED pvars
    BY <1>3 DEF Signal, Timeout, ShutdownHttp, pvars, StopInv, DrainSound
  <1>4. CASE GracefulStop
    BY <1>4 DEF GracefulStop, UnderWay, StopInv, DrainSound
  <1>5. CASE ClosePool
    BY <1>5 DEF ClosePool, UnderWay, StopInv, DrainSound
  <1>6. CASE Exit
    <2>1. /\ main = "close.pool" /\ main' = "exited" /\ UNCHANGED <<expired, closed>>
          /\ cut' = cut \cup UnderWay(Client)
          /\ \A s \in Client : call'[s].pc = "none"
      BY <1>6 DEF Exit, NoCall
    <2>2. UnderWay(Client) \subseteq Http /\ (UnderWay(Client) # {} => expired)
      BY <2>1 DEF StopInv, UnderWay, Client
    <2> QED
      BY <2>1, <2>2 DEF StopInv, DrainSound, Client
  <1> QED
    BY <1>1, <1>2, <1>3, <1>4, <1>5, <1>6 DEF ProcessNext, Main

LEMMA ProcessInvariance == ProcessSpec => [](PoolInv /\ StopInv)
  <1>1. ProcessInit => PoolInv /\ StopInv
    <2> SUFFICES ASSUME ProcessInit PROVE PoolInv /\ StopInv
      OBVIOUS
    <2>1. /\ \A s \in Client : call[s] = NoCall
          /\ \A c \in Conn : tenant[c] = None
      BY DEF ProcessInit
    <2>2. PoolTypeOK
      BY DEF ProcessInit, PoolTypeOK, NoCall, CallRecord
    <2>3. PoolInv
      BY <2>1, <2>2, ProcessAssumption DEF ProcessInit, PoolInv, NoCall
    <2>4. StopInv
      BY DEF ProcessInit, StopInv, DrainSound
    <2> QED
      BY <2>3, <2>4
  <1>2. PoolInv /\ StopInv /\ [ProcessNext]_pvars => (PoolInv /\ StopInv)'
    BY NextPool, NextStop
  <1> QED
    BY <1>1, <1>2, PTL DEF ProcessSpec

\* withTenantConn, withTenantTx and the statements on the pool give every
\* connection back, and never share one, on every path of every request.
THEOREM ConnectionsReturned == ProcessSpec => []ConnectionsAccounted
  <1>1. PoolInv => ConnectionsAccounted
    <2> SUFFICES ASSUME PoolInv, NEW c \in Conn
                 PROVE  IF c \in free THEN Holders(c) = {} ELSE Cardinality(Holders(c)) = 1
      BY DEF ConnectionsAccounted
    <2>1. CASE c \in free
      BY <2>1 DEF PoolInv, Holders
    <2>2. CASE c \notin free
      <3>1. PICK s \in Client : call[s].conn = c
        BY <2>2 DEF PoolInv
      <3>2. Holders(c) = {s}
        BY <3>1, ProcessAssumption DEF PoolInv, Holders
      <3> QED
        BY <2>2, <3>2, FS_Singleton
    <2> QED
      BY <2>1, <2>2
  <1> QED
    BY <1>1, ProcessInvariance, PTL

\* A tenant set inside a transaction never stays on a connection of the pool.
THEOREM PoolClean == ProcessSpec => []IdleConnectionClean
  <1>1. PoolInv => IdleConnectionClean
    BY DEF PoolInv, PoolTypeOK, IdleConnectionClean
  <1> QED
    BY <1>1, ProcessInvariance, PTL

\* The order in which main stops the servers and closes the pool loses no gRPC
\* request, and a gateway request only after the 30 seconds.
THEOREM ShutdownDrains == ProcessSpec => []DrainSound
  <1>1. StopInv => DrainSound
    BY DEF StopInv
  <1> QED
    BY <1>1, ProcessInvariance, PTL

=============================================================================
