------------------------------ MODULE Process ------------------------------
(***************************************************************************)
(* One server process: the end of main (cmd/verion/main.go), which serves  *)
(* until a signal and then shuts down, and the pool of database            *)
(* connections (internal/identity/postgres/db.go) all requests share.      *)
(* What a request does is here only the database calls it makes, one after *)
(* the other, in one of three ways: a statement on the pool, withTenantConn*)
(* or withTenantTx.                                                        *)
(*                                                                         *)
(* net/http's Shutdown, grpc's GracefulStop and pgxpool are modelled from  *)
(* how main and db.go use them: both servers refuse new requests from then *)
(* on and wait for those under way, Shutdown no longer than its context    *)
(* lives; the pool hands connections out in the order they were asked for, *)
(* and Close makes every later Acquire fail and waits for the connections  *)
(* that are out.                                                           *)
(***************************************************************************)
EXTENDS Naturals, FiniteSets, Sequences, SequencesExt

CONSTANTS
  Http,       \* clients of the gateway, each with at most one request under way
  Grpc,       \* clients of the gRPC server, likewise
  Conn,       \* the connections of the pool (MaxOpenConns of them)
  MaxCalls,   \* bound on the database calls of one request
  None

ASSUME ProcessAssumption ==
  /\ Http \cap Grpc = {}
  /\ Conn # {}
  /\ MaxCalls \in Nat
  /\ None \notin Http \cup Grpc \cup Conn

Client == Http \cup Grpc

VARIABLES
  main,      \* where the main goroutine is
  quit,      \* signals waiting in the channel quit, which holds one
  gateway,   \* the gateway listens; it may have failed to, which is only logged
  expired,   \* the 30 seconds of shutCtx are over
  call,      \* per client: where its request is
  queue,     \* requests waiting in Acquire
  free,      \* connections in the pool
  tenant,    \* app.current_tenant_id of each connection's session: a client,
             \* standing for the tenant it works for, or None
  closed,    \* the pool has been closed
  cut        \* clients whose request failed or was lost by the shutdown

pvars == <<main, quit, gateway, expired, call, queue, free, tenant, closed, cut>>

mainVars == <<main, quit, gateway, expired>>

NoCall == [pc |-> "none", way |-> "pool", conn |-> None, left |-> 0]

UnderWay(clients) == {s \in clients : call[s].pc # "none"}

PGoto(s, pc) == call' = [call EXCEPT ![s].pc = pc]

(***************************************************************************)
(* Requests.                                                               *)
(***************************************************************************)
\* Mutant: the gRPC server goes on accepting while it stops.
AcceptsStopping(s) ==
  IF s \in Http THEN gateway /\ main = "serving"
                ELSE main \in {"serving", "shutdown.http", "stop.grpc"}

Accepts(s) ==
  IF s \in Http THEN gateway /\ main = "serving"
                ELSE main \in {"serving", "shutdown.http"}

Request(s) ==
  /\ call[s].pc = "none"
  /\ Accepts(s)
  /\ call' = [call EXCEPT ![s] = [NoCall EXCEPT !.pc = "running", !.left = MaxCalls]]
  /\ UNCHANGED <<mainVars, queue, free, tenant, closed, cut>>

\* The next database call of the request.
Ask(s) ==
  /\ call[s].pc = "running"
  /\ call[s].left > 0
  /\ \E way \in {"pool", "conn", "tx"} :
       call' = [call EXCEPT ![s].pc = "waiting", ![s].way = way, ![s].left = @ - 1]
  /\ queue' = Append(queue, s)
  /\ UNCHANGED <<mainVars, free, tenant, closed, cut>>

\* The request is answered and its handler returns.
Answer(s) ==
  /\ call[s].pc = "running"
  /\ call' = [call EXCEPT ![s] = NoCall]
  /\ UNCHANGED <<mainVars, queue, free, tenant, closed, cut>>

Acquire(s) ==
  /\ call[s].pc = "waiting"
  /\ ~closed
  /\ queue # <<>> /\ Head(queue) = s
  /\ \E c \in free :
       /\ free' = free \ {c}
       /\ call' = [call EXCEPT ![s].conn = c,
                               ![s].pc = IF call[s].way = "pool" THEN "statement" ELSE "set"]
  /\ queue' = Tail(queue)
  /\ UNCHANGED <<mainVars, tenant, closed, cut>>

\* The pool is closed: the request ends with an error.
AcquireFails(s) ==
  /\ call[s].pc = "waiting"
  /\ closed
  /\ call' = [call EXCEPT ![s] = NoCall]
  /\ queue' = Remove(queue, s)
  /\ cut' = cut \cup {s}
  /\ UNCHANGED <<mainVars, free, tenant, closed>>

\* The caller goes away, and with it the context Acquire waits under.
Cancelled(s) ==
  /\ call[s].pc = "waiting"
  /\ call' = [call EXCEPT ![s] = NoCall]
  /\ queue' = Remove(queue, s)
  /\ UNCHANGED <<mainVars, free, tenant, closed, cut>>

\* Mutant: set_config for the session instead of the transaction.
SetConfigSession(c, s, inTx) == tenant' = [tenant EXCEPT ![c] = s]

\* set_config(..., true) lasts until the transaction ends: outside an explicit
\* one, until the end of that very statement.
SetConfig(c, s, inTx) ==
  tenant' = IF inTx THEN [tenant EXCEPT ![c] = s] ELSE tenant

SetTenant(s) ==
  /\ call[s].pc = "set"
  /\ SetConfig(call[s].conn, s, call[s].way = "tx")
  /\ PGoto(s, "statement")
  /\ UNCHANGED <<mainVars, queue, free, closed, cut>>

\* Mutant: an error of set_config returns without releasing the connection.
ReleaseOnSuccess(s) ==
  /\ free' = IF call[s].pc = "set" THEN free ELSE free \cup {call[s].conn}
  /\ tenant' = IF call[s].way = "tx" THEN [tenant EXCEPT ![call[s].conn] = None] ELSE tenant
  /\ call' = [call EXCEPT ![s].pc = "running", ![s].conn = None]

\* Commit or rollback, if there is a transaction, and the deferred Release.
Release(s) ==
  /\ free' = free \cup {call[s].conn}
  /\ tenant' = IF call[s].way = "tx" THEN [tenant EXCEPT ![call[s].conn] = None] ELSE tenant
  /\ call' = [call EXCEPT ![s].pc = "running", ![s].conn = None]

\* Mutant: the function given to withTenantTx makes a call on the pool itself.
DatabaseCallNested(s) ==
  /\ call[s].pc \in {"set", "statement"}
  /\ call[s].way = "tx" => free # {}
  /\ Release(s)
  /\ UNCHANGED <<mainVars, queue, closed, cut>>

\* The statement has been answered, or an earlier one has failed.
DatabaseCall(s) ==
  /\ call[s].pc \in {"set", "statement"}
  /\ Release(s)
  /\ UNCHANGED <<mainVars, queue, closed, cut>>

Serve(s) ==
  \/ Ask(s) \/ Answer(s) \/ Acquire(s) \/ AcquireFails(s)
  \/ SetTenant(s) \/ DatabaseCall(s)

(***************************************************************************)
(* main, from <-quit on.                                                   *)
(***************************************************************************)
\* signal.Notify does not block: a signal that finds the channel full is lost.
Signal ==
  /\ main # "exited"
  /\ quit = 0
  /\ quit' = 1
  /\ UNCHANGED <<main, gateway, expired, call, queue, free, tenant, closed, cut>>

ShutdownHttp ==
  /\ main = "serving"
  /\ quit = 1
  /\ quit' = 0
  /\ main' = "shutdown.http"
  /\ UNCHANGED <<gateway, expired, call, queue, free, tenant, closed, cut>>

Timeout ==
  /\ main = "shutdown.http"
  /\ ~expired
  /\ expired' = TRUE
  /\ UNCHANGED <<main, quit, gateway, call, queue, free, tenant, closed, cut>>

\* Shutdown returns; its error is only logged.
GracefulStop ==
  /\ main = "shutdown.http"
  /\ UnderWay(Http) = {} \/ expired
  /\ main' = "stop.grpc"
  /\ UNCHANGED <<quit, gateway, expired, call, queue, free, tenant, closed, cut>>

\* Mutant: Stop instead of GracefulStop.
ClosePoolStop ==
  /\ main = "stop.grpc"
  /\ main' = "close.pool"
  /\ closed' = TRUE
  /\ UNCHANGED <<quit, gateway, expired, call, queue, free, tenant, cut>>

\* GracefulStop returns and db.Close begins.
ClosePool ==
  /\ main = "stop.grpc"
  /\ UnderWay(Grpc) = {}
  /\ main' = "close.pool"
  /\ closed' = TRUE
  /\ UNCHANGED <<quit, gateway, expired, call, queue, free, tenant, cut>>

\* db.Close returns; main returns, with it the deferred closing of Redis, and
\* the process ends with whatever it was still doing.
Exit ==
  /\ main = "close.pool"
  /\ free = Conn
  /\ main' = "exited"
  /\ cut' = cut \cup UnderWay(Client)
  /\ call' = [s \in Client |-> NoCall]
  /\ queue' = <<>>
  /\ UNCHANGED <<quit, gateway, expired, free, tenant, closed>>

Main == ShutdownHttp \/ GracefulStop \/ ClosePool \/ Exit

ProcessInit ==
  /\ main = "serving" /\ quit = 0 /\ gateway \in BOOLEAN /\ expired = FALSE
  /\ call = [s \in Client |-> NoCall]
  /\ queue = <<>>
  /\ free = Conn
  /\ tenant = [c \in Conn |-> None]
  /\ closed = FALSE
  /\ cut = {}

ProcessNext ==
  \/ \E s \in Client : Request(s) \/ Serve(s) \/ Cancelled(s)
  \/ Signal
  \/ Timeout
  \/ Main

\* The main goroutine and the timer run, and every request under way goes on:
\* the database answers each statement sooner or later, be it with an error.
\* Nobody has to send requests or a signal.
ProcessSpec ==
  /\ ProcessInit
  /\ [][ProcessNext]_pvars
  /\ WF_pvars(Main)
  /\ WF_pvars(Timeout)
  /\ \A s \in Client : WF_pvars(Serve(s))

(***************************************************************************)
(* Properties.                                                             *)
(***************************************************************************)
Holders(c) == {s \in Client : call[s].conn = c}

\* Every connection is either in the pool or out with exactly one request, at
\* every point of every database call: withTenantConn and withTenantTx return
\* it on every path.
ConnectionsAccounted ==
  \A c \in Conn : IF c \in free THEN Holders(c) = {} ELSE Cardinality(Holders(c)) = 1

\* A connection in the pool carries no tenant: a statement that does not set
\* one itself never runs under the tenant of the request before it.
IdleConnectionClean == \A c \in free : tenant[c] = None

\* The shutdown never makes a gRPC request fail or disappear, and a gateway
\* request only when the 30 seconds were over: the pool is closed and the
\* process ends only after the requests that may still need them.
DrainSound == cut \subseteq Http /\ (cut # {} => expired)

\* After a signal the process ends, although gRPC clients keep sending requests
\* while the gateway drains and GracefulStop has no time limit.
ShutdownEnds == (main = "serving" /\ quit = 1) ~> (main = "exited")

\* Every request under way ends: however many wait for the connections, nobody
\* holds one while waiting for another.
RequestsEnd == \A s \in Client : (call[s].pc # "none") ~> (call[s].pc = "none")

=============================================================================
