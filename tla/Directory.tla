------------------------------ MODULE Directory ------------------------------
(***************************************************************************)
(* The identities of one tenant as callers of the API see them: creating   *)
(* them over either transport and listing them page by page, while other   *)
(* requests are served.                                                    *)
(*                                                                         *)
(* CreateIdentity is followed through the statements on tenants and        *)
(* identities and its last event; the key it makes in between is left to   *)
(* module IdentityService.  The insert takes its created_at when its       *)
(* transaction begins and becomes visible when it commits, so rows do not  *)
(* become visible in the order of created_at, and several may share one.   *)
(* Updates of other columns change nothing a listing selects or orders by. *)
(***************************************************************************)
EXTENDS Transport, Naturals, FiniteSets, Functions

CONSTANTS
  Creator,       \* goroutines, each serving a call of CreateIdentity
  Lister,        \* callers, each listing once
  Handle,        \* handles callers ask for; the empty one is ""
  AskedType,     \* identity types gRPC and HTTP callers ask for
  PageSize,      \* page sizes gRPC callers ask for, 0 for everything
  HttpLimit,     \* the limit of the HTTP handler (50)
  AskedStatus,   \* statuses gRPC callers filter by; "" for all
  MaxDepartures  \* bound on the rows that leave a listing's filter

ASSUME DirectoryAssumption ==
  /\ PageSize \subseteq Nat /\ HttpLimit \in Nat \ {0} /\ MaxDepartures \in Nat
  /\ AskedStatus \subseteq {"", "pending", "active", "suspended", "deactivated"}

VARIABLES
  rows,       \* identities: set of rows, each with the creator as its id
  now,        \* the microsecond the clock shows
  creation,   \* per creator: its call, or its last answer
  listing     \* per lister: its listing so far

dvars == <<rows, now, creation, listing>>

NoCreation ==
  [pc |-> "idle", surface |-> "grpc", asked |-> "", handle |-> "", at |-> 0,
   cause |-> "none", answer |-> "none"]

NoListing ==
  [pc |-> "idle", surface |-> "grpc", type |-> "", status |-> "", limit |-> 0, offset |-> 0,
   seen |-> {}, due |-> {}, departed |-> 0]

\* The end of a call; only what the answer is about is kept.
AnswerWith(h, cause, grpcCode, httpStatus) ==
  creation' = [creation EXCEPT ![h] =
    [NoCreation EXCEPT
       !.pc = "answered", !.handle = creation[h].handle, !.cause = cause,
       !.answer = IF creation[h].surface = "grpc" THEN grpcCode ELSE httpStatus]]

AnswerError(h, cause, err) == AnswerWith(h, cause, toGRPCError(err), writeServiceError(err))

(***************************************************************************)
(* CreateIdentity and handleCreateIdentity.                                *)
(***************************************************************************)
DomainType(surface, asked) ==
  IF surface = "grpc" THEN identityTypeFromProto(asked) ELSE asked

\* The request, and validateCreateIdentityInput.
CreateIdentity(h) ==
  /\ creation[h].pc = "idle"
  /\ \E surface \in Surface, handle \in Handle \cup {""}, asked \in AskedType :
       /\ surface = "grpc" => asked \in ProtoType
       /\ surface = "http" => asked \notin ProtoType
       /\ creation' = [creation EXCEPT ![h] =
            [pc |-> IF handle = "" THEN "invalid" ELSE "tenant",
             surface |-> surface, asked |-> asked, handle |-> handle, at |-> 0,
             cause |-> "none", answer |-> "none"]]
  /\ UNCHANGED <<rows, now, listing>>

CreateIdentityInvalid(h) ==
  /\ creation[h].pc = "invalid"
  /\ AnswerError(h, "input", ValidationError)
  /\ UNCHANGED <<rows, now, listing>>

\* Tenants.GetByID and the check of its status: the tenant the request names may
\* not exist, and other requests may have changed its status at any time.
CreateIdentityTenant(h) ==
  /\ creation[h].pc = "tenant"
  /\ \/ AnswerError(h, "no tenant", wrapRepoError(NotFoundError))
     \/ AnswerError(h, "inactive", {"ErrTenantInactive"})
     \/ creation' = [creation EXCEPT ![h].pc = "begin"]
  /\ UNCHANGED <<rows, now, listing>>

CreateIdentityBegin(h) ==
  /\ creation[h].pc = "begin"
  /\ now' \in {now, now + 1}
  /\ creation' = [creation EXCEPT ![h].pc = "insert", ![h].at = now']
  /\ UNCHANGED <<rows, listing>>

Row(h, c) ==
  [id |-> h, at |-> c.at, handle |-> c.handle, status |-> "pending",
   type |-> DomainType(c.surface, c.asked), asked |-> c.asked]

\* Insert and commit.  An insert of a handle another open transaction has
\* inserted waits for that transaction's end.  A type that is not one of the
\* column's is refused by the database.
CreateIdentityInsert(h) ==
  /\ creation[h].pc = "insert"
  /\ LET row == Row(h, creation[h])
         free == \A r \in rows : r.handle # row.handle
     IN  \/ /\ row.type \notin IdentityType
            /\ AnswerError(h, "refused", wrapRepoError(DriverError))
            /\ UNCHANGED rows
         \/ /\ row.type \in IdentityType /\ ~free
            /\ AnswerError(h, "taken", wrapRepoError({"ErrHandleTaken"}))
            /\ UNCHANGED rows
         \/ /\ row.type \in IdentityType /\ free
            /\ rows' = rows \cup {row}
            /\ creation' = [creation EXCEPT ![h].pc = "activate"]
  /\ UNCHANGED <<now, listing>>

Matches(r, l) == (l.type # "" => r.type = l.type) /\ (l.status # "" => r.status = l.status)

WithStatus(r, status) == [r EXCEPT !.status = status]

\* A listing under way is owed the rows that have matched since it began; a row
\* that leaves its filter is owed no longer, and counted.
Owed(l, r, status) ==
  IF l.pc = "page" /\ Matches(r, l) /\ ~Matches(WithStatus(r, status), l)
    THEN [l EXCEPT !.due = @ \ {r.id}, !.departed = @ + 1]
    ELSE l

\* sqlIdentityUpdateStatus.
SetStatus(r, status) ==
  /\ rows' = (rows \ {r}) \cup {WithStatus(r, status)}
  /\ listing' = [p \in Lister |-> Owed(listing[p], r, status)]

\* The key is made and bound, and the identity activated.
CreateIdentityActivate(h) ==
  /\ creation[h].pc = "activate"
  /\ \E r \in rows : r.id = h /\ SetStatus(r, "active")
  /\ creation' = [creation EXCEPT ![h].pc = "event"]
  /\ UNCHANGED now

CreateIdentityEvent(h) ==
  /\ creation[h].pc = "event"
  /\ AnswerWith(h, "created", "OK", "201")
  /\ UNCHANGED <<rows, now, listing>>

\* Any statement fails, or the generation of the key: what is done stays.
CreateIdentityFails(h) ==
  /\ creation[h].pc \in {"tenant", "begin", "insert", "activate", "event"}
  /\ AnswerError(h, "failed", wrapRepoError(DriverError))
  /\ UNCHANGED <<rows, now, listing>>

(***************************************************************************)
(* Other requests: an identity is suspended, reactivated or deactivated,   *)
(* by a call that may have read any status before.                         *)
(***************************************************************************)
UpdateStatus(r) ==
  /\ \A p \in Lister : listing[p].departed < MaxDepartures
  /\ \E status \in {"active", "suspended", "deactivated"} : SetStatus(r, status)
  /\ UNCHANGED <<now, creation>>

(***************************************************************************)
(* ListIdentities: IdentityRepo.List with the filter of the request.  A    *)
(* caller asks for the next page until a page is not full; over HTTP there *)
(* is only the first, unfiltered.                                          *)
(***************************************************************************)
Matching(l) == {r \in rows : Matches(r, l)}

\* Mutant: ORDER BY is left out.
OrdersAny(S) == Bijection(S, 0..(Cardinality(S) - 1))

\* ORDER BY created_at ASC: the places rows may get.  Rows that share a
\* created_at come in any order, another one at every call.
Orders(S) ==
  {order \in Bijection(S, 0..(Cardinality(S) - 1)) :
     \A r, s \in S : r.at < s.at => order[r] < order[s]}

\* LIMIT and OFFSET, each left out of the statement when it is 0.
Page(l, order) ==
  {r \in Matching(l) : l.offset <= order[r] /\ (l.limit # 0 => order[r] < l.offset + l.limit)}

Shown(page, surface) == {identityToProto(r, surface) : r \in page}

StartListing(p) ==
  /\ listing[p].pc = "idle"
  /\ \E f \in [type : {"", "human"}, status : AskedStatus, limit : PageSize] :
       listing' = [listing EXCEPT ![p] =
         [NoListing EXCEPT !.pc = "page", !.type = f.type, !.status = f.status,
                           !.limit = f.limit, !.due = {r.id : r \in Matching(f)}]]
  /\ UNCHANGED <<rows, now, creation>>

ListIdentities(p) ==
  /\ listing[p].pc = "page"
  /\ \E order \in Orders(Matching(listing[p])) :
       LET l == listing[p]
           page == Page(l, order)
       IN listing' = [listing EXCEPT
           ![p].seen = @ \cup Shown(page, "grpc"),
           ![p].offset = @ + Cardinality(page),
           ![p].pc = IF l.limit = 0 \/ Cardinality(page) < l.limit THEN "done" ELSE "page"]
  /\ UNCHANGED <<rows, now, creation>>

\* handleListIdentities: one page, whatever its total says.
HandleListIdentities(p) ==
  /\ listing[p].pc = "idle"
  /\ \E order \in Orders(rows) :
       LET l == [NoListing EXCEPT !.surface = "http", !.limit = HttpLimit]
       IN  listing' = [listing EXCEPT ![p] =
             [l EXCEPT !.pc = "done",
                !.seen = Shown(Page(l, order), "http"),
                !.due = IF Cardinality(rows) <= HttpLimit THEN {r.id : r \in rows} ELSE {}]]
  /\ UNCHANGED <<rows, now, creation>>

DirectoryInit ==
  /\ rows = {}
  /\ now = 1
  /\ creation = [h \in Creator |-> NoCreation]
  /\ listing = [p \in Lister |-> NoListing]

DirectoryNext ==
  \/ \E h \in Creator :
       \/ CreateIdentity(h) \/ CreateIdentityInvalid(h) \/ CreateIdentityTenant(h)
       \/ CreateIdentityBegin(h) \/ CreateIdentityInsert(h) \/ CreateIdentityActivate(h)
       \/ CreateIdentityEvent(h) \/ CreateIdentityFails(h)
  \/ \E r \in rows : UpdateStatus(r)
  \/ \E p \in Lister : StartListing(p) \/ ListIdentities(p) \/ HandleListIdentities(p)

DirectorySpec == DirectoryInit /\ [][DirectoryNext]_dvars

(***************************************************************************)
(* Properties.                                                             *)
(***************************************************************************)
\* The identities a listing is owed and has not shown, except those that share
\* their created_at with another, whose order may differ from page to page.
Missed(l) ==
  {i \in l.due : /\ \A s \in l.seen : s.id # i
                 /\ \A r, other \in rows : r.id = i /\ other.at = r.at => other.id = i}

\* A listing whose caller has seen a page that is not full lacks at most one of
\* those for every row that left its filter meanwhile, so none when there is no
\* status filter: rows that appear, change or become visible late between two
\* pages never push one out of the window of LIMIT and OFFSET.
ListingComplete ==
  \A p \in Lister :
    listing[p].pc = "done" => Cardinality(Missed(listing[p])) <= listing[p].departed

\* The answer tells a caller of CreateIdentity what happened, the same over both
\* transports: an identity was created only if the answer says so or the server
\* failed, a conflict is reported only for a handle somebody else's row has, and
\* only a failure of the database or a value it refuses is an internal error.
AnswerTruthful ==
  \A h \in Creator :
    LET c == creation[h]
        mine == {r \in rows : r.id = h}
    IN  c.pc = "answered" =>
          /\ (c.cause = "created") <=> (c.answer \in {"OK", "201"})
          /\ c.answer \in {"OK", "201"} => \E r \in mine : r.handle = c.handle
          /\ mine # {} => c.answer \in {"OK", "201", "Internal", "500"}
          /\ c.answer \in {"AlreadyExists", "409"} => \E r \in rows \ mine : r.handle = c.handle
          /\ (c.answer \in {"Internal", "500"}) <=> (c.cause \in {"failed", "refused"})
          /\ (c.answer \in {"NotFound", "404"}) <=> (c.cause = "no tenant")
          /\ (c.answer \in {"InvalidArgument", "400"}) <=> (c.cause = "input")
          /\ (c.answer \in {"FailedPrecondition", "422"}) <=> (c.cause = "inactive")

\* Whoever lists identities is shown each with the type its creator asked for,
\* whichever transports the two used (a gRPC creator that named no type gets a
\* human), and under a status filter only with that status.
ShownAsStored ==
  \A p \in Lister : \A s \in listing[p].seen :
    LET type == IF listing[p].surface = "grpc" THEN s.type ELSE identityTypeToProto(s.type)
        asked == (CHOOSE r \in rows : r.id = s.id).asked
    IN  /\ type # "IDENTITY_TYPE_UNSPECIFIED"
        /\ asked \in ProtoType =>
             type = IF asked = "IDENTITY_TYPE_UNSPECIFIED" THEN "IDENTITY_TYPE_HUMAN" ELSE asked
        /\ asked \notin ProtoType => identityTypeFromProto(type) = asked
        /\ s.status # "IDENTITY_STATUS_UNSPECIFIED"
        /\ listing[p].status # "" => s.status = identityStatusToProto(listing[p].status)

=============================================================================
