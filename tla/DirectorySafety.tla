--------------------------- MODULE DirectorySafety ---------------------------
(***************************************************************************)
(* The safety properties of Directory for every number of creators and     *)
(* listers, every set of handles, types, filters and page sizes, every     *)
(* limit of the HTTP handler and every length of a run.                    *)
(*                                                                         *)
(* The three properties are not inductive.  The invariant adds that a row  *)
(* belongs to one creator and keeps what identifies it, and, for a listing *)
(* under way, that what it is owed still matches and that at most as many  *)
(* of those it has not shown have come to lie in front of its offset as    *)
(* rows have left its filter.                                              *)
(***************************************************************************)
EXTENDS Directory, FiniteSetTheorems, FunctionTheorems, TLAPS

(***************************************************************************)
(* Positions.                                                              *)
(***************************************************************************)
\* A set of rows as IdentityRepo.List may read it: finite, each with its id.
Listable(S) ==
  /\ IsFiniteSet(S)
  /\ \A r \in S : r.at \in Nat
  /\ \A r, s \in S : r.id = s.id => r = s

Older(r, S) == {s \in S : s.at < r.at}

\* The number of rows of S that ORDER BY created_at puts in front of r for sure.
Position(r, S) == Cardinality(Older(r, S))

\* No other row of S shares the created_at of r.
Alone(r, S) == \A s \in S : s.at = r.at => s.id = r.id

\* The rows from offset on, limit of them at most (0 for no limit).
Window(S, order, offset, limit) ==
  {r \in S : offset <= order[r] /\ (limit # 0 => order[r] < offset + limit)}

\* A filter leaves rows that can be listed.
LEMMA ListableSubset ==
  ASSUME NEW S, Listable(S), NEW T \in SUBSET S
  PROVE  Listable(T)
  <1>1. IsFiniteSet(T)
    BY FS_Subset DEF Listable
  <1> QED
    BY <1>1 DEF Listable

\* Positions are natural numbers, and an older row has a smaller one.
LEMMA PositionOrder ==
  ASSUME NEW S, Listable(S), NEW r \in S
  PROVE  /\ Position(r, S) \in Nat
         /\ \A s \in S : r.at < s.at => Position(r, S) < Position(s, S)
  <1>1. IsFiniteSet(S) /\ \A u \in S : u.at \in Nat
    BY DEF Listable
  <1>2. ASSUME NEW u \in S PROVE IsFiniteSet(Older(u, S)) /\ Position(u, S) \in Nat
    <2>1. Older(u, S) \in SUBSET S
      BY DEF Older
    <2> QED
      BY <1>1, <2>1, FS_Subset, FS_CardinalityType DEF Position
  <1>3. ASSUME NEW s \in S, r.at < s.at PROVE Position(r, S) < Position(s, S)
    <2>1. r \in Older(s, S) /\ r \notin Older(r, S) /\ Older(r, S) \in SUBSET Older(s, S)
      BY <1>1, <1>3 DEF Older
    <2>2. /\ Cardinality(Older(r, S)) <= Cardinality(Older(s, S))
          /\ Cardinality(Older(r, S)) # Cardinality(Older(s, S))
      BY <1>2, <2>1, FS_Subset
    <2> QED
      BY <1>2, <2>2 DEF Position
  <1> QED
    BY <1>2, <1>3

\* The database may choose the places of rows that share a created_at, and of no
\* other: a row that shares it with none gets its position.
LEMMA PlaceOfAlone ==
  ASSUME NEW S, Listable(S), NEW order \in Orders(S), NEW r \in S, Alone(r, S)
  PROVE  order[r] = Position(r, S)
  <1> DEFINE A == Older(r, S)
             n == order[r]
             T == 0..(n - 1)
             f == [s \in A |-> order[s]]
  <1>1. /\ IsFiniteSet(S) /\ Cardinality(S) \in Nat /\ \A u \in S : u.at \in Nat
        /\ \A u, v \in S : u.id = v.id => u = v
    BY FS_CardinalityType DEF Listable
  <1>2. /\ order \in Injection(S, 0..(Cardinality(S) - 1))
        /\ order \in Surjection(S, 0..(Cardinality(S) - 1))
        /\ \A u, v \in S : u.at < v.at => order[u] < order[v]
    BY DEF Orders, Bijection
  <1>3. /\ order \in [S -> 0..(Cardinality(S) - 1)]
        /\ \A u, v \in S : order[u] = order[v] => u = v
    BY <1>2, Fun_InjectionProperties DEF Injection, IsInjective
  <1>4. n \in Nat /\ n < Cardinality(S)
    BY <1>1, <1>3
  <1>5. A \in SUBSET S /\ IsFiniteSet(T) /\ Cardinality(T) = n
    <2>1. A \in SUBSET S
      BY DEF Older
    <2>2. 0 \in Int /\ n - 1 \in Int
      BY <1>4
    <2>3. /\ IsFiniteSet(T)
          /\ Cardinality(T) = IF 0 > n - 1 THEN 0 ELSE (n - 1) - 0 + 1
      BY <2>2, FS_Interval
    <2> QED
      BY <1>4, <2>1, <2>3
  <1>6. f \in [A -> T]
    BY <1>1, <1>2, <1>3, <1>4 DEF Older
  <1>7. f \in Injection(A, T)
    BY <1>3, <1>5, <1>6 DEF Injection, IsInjective
  <1>8. ASSUME NEW k \in T PROVE \E s \in A : f[s] = k
    <2>1. k \in 0..(Cardinality(S) - 1)
      BY <1>1, <1>4
    <2>2. PICK s \in S : order[s] = k
      BY <1>2, <2>1 DEF Surjection
    <2>3. k < n /\ s.at \in Nat /\ r.at \in Nat
      BY <1>1, <1>4
    <2>4. ~(r.at < s.at)
      BY <1>2, <1>4, <2>2, <2>3
    <2>5. s.at # r.at
      BY <1>1, <2>2, <2>3, <1>4 DEF Alone
    <2>6. s \in A
      BY <2>3, <2>4, <2>5 DEF Older
    <2> QED
      BY <2>2, <2>6
  <1>9. f \in Surjection(A, T)
    BY <1>6, <1>8 DEF Surjection
  <1>10. Cardinality(A) = n
    BY <1>5, <1>7, <1>9, FS_Injection
  <1> QED
    BY <1>10 DEF Position

\* A page in front of some row is full: if there is a row behind the window, the
\* window holds limit rows.
LEMMA WindowFull ==
  ASSUME NEW S, Listable(S), NEW order \in Orders(S), NEW offset \in Nat,
         NEW limit \in Nat \ {0}, NEW last \in S, offset + limit <= order[last]
  PROVE  Cardinality(Window(S, order, offset, limit)) = limit
  <1> DEFINE W == Window(S, order, offset, limit)
             T == offset..(offset + limit - 1)
             f == [r \in W |-> order[r]]
  <1>1. W \in SUBSET S
    BY DEF Window
  <1>2. Cardinality(S) \in Nat
    BY FS_CardinalityType DEF Listable
  <1>3. /\ order \in Injection(S, 0..(Cardinality(S) - 1))
        /\ order \in Surjection(S, 0..(Cardinality(S) - 1))
    BY DEF Orders, Bijection
  <1>4. /\ order \in [S -> 0..(Cardinality(S) - 1)]
        /\ \A u, v \in S : order[u] = order[v] => u = v
    BY <1>3 DEF Injection, IsInjective
  <1>5. IsFiniteSet(T) /\ Cardinality(T) = limit
    BY FS_Interval
  <1>6. f \in [W -> T]
    BY <1>1, <1>2, <1>4 DEF Window
  <1>7. f \in Injection(W, T)
    BY <1>1, <1>4, <1>6 DEF Injection, IsInjective
  <1>8. ASSUME NEW n \in T PROVE \E r \in W : f[r] = n
    <2>1. n \in 0..(Cardinality(S) - 1)
      BY <1>2, <1>4
    <2>2. PICK r \in S : order[r] = n
      BY <1>3, <2>1 DEF Surjection
    <2>3. r \in W
      BY <2>2 DEF Window
    <2> QED
      BY <2>2, <2>3
  <1>9. f \in Surjection(W, T)
    BY <1>6, <1>8 DEF Surjection
  <1> QED
    BY <1>5, <1>7, <1>9, FS_Injection

\* Rows that are added, and columns that change, never bring a row nearer to the
\* front: its position grows or stays.
LEMMA PositionGrows ==
  ASSUME NEW S, Listable(S), NEW T, Listable(T), NEW r \in S, NEW s \in T, r.at = s.at,
         \A u \in S : \E v \in T : v.id = u.id /\ v.at = u.at
  PROVE  Position(r, S) <= Position(s, T)
  <1> DEFINE A == Older(r, S)
             B == Older(s, T)
             f == [u \in A |-> CHOOSE v \in B : v.id = u.id]
  <1>1. A \in SUBSET S /\ B \in SUBSET T
    BY DEF Older
  <1>2. IsFiniteSet(A) /\ IsFiniteSet(B)
    BY <1>1, FS_Subset DEF Listable
  <1>3. ASSUME NEW u \in A PROVE f[u] \in B /\ f[u].id = u.id
    <2>1. \E v \in B : v.id = u.id
      BY DEF Older
    <2> QED
      BY <2>1
  <1>4. f \in [A -> B]
    BY <1>3
  <1>5. \A u, v \in A : f[u] = f[v] => u = v
    BY <1>1, <1>3 DEF Listable
  <1> HIDE DEF f
  <1>6. f \in Injection(A, B)
    BY <1>4, <1>5 DEF Injection, IsInjective
  <1>7. Cardinality(A) <= Cardinality(B)
    BY <1>2, <1>6, FS_Injection
  <1> QED
    BY <1>7 DEF Position

\* A row that leaves brings the others forward by one place at most.
LEMMA PositionWithout ==
  ASSUME NEW S, Listable(S), NEW x \in S, NEW r \in S \ {x}
  PROVE  Position(r, S) <= Position(r, S \ {x}) + 1
  <1>1. Older(r, S \ {x}) = Older(r, S) \ {x}
    BY DEF Older
  <1>2. IsFiniteSet(Older(r, S))
    <2>1. Older(r, S) \in SUBSET S
      BY DEF Older
    <2> QED
      BY <2>1, FS_Subset DEF Listable
  <1>3. Cardinality(Older(r, S)) \in Nat
    BY <1>2, FS_CardinalityType
  <1>4. CASE x \in Older(r, S)
    <2>1. Cardinality(Older(r, S) \ {x}) = Cardinality(Older(r, S)) - 1
      BY <1>2, <1>4, FS_RemoveElement
    <2>2. /\ Position(r, S) = Cardinality(Older(r, S))
          /\ Position(r, S \ {x}) = Cardinality(Older(r, S) \ {x})
      BY <1>1 DEF Position
    <2> QED
      BY <1>3, <2>1, <2>2
  <1>5. CASE x \notin Older(r, S)
    <2>1. Older(r, S) \ {x} = Older(r, S)
      BY <1>5
    <2> QED
      BY <1>1, <1>3, <2>1 DEF Position
  <1> QED
    BY <1>4, <1>5

(***************************************************************************)
(* The inductive invariant.                                                *)
(***************************************************************************)
Status == {"pending", "active", "suspended", "deactivated"}

RowType ==
  [id : Creator, at : Nat, handle : Handle \cup {""}, status : Status,
   type : IdentityType, asked : AskedType]

Cause == {"none", "input", "no tenant", "inactive", "refused", "taken", "created", "failed"}

Answer ==
  {"none", "OK", "201", "InvalidArgument", "400", "NotFound", "404", "FailedPrecondition",
   "422", "Internal", "500", "AlreadyExists", "409"}

CreationType ==
  [pc : {"idle", "invalid", "tenant", "begin", "insert", "activate", "event", "answered"},
   surface : Surface, asked : AskedType \cup {""}, handle : Handle \cup {""}, at : Nat,
   cause : Cause, answer : Answer]

ShownStatus ==
  Status \cup {"IDENTITY_STATUS_PENDING", "IDENTITY_STATUS_ACTIVE",
               "IDENTITY_STATUS_SUSPENDED", "IDENTITY_STATUS_DEACTIVATED"}

ShownType == [id : Creator, type : IdentityType \cup ProtoType, status : ShownStatus]

ListingType ==
  [pc : {"idle", "page", "done"}, surface : Surface, type : {"", "human"},
   status : Status \cup {""}, limit : Nat, offset : Nat,
   seen : SUBSET ShownType, due : SUBSET Creator, departed : Nat]

\* The rows can be listed, and the type of each is what its creator's request was
\* turned into.
RowsInv ==
  /\ now \in Nat
  /\ Listable(rows)
  /\ \A r \in rows :
       /\ r \in RowType
       /\ r.type = IF r.asked \in ProtoType THEN identityTypeFromProto(r.asked) ELSE r.asked

\* A call has a row once the insert has committed and not before.
CreationSound(h, c) ==
  /\ c.pc \in {"idle", "invalid", "tenant", "begin", "insert"} => \A r \in rows : r.id # h
  /\ c.pc \in {"tenant", "begin", "insert"} =>
       /\ c.asked \in AskedType
       /\ (c.surface = "grpc") <=> (c.asked \in ProtoType)
  /\ c.pc \in {"activate", "event"} => \E r \in rows : r.id = h /\ r.handle = c.handle

\* What AnswerTruthful says of the answer to one call.
Fits(h, handle, cause, answer) ==
  /\ (cause = "created") <=> (answer \in {"OK", "201"})
  /\ answer \in {"OK", "201"} => \E r \in rows : r.id = h /\ r.handle = handle
  /\ (\E r \in rows : r.id = h) => answer \in {"OK", "201", "Internal", "500"}
  /\ answer \in {"AlreadyExists", "409"} => \E r \in rows : r.id # h /\ r.handle = handle
  /\ (answer \in {"Internal", "500"}) <=> (cause \in {"failed", "refused"})
  /\ (answer \in {"NotFound", "404"}) <=> (cause = "no tenant")
  /\ (answer \in {"InvalidArgument", "400"}) <=> (cause = "input")
  /\ (answer \in {"FailedPrecondition", "422"}) <=> (cause = "inactive")

Truthful(h, c) == c.pc = "answered" => Fits(h, c.handle, c.cause, c.answer)

CreationsInv ==
  /\ creation \in [Creator -> CreationType]
  /\ \A h \in Creator : CreationSound(h, creation[h]) /\ Truthful(h, creation[h])

ShownSound(s, l) ==
  /\ \E r \in rows :
       r.id = s.id /\ s.type = IF l.surface = "grpc" THEN identityTypeToProto(r.type) ELSE r.type
  /\ s.status # "IDENTITY_STATUS_UNSPECIFIED"
  /\ l.status # "" => s.status = identityStatusToProto(l.status)

\* Identities a listing under way is owed, has not shown and will not show.
Behind(l) ==
  {i \in Missed(l) :
     \E r \in Matching(l) : r.id = i /\ Position(r, Matching(l)) < l.offset}

ListingSound(l) ==
  /\ IsFiniteSet(l.due)
  /\ \A s \in l.seen : ShownSound(s, l)
  /\ l.pc = "page" => /\ \A i \in l.due : \E r \in Matching(l) : r.id = i
                      /\ Cardinality(Behind(l)) <= l.departed
  /\ l.pc = "done" => Cardinality(Missed(l)) <= l.departed
  /\ l.surface = "http" => l.pc = "done" /\ l.status = ""

ListingsInv ==
  /\ listing \in [Lister -> ListingType]
  /\ \A p \in Lister : ListingSound(listing[p])

DirectoryInv == RowsInv /\ CreationsInv /\ ListingsInv

(***************************************************************************)
(* What the transports answer and show.                                    *)
(***************************************************************************)
\* Each error of CreateIdentity has the code and the status of its class.
LEMMA ErrorAnswers ==
  /\ toGRPCError(ValidationError) = "InvalidArgument"
  /\ writeServiceError(ValidationError) = "400"
  /\ toGRPCError(wrapRepoError(NotFoundError)) = "NotFound"
  /\ writeServiceError(wrapRepoError(NotFoundError)) = "404"
  /\ toGRPCError({"ErrTenantInactive"}) = "FailedPrecondition"
  /\ writeServiceError({"ErrTenantInactive"}) = "422"
  /\ toGRPCError(wrapRepoError(DriverError)) = "Internal"
  /\ writeServiceError(wrapRepoError(DriverError)) = "500"
  /\ toGRPCError(wrapRepoError({"ErrHandleTaken"})) = "AlreadyExists"
  /\ writeServiceError(wrapRepoError({"ErrHandleTaken"})) = "409"
  <1> USE DEF Absent, Taken, Malformed, WrongState
  <1>1. toGRPCError(ValidationError) = "InvalidArgument"
    BY Zenon DEF toGRPCError, ValidationError
  <1>2. writeServiceError(ValidationError) = "400"
    BY Zenon DEF writeServiceError, ValidationError
  <1>3. toGRPCError(wrapRepoError(NotFoundError)) = "NotFound"
    BY Zenon DEF toGRPCError, wrapRepoError, NotFoundError
  <1>4. writeServiceError(wrapRepoError(NotFoundError)) = "404"
    BY Zenon DEF writeServiceError, wrapRepoError, NotFoundError
  <1>5. toGRPCError({"ErrTenantInactive"}) = "FailedPrecondition"
    BY Zenon DEF toGRPCError
  <1>6. writeServiceError({"ErrTenantInactive"}) = "422"
    BY Zenon DEF writeServiceError
  <1>7. toGRPCError(wrapRepoError(DriverError)) = "Internal"
    BY Zenon DEF toGRPCError, wrapRepoError, DriverError
  <1>8. writeServiceError(wrapRepoError(DriverError)) = "500"
    BY Zenon DEF writeServiceError, wrapRepoError, DriverError
  <1>9. toGRPCError(wrapRepoError({"ErrHandleTaken"})) = "AlreadyExists"
    BY Zenon DEF toGRPCError, wrapRepoError
  <1>10. writeServiceError(wrapRepoError({"ErrHandleTaken"})) = "409"
    BY Zenon DEF writeServiceError, wrapRepoError
  <1> QED
    BY <1>1, <1>2, <1>3, <1>4, <1>5, <1>6, <1>7, <1>8, <1>9, <1>10

\* The two translations of types are inverse to each other, but for the type
\* that a gRPC caller leaves out, and none of the six falls to the default.
LEMMA TypeRoundTrip ==
  /\ \A t \in IdentityType :
       /\ identityTypeFromProto(identityTypeToProto(t)) = t
       /\ identityTypeToProto(t) # "IDENTITY_TYPE_UNSPECIFIED"
       /\ identityTypeToProto(t) \in ProtoType
  /\ \A a \in ProtoType :
       /\ identityTypeFromProto(a) \in IdentityType
       /\ identityTypeToProto(identityTypeFromProto(a)) =
            IF a = "IDENTITY_TYPE_UNSPECIFIED" THEN "IDENTITY_TYPE_HUMAN" ELSE a
  <1>1. /\ identityTypeToProto("human") = "IDENTITY_TYPE_HUMAN"
        /\ identityTypeToProto("org") = "IDENTITY_TYPE_ORG"
        /\ identityTypeToProto("device") = "IDENTITY_TYPE_DEVICE"
        /\ identityTypeToProto("service") = "IDENTITY_TYPE_SERVICE"
        /\ identityTypeToProto("machine") = "IDENTITY_TYPE_MACHINE"
        /\ identityTypeToProto("ai_agent") = "IDENTITY_TYPE_AI_AGENT"
    BY Zenon DEF identityTypeToProto
  <1>2. /\ identityTypeFromProto("IDENTITY_TYPE_UNSPECIFIED") = "human"
        /\ identityTypeFromProto("IDENTITY_TYPE_HUMAN") = "human"
        /\ identityTypeFromProto("IDENTITY_TYPE_ORG") = "org"
        /\ identityTypeFromProto("IDENTITY_TYPE_DEVICE") = "device"
        /\ identityTypeFromProto("IDENTITY_TYPE_SERVICE") = "service"
        /\ identityTypeFromProto("IDENTITY_TYPE_MACHINE") = "machine"
        /\ identityTypeFromProto("IDENTITY_TYPE_AI_AGENT") = "ai_agent"
    BY Zenon DEF identityTypeFromProto
  <1> QED
    BY <1>1, <1>2 DEF IdentityType, ProtoType

\* Every status has a name of its own over gRPC.
LEMMA StatusShown ==
  ASSUME NEW status \in Status
  PROVE  identityStatusToProto(status) \in ShownStatus /\ status \in ShownStatus
  <1>1. /\ identityStatusToProto("pending") = "IDENTITY_STATUS_PENDING"
        /\ identityStatusToProto("active") = "IDENTITY_STATUS_ACTIVE"
        /\ identityStatusToProto("suspended") = "IDENTITY_STATUS_SUSPENDED"
        /\ identityStatusToProto("deactivated") = "IDENTITY_STATUS_DEACTIVATED"
    BY Zenon DEF identityStatusToProto
  <1> QED
    BY <1>1 DEF ShownStatus, Status

\* A page shows rows of the table, each with its id, the translated type and a
\* status that the filter lets through.
LEMMA PageShown ==
  ASSUME RowsInv, NEW l \in ListingType, NEW surface \in Surface, surface = l.surface,
         surface = "http" => l.status = "", NEW page \in SUBSET Matching(l)
  PROVE  /\ Shown(page, surface) \subseteq ShownType
         /\ \A s \in Shown(page, surface) : ShownSound(s, l)
         /\ \A r \in page : \E s \in Shown(page, surface) : s.id = r.id
  <1>1. ASSUME NEW r \in page
        PROVE  /\ identityToProto(r, surface) \in ShownType
               /\ ShownSound(identityToProto(r, surface), l)
               /\ identityToProto(r, surface).id = r.id
    <2>1. r \in rows /\ r \in RowType /\ Matches(r, l)
      BY DEF Matching, RowsInv
    <2>2. r.id \in Creator /\ r.type \in IdentityType /\ r.status \in Status
      BY <2>1 DEF RowType
    <2>3. /\ identityTypeToProto(r.type) \in ProtoType
          /\ identityStatusToProto(r.status) \in ShownStatus /\ r.status \in ShownStatus
          /\ "IDENTITY_STATUS_UNSPECIFIED" \notin ShownStatus
      BY <2>2, TypeRoundTrip, StatusShown DEF ShownStatus, Status
    <2>4. CASE surface = "grpc"
      <3>1. PICK s : s = [id |-> r.id, type |-> identityTypeToProto(r.type),
                          status |-> identityStatusToProto(r.status)]
        OBVIOUS
      <3>2. /\ s.id = r.id /\ s.type = identityTypeToProto(r.type)
            /\ s.status = identityStatusToProto(r.status)
        BY <3>1
      <3>3. s \in ShownType
        BY <2>2, <2>3, <3>1 DEF ShownType
      <3>4. l.status # "" => s.status = identityStatusToProto(l.status)
        BY <2>1, <3>2 DEF Matches
      <3>5. ShownSound(s, l)
        BY <2>1, <2>3, <2>4, <3>2, <3>4 DEF ShownSound
      <3>6. identityToProto(r, surface) = s
        BY <2>4, <3>1 DEF identityToProto
      <3> QED
        BY <3>2, <3>3, <3>5, <3>6
    <2>5. CASE surface = "http"
      <3>1. PICK s : s = [id |-> r.id, type |-> r.type, status |-> r.status]
        OBVIOUS
      <3>2. s.id = r.id /\ s.type = r.type /\ s.status = r.status
        BY <3>1
      <3>3. s \in ShownType
        BY <2>2, <2>3, <3>1 DEF ShownType
      <3>4. ShownSound(s, l)
        BY <2>1, <2>3, <2>5, <3>2 DEF ShownSound
      <3>5. identityToProto(r, surface) = s
        BY <2>5, <3>1 DEF identityToProto
      <3> QED
        BY <3>2, <3>3, <3>4, <3>5
    <2> QED
      BY <2>4, <2>5 DEF Surface
  <1> QED
    BY <1>1 DEF Shown

(***************************************************************************)
(* What a step may do to the table.                                        *)
(***************************************************************************)
\* No statement removes a row or changes its id, created_at, handle or type.
RowsKept ==
  \A r \in rows : \E s \in rows' :
    /\ s.id = r.id /\ s.at = r.at /\ s.handle = r.handle
    /\ s.type = r.type /\ s.asked = r.asked

\* The filter of a listing lets through what it let through before.
MatchingKept(l) == \A r \in Matching(l) : \E s \in Matching(l)' : s.id = r.id /\ s.at = r.at

\* What has been shown stays as it was shown.
LEMMA ShownKept ==
  ASSUME RowsKept, NEW l, NEW s, ShownSound(s, l)
  PROVE  ShownSound(s, l)'
  <1>1. PICK r \in rows :
          /\ r.id = s.id
          /\ s.type = IF l.surface = "grpc" THEN identityTypeToProto(r.type) ELSE r.type
    BY DEF ShownSound
  <1>2. PICK t \in rows' : t.id = r.id /\ t.type = r.type
    BY DEF RowsKept
  <1>3. t.id = s.id /\ s.type = IF l.surface = "grpc" THEN identityTypeToProto(t.type) ELSE t.type
    BY <1>1, <1>2
  <1> QED
    BY <1>2, <1>3 DEF ShownSound

\* A row that shares its created_at with none shared it with none before.
LEMMA MissedShrinks ==
  ASSUME RowsKept, NEW l
  PROVE  Missed(l)' \subseteq Missed(l)
  <1>1. ASSUME NEW i \in Missed(l)', NEW r \in rows, NEW other \in rows,
               r.id = i, other.at = r.at
        PROVE  other.id = i
    <2>1. PICK s \in rows' : s.id = r.id /\ s.at = r.at
      BY DEF RowsKept
    <2>2. PICK t \in rows' : t.id = other.id /\ t.at = other.at
      BY DEF RowsKept
    <2> QED
      BY <1>1, <2>1, <2>2 DEF Missed
  <1> QED
    BY <1>1 DEF Missed

\* What a filter lets through can be listed.
LEMMA MatchingListable ==
  ASSUME RowsInv, NEW l
  PROVE  Matching(l) \in SUBSET rows /\ Listable(Matching(l))
  BY ListableSubset DEF RowsInv, Matching

\* Arrivals in the filter put nothing in front of an offset.
LEMMA BehindShrinks ==
  ASSUME RowsInv, RowsInv', RowsKept, NEW l \in ListingType, MatchingKept(l),
         \A i \in l.due : \E r \in Matching(l) : r.id = i
  PROVE  Behind(l)' \subseteq Behind(l)
  <1>1. Missed(l)' \subseteq Missed(l)
    BY MissedShrinks
  <1>2. PICK M : M = Matching(l)
    OBVIOUS
  <1>3. PICK N : N = Matching(l)'
    OBVIOUS
  <1>4. /\ M \in SUBSET rows /\ Listable(M) /\ N \in SUBSET rows' /\ Listable(N)
        /\ l.offset \in Nat
    <2>1. (Matching(l) \in SUBSET rows /\ Listable(Matching(l)))'
      BY ListableSubset DEF RowsInv, Matching
    <2> QED
      BY <1>2, <1>3, <2>1, MatchingListable DEF ListingType
  <1>5. ASSUME NEW i \in Missed(l)', NEW s \in N, s.id = i, Position(s, N) < l.offset
        PROVE  \E r \in M : r.id = i /\ Position(r, M) < l.offset
    <2>1. i \in l.due
      BY DEF Missed
    <2>2. PICK r \in M : r.id = i
      BY <1>2, <2>1
    <2>3. PICK t \in N : t.id = r.id /\ t.at = r.at
      BY <1>2, <1>3 DEF MatchingKept
    <2>4. t = s
      BY <1>4, <1>5, <2>2, <2>3 DEF Listable
    <2>5. \A u \in M : \E v \in N : v.id = u.id /\ v.at = u.at
      BY <1>2, <1>3 DEF MatchingKept
    <2>6. Position(r, M) <= Position(s, N)
      BY <1>4, <2>3, <2>4, <2>5, PositionGrows
    <2>7. Position(r, M) \in Nat /\ Position(s, N) \in Nat
      BY <1>4, PositionOrder
    <2> QED
      BY <1>4, <1>5, <2>2, <2>6, <2>7
  <1>6. Behind(l)' = {i \in Missed(l)' : \E s \in N : s.id = i /\ Position(s, N) < l.offset}
    BY <1>3 DEF Behind
  <1>7. Behind(l) = {i \in Missed(l) : \E r \in M : r.id = i /\ Position(r, M) < l.offset}
    BY <1>2 DEF Behind
  <1> QED
    BY <1>1, <1>5, <1>6, <1>7

\* Both are finite while what the listing is owed is.
LEMMA OwedFinite ==
  ASSUME NEW l, IsFiniteSet(l.due)
  PROVE  /\ IsFiniteSet(Missed(l)) /\ IsFiniteSet(Behind(l))
         /\ Cardinality(Missed(l)) \in Nat /\ Cardinality(Behind(l)) \in Nat
  <1>1. Missed(l) \in SUBSET l.due /\ Behind(l) \in SUBSET l.due
    BY DEF Missed, Behind
  <1> QED
    BY <1>1, FS_Subset, FS_CardinalityType

\* So what a listing relies on stays true between two of its pages.
LEMMA ListingKept ==
  ASSUME RowsInv, RowsInv', RowsKept, NEW l \in ListingType, ListingSound(l),
         l.pc = "page" => MatchingKept(l)
  PROVE  ListingSound(l)'
  <1>1. \A s \in l.seen : ShownSound(s, l)'
    BY ShownKept DEF ListingSound
  <1>2. IsFiniteSet(l.due) /\ l.departed \in Nat
    BY DEF ListingSound, ListingType
  <1>3. ASSUME l.pc = "page"
        PROVE  /\ \A i \in l.due : \E r \in Matching(l)' : r.id = i
               /\ Cardinality(Behind(l)') <= l.departed
    <2>1. /\ \A i \in l.due : \E r \in Matching(l) : r.id = i
          /\ Cardinality(Behind(l)) <= l.departed
      BY <1>3 DEF ListingSound
    <2>2. \A i \in l.due : \E r \in Matching(l)' : r.id = i
      BY <1>3, <2>1 DEF MatchingKept
    <2>3. Behind(l)' \subseteq Behind(l)
      BY <1>3, <2>1, BehindShrinks
    <2>4. PICK B : B = Behind(l)'
      OBVIOUS
    <2>5. Cardinality(B) <= Cardinality(Behind(l)) /\ Cardinality(B) \in Nat
      BY <1>2, <2>3, <2>4, OwedFinite, FS_Subset, FS_CardinalityType
    <2>6. Cardinality(B) <= l.departed
      BY <1>2, <2>1, <2>5, OwedFinite
    <2> QED
      BY <2>2, <2>4, <2>6
  <1>4. ASSUME l.pc = "done"
        PROVE  Cardinality(Missed(l)') <= l.departed
    <2>1. Cardinality(Missed(l)) <= l.departed
      BY <1>4 DEF ListingSound
    <2>2. PICK B : B = Missed(l)'
      OBVIOUS
    <2>3. B \subseteq Missed(l)
      BY <2>2, MissedShrinks
    <2>4. Cardinality(B) <= Cardinality(Missed(l)) /\ Cardinality(B) \in Nat
      BY <1>2, <2>3, OwedFinite, FS_Subset, FS_CardinalityType
    <2>5. Cardinality(B) <= l.departed
      BY <1>2, <2>1, <2>4, OwedFinite
    <2> QED
      BY <2>2, <2>5
  <1>5. l.surface = "http" => l.pc = "done" /\ l.status = ""
    BY DEF ListingSound
  <1> QED
    BY <1>1, <1>2, <1>3, <1>4, <1>5 DEF ListingSound

(***************************************************************************)
(* A row leaves the filter of a listing.                                   *)
(***************************************************************************)
\* At most one identity comes to lie in front of the offset: the one whose
\* position was the offset.
LEMMA BehindGrowsByOne ==
  ASSUME RowsInv, RowsInv', RowsKept, NEW l \in ListingType, NEW d \in ListingType,
         NEW x \in Matching(l), Matching(d)' = Matching(l) \ {x},
         d.offset = l.offset, d.seen = l.seen, d.due = l.due \ {x.id},
         IsFiniteSet(l.due), Cardinality(Behind(l)) <= l.departed
  PROVE  Cardinality(Behind(d)') <= l.departed + 1
  <1>1. PICK M : M = Matching(l)
    OBVIOUS
  <1>2. PICK B : B = Behind(d)'
    OBVIOUS
  <1>3. M \in SUBSET rows /\ Listable(M) /\ x \in M /\ l.offset \in Nat /\ l.departed \in Nat
    BY <1>1, MatchingListable DEF ListingType
  <1>4. Missed(d)' \subseteq Missed(l)
    <2>1. Missed(l)' \subseteq Missed(l)
      BY MissedShrinks
    <2>2. Missed(d)' \subseteq Missed(l)'
      BY DEF Missed
    <2> QED
      BY <2>1, <2>2
  <1>5. ASSUME NEW i \in B
        PROVE  /\ i \in Missed(l)
               /\ \E s \in M \ {x} : s.id = i /\ Position(s, M \ {x}) < l.offset
    BY <1>1, <1>2, <1>4 DEF Behind
  <1>6. ASSUME NEW i \in B, i \notin Behind(l)
        PROVE  \E s \in M : s.id = i /\ Position(s, M) = l.offset
    <2>1. PICK s \in M \ {x} : s.id = i /\ Position(s, M \ {x}) < l.offset
      BY <1>5
    <2>2. ~(Position(s, M) < l.offset)
      BY <1>1, <1>5, <1>6, <2>1 DEF Behind
    <2>3. Position(s, M) <= Position(s, M \ {x}) + 1
      BY <1>3, PositionWithout
    <2>4. Listable(M \ {x})
      BY <1>3, ListableSubset
    <2>5. Position(s, M) \in Nat /\ Position(s, M \ {x}) \in Nat
      BY <1>3, <2>4, PositionOrder
    <2> QED
      BY <1>3, <2>1, <2>2, <2>3, <2>5
  <1>7. ASSUME NEW i \in B, i \notin Behind(l), NEW j \in B, j \notin Behind(l)
        PROVE  i = j
    <2>1. PICK s \in M : s.id = i /\ Position(s, M) = l.offset
      BY <1>6, <1>7
    <2>2. PICK t \in M : t.id = j /\ Position(t, M) = l.offset
      BY <1>6, <1>7
    <2>3. s.at \in Nat /\ t.at \in Nat
      BY <1>3 DEF Listable
    <2>4. ~(s.at < t.at) /\ ~(t.at < s.at)
      BY <1>3, <2>1, <2>2, PositionOrder
    <2>5. s.at = t.at
      BY <2>3, <2>4
    <2> QED
      BY <1>3, <1>5, <1>7, <2>1, <2>2, <2>5 DEF Missed
  <1>8. PICK C : C = Behind(l)
    OBVIOUS
  <1>9. IsFiniteSet(C) /\ Cardinality(C) \in Nat /\ Cardinality(C) <= l.departed
    BY <1>8, OwedFinite
  <1>10. CASE B \subseteq C
    <2>1. Cardinality(B) <= Cardinality(C) /\ Cardinality(B) \in Nat
      BY <1>9, <1>10, FS_Subset, FS_CardinalityType
    <2>2. Cardinality(B) <= l.departed + 1
      BY <1>3, <1>9, <2>1
    <2> QED
      BY <1>2, <2>2
  <1>11. CASE ~(B \subseteq C)
    <2>1. PICK i \in B : i \notin C
      BY <1>11
    <2>2. B \subseteq C \cup {i}
      BY <1>7, <1>8, <2>1
    <2>3. IsFiniteSet(C \cup {i}) /\ Cardinality(C \cup {i}) = Cardinality(C) + 1
      BY <1>9, <2>1, FS_AddElement
    <2>4. Cardinality(B) <= Cardinality(C \cup {i}) /\ Cardinality(B) \in Nat
      BY <2>2, <2>3, FS_Subset, FS_CardinalityType
    <2>5. Cardinality(B) <= l.departed + 1
      BY <1>3, <1>9, <2>3, <2>4
    <2> QED
      BY <1>2, <2>5
  <1> QED
    BY <1>10, <1>11

\* The status of a row changes: what identifies it does not.
LEMMA StatusChanged ==
  ASSUME NEW r \in RowType, NEW status \in Status
  PROVE  /\ WithStatus(r, status) \in RowType
         /\ WithStatus(r, status).id = r.id /\ WithStatus(r, status).at = r.at
         /\ WithStatus(r, status).handle = r.handle /\ WithStatus(r, status).type = r.type
         /\ WithStatus(r, status).asked = r.asked
  <1>1. PICK s : s = [r EXCEPT !.status = status]
    OBVIOUS
  <1>2. /\ s \in RowType /\ s.id = r.id /\ s.at = r.at /\ s.handle = r.handle
        /\ s.type = r.type /\ s.asked = r.asked
    BY <1>1 DEF RowType
  <1>3. WithStatus(r, status) = s
    BY <1>1 DEF WithStatus
  <1> QED
    BY <1>2, <1>3

\* So the table stays one that can be listed.
LEMMA SetStatusRows ==
  ASSUME RowsInv, UNCHANGED now, NEW r \in rows, NEW s \in RowType,
         s.id = r.id, s.at = r.at, s.handle = r.handle, s.type = r.type, s.asked = r.asked,
         rows' = (rows \ {r}) \cup {s}
  PROVE  /\ RowsInv' /\ RowsKept
         /\ \A t \in rows' : \E u \in rows : u.id = t.id
  <1>1. IsFiniteSet(rows')
    <2>1. IsFiniteSet(rows \ {r})
      BY FS_RemoveElement DEF RowsInv, Listable
    <2> QED
      BY <2>1, FS_AddElement
  <1>2. /\ \A t \in rows : t \in RowType /\ t.at \in Nat
        /\ \A t, u \in rows : t.id = u.id => t = u
        /\ \A t \in rows :
             t.type = IF t.asked \in ProtoType THEN identityTypeFromProto(t.asked) ELSE t.asked
    BY DEF RowsInv, Listable
  <1>3. /\ \A t \in rows' : t.at \in Nat
        /\ \A t, u \in rows' : t.id = u.id => t = u
    BY <1>2
  <1>4. ASSUME NEW t \in rows'
        PROVE  /\ t \in RowType
               /\ t.type = IF t.asked \in ProtoType THEN identityTypeFromProto(t.asked) ELSE t.asked
    <2>1. CASE t \in rows
      BY <1>2, <2>1
    <2>2. CASE t = s
      BY <1>2, <2>2
    <2> QED
      BY <2>1, <2>2
  <1>5. RowsInv'
    BY <1>1, <1>3, <1>4 DEF RowsInv, Listable
  <1>6. ASSUME NEW t \in rows
        PROVE  \E u \in rows' : /\ u.id = t.id /\ u.at = t.at /\ u.handle = t.handle
                                /\ u.type = t.type /\ u.asked = t.asked
    <2>1. CASE t = r
      BY <2>1
    <2>2. CASE t # r
      <3>1. t \in rows'
        BY <2>2
      <3> QED
        BY <3>1
    <2> QED
      BY <2>1, <2>2
  <1>7. RowsKept
    BY <1>6 DEF RowsKept
  <1> QED
    BY <1>5, <1>7

\* sqlIdentityUpdateStatus leaves every listing sound.
LEMMA SetStatusStep ==
  ASSUME DirectoryInv, UNCHANGED now, NEW r \in rows, NEW status \in Status,
         SetStatus(r, status)
  PROVE  /\ RowsInv' /\ RowsKept /\ ListingsInv'
         /\ \A t \in rows' : \E u \in rows : u.id = t.id
  <1>1. PICK s : s = WithStatus(r, status)
    OBVIOUS
  <1>2. r \in RowType
    BY DEF DirectoryInv, RowsInv
  <1>3. /\ s \in RowType /\ s.id = r.id /\ s.at = r.at /\ s.handle = r.handle
        /\ s.type = r.type /\ s.asked = r.asked
    BY <1>1, <1>2, StatusChanged
  <1>4. /\ rows' = (rows \ {r}) \cup {s}
        /\ listing' = [p \in Lister |-> Owed(listing[p], r, status)]
    BY <1>1 DEF SetStatus
  <1>5. RowsInv' /\ RowsKept /\ \A t \in rows' : \E u \in rows : u.id = t.id
    BY <1>3, <1>4, SetStatusRows DEF DirectoryInv
  <1>6. ASSUME NEW p \in Lister
        PROVE  listing'[p] \in ListingType /\ ListingSound(listing[p])'
    <2>1. PICK l : l = listing[p]
      OBVIOUS
    <2>2. PICK d : d = Owed(l, r, status)
      OBVIOUS
    <2>3. listing'[p] = d
      BY <1>4, <2>1, <2>2
    <2>4. l \in ListingType /\ ListingSound(l)
      BY <2>1 DEF DirectoryInv, ListingsInv
    <2>5. CASE l.pc = "page" /\ Matches(r, l) /\ ~Matches(s, l)
      <3>1. d = [l EXCEPT !.due = l.due \ {r.id}, !.departed = l.departed + 1]
        BY <1>1, <2>2, <2>5 DEF Owed
      <3>2. /\ d \in ListingType /\ d.pc = "page" /\ d.surface = l.surface /\ d.type = l.type
            /\ d.status = l.status /\ d.offset = l.offset /\ d.seen = l.seen
            /\ d.due = l.due \ {r.id} /\ d.departed = l.departed + 1
        <4>1. l.due \in SUBSET Creator /\ l.departed \in Nat
          BY <2>4 DEF ListingType
        <4>2. PICK due \in SUBSET Creator : due = l.due \ {r.id}
          BY <4>1
        <4>3. PICK n \in Nat : n = l.departed + 1
          BY <4>1
        <4>4. d = [l EXCEPT !.due = due, !.departed = n]
          BY <3>1, <4>2, <4>3
        <4> QED
          BY <2>4, <2>5, <4>2, <4>3, <4>4 DEF ListingType
      <3>3. r \in Matching(l) /\ Matching(d)' = Matching(l) \ {r}
        <4>1. \A t : Matches(t, d) <=> Matches(t, l)
          BY <3>2 DEF Matches
        <4>2. Matching(d)' = {t \in rows' : Matches(t, d)}
          BY DEF Matching, Matches
        <4> QED
          BY <1>4, <2>5, <4>1, <4>2 DEF Matching
      <3>4. /\ IsFiniteSet(l.due) /\ l.surface # "http"
            /\ \A i \in l.due : \E t \in Matching(l) : t.id = i
            /\ Cardinality(Behind(l)) <= l.departed
        BY <2>4, <2>5 DEF ListingSound
      <3>5. Cardinality(Behind(d)') <= d.departed
        BY <1>5, <2>4, <3>2, <3>3, <3>4, BehindGrowsByOne DEF DirectoryInv
      <3>6. \A t \in d.seen : ShownSound(t, d)'
        <4>1. \A t \in l.seen : ShownSound(t, l)'
          BY <1>5, <2>4, ShownKept DEF ListingSound
        <4> QED
          BY <3>2, <4>1 DEF ShownSound
      <3>7. IsFiniteSet(d.due) /\ \A i \in d.due : \E t \in Matching(d)' : t.id = i
        <4>1. l.due \ {r.id} \in SUBSET l.due
          OBVIOUS
        <4> QED
          BY <3>2, <3>3, <3>4, <4>1, FS_Subset
      <3>8. ListingSound(d)'
        BY <3>2, <3>4, <3>5, <3>6, <3>7 DEF ListingSound
      <3> QED
        BY <2>3, <3>2, <3>8
    <2>6. CASE ~(l.pc = "page" /\ Matches(r, l) /\ ~Matches(s, l))
      <3>1. d = l
        BY <1>1, <2>2, <2>6 DEF Owed
      <3>2. l.pc = "page" => MatchingKept(l)
        <4>1. ASSUME l.pc = "page", NEW t \in Matching(l)
              PROVE  \E u \in Matching(l)' : u.id = t.id /\ u.at = t.at
          <5>1. Matching(l) = {u \in rows : Matches(u, l)}
            BY DEF Matching
          <5>2. Matching(l)' = {u \in rows' : Matches(u, l)}
            BY DEF Matching, Matches
          <5>3. CASE t = r
            BY <1>3, <1>4, <2>6, <4>1, <5>1, <5>2, <5>3
          <5>4. CASE t # r
            <6>1. t \in Matching(l)'
              BY <1>4, <5>1, <5>2, <5>4
            <6> QED
              BY <6>1
          <5> QED
            BY <5>3, <5>4
        <4> QED
          BY <4>1 DEF MatchingKept
      <3>3. ListingSound(l)'
        BY <1>5, <2>4, <3>2, ListingKept DEF DirectoryInv
      <3> QED
        BY <2>3, <2>4, <3>1, <3>3
    <2> QED
      BY <2>5, <2>6
  <1>7. ListingsInv'
    BY <1>4, <1>6 DEF ListingsInv
  <1> QED
    BY <1>5, <1>7

(***************************************************************************)
(* Steps that change nothing a part relies on.                             *)
(***************************************************************************)
\* A call in flight and an answer given stay sound when no row appears under the
\* call's own id.
LEMMA CreationKept ==
  ASSUME RowsKept, NEW g, NEW c, CreationSound(g, c), Truthful(g, c),
         \A s \in rows' : s.id = g => \E r \in rows : r.id = g
  PROVE  CreationSound(g, c)' /\ Truthful(g, c)'
  <1>1. CreationSound(g, c)'
    BY DEF CreationSound, RowsKept
  <1>2. ASSUME Fits(g, c.handle, c.cause, c.answer)
        PROVE  Fits(g, c.handle, c.cause, c.answer)'
    BY <1>2 DEF Fits, RowsKept
  <1>3. Truthful(g, c)'
    BY <1>2 DEF Truthful
  <1> QED
    BY <1>1, <1>3

\* A step of one creator leaves the others sound: it inserts under its own id.
LEMMA OneCreation ==
  ASSUME CreationsInv, RowsKept, NEW h \in Creator,
         NEW d \in CreationType, creation' = [creation EXCEPT ![h] = d],
         \A s \in rows' : (\E r \in rows : r.id = s.id) \/ s.id = h,
         CreationSound(h, d)', Truthful(h, d)'
  PROVE  CreationsInv'
  <1>1. \A g \in Creator : creation'[g] = IF g = h THEN d ELSE creation[g]
    BY DEF CreationsInv
  <1>2. creation' \in [Creator -> CreationType]
    BY DEF CreationsInv
  <1>3. ASSUME NEW g \in Creator
        PROVE  CreationSound(g, creation[g])' /\ Truthful(g, creation[g])'
    <2>1. CASE g = h
      BY <1>1, <2>1
    <2>2. CASE g # h
      <3>1. PICK c : c = creation[g]
        OBVIOUS
      <3>2. CreationSound(g, c) /\ Truthful(g, c)
        BY <3>1 DEF CreationsInv
      <3>3. CreationSound(g, c)' /\ Truthful(g, c)'
        BY <2>2, <3>2, CreationKept
      <3> QED
        BY <1>1, <2>2, <3>1, <3>3
    <2> QED
      BY <2>1, <2>2
  <1> QED
    BY <1>2, <1>3 DEF CreationsInv

\* Steps that are not a creation's and insert nothing.
LEMMA CreationsKept ==
  ASSUME CreationsInv, RowsKept, UNCHANGED creation,
         \A s \in rows' : \E r \in rows : r.id = s.id
  PROVE  CreationsInv'
  <1>1. ASSUME NEW h \in Creator
        PROVE  CreationSound(h, creation[h])' /\ Truthful(h, creation[h])'
    <2>1. PICK c : c = creation[h]
      OBVIOUS
    <2>2. CreationSound(h, c) /\ Truthful(h, c)
      BY <2>1 DEF CreationsInv
    <2>3. CreationSound(h, c)' /\ Truthful(h, c)'
      BY <2>2, CreationKept
    <2>4. creation'[h] = c
      BY <2>1
    <2> QED
      BY <2>3, <2>4
  <1> QED
    BY <1>1 DEF CreationsInv

\* Only the clock may move on.
LEMMA RowsSame ==
  ASSUME RowsInv, UNCHANGED rows, now' \in Nat
  PROVE  /\ RowsInv' /\ RowsKept
         /\ \A s \in rows' : \E r \in rows : r.id = s.id
  BY DEF RowsInv, RowsKept

\* Steps that are not a listing's and change no row.
LEMMA ListingsKept ==
  ASSUME DirectoryInv, RowsInv', rows \subseteq rows', UNCHANGED listing
  PROVE  RowsKept /\ ListingsInv'
  <1>1. RowsKept
    BY DEF RowsKept
  <1>2. ASSUME NEW p \in Lister
        PROVE  ListingSound(listing[p])'
    <2>1. PICK l : l = listing[p]
      OBVIOUS
    <2>2. l \in ListingType /\ ListingSound(l)
      BY <2>1 DEF DirectoryInv, ListingsInv
    <2>3. Matching(l) \subseteq Matching(l)'
      BY DEF Matching, Matches
    <2>4. MatchingKept(l)
      BY <2>3 DEF MatchingKept
    <2>5. ListingSound(l)'
      BY <1>1, <2>2, <2>4, ListingKept DEF DirectoryInv
    <2>6. listing'[p] = l
      BY <2>1
    <2> QED
      BY <2>5, <2>6
  <1> QED
    BY <1>1, <1>2 DEF DirectoryInv, ListingsInv

(***************************************************************************)
(* The steps of CreateIdentity.                                            *)
(***************************************************************************)
\* A step that ends nothing.
LEMMA GoOnStep ==
  ASSUME DirectoryInv, RowsInv', rows \subseteq rows', UNCHANGED listing, NEW h \in Creator,
         \A s \in rows' : (\E r \in rows : r.id = s.id) \/ s.id = h,
         NEW d \in CreationType, d.pc # "answered", creation' = [creation EXCEPT ![h] = d],
         CreationSound(h, d)'
  PROVE  DirectoryInv'
  <1>1. Truthful(h, d)'
    BY DEF Truthful
  <1>2. RowsKept /\ ListingsInv'
    BY ListingsKept
  <1>3. CreationsInv'
    BY <1>1, <1>2, OneCreation DEF DirectoryInv
  <1> QED
    BY <1>2, <1>3 DEF DirectoryInv

\* An answer ends the call; it is sound when either transport's fits.
LEMMA AnswerStep ==
  ASSUME DirectoryInv, UNCHANGED <<rows, now, listing>>, NEW h \in Creator,
         NEW c, c = creation[h],
         NEW cause \in Cause, NEW grpcCode \in Answer, NEW httpStatus \in Answer,
         AnswerWith(h, cause, grpcCode, httpStatus),
         Fits(h, c.handle, cause, grpcCode), Fits(h, c.handle, cause, httpStatus)
  PROVE  DirectoryInv'
  <1>1. now' \in Nat /\ c.handle \in Handle \cup {""}
    BY DEF DirectoryInv, CreationsInv, CreationType, RowsInv
  <1>2. PICK answer \in {grpcCode, httpStatus} :
          answer = IF c.surface = "grpc" THEN grpcCode ELSE httpStatus
    OBVIOUS
  <1>3. PICK d : d = [NoCreation EXCEPT !.pc = "answered", !.handle = c.handle,
                                        !.cause = cause, !.answer = answer]
    OBVIOUS
  <1>4. creation' = [creation EXCEPT ![h] = d]
    BY <1>2, <1>3 DEF AnswerWith
  <1>5. d = [pc |-> "answered", surface |-> "grpc", asked |-> "", handle |-> c.handle,
             at |-> 0, cause |-> cause, answer |-> answer]
    BY <1>3 DEF NoCreation
  <1>6. d \in CreationType
    BY <1>1, <1>2, <1>5 DEF CreationType, Surface
  <1>7. CreationSound(h, d)'
    BY <1>5 DEF CreationSound
  <1>8. Truthful(h, d)'
    <2>1. Fits(h, c.handle, cause, answer)
      BY <1>2
    <2>2. Fits(h, c.handle, cause, answer)'
      BY <2>1 DEF Fits
    <2>3. d.handle = c.handle /\ d.cause = cause /\ d.answer = answer
      BY <1>5
    <2> QED
      BY <2>2, <2>3 DEF Truthful
  <1>9. RowsInv' /\ RowsKept /\ \A s \in rows' : \E r \in rows : r.id = s.id
    BY <1>1, RowsSame DEF DirectoryInv
  <1>10. CreationsInv'
    BY <1>4, <1>6, <1>7, <1>8, <1>9, OneCreation DEF DirectoryInv
  <1> QED
    BY <1>9, <1>10, ListingsKept DEF DirectoryInv

\* An error answered.
LEMMA ErrorStep ==
  ASSUME DirectoryInv, UNCHANGED <<rows, now, listing>>, NEW h \in Creator,
         NEW c, c = creation[h],
         NEW cause \in Cause, NEW err,
         toGRPCError(err) \in Answer, writeServiceError(err) \in Answer,
         AnswerError(h, cause, err),
         Fits(h, c.handle, cause, toGRPCError(err)),
         Fits(h, c.handle, cause, writeServiceError(err))
  PROVE  DirectoryInv'
  <1>1. PICK grpcCode \in Answer, httpStatus \in Answer :
          grpcCode = toGRPCError(err) /\ httpStatus = writeServiceError(err)
    OBVIOUS
  <1>2. AnswerWith(h, cause, grpcCode, httpStatus)
    BY <1>1 DEF AnswerError
  <1>3. Fits(h, c.handle, cause, grpcCode) /\ Fits(h, c.handle, cause, httpStatus)
    BY <1>1
  <1> QED
    BY <1>2, <1>3, AnswerStep

\* The request and its validation.
LEMMA CreateIdentityStep ==
  ASSUME DirectoryInv, NEW h \in Creator, CreateIdentity(h)
  PROVE  DirectoryInv'
  <1>1. UNCHANGED <<rows, listing>> /\ now' \in Nat /\ \A r \in rows : r.id # h
    BY DEF CreateIdentity, DirectoryInv, RowsInv, CreationsInv, CreationSound
  <1>2. RowsInv' /\ \A s \in rows' : \E r \in rows : r.id = s.id
    BY <1>1, RowsSame DEF DirectoryInv
  <1>3. PICK surface \in Surface, handle \in Handle \cup {""}, asked \in AskedType :
          /\ surface = "grpc" => asked \in ProtoType
          /\ surface = "http" => asked \notin ProtoType
          /\ creation' = [creation EXCEPT ![h] =
               [pc |-> IF handle = "" THEN "invalid" ELSE "tenant",
                surface |-> surface, asked |-> asked, handle |-> handle, at |-> 0,
                cause |-> "none", answer |-> "none"]]
    BY Zenon DEF CreateIdentity
  <1>4. PICK pc \in {"invalid", "tenant"} : pc = IF handle = "" THEN "invalid" ELSE "tenant"
    OBVIOUS
  <1>5. PICK d : d = [pc |-> pc, surface |-> surface, asked |-> asked, handle |-> handle,
                      at |-> 0, cause |-> "none", answer |-> "none"]
    OBVIOUS
  <1>6. creation' = [creation EXCEPT ![h] = d]
    BY <1>3, <1>4, <1>5
  <1>7. d \in CreationType
    BY <1>4, <1>5 DEF CreationType, Cause, Answer
  <1>8. CreationSound(h, d)'
    BY <1>1, <1>3, <1>4, <1>5 DEF CreationSound, Surface
  <1>9. d.pc # "answered"
    BY <1>4, <1>5
  <1> QED
    BY <1>1, <1>2, <1>6, <1>7, <1>8, <1>9, GoOnStep

\* validateCreateIdentityInput refuses the request.
LEMMA InvalidStep ==
  ASSUME DirectoryInv, NEW h \in Creator, CreateIdentityInvalid(h)
  PROVE  DirectoryInv'
  <1>1. PICK c : c = creation[h]
    OBVIOUS
  <1>2. \A r \in rows : r.id # h
    BY DEF CreateIdentityInvalid, DirectoryInv, CreationsInv, CreationSound
  <1>3. /\ Fits(h, c.handle, "input", "InvalidArgument")
        /\ Fits(h, c.handle, "input", "400")
    BY <1>2 DEF Fits
  <1>4. "input" \in Cause /\ "InvalidArgument" \in Answer /\ "400" \in Answer
    BY DEF Cause, Answer
  <1> QED
    BY <1>1, <1>3, <1>4, ErrorStep, ErrorAnswers DEF CreateIdentityInvalid

\* The tenant is unknown, not active, or found.
LEMMA TenantStep ==
  ASSUME DirectoryInv, NEW h \in Creator, CreateIdentityTenant(h)
  PROVE  DirectoryInv'
  <1>1. PICK c : c = creation[h]
    OBVIOUS
  <1>2. c.pc = "tenant" /\ c \in CreationType /\ CreationSound(h, c)
    BY <1>1 DEF CreateIdentityTenant, DirectoryInv, CreationsInv
  <1>3. \A r \in rows : r.id # h
    BY <1>2 DEF CreationSound
  <1>4. UNCHANGED <<rows, now, listing>>
    BY DEF CreateIdentityTenant
  <1>5. CASE AnswerError(h, "no tenant", wrapRepoError(NotFoundError))
    <2>1. /\ Fits(h, c.handle, "no tenant", "NotFound")
          /\ Fits(h, c.handle, "no tenant", "404")
      BY <1>3 DEF Fits
    <2>2. "no tenant" \in Cause /\ "NotFound" \in Answer /\ "404" \in Answer
      BY DEF Cause, Answer
    <2> QED
      BY <1>1, <1>4, <1>5, <2>1, <2>2, ErrorStep, ErrorAnswers
  <1>6. CASE AnswerError(h, "inactive", {"ErrTenantInactive"})
    <2>1. /\ Fits(h, c.handle, "inactive", "FailedPrecondition")
          /\ Fits(h, c.handle, "inactive", "422")
      BY <1>3 DEF Fits
    <2>2. "inactive" \in Cause /\ "FailedPrecondition" \in Answer /\ "422" \in Answer
      BY DEF Cause, Answer
    <2> QED
      BY <1>1, <1>4, <1>6, <2>1, <2>2, ErrorStep, ErrorAnswers
  <1>7. CASE creation' = [creation EXCEPT ![h].pc = "begin"]
    <2>1. PICK d : d = [c EXCEPT !.pc = "begin"]
      OBVIOUS
    <2>2. creation' = [creation EXCEPT ![h] = d]
      BY <1>1, <1>7, <2>1
    <2>3. /\ d \in CreationType /\ d.pc = "begin"
          /\ d.asked = c.asked /\ d.surface = c.surface
      BY <1>2, <2>1 DEF CreationType
    <2>4. CreationSound(h, d)'
      BY <1>2, <1>4, <2>3 DEF CreationSound
    <2>5. now' \in Nat
      BY <1>4 DEF DirectoryInv, RowsInv
    <2>6. RowsInv' /\ \A s \in rows' : \E r \in rows : r.id = s.id
      BY <1>4, <2>5, RowsSame DEF DirectoryInv
    <2> QED
      BY <1>4, <2>2, <2>3, <2>4, <2>6, GoOnStep
  <1> QED
    BY <1>5, <1>6, <1>7 DEF CreateIdentityTenant

\* The transaction begins: its created_at may be one another has.
LEMMA BeginStep ==
  ASSUME DirectoryInv, NEW h \in Creator, CreateIdentityBegin(h)
  PROVE  DirectoryInv'
  <1>1. PICK c : c = creation[h]
    OBVIOUS
  <1>2. c.pc = "begin" /\ c \in CreationType /\ CreationSound(h, c)
    BY <1>1 DEF CreateIdentityBegin, DirectoryInv, CreationsInv
  <1>3. now' \in Nat /\ UNCHANGED <<rows, listing>>
    BY DEF CreateIdentityBegin, DirectoryInv, RowsInv
  <1>4. RowsInv' /\ \A s \in rows' : \E r \in rows : r.id = s.id
    BY <1>3, RowsSame DEF DirectoryInv
  <1>5. PICK n \in Nat : n = now'
    BY <1>3
  <1>6. PICK d : d = [c EXCEPT !.pc = "insert", !.at = n]
    OBVIOUS
  <1>7. creation' = [creation EXCEPT ![h] = d]
    BY <1>1, <1>5, <1>6 DEF CreateIdentityBegin
  <1>8. d \in CreationType /\ d.pc = "insert" /\ d.asked = c.asked /\ d.surface = c.surface
    BY <1>2, <1>6 DEF CreationType
  <1>9. CreationSound(h, d)'
    BY <1>2, <1>3, <1>8 DEF CreationSound
  <1> QED
    BY <1>3, <1>4, <1>7, <1>8, <1>9, GoOnStep

\* The row a call inserts has the type its request was turned into.
LEMMA InsertedRow ==
  ASSUME NEW h \in Creator, NEW c \in CreationType, CreationSound(h, c), c.pc = "insert",
         Row(h, c).type \in IdentityType
  PROVE  /\ Row(h, c) \in RowType
         /\ Row(h, c).id = h /\ Row(h, c).at = c.at /\ Row(h, c).handle = c.handle
         /\ Row(h, c).type = IF Row(h, c).asked \in ProtoType
                               THEN identityTypeFromProto(Row(h, c).asked) ELSE Row(h, c).asked
  <1>1. PICK type : type = DomainType(c.surface, c.asked)
    OBVIOUS
  <1>2. PICK row : row = [id |-> h, at |-> c.at, handle |-> c.handle,
                          status |-> "pending", type |-> type, asked |-> c.asked]
    OBVIOUS
  <1>3. Row(h, c) = row
    BY <1>1, <1>2 DEF Row
  <1>4. type \in IdentityType
    BY <1>2, <1>3
  <1>5. c.asked \in AskedType /\ ((c.surface = "grpc") <=> (c.asked \in ProtoType))
    BY DEF CreationSound
  <1>6. type = IF c.asked \in ProtoType THEN identityTypeFromProto(c.asked) ELSE c.asked
    BY <1>1, <1>5 DEF DomainType
  <1>7. row \in RowType
    BY <1>2, <1>4, <1>5 DEF RowType, CreationType, Status
  <1>8. /\ row.id = h /\ row.at = c.at /\ row.handle = c.handle
        /\ row.type = type /\ row.asked = c.asked
    BY <1>2
  <1> QED
    BY <1>3, <1>6, <1>7, <1>8

\* The insert: refused, a handle that is taken, or a new row.
LEMMA InsertStep ==
  ASSUME DirectoryInv, NEW h \in Creator, CreateIdentityInsert(h)
  PROVE  DirectoryInv'
  <1>1. PICK c : c = creation[h]
    OBVIOUS
  <1>2. PICK row : row = Row(h, c)
    OBVIOUS
  <1>3. c.pc = "insert" /\ c \in CreationType /\ CreationSound(h, c)
    BY <1>1 DEF CreateIdentityInsert, DirectoryInv, CreationsInv
  <1>4. c.at \in Nat /\ \A r \in rows : r.id # h
    BY <1>3 DEF CreationSound, CreationType
  <1>5. UNCHANGED <<now, listing>> /\ now' \in Nat
    BY DEF CreateIdentityInsert, DirectoryInv, RowsInv
  <1>6. row.handle = c.handle
    BY <1>2 DEF Row
  <1>7. \/ /\ AnswerError(h, "refused", wrapRepoError(DriverError))
           /\ UNCHANGED rows
        \/ /\ ~(\A r \in rows : r.handle # row.handle)
           /\ AnswerError(h, "taken", wrapRepoError({"ErrHandleTaken"}))
           /\ UNCHANGED rows
        \/ /\ row.type \in IdentityType
           /\ rows' = rows \cup {row}
           /\ creation' = [creation EXCEPT ![h].pc = "activate"]
    BY <1>1, <1>2 DEF CreateIdentityInsert
  <1>8. CASE AnswerError(h, "refused", wrapRepoError(DriverError)) /\ UNCHANGED rows
    <2>1. /\ Fits(h, c.handle, "refused", "Internal")
          /\ Fits(h, c.handle, "refused", "500")
      BY <1>4 DEF Fits
    <2>2. "refused" \in Cause /\ "Internal" \in Answer /\ "500" \in Answer
      BY DEF Cause, Answer
    <2> QED
      BY <1>1, <1>5, <1>8, <2>1, <2>2, ErrorStep, ErrorAnswers
  <1>9. CASE /\ ~(\A r \in rows : r.handle # row.handle)
             /\ AnswerError(h, "taken", wrapRepoError({"ErrHandleTaken"}))
             /\ UNCHANGED rows
    <2>1. \E r \in rows : r.id # h /\ r.handle = c.handle
      BY <1>4, <1>6, <1>9
    <2>2. /\ Fits(h, c.handle, "taken", "AlreadyExists")
          /\ Fits(h, c.handle, "taken", "409")
      BY <1>4, <2>1 DEF Fits
    <2>3. "taken" \in Cause /\ "AlreadyExists" \in Answer /\ "409" \in Answer
      BY DEF Cause, Answer
    <2> QED
      BY <1>1, <1>5, <1>9, <2>2, <2>3, ErrorStep, ErrorAnswers
  <1>10. CASE /\ row.type \in IdentityType
              /\ rows' = rows \cup {row}
              /\ creation' = [creation EXCEPT ![h].pc = "activate"]
    <2>1. /\ row \in RowType /\ row.id = h /\ row.at = c.at
          /\ row.type = IF row.asked \in ProtoType THEN identityTypeFromProto(row.asked)
                                                   ELSE row.asked
      BY <1>2, <1>3, <1>10, InsertedRow
    <2>2. Listable(rows')
      <3>1. IsFiniteSet(rows')
        BY <1>10, FS_AddElement DEF DirectoryInv, RowsInv, Listable
      <3>2. Listable(rows)
        BY DEF DirectoryInv, RowsInv
      <3> QED
        BY <1>4, <1>10, <2>1, <3>1, <3>2 DEF Listable
    <2>3. RowsInv'
      <3>1. ASSUME NEW r \in rows'
            PROVE  /\ r \in RowType
                   /\ r.type = IF r.asked \in ProtoType THEN identityTypeFromProto(r.asked)
                                                        ELSE r.asked
        <4>1. CASE r \in rows
          BY <4>1 DEF DirectoryInv, RowsInv
        <4>2. CASE r = row
          BY <2>1, <4>2
        <4> QED
          BY <1>10, <4>1, <4>2
      <3> QED
        BY <1>5, <2>2, <3>1 DEF RowsInv
    <2>4. /\ rows \subseteq rows'
          /\ \A s \in rows' : (\E r \in rows : r.id = s.id) \/ s.id = h
      BY <1>10, <2>1
    <2>5. PICK d : d = [c EXCEPT !.pc = "activate"]
      OBVIOUS
    <2>6. creation' = [creation EXCEPT ![h] = d]
      BY <1>1, <1>10, <2>5
    <2>7. d \in CreationType /\ d.pc = "activate" /\ d.handle = c.handle
      BY <1>3, <2>5 DEF CreationType
    <2>8. CreationSound(h, d)'
      <3>1. \E r \in rows' : r.id = h /\ r.handle = d.handle
        BY <1>6, <1>10, <2>1, <2>7
      <3> QED
        BY <2>7, <3>1 DEF CreationSound
    <2> QED
      BY <1>5, <2>3, <2>4, <2>6, <2>7, <2>8, GoOnStep
  <1> QED
    BY <1>7, <1>8, <1>9, <1>10

\* The identity is activated.
LEMMA ActivateStep ==
  ASSUME DirectoryInv, NEW h \in Creator, CreateIdentityActivate(h)
  PROVE  DirectoryInv'
  <1>1. PICK c : c = creation[h]
    OBVIOUS
  <1>2. PICK r \in rows : r.id = h /\ SetStatus(r, "active")
    BY DEF CreateIdentityActivate
  <1>3. UNCHANGED now /\ "active" \in Status
    BY DEF CreateIdentityActivate, Status
  <1>4. RowsInv' /\ RowsKept /\ ListingsInv' /\ \A t \in rows' : \E u \in rows : u.id = t.id
    BY <1>2, <1>3, SetStatusStep
  <1>5. c.pc = "activate" /\ c \in CreationType /\ CreationSound(h, c)
    BY <1>1 DEF CreateIdentityActivate, DirectoryInv, CreationsInv
  <1>6. PICK d : d = [c EXCEPT !.pc = "event"]
    OBVIOUS
  <1>7. creation' = [creation EXCEPT ![h] = d]
    BY <1>1, <1>6 DEF CreateIdentityActivate
  <1>8. d \in CreationType /\ d.pc = "event" /\ d.handle = c.handle
    BY <1>5, <1>6 DEF CreationType
  <1>9. CreationSound(h, d)'
    <2>1. \E s \in rows : s.id = h /\ s.handle = d.handle
      BY <1>5, <1>8 DEF CreationSound
    <2>2. \E s \in rows' : s.id = h /\ s.handle = d.handle
      BY <1>4, <2>1 DEF RowsKept
    <2> QED
      BY <1>8, <2>2 DEF CreationSound
  <1>10. Truthful(h, d)'
    BY <1>8 DEF Truthful
  <1>11. CreationsInv'
    BY <1>4, <1>7, <1>8, <1>9, <1>10, OneCreation DEF DirectoryInv
  <1> QED
    BY <1>4, <1>11 DEF DirectoryInv

\* The event is written and the call answers.
LEMMA EventStep ==
  ASSUME DirectoryInv, NEW h \in Creator, CreateIdentityEvent(h)
  PROVE  DirectoryInv'
  <1>1. PICK c : c = creation[h]
    OBVIOUS
  <1>2. \E r \in rows : r.id = h /\ r.handle = c.handle
    BY <1>1 DEF CreateIdentityEvent, DirectoryInv, CreationsInv, CreationSound
  <1>3. Fits(h, c.handle, "created", "OK") /\ Fits(h, c.handle, "created", "201")
    BY <1>2 DEF Fits
  <1>4. "created" \in Cause /\ "OK" \in Answer /\ "201" \in Answer
    BY DEF Cause, Answer
  <1> QED
    BY <1>1, <1>3, <1>4, AnswerStep DEF CreateIdentityEvent

\* A statement fails: what was done stays, and the answer is an internal error.
LEMMA FailsStep ==
  ASSUME DirectoryInv, NEW h \in Creator, CreateIdentityFails(h)
  PROVE  DirectoryInv'
  <1>1. PICK c : c = creation[h]
    OBVIOUS
  <1>2. Fits(h, c.handle, "failed", "Internal") /\ Fits(h, c.handle, "failed", "500")
    BY DEF Fits
  <1>3. "failed" \in Cause /\ "Internal" \in Answer /\ "500" \in Answer
    BY DEF Cause, Answer
  <1> QED
    BY <1>1, <1>2, <1>3, ErrorStep, ErrorAnswers DEF CreateIdentityFails

\* Another request changes the status of an identity.
LEMMA UpdateStatusStep ==
  ASSUME DirectoryInv, NEW r \in rows, UpdateStatus(r)
  PROVE  DirectoryInv'
  <1>1. PICK status \in Status : SetStatus(r, status)
    BY DEF UpdateStatus, Status
  <1>2. UNCHANGED <<now, creation>>
    BY DEF UpdateStatus
  <1>3. RowsInv' /\ RowsKept /\ ListingsInv' /\ \A t \in rows' : \E u \in rows : u.id = t.id
    BY <1>1, <1>2, SetStatusStep
  <1> QED
    BY <1>2, <1>3, CreationsKept DEF DirectoryInv

(***************************************************************************)
(* The steps of ListIdentities.                                            *)
(***************************************************************************)
\* A step of one listing leaves the others sound.
LEMMA OneListing ==
  ASSUME DirectoryInv, UNCHANGED <<rows, now, creation>>, NEW p \in Lister,
         NEW d \in ListingType, ListingSound(d), listing' = [listing EXCEPT ![p] = d]
  PROVE  DirectoryInv'
  <1>1. now' \in Nat
    BY DEF DirectoryInv, RowsInv
  <1>2. RowsInv' /\ RowsKept /\ \A s \in rows' : \E r \in rows : r.id = s.id
    BY <1>1, RowsSame DEF DirectoryInv
  <1>3. CreationsInv'
    BY <1>2, CreationsKept DEF DirectoryInv
  <1>4. /\ \A q \in Lister : listing'[q] = IF q = p THEN d ELSE listing[q]
        /\ listing' \in [Lister -> ListingType]
    BY DEF DirectoryInv, ListingsInv
  <1>5. ASSUME NEW q \in Lister
        PROVE  ListingSound(listing[q])'
    <2>1. PICK l : l = IF q = p THEN d ELSE listing[q]
      OBVIOUS
    <2>2. l \in ListingType /\ ListingSound(l)
      BY <2>1 DEF DirectoryInv, ListingsInv
    <2>3. MatchingKept(l)
      BY DEF MatchingKept, Matching
    <2>4. ListingSound(l)'
      BY <1>2, <2>2, <2>3, ListingKept DEF DirectoryInv
    <2> QED
      BY <1>4, <2>1, <2>4
  <1> QED
    BY <1>2, <1>3, <1>4, <1>5 DEF DirectoryInv, ListingsInv

\* There are no more ids than rows.
LEMMA IdsFinite ==
  ASSUME NEW S, IsFiniteSet(S)
  PROVE  IsFiniteSet({r.id : r \in S})
  <1> DEFINE T == {r.id : r \in S}
             f == [r \in S |-> r.id]
  <1>1. f \in Surjection(S, T)
    BY DEF Surjection
  <1> QED
    BY <1>1, FS_Surjection

\* Nothing lies in front of the first page.
LEMMA NothingBehind ==
  ASSUME RowsInv, NEW l, l.offset = 0, l.departed = 0
  PROVE  Cardinality(Behind(l)) <= l.departed
  <1>1. \A r \in Matching(l) : Position(r, Matching(l)) \in Nat
    BY MatchingListable, PositionOrder
  <1>2. Behind(l) = {}
    BY <1>1 DEF Behind
  <1>3. Cardinality(Behind(l)) = 0
    BY <1>2, FS_EmptySet
  <1> QED
    BY <1>3

\* A listing begins, owed what matches.
LEMMA StartStep ==
  ASSUME DirectoryInv, NEW p \in Lister, StartListing(p)
  PROVE  DirectoryInv'
  <1>1. PICK f \in [type : {"", "human"}, status : AskedStatus, limit : PageSize] :
          listing' = [listing EXCEPT ![p] =
            [NoListing EXCEPT !.pc = "page", !.type = f.type, !.status = f.status,
                              !.limit = f.limit, !.due = {r.id : r \in Matching(f)}]]
    BY Zenon DEF StartListing
  <1>2. f.type \in {"", "human"} /\ f.status \in Status \cup {""} /\ f.limit \in Nat
    BY DirectoryAssumption DEF Status
  <1>3. PICK due : due = {r.id : r \in Matching(f)}
    OBVIOUS
  <1>4. PICK e : e = NoListing
    OBVIOUS
  <1>5. PICK d : d = [e EXCEPT !.pc = "page", !.type = f.type, !.status = f.status,
                               !.limit = f.limit, !.due = due]
    OBVIOUS
  <1>6. listing' = [listing EXCEPT ![p] = d]
    BY <1>1, <1>3, <1>4, <1>5, Zenon
  <1>7. Matching(f) \in SUBSET rows /\ Listable(Matching(f)) /\ \A r \in rows : r.id \in Creator
    BY MatchingListable DEF DirectoryInv, RowsInv, RowType
  <1>8. due \in SUBSET Creator /\ IsFiniteSet(due)
    <2>1. IsFiniteSet({r.id : r \in Matching(f)})
      BY <1>7, IdsFinite DEF Listable
    <2> QED
      BY <1>3, <1>7, <2>1
  <1>9. e \in ListingType /\ e.seen = {} /\ e.offset = 0 /\ e.surface = "grpc" /\ e.departed = 0
    BY <1>4 DEF NoListing, ListingType, Surface
  <1>10. /\ d \in ListingType /\ d.pc = "page" /\ d.type = f.type /\ d.status = f.status
         /\ d.due = due /\ d.seen = {} /\ d.offset = 0 /\ d.surface = "grpc" /\ d.departed = 0
    BY <1>2, <1>5, <1>8, <1>9 DEF ListingType
  <1>11. Matching(d) = Matching(f)
    BY <1>10 DEF Matching, Matches
  <1>12. Cardinality(Behind(d)) <= d.departed
    BY <1>10, NothingBehind, Zenon DEF DirectoryInv
  <1>13. ListingSound(d)
    <2>1. \A i \in due : \E r \in Matching(d) : r.id = i
      BY <1>3, <1>11
    <2> QED
      BY <1>8, <1>10, <1>12, <2>1 DEF ListingSound
  <1>14. UNCHANGED <<rows, now, creation>>
    BY Zenon DEF StartListing
  <1> QED
    BY <1>6, <1>10, <1>13, <1>14, OneListing

\* The page of a listing is the window at its offset.
LEMMA PageIsWindow ==
  ASSUME NEW l, NEW order
  PROVE  Page(l, order) = Window(Matching(l), order, l.offset, l.limit)
  BY DEF Page, Window

\* One page: whatever it is owed, does not show and has not passed lies behind
\* the page, and there is nothing behind a page that is not full.
LEMMA PageStep ==
  ASSUME DirectoryInv, NEW p \in Lister, ListIdentities(p)
  PROVE  DirectoryInv'
  <1>1. PICK l : l = listing[p]
    OBVIOUS
  <1>2. PICK M : M = Matching(l)
    OBVIOUS
  <1>3. PICK order \in Orders(M) :
          listing' = [listing EXCEPT
            ![p].seen = @ \cup Shown(Page(l, order), "grpc"),
            ![p].offset = @ + Cardinality(Page(l, order)),
            ![p].pc = IF l.limit = 0 \/ Cardinality(Page(l, order)) < l.limit
                        THEN "done" ELSE "page"]
    BY <1>1, <1>2 DEF ListIdentities
  <1>4. PICK page : page = Page(l, order)
    OBVIOUS
  <1>5. PICK shown : shown = Shown(page, "grpc")
    OBVIOUS
  <1>6. l.pc = "page" /\ l \in ListingType /\ ListingSound(l) /\ l.surface = "grpc"
    BY <1>1 DEF ListIdentities, DirectoryInv, ListingsInv, ListingSound, ListingType, Surface
  <1>7. l.offset \in Nat /\ l.limit \in Nat /\ l.departed \in Nat
    BY <1>6 DEF ListingType
  <1>8. /\ IsFiniteSet(l.due) /\ \A i \in l.due : \E r \in M : r.id = i
        /\ Cardinality(Behind(l)) <= l.departed /\ \A s \in l.seen : ShownSound(s, l)
    BY <1>2, <1>6 DEF ListingSound
  <1>9. M \in SUBSET rows /\ Listable(M)
    BY <1>2, MatchingListable DEF DirectoryInv
  <1>10. page = Window(M, order, l.offset, l.limit) /\ page \in SUBSET M
    BY <1>2, <1>4, PageIsWindow DEF Window
  <1>11. IsFiniteSet(page) /\ Cardinality(page) \in Nat
    BY <1>9, <1>10, FS_Subset, FS_CardinalityType DEF Listable
  <1>12. /\ shown \subseteq ShownType /\ \A s \in shown : ShownSound(s, l)
         /\ \A r \in page : \E s \in shown : s.id = r.id
    <2>1. page \in SUBSET Matching(l) /\ RowsInv
      BY <1>2, <1>10 DEF DirectoryInv
    <2>2. PICK surface \in Surface : surface = "grpc"
      BY DEF Surface
    <2>3. surface = l.surface /\ surface # "http" /\ shown = Shown(page, surface)
      BY <1>5, <1>6, <2>2
    <2> QED
      BY <1>6, <2>1, <2>3, PageShown
  <1>13. PICK pc \in {"page", "done"} :
           pc = IF l.limit = 0 \/ Cardinality(page) < l.limit THEN "done" ELSE "page"
    OBVIOUS
  <1>14. PICK offset \in Nat : offset = l.offset + Cardinality(page)
    BY <1>7, <1>11
  <1>15. PICK d : d = [l EXCEPT !.seen = l.seen \cup shown, !.offset = offset, !.pc = pc]
    OBVIOUS
  <1>16. listing' = [listing EXCEPT ![p] = d] /\ UNCHANGED <<rows, now, creation>>
    BY <1>1, <1>3, <1>4, <1>5, <1>13, <1>14, <1>15 DEF ListIdentities
  <1>17. /\ d \in ListingType /\ d.pc = pc /\ d.offset = offset /\ d.seen = l.seen \cup shown
         /\ d.type = l.type /\ d.status = l.status /\ d.due = l.due /\ d.surface = "grpc"
         /\ d.departed = l.departed
    BY <1>6, <1>12, <1>15 DEF ListingType
  <1>18. Matching(d) = M
    BY <1>2, <1>17 DEF Matching, Matches
  <1>19. Missed(d) \subseteq Missed(l)
    BY <1>17 DEF Missed
  <1>20. ASSUME NEW i \in Missed(d), i \notin Behind(l)
         PROVE  pc = "page" /\ i \notin Behind(d)
    <2>1. i \in l.due
      BY <1>17 DEF Missed
    <2>2. PICK r \in M : r.id = i
      BY <1>8, <2>1
    <2>3. Alone(r, M) /\ r \notin page
      BY <1>9, <1>12, <1>17, <2>2 DEF Alone, Missed
    <2>4. Position(r, M) \in Nat /\ ~(Position(r, M) < l.offset)
      BY <1>2, <1>9, <1>19, <1>20, <2>2, PositionOrder DEF Behind
    <2>5. order[r] = Position(r, M)
      BY <1>9, <2>3, PlaceOfAlone
    <2>6. l.limit # 0 /\ l.offset + l.limit <= order[r]
      BY <1>7, <1>10, <2>3, <2>4, <2>5 DEF Window
    <2>7. Cardinality(page) = l.limit
      BY <1>7, <1>9, <1>10, <2>6, WindowFull
    <2>8. pc = "page" /\ offset <= Position(r, M)
      BY <1>7, <1>13, <1>14, <2>5, <2>6, <2>7
    <2>9. \A s \in M : s.id = i => s = r
      BY <1>9, <2>2 DEF Listable
    <2>10. i \notin Behind(d)
      BY <1>17, <1>18, <2>4, <2>8, <2>9 DEF Behind
    <2> QED
      BY <2>8, <2>10
  <1>21. Behind(d) \subseteq Behind(l) /\ (pc = "done" => Missed(d) \subseteq Behind(l))
    BY <1>20 DEF Behind
  <1>22. /\ Cardinality(Behind(d)) <= d.departed
         /\ pc = "done" => Cardinality(Missed(d)) <= d.departed
    <2>1. IsFiniteSet(Behind(l)) /\ Cardinality(Behind(l)) \in Nat
      BY <1>8, OwedFinite
    <2>2. ASSUME NEW B, B \subseteq Behind(l) PROVE Cardinality(B) <= d.departed
      <3>1. Cardinality(B) <= Cardinality(Behind(l)) /\ Cardinality(B) \in Nat
        BY <2>1, <2>2, FS_Subset, FS_CardinalityType
      <3> QED
        BY <1>7, <1>8, <1>17, <2>1, <3>1
    <2> QED
      BY <1>21, <2>2
  <1>23. ListingSound(d)
    <2>1. ASSUME NEW s \in d.seen PROVE ShownSound(s, d)
      BY <1>6, <1>8, <1>12, <1>17 DEF ShownSound
    <2> QED
      BY <1>8, <1>17, <1>18, <1>22, <2>1 DEF ListingSound
  <1> QED
    BY <1>16, <1>17, <1>23, OneListing

\* handleListIdentities: the only page holds every row when there are no more
\* rows than its limit.
LEMMA HandleListStep ==
  ASSUME DirectoryInv, NEW p \in Lister, HandleListIdentities(p)
  PROVE  DirectoryInv'
  <1>1. PICK e : e = NoListing
    OBVIOUS
  <1>2. PICK l : l = [e EXCEPT !.surface = "http", !.limit = HttpLimit]
    OBVIOUS
  <1>3. PICK due : due = IF Cardinality(rows) <= HttpLimit THEN {r.id : r \in rows} ELSE {}
    OBVIOUS
  <1>4. PICK order \in Orders(rows) :
          listing' = [listing EXCEPT ![p] =
            [l EXCEPT !.pc = "done", !.seen = Shown(Page(l, order), "http"), !.due = due]]
    BY <1>1, <1>2, <1>3, Zenon DEF HandleListIdentities
  <1>5. PICK page : page = Page(l, order)
    OBVIOUS
  <1>6. PICK shown : shown = Shown(page, "http")
    OBVIOUS
  <1>7. PICK d : d = [l EXCEPT !.pc = "done", !.seen = shown, !.due = due]
    OBVIOUS
  <1>8. listing' = [listing EXCEPT ![p] = d] /\ UNCHANGED <<rows, now, creation>>
    BY <1>4, <1>5, <1>6, <1>7, Zenon DEF HandleListIdentities
  <1>9. e \in ListingType /\ e.offset = 0 /\ e.type = "" /\ e.status = "" /\ e.departed = 0
    BY <1>1 DEF NoListing, ListingType, Surface
  <1>10. /\ l \in ListingType /\ l.offset = 0 /\ l.type = "" /\ l.status = ""
         /\ l.surface = "http" /\ l.limit = HttpLimit /\ l.departed = 0
    BY <1>2, <1>9, DirectoryAssumption DEF ListingType, Surface
  <1>11. Listable(rows) /\ Matching(l) = rows /\ \A r \in rows : r.id \in Creator
    BY <1>10 DEF DirectoryInv, RowsInv, RowType, Matching, Matches
  <1>12. page \in SUBSET Matching(l)
    BY <1>5 DEF Page
  <1>13. /\ shown \subseteq ShownType /\ \A s \in shown : ShownSound(s, l)
         /\ \A r \in page : \E s \in shown : s.id = r.id
    <2>1. RowsInv
      BY DEF DirectoryInv
    <2>2. PICK surface \in Surface : surface = "http"
      BY DEF Surface
    <2>3. surface = l.surface /\ l.status = "" /\ shown = Shown(page, surface)
      BY <1>6, <1>10, <2>2
    <2> QED
      BY <1>10, <1>12, <2>1, <2>3, PageShown
  <1>14. due \in SUBSET Creator /\ IsFiniteSet(due)
    <2>1. IsFiniteSet({r.id : r \in rows}) /\ IsFiniteSet({})
      BY <1>11, IdsFinite, FS_EmptySet DEF Listable
    <2> QED
      BY <1>3, <1>11, <2>1
  <1>15. /\ d \in ListingType /\ d.pc = "done" /\ d.seen = shown /\ d.due = due
         /\ d.surface = "http" /\ d.status = "" /\ d.type = "" /\ d.departed = 0
    BY <1>7, <1>10, <1>13, <1>14 DEF ListingType
  <1>16. ASSUME NEW r \in rows, Cardinality(rows) <= HttpLimit
         PROVE  r \in page
    <2>1. Cardinality(rows) \in Nat
      BY <1>11, FS_CardinalityType DEF Listable
    <2>2. order \in [rows -> 0..(Cardinality(rows) - 1)]
      BY DEF Orders, Bijection, Injection
    <2>3. HttpLimit \in Nat
      BY DirectoryAssumption
    <2>4. order[r] \in 0..(Cardinality(rows) - 1)
      BY <2>2
    <2>5. order[r] \in Nat /\ order[r] < 0 + HttpLimit /\ 0 <= order[r]
      BY <1>16, <2>1, <2>3, <2>4
    <2> QED
      BY <1>5, <1>10, <1>11, <2>5 DEF Page
  <1>17. \A i \in due : \E s \in shown : s.id = i
    BY <1>3, <1>13, <1>16
  <1>18. Missed(d) = {}
    BY <1>15, <1>17 DEF Missed
  <1>19. ListingSound(d)
    <2>1. \A s \in d.seen : ShownSound(s, d)
      BY <1>10, <1>13, <1>15 DEF ShownSound
    <2>2. Cardinality(Missed(d)) <= d.departed
      <3>1. Cardinality(Missed(d)) = 0
        BY <1>18, FS_EmptySet
      <3>2. d.departed = 0
        BY <1>15, Zenon
      <3>3. Cardinality(Missed(d)) <= 0
        BY <3>1
      <3> QED
        BY <3>2, <3>3
    <2> QED
      BY <1>14, <1>15, <2>1, <2>2 DEF ListingSound
  <1> QED
    BY <1>8, <1>15, <1>19, OneListing

(***************************************************************************)
(* The theorems.                                                           *)
(***************************************************************************)
\* An empty table and no call satisfy the invariant.
LEMMA DirectoryInvInit == DirectoryInit => DirectoryInv
  <1> SUFFICES ASSUME DirectoryInit PROVE DirectoryInv
    OBVIOUS
  <1>1. RowsInv
    BY FS_EmptySet DEF DirectoryInit, RowsInv, Listable
  <1>2. CreationsInv
    <2>1. PICK c : c = NoCreation
      OBVIOUS
    <2>2. c \in CreationType /\ c.pc = "idle"
      BY <2>1 DEF NoCreation, CreationType, Surface, Cause, Answer
    <2>3. creation = [h \in Creator |-> c] /\ rows = {}
      BY <2>1 DEF DirectoryInit
    <2>4. \A h \in Creator : CreationSound(h, c) /\ Truthful(h, c)
      BY <2>2, <2>3 DEF CreationSound, Truthful
    <2> QED
      BY <2>2, <2>3, <2>4 DEF CreationsInv
  <1>3. ListingsInv
    <2>1. PICK l : l = NoListing
      OBVIOUS
    <2>2. /\ l \in ListingType /\ l.pc = "idle" /\ l.seen = {} /\ l.due = {}
          /\ l.surface = "grpc"
      BY <2>1 DEF NoListing, ListingType, Surface
    <2>3. listing = [p \in Lister |-> l]
      BY <2>1 DEF DirectoryInit
    <2>4. ListingSound(l)
      BY <2>2, FS_EmptySet DEF ListingSound
    <2> QED
      BY <2>2, <2>3, <2>4 DEF ListingsInv
  <1> QED
    BY <1>1, <1>2, <1>3 DEF DirectoryInv

\* Every step of a creator, of a lister or of other requests keeps the invariant.
LEMMA DirectoryInvStep == DirectoryInv /\ [DirectoryNext]_dvars => DirectoryInv'
  <1> SUFFICES ASSUME DirectoryInv, [DirectoryNext]_dvars
               PROVE  DirectoryInv'
    OBVIOUS
  <1>1. ASSUME NEW h \in Creator,
               \/ CreateIdentity(h) \/ CreateIdentityInvalid(h) \/ CreateIdentityTenant(h)
               \/ CreateIdentityBegin(h) \/ CreateIdentityInsert(h) \/ CreateIdentityActivate(h)
               \/ CreateIdentityEvent(h) \/ CreateIdentityFails(h)
        PROVE  DirectoryInv'
    BY <1>1, CreateIdentityStep, InvalidStep, TenantStep, BeginStep, InsertStep, ActivateStep,
       EventStep, FailsStep
  <1>2. ASSUME NEW r \in rows, UpdateStatus(r)
        PROVE  DirectoryInv'
    BY <1>2, UpdateStatusStep
  <1>3. ASSUME UNCHANGED dvars
        PROVE  DirectoryInv'
    <2>1. UNCHANGED <<rows, now, creation, listing>>
      BY <1>3 DEF dvars
    <2>2. now' \in Nat
      BY <2>1 DEF DirectoryInv, RowsInv
    <2>3. RowsInv' /\ RowsKept /\ \A s \in rows' : \E r \in rows : r.id = s.id
      BY <2>1, <2>2, RowsSame DEF DirectoryInv
    <2> QED
      BY <2>1, <2>3, CreationsKept, ListingsKept DEF DirectoryInv
  <1>4. ASSUME NEW p \in Lister,
               StartListing(p) \/ ListIdentities(p) \/ HandleListIdentities(p)
        PROVE  DirectoryInv'
    BY <1>4, StartStep, PageStep, HandleListStep
  <1> QED
    BY <1>1, <1>2, <1>3, <1>4 DEF DirectoryNext

\* The invariant holds in every reachable state.
LEMMA DirectoryInvariant == DirectorySpec => []DirectoryInv
  BY DirectoryInvInit, DirectoryInvStep, PTL DEF DirectorySpec

\* Whoever pages through the identities of a tenant until a page is not full,
\* under any filter of type and status, lacks at most one identity with a
\* created_at of its own for every row whose status left the filter meanwhile,
\* and none when no row did, however rows are inserted, updated, committed late
\* and ordered within one created_at, for every page size and number of rows.
THEOREM ListingIsComplete == DirectorySpec => []ListingComplete
  <1>1. DirectoryInv => ListingComplete
    BY DEF DirectoryInv, ListingsInv, ListingSound, ListingComplete
  <1> QED
    BY <1>1, DirectoryInvariant, PTL

\* CreateIdentity and handleCreateIdentity tell their callers what happened: an
\* identity was created only if the answer says so or is an internal error, and
\* a conflict is somebody else's row, whatever requests overlap and fail.
THEOREM AnswersAreTruthful == DirectorySpec => []AnswerTruthful
  <1>1. ASSUME DirectoryInv, NEW h \in Creator, creation[h].pc = "answered"
        PROVE  Fits(h, creation[h].handle, creation[h].cause, creation[h].answer)
    BY <1>1 DEF DirectoryInv, CreationsInv, Truthful
  <1>2. ASSUME NEW h \in Creator, NEW c, Fits(h, c.handle, c.cause, c.answer),
               NEW mine, mine = {r \in rows : r.id = h}
        PROVE  /\ (c.cause = "created") <=> (c.answer \in {"OK", "201"})
               /\ c.answer \in {"OK", "201"} => \E r \in mine : r.handle = c.handle
               /\ mine # {} => c.answer \in {"OK", "201", "Internal", "500"}
               /\ c.answer \in {"AlreadyExists", "409"} => \E r \in rows \ mine : r.handle = c.handle
               /\ (c.answer \in {"Internal", "500"}) <=> (c.cause \in {"failed", "refused"})
               /\ (c.answer \in {"NotFound", "404"}) <=> (c.cause = "no tenant")
               /\ (c.answer \in {"InvalidArgument", "400"}) <=> (c.cause = "input")
               /\ (c.answer \in {"FailedPrecondition", "422"}) <=> (c.cause = "inactive")
    <2>1. /\ c.answer \in {"OK", "201"} => \E r \in mine : r.handle = c.handle
          /\ mine # {} => c.answer \in {"OK", "201", "Internal", "500"}
          /\ c.answer \in {"AlreadyExists", "409"} => \E r \in rows \ mine : r.handle = c.handle
      BY <1>2 DEF Fits
    <2> QED
      BY <1>2, <2>1 DEF Fits
  <1>3. DirectoryInv => AnswerTruthful
    BY <1>1, <1>2, Zenon DEF AnswerTruthful
  <1> QED
    BY <1>3, DirectoryInvariant, PTL

\* What a listing shows of an identity is the type its creator asked for, across
\* the translations of both transports, and a status the filter lets through.
THEOREM ListedAsStored == DirectorySpec => []ShownAsStored
  <1>1. ASSUME DirectoryInv, NEW p \in Lister, NEW s \in listing[p].seen
        PROVE  LET type == IF listing[p].surface = "grpc" THEN s.type
                                                          ELSE identityTypeToProto(s.type)
                   asked == (CHOOSE r \in rows : r.id = s.id).asked
               IN  /\ type # "IDENTITY_TYPE_UNSPECIFIED"
                   /\ asked \in ProtoType =>
                        type = IF asked = "IDENTITY_TYPE_UNSPECIFIED"
                                 THEN "IDENTITY_TYPE_HUMAN" ELSE asked
                   /\ asked \notin ProtoType => identityTypeFromProto(type) = asked
                   /\ s.status # "IDENTITY_STATUS_UNSPECIFIED"
                   /\ listing[p].status # "" =>
                        s.status = identityStatusToProto(listing[p].status)
    <2>1. ShownSound(s, listing[p])
      BY <1>1 DEF DirectoryInv, ListingsInv, ListingSound
    <2>2. PICK r \in rows :
            /\ r.id = s.id
            /\ s.type = IF listing[p].surface = "grpc" THEN identityTypeToProto(r.type)
                                                       ELSE r.type
      BY <2>1 DEF ShownSound
    <2>3. (CHOOSE q \in rows : q.id = s.id) = r
      BY <1>1, <2>2 DEF DirectoryInv, RowsInv, Listable
    <2>4. PICK type : type = IF listing[p].surface = "grpc" THEN s.type
                                                            ELSE identityTypeToProto(s.type)
      OBVIOUS
    <2>5. type = identityTypeToProto(r.type)
      BY <2>2, <2>4
    <2>6. /\ r.type \in IdentityType
          /\ r.type = IF r.asked \in ProtoType THEN identityTypeFromProto(r.asked) ELSE r.asked
      BY <1>1 DEF DirectoryInv, RowsInv, RowType
    <2>7. /\ type # "IDENTITY_TYPE_UNSPECIFIED"
          /\ r.asked \in ProtoType =>
               type = IF r.asked = "IDENTITY_TYPE_UNSPECIFIED"
                        THEN "IDENTITY_TYPE_HUMAN" ELSE r.asked
          /\ r.asked \notin ProtoType => identityTypeFromProto(type) = r.asked
      BY <2>5, <2>6, TypeRoundTrip
    <2> QED
      BY <2>1, <2>3, <2>4, <2>7 DEF ShownSound
  <1>2. DirectoryInv => ShownAsStored
    BY <1>1 DEF ShownAsStored
  <1> QED
    BY <1>2, DirectoryInvariant, PTL

=============================================================================
