------------------------------ MODULE Transport ------------------------------
(***************************************************************************)
(* What the two transports turn errors and enumerations into               *)
(* (internal/transport/grpc/server.go and identity_server.go,              *)
(* internal/transport/http/gateway.go).                                    *)
(*                                                                         *)
(* An error is the set of sentinels of errors.go it matches (errors.Is):   *)
(* one for a sentinel and for each of the typed errors, none for an error  *)
(* of the database driver or of the crypto service.  Wrapping with %w, as  *)
(* every layer does, leaves the set as it is.                              *)
(***************************************************************************)
Surface == {"http", "grpc"}

Absent == {"ErrNotFound", "ErrKeyNotFound", "ErrTenantNotFound",
           "ErrCredentialNotFound", "ErrRecoveryNotFound"}

Taken == {"ErrAlreadyExists", "ErrHandleTaken"}

Malformed == {"ErrInvalidInput", "ErrInvalidHandle"}

WrongState == {"ErrIdentityInactive", "ErrIdentityTerminal", "ErrTenantInactive",
               "ErrKeyNotUsable", "ErrKeyCompromised", "ErrCredentialInactive",
               "ErrCredentialConsumed", "ErrRecoveryNotUsable", "ErrNoPrimaryKey"}

Sentinel ==
  Absent \cup Taken \cup Malformed \cup WrongState
    \cup {"ErrVersionConflict", "ErrUnauthorized", "ErrEncryption"}

NotFoundError == {"ErrNotFound"}

ValidationError == {"ErrInvalidInput"}

DriverError == {}

\* Known sentinels pass unchanged, everything else is wrapped with %w: callers
\* match the same sentinels either way.
wrapRepoError(err) == err

\* An error matches one sentinel at most, so the order of the cases is immaterial.
toGRPCError(err) ==
  CASE err \cap Absent # {}              -> "NotFound"
    [] err \cap Taken # {}               -> "AlreadyExists"
    [] err \cap Malformed # {}           -> "InvalidArgument"
    [] "ErrVersionConflict" \in err      -> "Aborted"
    [] err \cap WrongState # {}          -> "FailedPrecondition"
    [] "ErrUnauthorized" \in err         -> "PermissionDenied"
    [] OTHER                             -> "Internal"

\* Mutant: a taken handle is missing from the list.
writeServiceErrorNoTaken(err) ==
  CASE err \cap Absent # {}                                     -> "404"
    [] err \cap {"ErrAlreadyExists", "ErrVersionConflict"} # {} -> "409"
    [] err \cap Malformed # {}                                  -> "400"
    [] err \cap {"ErrIdentityTerminal", "ErrTenantInactive", "ErrIdentityInactive",
                 "ErrKeyCompromised", "ErrKeyNotUsable"} # {}       -> "422"
    [] "ErrUnauthorized" \in err                                -> "403"
    [] OTHER                                                    -> "500"

\* The states of credentials and recovery methods are not in its list: no method
\* the gateway calls returns them.
writeServiceError(err) ==
  CASE err \cap Absent # {}                               -> "404"
    [] err \cap (Taken \cup {"ErrVersionConflict"}) # {}  -> "409"
    [] err \cap Malformed # {}                            -> "400"
    [] err \cap {"ErrIdentityTerminal", "ErrTenantInactive", "ErrIdentityInactive",
                 "ErrKeyCompromised", "ErrKeyNotUsable"} # {} -> "422"
    [] "ErrUnauthorized" \in err                          -> "403"
    [] OTHER                                              -> "500"

(***************************************************************************)
(* Identity types.  gRPC callers send a member of the enumeration, HTTP    *)
(* callers any string.                                                     *)
(***************************************************************************)
IdentityType == {"human", "org", "device", "service", "machine", "ai_agent"}

ProtoType ==
  {"IDENTITY_TYPE_UNSPECIFIED", "IDENTITY_TYPE_HUMAN", "IDENTITY_TYPE_ORG",
   "IDENTITY_TYPE_DEVICE", "IDENTITY_TYPE_SERVICE", "IDENTITY_TYPE_MACHINE",
   "IDENTITY_TYPE_AI_AGENT"}

\* Mutant: the newest type falls to the default.
identityTypeToProtoOld(type) ==
  CASE type = "human"   -> "IDENTITY_TYPE_HUMAN"
    [] type = "org"     -> "IDENTITY_TYPE_ORG"
    [] type = "device"  -> "IDENTITY_TYPE_DEVICE"
    [] type = "service" -> "IDENTITY_TYPE_SERVICE"
    [] type = "machine" -> "IDENTITY_TYPE_MACHINE"
    [] OTHER            -> "IDENTITY_TYPE_UNSPECIFIED"

identityTypeToProto(type) ==
  CASE type = "human"    -> "IDENTITY_TYPE_HUMAN"
    [] type = "org"      -> "IDENTITY_TYPE_ORG"
    [] type = "device"   -> "IDENTITY_TYPE_DEVICE"
    [] type = "service"  -> "IDENTITY_TYPE_SERVICE"
    [] type = "machine"  -> "IDENTITY_TYPE_MACHINE"
    [] type = "ai_agent" -> "IDENTITY_TYPE_AI_AGENT"
    [] OTHER             -> "IDENTITY_TYPE_UNSPECIFIED"

identityTypeFromProto(type) ==
  CASE type = "IDENTITY_TYPE_ORG"      -> "org"
    [] type = "IDENTITY_TYPE_DEVICE"   -> "device"
    [] type = "IDENTITY_TYPE_SERVICE"  -> "service"
    [] type = "IDENTITY_TYPE_MACHINE"  -> "machine"
    [] type = "IDENTITY_TYPE_AI_AGENT" -> "ai_agent"
    [] OTHER                           -> "human"

(***************************************************************************)
(* Statuses of an identity; HTTP shows the column's value itself.          *)
(***************************************************************************)
identityStatusToProto(status) ==
  CASE status = "pending"     -> "IDENTITY_STATUS_PENDING"
    [] status = "active"      -> "IDENTITY_STATUS_ACTIVE"
    [] status = "suspended"   -> "IDENTITY_STATUS_SUSPENDED"
    [] status = "deactivated" -> "IDENTITY_STATUS_DEACTIVATED"
    [] status = "archived"    -> "IDENTITY_STATUS_ARCHIVED"
    [] OTHER                  -> "IDENTITY_STATUS_UNSPECIFIED"

\* What a caller is shown of an identity.
identityToProto(row, surface) ==
  IF surface = "grpc"
    THEN [id |-> row.id, type |-> identityTypeToProto(row.type),
          status |-> identityStatusToProto(row.status)]
    ELSE [id |-> row.id, type |-> row.type, status |-> row.status]

=============================================================================
