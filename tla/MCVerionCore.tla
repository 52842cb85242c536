---------------------------- MODULE MCVerionCore ----------------------------
(***************************************************************************)
(* Instances of VerionCore for TLC: which identities are seeded, by tenant *)
(* of each.  Handlers of one service, and attribute maps, are              *)
(* interchangeable.                                                        *)
(***************************************************************************)
EXTENDS VerionCore, TLC

NoIdentity == <<>>
OneIdentity == <<1>>
OneIdentityEach == <<1, 2>>

Symmetric ==
  Permutations(THandler) \cup Permutations(IHandler) \cup Permutations(KHandler)
    \cup Permutations(Attributes)

=============================================================================
