--------------------------- MODULE MCSessionStore ---------------------------
(***************************************************************************)
(* SessionStore for TLC: two sessions, of one identity or of two.          *)
(***************************************************************************)
EXTENDS SessionStore, TLC

CONSTANTS s1, s2, a, b

OneOrTwoOwners == {s1 :> a @@ s2 :> a, s1 :> a @@ s2 :> b}

=============================================================================
