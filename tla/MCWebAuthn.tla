----------------------------- MODULE MCWebAuthn -----------------------------
(***************************************************************************)
(* WebAuthn for TLC: an identity with a passkey that counts and one that   *)
(* does not, and an identity without credentials an assertion can use.     *)
(***************************************************************************)
EXTENDS WebAuthn, TLC

CONSTANTS a, b, counting, silent, code

Row(i, type) == [identity |-> i, type |-> type, status |-> "active"]

TwoPasskeys ==
  counting :> Row(a, "passkey") @@ silent :> Row(a, "hardware_token") @@ code :> Row(b, "totp")

Interchangeable == Permutations(Handler) \cup Permutations(Challenge)

=============================================================================
