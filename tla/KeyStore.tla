------------------------------ MODULE KeyStore ------------------------------
(***************************************************************************)
(* Key generation (internal/crypto/keys.go) over the in-memory store of    *)
(* private keys (internal/crypto/local).  A generated pair is a number;    *)
(* its public half goes into the key row, its private half into the store  *)
(* under a key_ref made from the id the caller chose.  Storing under a ref *)
(* that is taken replaces the private key held there.  The store lives in  *)
(* the server process and is empty after a restart.                        *)
(***************************************************************************)
EXTENDS Naturals

CONSTANT MaxKeyPairs     \* bound on the number of key pairs ever generated

ASSUME MaxKeyPairsAssumption == MaxKeyPairs \in Nat

VARIABLES
  vault,    \* KeyStore.keys: key_ref -> private key
  minted    \* number of key pairs generated so far

keyStoreVars == <<vault, minted>>

EmptyVault == [ref \in {} |-> 0]

\* Mutant: := shadows the private key, and the one stored was never set.
StoreShadowed(ref, pair) ==
  vault' = [r \in DOMAIN vault \cup {ref} |-> IF r = ref THEN 0 ELSE vault[r]]

\* KeyStore.Store: the last writer of a ref wins.
Store(ref, pair) ==
  vault' = [r \in DOMAIN vault \cup {ref} |-> IF r = ref THEN pair ELSE vault[r]]

\* generateEd25519Key and generateECDSAP256Key: a new pair, its private key
\* stored under ref.  The caller learns the pair as minted'.
GeneratePair(ref) ==
  /\ minted < MaxKeyPairs
  /\ minted' = minted + 1
  /\ Store(ref, minted + 1)

=============================================================================
