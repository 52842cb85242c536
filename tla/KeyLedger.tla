------------------------------ MODULE KeyLedger ------------------------------
(***************************************************************************)
(* What the key management of Verion promises, without handlers, requests, *)
(* statements or crashes: a ledger of keys in which entries are only ever  *)
(* added and taken out of service, one at a time, and a roll saying which  *)
(* key each identity signs with.                                           *)
(*                                                                         *)
(* A key out of service is rotated or revoked; which of the two is not     *)
(* part of the promise, since overlapping requests overwrite one by the    *)
(* other.                                                                  *)
(***************************************************************************)
EXTENDS Naturals

VARIABLES
  book,   \* per key: its holder, realm, type and purpose, whether it is in
          \* service, and its heir (0 for none)
  roll    \* per identity: its realm and the key it signs with (0 for none)

ledger == <<book, roll>>

None == 0

Vacant(holder, purpose) ==
  \A k \in DOMAIN book :
    ~(book[k].holder = holder /\ book[k].purpose = purpose /\ book[k].active)

\* A key is handed out for a purpose its holder has no key in service for.
Issue ==
  \E k \in DOMAIN book' \ DOMAIN book :
    /\ DOMAIN book' = DOMAIN book \cup {k}
    /\ \A j \in DOMAIN book : j < k /\ book'[j] = book[j]
    /\ Vacant(book'[k].holder, book'[k].purpose)
    /\ book'[k].active /\ book'[k].heir = None

\* What identifies a key is never touched.
SameKey(k) ==
  /\ book'[k].holder = book[k].holder
  /\ book'[k].realm = book[k].realm
  /\ book'[k].type = book[k].type
  /\ book'[k].purpose = book[k].purpose

\* One key goes out of service, with or without a new heir.  An heir is a later
\* key of the same realm, type and purpose.
Retire ==
  \E k \in DOMAIN book :
    /\ DOMAIN book' = DOMAIN book
    /\ \A j \in DOMAIN book \ {k} : book'[j] = book[j]
    /\ SameKey(k)
    /\ ~book'[k].active
    /\ \/ book'[k].heir = book[k].heir
       \/ \E n \in DOMAIN book :
            /\ n > k
            /\ book[n].realm = book[k].realm
            /\ book[n].type = book[k].type
            /\ book[n].purpose = book[k].purpose
            /\ book'[k].heir = n

\* An identity is added; it has no key to sign with yet.
Enrol ==
  \E i \in DOMAIN roll' \ DOMAIN roll :
    /\ DOMAIN roll' = DOMAIN roll \cup {i}
    /\ \A j \in DOMAIN roll : roll'[j] = roll[j]
    /\ roll'[i].signer = None

MaySign(i, k) ==
  /\ k \in DOMAIN book
  /\ book[k].holder = i
  /\ book[k].realm = roll[i].realm
  /\ book[k].purpose = "signing"

\* One identity is given one of its own signing keys.
Appoint ==
  \E i \in DOMAIN roll, k \in DOMAIN book :
    /\ MaySign(i, k)
    /\ DOMAIN roll' = DOMAIN roll
    /\ \A j \in DOMAIN roll \ {i} : roll'[j] = roll[j]
    /\ roll'[i].realm = roll[i].realm
    /\ roll'[i].signer = k

LedgerInit ==
  /\ \A i \in DOMAIN roll : MaySign(i, roll[i].signer)
  /\ \A k \in DOMAIN book : book[k].active /\ book[k].heir = None
  /\ \A j, k \in DOMAIN book :
       book[j].holder = book[k].holder /\ book[j].purpose = book[k].purpose => j = k

\* Only one of the two is written at a time.
LedgerNext ==
  \/ book' # book /\ roll' = roll /\ (Issue \/ Retire)
  \/ roll' # roll /\ book' = book /\ (Enrol \/ Appoint)

LedgerSpec == LedgerInit /\ [][LedgerNext]_ledger

=============================================================================
