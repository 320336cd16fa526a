------------------------------ MODULE MCAccounts ------------------------------
(* Small instances of Accounts: two requests at a time.                    *)
EXTENDS Accounts

CONSTANTS p, q, a, b

RequestSymmetry == Permutations(Requests)

Codes == {"reset", "undo", "complete", "revoke", "validate"}
Timed == Codes \cup {"regenerate", "deactivate", "set_password", "time"}
=============================================================================
