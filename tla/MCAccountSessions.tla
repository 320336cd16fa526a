-------------------------- MODULE MCAccountSessions --------------------------
(* Small instances of AccountSessions. *)
EXTENDS AccountSessions

CONSTANTS p, q, x, y, a

Symmetric == Permutations(Requests) \cup Permutations(Exchanges)

(* The life of an account and its sessions, a code issued only alone.      *)
Lifetime == {"regenerate", "reset", "undo", "complete",
             "deactivate"}
NoIssuer == {"undo", "complete", "deactivate"}
=============================================================================
