---------------------------- MODULE ShareCustody ----------------------------
(***************************************************************************)
(* What the server promises about the one key share it holds for a wallet. *)
(* The share is created once.  It is replaced only by the share of a       *)
(* reshare that was approved, that finished, and that is still the one set *)
(* aside when it is made live.  Every signature and every reshare spends   *)
(* an approval of its own, and an approval is spent once.                  *)
(***************************************************************************)
CONSTANTS
    Origins,    \* key generations: the sharings a wallet can begin with
    Reshares,   \* reshares: the sharings a wallet can move to
    Signatures, \* signing operations
    NoShare     \* no share

VARIABLES
    live,       \* the share in use, named after the sharing it comes from
    ready,      \* the share set aside by a finished reshare, or NoShare
    spent       \* the operations whose approval has been spent

vars == <<live, ready, spent>>

Init ==
    /\ live = NoShare
    /\ ready = NoShare
    /\ spent = {}

Create(s) ==
    /\ live = NoShare
    /\ live' = s
    /\ UNCHANGED <<ready, spent>>

Spend(o) ==
    /\ o \notin spent
    /\ spent' = spent \union {o}
    /\ UNCHANGED <<live, ready>>

\* An approved reshare of an existing share finished.  It takes the place of
\* another one that was set aside.
SetAside(r) ==
    /\ live # NoShare
    /\ r \in spent
    /\ ready' = r
    /\ UNCHANGED <<live, spent>>

Drop ==
    /\ ready' = NoShare
    /\ UNCHANGED <<live, spent>>

Replace ==
    /\ ready # NoShare
    /\ live' = ready
    /\ ready' = NoShare
    /\ UNCHANGED spent

Next ==
    \/ \E s \in Origins : Create(s)
    \/ \E o \in Signatures \union Reshares : Spend(o)
    \/ \E r \in Reshares : SetAside(r)
    \/ Drop
    \/ Replace

Spec == Init /\ [][Next]_vars
=============================================================================
