-------------------------- MODULE DeviceKeyCustody --------------------------
(***************************************************************************)
(* What the server promises about the one public device key it trusts for  *)
(* a wallet (docs/adr/0008).  The first key is registered once.  After     *)
(* that the key changes only when a claim takes over, and a claim takes    *)
(* over only after the passkey approved that very claim, after a full wait *)
(* during which it could be objected to, and while no other claim waited.  *)
(* How the server stores claims, consumes approvals and interleaves its    *)
(* handlers is left to module Recovery, which implements this one.         *)
(***************************************************************************)
EXTENDS Integers

CONSTANTS
    Claims,     \* identifiers of claims to the wallet's device key
    Keys,       \* public device keys
    NoKey,      \* no key is registered yet
    Cooling,    \* the wait between approval and takeover
    Window      \* how long after the wait a claim can still take over

VARIABLES
    time,       \* the wall clock, in seconds
    key,        \* the trusted device key, or NoKey
    approved,   \* the claims a passkey assertion has been verified for
    claim       \* claim[c]: its phase, the key it names, its waiting period

vars == <<time, key, approved, claim>>

Phases == {"absent", "asked", "waiting", "taken", "over"}

NoClaim == [phase |-> "absent", key |-> NoKey, ready |-> 0, until |-> 0]

\* A waiting claim that can still take over.
Alive(c) == claim[c].phase = "waiting" /\ time <= claim[c].until

Init ==
    /\ time = 0
    /\ key = NoKey
    /\ approved = {}
    /\ claim = [c \in Claims |-> NoClaim]

Advance ==
    /\ time' > time
    /\ UNCHANGED <<key, approved, claim>>

Register(k) ==
    /\ key = NoKey
    /\ key' = k
    /\ UNCHANGED <<time, approved, claim>>

Ask(c, k) ==
    /\ claim[c].phase = "absent"
    /\ claim' = [claim EXCEPT ![c] = [phase |-> "asked", key |-> k, ready |-> 0, until |-> 0]]
    /\ UNCHANGED <<time, key, approved>>

Approve(c) ==
    /\ claim[c].phase # "absent"
    /\ approved' = approved \union {c}
    /\ UNCHANGED <<time, key, claim>>

\* An approved claim starts its wait.  It may sweep away a claim whose time
\* to take over has passed, and never one that is still alive.
Begin(c) ==
    /\ claim[c].phase = "asked"
    /\ c \in approved
    /\ \A d \in Claims : ~ Alive(d)
    /\ claim' = [d \in Claims |->
                   IF d = c
                   THEN [phase |-> "waiting", key |-> claim[c].key,
                         ready |-> time + Cooling,
                         until |-> time + Cooling + Window]
                   ELSE IF claim[d].phase = "waiting"
                        THEN [claim[d] EXCEPT !.phase = "over"]
                        ELSE claim[d]]
    /\ UNCHANGED <<time, key, approved>>

\* The claim takes the key over, and with it every other open claim ends.
TakeOver(c) ==
    /\ Alive(c)
    /\ claim[c].ready <= time
    /\ key' = claim[c].key
    /\ claim' = [d \in Claims |->
                   IF d = c THEN [claim[d] EXCEPT !.phase = "taken"]
                   ELSE IF claim[d].phase \in {"asked", "waiting"}
                        THEN [claim[d] EXCEPT !.phase = "over"]
                        ELSE claim[d]]
    /\ UNCHANGED <<time, approved>>

\* Somebody with a say in the matter objects to the claim.
Object(c) ==
    /\ claim[c].phase \in {"asked", "waiting"}
    /\ claim' = [claim EXCEPT ![c].phase = "over"]
    /\ UNCHANGED <<time, key, approved>>

Next ==
    \/ Advance
    \/ \E k \in Keys : Register(k)
    \/ \E c \in Claims :
         \/ \E k \in Keys : Ask(c, k)
         \/ Approve(c)
         \/ Begin(c)
         \/ TakeOver(c)
         \/ Object(c)

Spec == Init /\ [][Next]_vars
=============================================================================
