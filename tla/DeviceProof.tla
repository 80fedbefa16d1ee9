---------------------------- MODULE DeviceProof ----------------------------
(***************************************************************************)
(* The proof of device possession every signed request carries (auth.rs):  *)
(* a timestamp the server's clock has to be close to, and a nonce it        *)
(* reserves in used_device_nonces (store.rs).  A request may arrive any     *)
(* number of times and at any time.                                         *)
(*                                                                          *)
(* authenticate() reads the clock and verifies; reserve_device_nonce() then *)
(* reads the two times of its transaction and only after that waits for a   *)
(* connection, as long as it takes, while other requests reserve theirs.    *)
(***************************************************************************)
EXTENDS Integers

CONSTANTS
    Proofs,         \* signed requests; each has a nonce of its own
    Handlers,       \* slots for requests in flight
    None,           \* no row, no request
    Skew,           \* MAX_CLOCK_SKEW_MS
    Ttl,            \* NONCE_TTL_SECONDS, in the same unit
    MaxTime         \* bound: the clock stops here

ASSUME NoneIsNoProof == None \notin Proofs /\ None \notin Int
ASSUME TimesAreNaturals == Skew \in Nat /\ Ttl \in Nat /\ MaxTime \in Nat

\* What the two constants of auth.rs owe each other: 600 and 300 seconds, which
\* leaves nothing over.
ASSUME NonceOutlivesProof == Ttl >= 2 * Skew

VARIABLES
    now,            \* the server's clock
    stamp,          \* the timestamp in the request, by the device's clock
    reserved,       \* used_device_nonces.expires_at, None without a row
    task,           \* requests past the check: which, and the time it read
    accepted        \* history: how often the request was authenticated

vars == <<now, stamp, reserved, task, accepted>>

Time == 0..MaxTime
Tasks == [proof : Proofs \union {None}, read : Time \union {None}]
Idle == [proof |-> None, read |-> None]

\* The last conjunct: a nonce is spent only by a request that was authenticated.
TypeOK ==
    /\ now \in Time
    /\ stamp \in [Proofs -> Time]
    /\ reserved \in [Proofs -> Nat \union {None}]
    /\ task \in [Handlers -> Tasks]
    /\ accepted \in [Proofs -> Nat]
    /\ \A p \in Proofs : reserved[p] # None => accepted[p] > 0

Init ==
    /\ now = 0
    /\ stamp \in [Proofs -> Time]
    /\ reserved = [p \in Proofs |-> None]
    /\ task = [h \in Handlers |-> Idle]
    /\ accepted = [p \in Proofs |-> 0]

-----------------------------------------------------------------------------
Tick ==
    /\ now < MaxTime
    /\ now' = now + 1
    /\ UNCHANGED <<stamp, reserved, task, accepted>>

\* A definition whose name begins with Slip is not the code: it is the one after
\* it with a mistake one could make there.
SlipOnlyTooOld(p) == now - stamp[p] <= Skew
Fresh(p) == now - stamp[p] <= Skew /\ stamp[p] - now <= Skew

SlipReservesFirst(h, p) ==
    /\ task[h] = Idle
    /\ Fresh(p)
    /\ reserved[p] = None
    /\ reserved' = [reserved EXCEPT ![p] = now + Ttl]
    /\ task' = [task EXCEPT ![h].proof = p]
    /\ UNCHANGED <<now, stamp, accepted>>
Check(h, p) ==
    /\ task[h] = Idle
    /\ Fresh(p)
    /\ task' = [task EXCEPT ![h].proof = p]
    /\ UNCHANGED <<now, stamp, reserved, accepted>>

\* reserve_device_nonce() reads `now` and `expires`, then waits for begin().
ReadTimes(h) ==
    /\ task[h] # Idle
    /\ task[h].read = None
    /\ task' = [task EXCEPT ![h].read = now]
    /\ UNCHANGED <<now, stamp, reserved, accepted>>

\* The rows left when the expired ones are deleted, by the time that was read.
SlipSweepsAtExpiry(p, read) == reserved[p] # None /\ reserved[p] > read
Kept(p, read) == reserved[p] # None /\ reserved[p] >= read

\* The transaction: sweep, then insert unless the nonce is there.
Reserve(h) ==
    LET p == task[h].proof
        read == task[h].read
    IN
    /\ read # None
    /\ reserved' = [q \in Proofs |->
           IF Kept(q, read) THEN reserved[q] ELSE IF q = p THEN read + Ttl ELSE None]
    /\ accepted' = [accepted EXCEPT ![p] = IF Kept(p, read) THEN @ ELSE @ + 1]
    /\ task' = [task EXCEPT ![h] = Idle]
    /\ UNCHANGED <<now, stamp>>

\* A dropped connection or a storage error.
Abandon(h) ==
    /\ task[h] # Idle
    /\ task' = [task EXCEPT ![h] = Idle]
    /\ UNCHANGED <<now, stamp, reserved, accepted>>

Next ==
    \/ Tick
    \/ \E h \in Handlers :
         (\E p \in Proofs : Check(h, p)) \/ ReadTimes(h) \/ Reserve(h) \/ Abandon(h)

Spec == Init /\ [][Next]_vars

-----------------------------------------------------------------------------
(***************************************************************************)
(* A replay is rejected for as long as the check accepts its timestamp: no *)
(* sweep on the way, of whichever request and however long it waited,      *)
(* forgets the nonce before that ("rejects nonce replays",                 *)
(* docs/server.md).  It is not rejected for good: a replay that passes the *)
(* check in time and reserves after its timestamp got too old, because it  *)
(* waited for a connection, is authenticated again if the row is swept.    *)
(***************************************************************************)
ReplayRefused ==
    [][\A p \in Proofs :
          accepted[p] > 0 /\ accepted'[p] > accepted[p] => now > stamp[p] + Skew]_vars

\* Why.  A request in flight was stamped at most Skew ahead of the time it goes
\* by, and what is remembered of an authenticated one lasts as long as the check
\* accepts it.
InReach ==
    \A h \in Handlers : task[h] # Idle =>
        LET p == task[h].proof IN
        /\ p \in Proofs
        /\ stamp[p] - now <= Skew
        /\ task[h].read # None => task[h].read <= now /\ stamp[p] - task[h].read <= Skew

Remembered ==
    \A p \in Proofs :
        /\ reserved[p] # None => reserved[p] >= stamp[p] + Skew
        /\ accepted[p] > 0 => reserved[p] # None \/ now > stamp[p] + Skew
=============================================================================
