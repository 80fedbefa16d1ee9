------------------------------ MODULE Recovery ------------------------------
(***************************************************************************)
(* Starting a recovery and replacing a wallet's device key: the handlers   *)
(* of crates/mpc-server/src/recovery.rs over the tables of store.rs, for   *)
(* one wallet (every statement is keyed by the wallet id).                 *)
(*                                                                         *)
(* A store function is one SQLite transaction and is one action.  A        *)
(* handler that calls several of them is several actions with its local    *)
(* state in task[h], so other handlers run in between, and Abandon drops   *)
(* it at any await: a dropped connection, a storage error or a crash of    *)
(* the server, all of which keep the database and lose the handler.        *)
(***************************************************************************)
EXTENDS Integers, FiniteSets

CONSTANTS
    Requests,       \* request ids the server can draw
    Keys,           \* public device keys
    Handlers,       \* slots for handlers in flight
    None,           \* SQL NULL: no key registered, no local value
    RequestTtl,     \* REQUEST_TTL_SECONDS
    AuthTtl,        \* AUTHORIZATION_TTL_SECONDS
    Cooling,        \* RecoveryConfig.cooling_seconds
    Window,         \* COMPLETE_WINDOW_SECONDS
    Hour,           \* the 3600 of the rate limit
    MaxPerHour,     \* MAX_REQUESTS_PER_HOUR
    MaxTime         \* bound: the clock stops here

ASSUME NoneIsNoValue == None \notin Keys /\ None \notin Requests
ASSUME DurationsAreNaturals ==
    /\ RequestTtl \in Nat
    /\ AuthTtl \in Nat
    /\ Cooling \in Nat
    /\ Window \in Nat
    /\ Hour \in Nat
    /\ MaxPerHour \in Nat
    /\ MaxTime \in Nat

VARIABLES
    now,            \* unix_now() and timestamp(), in seconds
    deviceKey,      \* device_keys.public_key, or None
    passkey,        \* "registered" once passkey_credentials has a row
    status,         \* recovery_requests.status; "absent" when there is no row
    newKey,         \* recovery_requests.new_device_key
    created,        \* recovery_requests.created_unix
    expires,        \* recovery_requests.expires_unix
    ready,          \* recovery_requests.ready_unix, Never while NULL
    completedAt,    \* recovery_requests.completed_at, Never while NULL
    ceremonies,     \* requests whose browser ceremony was handed out
    grant,          \* the request's row in passkey_authorizations
    task            \* handlers in flight

rows == <<status, newKey, created, expires, ready, completedAt>>
vars == <<now, deviceKey, passkey, rows, ceremonies, grant, task>>

-----------------------------------------------------------------------------
(* Types                                                                    *)

Never == -1
Time == 0..MaxTime
Statuses ==
    {"absent", "awaiting_assertion", "cooling", "completed", "cancelled", "expired"}

\* passkey_authorizations: no row, a row, a row with consumed_at set.
Grants == [state : {"none", "granted", "consumed"}, expires : Int]
NoGrant == [state |-> "none", expires |-> Never]

\* pc: idle; request(): put_browser_ceremony is next; status(): consuming the
\* authorization, then starting the wait, is next; cancel(): the update is next.
Tasks == [pc : {"idle", "ceremony", "consume", "cool", "cancel"},
          req : Requests \union {None},
          by : Keys \union {None}]
Idle == [pc |-> "idle", req |-> None, by |-> None]

TypeOK ==
    /\ now \in Time
    /\ deviceKey \in Keys \union {None}
    /\ passkey \in {"none", "registered"}
    /\ status \in [Requests -> Statuses]
    /\ newKey \in [Requests -> Keys \union {None}]
    /\ created \in [Requests -> Int]
    /\ expires \in [Requests -> Int]
    /\ ready \in [Requests -> Int]
    /\ completedAt \in [Requests -> Int]
    /\ ceremonies \in SUBSET Requests
    /\ grant \in [Requests -> Grants]
    /\ task \in [Handlers -> Tasks]
    /\ \A r \in Requests :
         /\ status[r] # "absent" => newKey[r] \in Keys
         /\ status[r] \in {"cooling", "completed"} => ready[r] # Never
    /\ \A h \in Handlers : task[h].pc # "idle" => task[h].req \in Requests

Init ==
    /\ now = 0
    /\ deviceKey = None
    /\ passkey = "none"
    /\ status = [r \in Requests |-> "absent"]
    /\ newKey = [r \in Requests |-> None]
    /\ created = [r \in Requests |-> Never]
    /\ expires = [r \in Requests |-> Never]
    /\ ready = [r \in Requests |-> Never]
    /\ completedAt = [r \in Requests |-> Never]
    /\ ceremonies = {}
    /\ grant = [r \in Requests |-> NoGrant]
    /\ task = [h \in Handlers |-> Idle]

-----------------------------------------------------------------------------
(* What the statements and state_of() read.  A definition whose name begins *)
(* with Slip is not the code: it is the definition after it with a mistake  *)
(* one could make there, kept to show that a property notices.              *)

Open(r) == status[r] \in {"awaiting_assertion", "cooling"}

\* state_of(r) is AwaitingAssertion.
Awaiting(r) == status[r] = "awaiting_assertion" /\ expires[r] >= now

\* state_of(r) is Ready, which is also what complete_recovery() checks.
SlipNoWait(r) == status[r] = "cooling" /\ ~ (expires[r] < now)
Completable(r) ==
    /\ status[r] = "cooling"
    /\ ~ (expires[r] < now)
    /\ ~ (ready[r] > now)

\* The rows live_recoveries() returns.
SlipListedWhileWaiting == {r \in Requests : status[r] = "cooling" /\ ready[r] > now}
LiveRecoveries == {r \in Requests : status[r] = "cooling" /\ expires[r] >= now}

\* The rows create_recovery_request() counts.
SlipOnlyOpenCounted == {r \in Requests : Open(r) /\ created[r] >= now - Hour}
RecentRequests == {r \in Requests : status[r] # "absent" /\ created[r] >= now - Hour}

\* The cooling rows start_recovery_cooling() expires first.
SlipLapsedTooSoon(r) == status[r] = "cooling" /\ expires[r] <= now
Lapsed(r) == status[r] = "cooling" /\ expires[r] < now

\* The unique index recovery_one_cooling refuses the row.
AnotherCooling(r) == \E s \in Requests \ {r} : status[s] = "cooling" /\ ~ Lapsed(s)

\* The other requests a completion ends.
SlipOnlyCoolingEnds(r) == {s \in Requests \ {r} : status[s] = "cooling"}
EndedBy(r) == {s \in Requests \ {r} : Open(s)}

Begin(h, pc, r, by) ==
    /\ task[h] = Idle
    /\ task' = [task EXCEPT ![h] = [pc |-> pc, req |-> r, by |-> by]]
Continue(h, pc) == task' = [task EXCEPT ![h].pc = pc]
Finish(h) == task' = [task EXCEPT ![h] = Idle]

-----------------------------------------------------------------------------
(* The wallet: first device key, passkey, clock                             *)

Tick ==
    /\ now < MaxTime
    /\ now' = now + 1
    /\ UNCHANGED <<deviceKey, passkey, rows, ceremonies, grant, task>>

\* First use only: a second registration inserts nothing.
RegisterDeviceKey(k) ==
    /\ deviceKey = None
    /\ deviceKey' = k
    /\ UNCHANGED <<now, passkey, rows, ceremonies, grant, task>>

\* Registration is authenticated with the device key, so it comes after it.
RegisterPasskey ==
    /\ deviceKey # None
    /\ passkey = "none"
    /\ passkey' = "registered"
    /\ UNCHANGED <<now, deviceKey, rows, ceremonies, grant, task>>

-----------------------------------------------------------------------------
(* request(): create the row, then the browser ceremony that approves it    *)

SlipNoKey(r, k) ==
    /\ status' = [status EXCEPT ![r] = "awaiting_assertion"]
    /\ created' = [created EXCEPT ![r] = now]
    /\ expires' = [expires EXCEPT ![r] = now + RequestTtl]
    /\ UNCHANGED <<newKey, ready, completedAt>>
InsertRequest(r, k) ==
    /\ status' = [status EXCEPT ![r] = "awaiting_assertion"]
    /\ newKey' = [newKey EXCEPT ![r] = k]
    /\ created' = [created EXCEPT ![r] = now]
    /\ expires' = [expires EXCEPT ![r] = now + RequestTtl]
    /\ UNCHANGED <<ready, completedAt>>

RequestCreate(h, r, k) ==
    /\ passkey = "registered"
    /\ status[r] = "absent"
    /\ Cardinality(RecentRequests) < MaxPerHour
    /\ InsertRequest(r, k)
    /\ Begin(h, "ceremony", r, None)
    /\ UNCHANGED <<now, deviceKey, passkey, ceremonies, grant>>

RequestCeremony(h) ==
    /\ task[h].pc = "ceremony"
    /\ ceremonies' = ceremonies \union {task[h].req}
    /\ Finish(h)
    /\ UNCHANGED <<now, deviceKey, passkey, rows, grant>>

\* The owner's assertion is verified.  The binding names the request and its
\* key, and a row for it is inserted only once.  The ceremony may have expired
\* since it was read, and /v1/passkeys/assert needs none, so its time limit is
\* not in the guard; nobody knows the request's id before the ceremony is there.
Approve(r) ==
    /\ r \in ceremonies
    /\ grant[r].state = "none"
    /\ grant' = [grant EXCEPT ![r] = [state |-> "granted", expires |-> now + AuthTtl]]
    /\ UNCHANGED <<now, deviceKey, passkey, rows, ceremonies, task>>

-----------------------------------------------------------------------------
(* status(): read, consume the authorization, start the wait                *)

StatusRead(h, r) ==
    /\ Awaiting(r)
    /\ Begin(h, "consume", r, None)
    /\ UNCHANGED <<now, deviceKey, passkey, rows, ceremonies, grant>>

Usable(r) == grant[r].state = "granted" /\ grant[r].expires >= now

StatusConsume(h) ==
    /\ task[h].pc = "consume"
    /\ \/ /\ Usable(task[h].req)
          /\ grant' = [grant EXCEPT ![task[h].req].state = "consumed"]
          /\ Continue(h, "cool")
       \/ /\ ~ Usable(task[h].req)
          /\ Finish(h)
          /\ UNCHANGED grant
    /\ UNCHANGED <<now, deviceKey, passkey, rows, ceremonies>>

\* NotAwaiting and AnotherCooling return before the commit and change nothing.
StatusCool(h) ==
    LET r == task[h].req IN
    /\ task[h].pc = "cool"
    /\ \/ /\ Awaiting(r)
          /\ ~ AnotherCooling(r)
          /\ status' = [s \in Requests |->
                          IF s = r THEN "cooling"
                          ELSE IF Lapsed(s) THEN "expired" ELSE status[s]]
          /\ ready' = [ready EXCEPT ![r] = now + Cooling]
          /\ expires' = [expires EXCEPT ![r] = now + Cooling + Window]
          /\ UNCHANGED <<newKey, created, completedAt>>
       \/ /\ ~ Awaiting(r) \/ AnotherCooling(r)
          /\ UNCHANGED rows
    /\ Finish(h)
    /\ UNCHANGED <<now, deviceKey, passkey, ceremonies, grant>>

-----------------------------------------------------------------------------
(* complete(): signed with the request's own key, which never changes, so   *)
(* the proof and the one transaction that follows are one action            *)

Complete(r) ==
    /\ Completable(r)
    /\ deviceKey' = newKey[r]
    /\ status' = [s \in Requests |->
                    IF s = r THEN "completed"
                    ELSE IF s \in EndedBy(r) THEN "cancelled" ELSE status[s]]
    /\ completedAt' = [completedAt EXCEPT ![r] = now]
    /\ UNCHANGED <<now, passkey, newKey, created, expires, ready, ceremonies, grant, task>>

-----------------------------------------------------------------------------
(* cancel(): the proof is checked against the current key, then against the *)
(* request's own; the update runs later                                     *)

CancelSigners(r) == {deviceKey, newKey[r]}

\* A proof for a request that has already ended is left out: rows never
\* reopen, so the update it leads to changes nothing.
CancelProve(h, r) ==
    /\ Open(r)
    /\ \E k \in CancelSigners(r) : Begin(h, "cancel", r, k)
    /\ UNCHANGED <<now, deviceKey, passkey, rows, ceremonies, grant>>

CancelRecovery(r) ==
    /\ status' = IF Open(r) THEN [status EXCEPT ![r] = "cancelled"] ELSE status
    /\ UNCHANGED <<newKey, created, expires, ready, completedAt>>

CancelUpdate(h) ==
    /\ task[h].pc = "cancel"
    /\ CancelRecovery(task[h].req)
    /\ Finish(h)
    /\ UNCHANGED <<now, deviceKey, passkey, ceremonies, grant>>

\* The management page cancels with a session opened by the passkey alone.
ManageCancel(r) ==
    /\ passkey = "registered"
    /\ Open(r)
    /\ CancelRecovery(r)
    /\ UNCHANGED <<now, deviceKey, passkey, ceremonies, grant, task>>

-----------------------------------------------------------------------------
(* A handler is dropped between two of its steps                            *)

Abandon(h) ==
    /\ task[h] # Idle
    /\ Finish(h)
    /\ UNCHANGED <<now, deviceKey, passkey, rows, ceremonies, grant>>

Steps ==
    \/ Tick
    \/ \E k \in Keys : RegisterDeviceKey(k)
    \/ RegisterPasskey
    \/ \E h \in Handlers :
         \/ \E r \in Requests, k \in Keys : RequestCreate(h, r, k)
         \/ RequestCeremony(h)
         \/ \E r \in Requests : StatusRead(h, r)
         \/ StatusConsume(h)
         \/ StatusCool(h)
         \/ \E r \in Requests : CancelProve(h, r)
         \/ CancelUpdate(h)
    \/ \E r \in Requests : Approve(r) \/ Complete(r) \/ ManageCancel(r)

Next == Steps \/ \E h \in Handlers : Abandon(h)

Spec == Init /\ [][Next]_vars

-----------------------------------------------------------------------------
(* Properties                                                               *)

(***************************************************************************)
(* A key took over only after the passkey approved that very request and   *)
(* then a full cooling-off period passed: no interleaving of status(),     *)
(* complete(), a lapse and a second request shortens the wait.             *)
(***************************************************************************)
FullWaitAfterApproval ==
    \A r \in Requests : status[r] = "completed" =>
        /\ grant[r].state = "consumed"
        /\ completedAt[r] >= (grant[r].expires - AuthTtl) + Cooling

(***************************************************************************)
(* Two takeovers never overlap: of two completed requests the later one    *)
(* was made after the earlier one took over.  So no request that was open  *)
(* at a takeover survives it, even with a handler for it in flight.        *)
(***************************************************************************)
TakeoversDoNotOverlap ==
    \A r, s \in Requests :
        r # s /\ status[r] = "completed" /\ status[s] = "completed" =>
            completedAt[r] <= created[s] \/ completedAt[s] <= created[r]

(***************************************************************************)
(* A cancel that can still take effect was signed by a key that may cancel *)
(* now: a takeover between the proof and the update leaves nothing for the *)
(* old device's proof to cancel.                                           *)
(***************************************************************************)
NoStaleCancel ==
    \A h \in Handlers :
        task[h].pc = "cancel" /\ Open(task[h].req) =>
            task[h].by \in CancelSigners(task[h].req)

(***************************************************************************)
(* In any stretch of an hour a wallet opens at most MaxPerHour requests,   *)
(* however they ended.                                                     *)
(***************************************************************************)
HourlyLimit ==
    \A t \in Time :
        Cardinality({r \in Requests : created[r] \in t..(t + Hour)}) <= MaxPerHour

(***************************************************************************)
(* A wallet has at most one request in its cooling-off period, whatever    *)
(* number of approved requests status() is asked about at once.            *)
(***************************************************************************)
AtMostOneCooling ==
    \A r, s \in Requests : status[r] = "cooling" /\ status[s] = "cooling" => r = s

(***************************************************************************)
(* A takeover is never a surprise: the request that replaces the key is    *)
(* listed by pending() and by the management page right up to that moment. *)
(***************************************************************************)
TakeoverWasListed ==
    [][deviceKey # None /\ deviceKey' # deviceKey =>
         \E r \in LiveRecoveries : deviceKey' = newKey[r]]_vars

\* How the rows and grants of one request make up its claim to the key.
Phase(r) ==
    CASE status[r] = "absent" -> "absent"
      [] status[r] = "awaiting_assertion" -> "asked"
      [] status[r] = "cooling" -> "waiting"
      [] status[r] = "completed" -> "taken"
      [] status[r] \in {"cancelled", "expired"} -> "over"

Waited(r) == ready[r] # Never

Claim(r) ==
    [phase |-> Phase(r), key |-> newKey[r],
     ready |-> IF Waited(r) THEN ready[r] ELSE 0,
     until |-> IF Waited(r) THEN expires[r] ELSE 0]

(***************************************************************************)
(* The tables implement the promise: every step of every handler is a step *)
(* of DeviceKeyCustody, or leaves the claims and the key as they are.      *)
(***************************************************************************)
Custody == INSTANCE DeviceKeyCustody WITH
    Claims <- Requests, NoKey <- None, time <- now, key <- deviceKey,
    approved <- {r \in Requests : grant[r].state # "none"},
    claim <- [r \in Requests |-> Claim(r)]

\* Recovery implements DeviceKeyCustody: the property TLC checks.
CustodySpec == Custody!Spec
=============================================================================
