# mpc-ext in TLA+

mpc-ext is a threshold-ECDSA wallet: a browser extension holds share A, the user keeps share B in a
recovery file, and a server holds share C. Any two sign. This directory models the parts of it whose
correctness depends on order, interleaving and failure, checks them with TLC and proves the main
results with TLAPS.

Run TLC on the module and configuration of a run, for example
`tlc -config MCServerShare.cfg MCServerShare.tla`, and the proofs with `tlapm ServerShareProofs.tla`.
`PROJECT.json` lists the runs, the source lines each definition stands for, and one slip per property
that the property notices.

## The system

| Part | Source | State | Operations | Talks to |
| --- | --- | --- | --- | --- |
| account recovery | `mpc-server/src/recovery.rs` | `recovery_requests`, `device_keys` | request, status, complete, pending, cancel | passkey authorizations, ceremonies |
| shares and sessions | `api.rs`, `reshare.rs`, `store.rs` | `key_shares`, `dkg_sessions`, `sign_sessions`, `reshare_sessions`, `pending_reshares` | start and advance for three protocols, commit, abort | mpc-core party state, sealed between requests |
| passkeys | `passkey.rs`, `auth_page.rs` | challenges, credentials, ceremonies, authorizations | handoff, claim, options, finish, register, assert | browser tab, extension polling |
| management page | `manage.rs` | manage sessions, challenges | challenge, session, cancel | recovery requests |
| device proof | `auth.rs` | used nonces | authenticate | every signed endpoint |
| protocol parties | `mpc-core/src/protocol.rs` | round, kept values, share | start, advance | server and extension |
| extension worker | `entrypoints/background.ts` | unlocked share, pending key, pending reshare, run, token | create, unlock, sign, recover, reshare, approve | server, vault, popup |
| vault, device key, recovery state | `vault.ts`, `deviceKey.ts`, `recoveryState.ts` | storage records | store, unlock, promote, clear | worker |
| popup | `entrypoints/popup` | what the user is shown, what was downloaded | buttons, polling | worker messages |
| approvals, page API, permissions | `approvals.ts`, `pageApi.ts`, `permissions.ts`, `approve/ApproveApp.tsx` | queue, origins, windows | ask, decide, reject, connect, disconnect | worker, pages |
| protocol driver | `protocolRunner.ts`, `mpc-wasm/src/lib.rs` | local parties, envelopes in flight | key generation, reshare, two ways to sign | parties, server |
| recovery watch | `recoveryWatch.ts` | alarm, announced recoveries | list, notify, remember | server, browser |

What is hard here:

- The server keeps nothing in memory between requests and a handler is several SQL transactions with
  awaits between them. Every transaction is atomic; a handler is not. Requests of the same and of
  other sessions fall between, and a dropped connection, a storage error or a crash ends a handler at
  any await and leaves the tables.
- Time limits (an authorization, a request, a wait, its window, a staged share) expire between a
  check and its use.
- The extension's worker is one thread, but its functions await the network, the password derivation
  and the user, so a confirm, a cancel and a run of the same reshare interleave. The worker can be
  stopped at any time and forgets everything but the vault.
- A call to the server can be lost before it arrives, after it was worked on, or arrive late.
- Two machines hold shares that must go together; there is no transaction across them.

## Modules

| Module | Models |
| --- | --- |
| `DeviceKeyCustody` | what the server promises about a wallet's device key (ADR-0008) |
| `Recovery` | the recovery endpoints, statement by statement; implements `DeviceKeyCustody` |
| `RecoveryProofs` | theorems about `Recovery` |
| `ShareCustody` | what the server promises about its share |
| `ServerShare` | key generation, signing and reshare sessions and the share tables; implements `ShareCustody` |
| `ServerShareProofs` | theorems about `ServerShare` and `ReshareDevice` |
| `ReshareDevice` | extension and `ServerShare` composed: a reshare from end to end |
| `RecoveryDevice` | the fresh install's side of a recovery, against a server that keeps `DeviceKeyCustody` |
| `RecoveryDeviceProofs` | theorems about `RecoveryDevice` |
| `Passkey` | ceremonies, challenges, the stored passkey, authorizations and management sessions |
| `PasskeyProofs` | theorems about `Passkey` |
| `Sharing` | shares as points of a line over a field: Lagrange weights, what a reshare deals, reconstruction |
| `SharingProofs` | theorems about `Sharing` and `Parties` |
| `Parties` | the party state machines of `mpc-core` and the extension's driver over `Sharing` |
| `PageApi` | approvals, windows, page methods, origins, locking, signing behind a ceremony |
| `PageApiProofs` | theorems about `PageApi` |
| `RecoveryWatch` | the watch for somebody else's recovery, against a server that keeps `DeviceKeyCustody` |
| `RecoveryWatchProofs` | theorems about `RecoveryWatch` |
| `DeviceProof` | the clock window and the nonce of a signed request |
| `DeviceProofProofs` | theorems about `DeviceProof` |
| `MC...` | the TLC instances |

### Recovery

One wallet: every statement is keyed by the wallet id. The variables are columns of
`recovery_requests`, `device_keys`, the row of `passkey_authorizations` that belongs to a request, and
the handlers in flight (`task`). `request()` is `RequestCreate` then `RequestCeremony`; `status()` is
`StatusRead`, `StatusConsume`, `StatusCool`; `complete()` is `Complete`, one transaction; `cancel()` is
`CancelProve` then `CancelUpdate`, because the proof is checked against a key that may change before
the update; the management page's cancel is `ManageCancel`. `pending()` only reads and is the set
`LiveRecoveries`. `Abandon` drops a handler between two of its statements. `Tick` moves the clock; the
reading of the clock and the transaction that uses it are one moment. `Approve` is the verified
assertion, the only thing `Recovery` needs of the passkey code. It may come after the ceremony's own
time limit, which is checked some statements before the authorization is inserted, and which the direct
endpoint `/v1/passkeys/assert` does not ask for.

### ServerShare

One wallet's share, named after the sharing that dealt it: the key generation or the reshare. A call
is an idle slot in `task` that runs its first statement (`Start`, `StartDkg`, `Take`, `Commit`,
`Abort`), then continues (`ReadShare`, `Open`, `Send`, `CloseDkg`, `CloseSign`, `StageReshare`,
`FailReshare`) with others in between, and is answered or abandoned. `Take` is one operator for the
three round endpoints because they share their shape; where they differ, `TakeAndFail` and the closing
action say so: a failed reshare round aborts the reshare, a failed signing round changes nothing. A
session row holds its round and the share it was opened with (`SignParty.share`, and the weighted
share a survivor contributes to a reshare). `Put` is an upsert and can restore a row deleted meanwhile,
as in the code.

Cryptography is one fact, in `Fits`: the last round succeeds only for two sides that work from the
same sharing. `Parties` is where that fact is checked. Any message can be refused for its content. `LastRound` is the round whose message ends
a session (3 in `protocol.rs`).

### ReshareDevice

`EXTENDS ServerShare`: the server's actions are the ones above, driven by the extension. `run`,
`confirm` and `cancel` are the coroutines of `performReshare()`/`runReshare()`,
`confirmReshareSaved()` and `cancelReshare()`, one of each per reshare. `current` is the run that holds
the current `reshareToken`; `pending` is `pendingReshare`, and `object` its fields that other
coroutines can change (`committed`, and whether its share was wiped). `popup` is the recovery file on
offer, `files` the recovery files the user has. `late` holds commits and aborts that still arrive after
the extension stopped waiting.

`WorkerStops` forgets all of it but the vault; `Restore` is the loss of the device and a restore from
any file the user has. A user who finished destroys the old file or keeps it (`Store`).

One assumption, `PromptUnlock`: no passkey approval is given between the checks of a `startReshare()`
and the moment it takes its token. Nothing in the code orders the two. Without it two starts can both
pass the checks, the first can run to its commit while the second still derives its key, and the second
then deals from a share that is no longer in use; TLC finds `Recoverable` violated that way. The
derivation takes about a second and an approval takes a user, so the assumption is what happens, but it
is not enforced.

Not in it: `lock()` and `unlock()`, which a reshare does not depend on after its start, and other
wallets' sessions.

### RecoveryDevice

`beginRecovery()`, `recoveryProgress()`, `finishRecovery()` and `abandonRecovery()` with the storage
they share: the two key records of IndexedDB (`activeKey`, `pendingKey`), `recovery`, `vault`. The
server is `INSTANCE DeviceKeyCustody`: what `Recovery` is shown to implement is what the install may
rely on, so the actions of the server are the abstract ones and a lapse of an unanswered request is an
`Object`. `task` holds the coroutines in progress, at most two, each at the await it comes to next;
`sent` and `answered` are the two halves of a call, so an answer can be old when it is used. `late`
holds the requests whose `complete()` may still arrive.

`page`, `waits` and `heard` are `RecoverPanel`: its phase, the button it is busy with, and the poll
whose answer it still wants; closing the popup forgets all three and leaves the coroutines running. A
poll may start at any moment while the popup is open, which includes the code's timer.

Left out: the file that is picked (it is the right one), `createKey()` on the same install, and the
closing of the ceremony tab. Nothing keeps the popup open: it may be closed and opened again while a
button is busy, and the next press then overlaps with what the last one still does.

Assumed (`Tick`): a coroutine lasts as long as an HTTP call and the wait is a day, so when the clock
moves by one, which is a whole wait, the starts, the cancels, the `status()` of a `finish` and whatever
is about another recovery than the one written down have ended. The two coroutines of the run do not
need the part about `finish`; with four, a poll of an earlier recovery may bring its old answer `ready`
to the popup of the next one, and a `finish` pressed on it whose `status()` spanned the whole wait would
take over with a key that another leftover poll is about to discard. The proof of `KeyIsKept` met this
case.

`gaveUp` is history: a request whose wait was over, or that had taken over, when the user cancelled
it, and one that had taken over when he started anew. `KeyIsKept` and `FinishedIsTrusted` except those
and nothing else. They have to: see the observations below for a `finish` that its own recovery's cancel
and a new start overtake.

### Passkey

One wallet's rows of the passkey tables and the handlers that use them, `task[h]`, between two
statements. A binding (`Operations`, `"register"`, `"manage"`) stands for the wallet, purpose,
operation and digest a challenge is stored with. The handlers are sequences of actions:

| Handler | Actions |
| --- | --- |
| `passkey::handoff` | `Handoff`, `PutCeremony` |
| `auth_page::handoff` | `Claim` |
| `auth_page::options` | `OptionsAgain`, or `OptionsRead`, `CheckWelcome`, `PutChallenge`, `StoreChallenge`, `Reread` |
| `register_options`, `assert_options` | `DirectOptions`, `CheckWelcome`, `PutChallenge` |
| `manage::challenge` | `ManageChallenge`, `PutChallenge` |
| `auth_page::finish` | `FinishRead`, then as below, then `Complete` |
| `register_finish` | `DirectFinish`, `CheckNone`, `Take`, `InsertCredential` |
| `assert_finish` | `DirectFinish`, `Take`, `ReadCredential`, `Advance`, `Authorize` |
| `manage::session` | `DirectFinish`, `Take`, `ReadCredential`, `Advance`, `OpenSession` |

`Answer` is the authenticator, which is outside the repository: it answers a challenge a page was
given, with a key of an offered type, and its signature counter grows, or stays zero for good. A finish
carries such an answer or anything else (`genuine` is `FALSE`), to any challenge the server has drawn.
`Verifies` is what remains of WebAuthn verification: the right passkey, a usable key, a counter above
the stored one or both zero. Time limits are not counted: a ceremony and a challenge may lapse at any
moment. `cancelled_at` of a ceremony is read and never written, so there is no action for it. What
`Recovery` and `ServerShare` assume of all this, one authorization for an operation by its own
assertion, is `OutcomesAreBound` and the single row in `grant`.

### DeviceProof

`Check` reads the clock, compares the request's timestamp and verifies the signature. `ReadTimes` and
`Reserve` are `reserve_device_nonce()`: it reads the time its sweep goes by and the time its row expires,
then waits for a connection, as long as it takes, and then sweeps and inserts in one transaction. Any
request may be delivered again at any time, and the clock runs on between the steps.
`NonceOutlivesProof`, `Ttl >= 2 * Skew`, is what the constants of `auth.rs` owe each other. 300 and 600
seconds satisfy it with nothing to spare: a request from a clock 300 s ahead, authenticated at once, stays
inside the window until exactly the second its nonce's row is swept. The sweep compares times as text, and
`format_time()` trims trailing zeros of a fraction, so that order is exact only between seconds. The
model counts in one unit and does not resolve either effect below it.

That a request is authenticated at most once does not hold and is not claimed. `ReplayRefused` is what
holds: a replay is refused for as long as the check accepts its timestamp. A replay that passes the check
in time and waits for its connection until the timestamp is too old finds the row swept by some later
request, and is authenticated again.

### Sharing and Parties

`Sharing` takes its field as constants, with the field axioms as the assumption `ScalarsAreAField` and
the three indices different as `PartiesDiffer`. A party's share is the point of a line at its index;
`LagrangeAtZero` and `ReshareRow` are the weights of `protocol.rs`, term by term. The code works over
the scalars of secp256k1, the run over the integers modulo 5, the proofs over any field.

`Parties` has one party after the other (`StartWith`, `Round2` to `Round4`, `StartSign`, `SignRound2`
to `SignRound4`, each an operator from a session and an inbox to a session and what it sends, or
`Refused`) and the driver's loop (`AdvanceLocal`, then `Round` on the server). An envelope carries the
scalar it commits to, or the deal its multiplication set-up belongs to. What dkls23 checks is three
operators: consecutive points must give one key (`Phase4Accepts`), a reshare's key must be the
wallet's (`KeyIsExpected`, which is the repository's own check), and a signature needs set-ups of one
deal (`Phase3Accepts`). Commitments and proofs of knowledge are not modelled, so parties are honest;
what varies is which shares they start from, what is lost, and what is served to the server before or
instead of the driver's own request (`ServedBefore`: rounds of a key generation are not
authenticated). `Confirm`, `Discard` and `Restore` are what becomes of a result; `ReshareDevice` and
`RecoveryDevice` have their steps.

Signing offline takes the extension's share for share A whatever `vault.party()` says
(`protocolRunner.ts`, party 0). On a wallet restored from a file both sides
would hold share B; what dkls23 makes of that is not modelled, and the model starts offline signing for
share A only.

### PageApi

One handler per request (`at`), interleaved at every await. `Arrive` and `Checked` are the switch of
`handlePageRequest()`, `Park` is `approvals.ask()`, `Opened` the return of `windows.create()`,
`Decided` what follows `await decision`. What a handler read before an await is a variable of its own:
`list` and `revoking` (the origins), `held` (what became of the share's buffer since). A window is
`open`, `closing` or gone; `listening` is the set whose closing the worker hears of, which a restart
empties while the windows stay. `slot` is the one `pendingPasskey`, with the ceremony that filled it and
the tab noted in it; `Launch` is a tab that asks for whatever the slot then holds. `granted` and
`cut` are history: the origins the user ever agreed to, and the requests that held the current share
when a lock came. A created window has an id, so the return of `openApprovalWindow()` before its
listener is not an action.

`sign` among the methods is the popup's own signature, which needs no approval. A reshare's and a
registration's ceremonies use the same slot and are not in it. `WorkerStops` loses the handlers, the
queue, the listeners, the slot and the share.

### RecoveryWatch

Each coroutine of `watchRecoveries()` is `Listed`, `ReadTold`, `Notify` once per recovery, `ReadAgain`,
`WriteTold`, or fails on the way; `told` is the list in storage. The server is `INSTANCE
DeviceKeyCustody`, on the same clock, so a recovery is asked for, approved, waits and takes over while
checks are due, late or under way. `seen` and `missed` are history: what a check that went through
found, and what waited while a check was cut off, failed or was overdue.

## Runs

| Run | Instance | What it shows |
| --- | --- | --- |
| `recovery` | 2 requests, limit of 1 an hour, 2 keys, 2 handlers, clock to 4 | the server implements `DeviceKeyCustody`, so one wait at a time; a full wait after the approval; takeovers do not overlap; no stale proof cancels; a takeover was listed; the limit over every window |
| `server_share` | 1 key generation, 1 signature, 2 reshares, 2 calls, 3 rounds | the server implements `ShareCustody`; nothing runs without its own consumed approval; a staged share is dropped by its own reshare only |
| `server_share_old` | 1 reshare, 1 signature, 1 call | violation: a signing session keeps the old share after a commit |
| `reshare_device` | 2 reshares, 2 calls, 2 rounds | the user always has a file for the server's share; the vault never runs ahead of the server; a reshare does not stay "working" |
| `recovery_device` | 2 recoveries, 2 coroutines, clock to 2 | a vault comes with the trusted key unless the user gave its recovery up; only the user gives up a key that took over |
| `recovery_retry` | the same, clock to 1 | violation: a finish that stopped before `vault.store()` cannot be retried |
| `passkey` | 1 ceremony, 2 challenges, 2 operations, 2 handlers, limit of 1 | an answer counts once, for what its challenge was made for; "completed" is verified; page loads agree; waiting challenges are bounded |
| `device_proof` | 2 requests, 2 handlers, clock to 6 | a replay is refused for as long as the check accepts its timestamp |
| `parties` | 3 deals over the field of 5 elements, 3 scalars to draw from | shares in use always reconstruct the one key; a run ends as its shares deserve; a result the driver hands over has its third share on the server |
| `page_api` | 2 requests at 2 origins, one connected before, 4 methods | a handler waits only where it can be refused; nothing is signed or shown without consent; a lock ends the signing that waits with the share it wipes; every request is answered |
| `page_revoked` | the same | violation: a connection writes a revoked origin back |
| `recovery_watch` | 2 recoveries, 2 checks, wait of 2, period 1, clock to 5, 1 remembered | a check that goes through leaves nothing untold; a recovery completes untold only if a check was missed |

Bounds. Two requests, keys or reshares are one to act and one to interfere; two calls in flight let any
statement of one fall between any two of another. The hourly limit needs one request more than it
allows. Durations are 1 (3 for an unanswered request, so that one from before the hour still overlaps
the next) against a clock of 4, enough for each limit to be met exactly and passed, and for a completed
takeover to be followed by another. The install's clock of 2 is a wait and a lapse, with a window of 0; it
stands still while no claim waits, when nothing depends on it.
That run has a `VIEW`: states that differ only in what no later step and no property can tell apart (that an
ended claim had been opened, approved or given up, or a `complete()` under way that can only be
refused) are counted once.
Three rounds are the code's and `server_share` has them; with two there is a first, a last and every
statement of a session, and `reshare_device`, which also checks liveness, uses that to keep the graph
small. Handlers and ids that are treated alike are symmetric, except in the runs that check liveness, where
symmetry would not be sound; there a reshare takes the next id and a call the next free handler. Two challenges are one to answer and one to confuse it with, or one
for each of two loads of the ceremony's page; a passkey from before the behaviour takes part in half of
the initial states, so both need not be spent on registering it. The device proof's clock runs to three
times the skew: a request stamped at any time, checked at both edges, and again after its nonce is
swept. Three deals are a key generation, a reshare and a file that is two deals old; the integers modulo 5 are the smallest field with three
indices and more, and three scalars to draw give constants and slopes that are zero and that are not. Two page
requests are one that waits and one whose window, ceremony or origin interferes; a third one exceeds
what can be searched in minutes. Two checks of the watch overlap, and with one remembered recovery the
cap is met at once. `CHECK_DEADLOCK FALSE` is set for `Recovery`, `RecoveryDevice`, `RecoveryWatch` and
`DeviceProof`, whose clocks stop at `MaxTime`, for `Parties`, whose deals are used up, and for
`PageApi`, whose requests are; the other modules never stop.

Fairness, for `RunEnds`: `WF` on the worker's own steps of a run and on the steps of a call the
server has begun. The browser fails a request that gets no answer, the worker keeps itself alive while
it polls, and the poll gives up after 120 seconds, so each await ends. Nothing is assumed of the user,
of the passkey, or of whether a call arrives. For `Settles`: `WF` on the worker's next step of each
request, by the same reasons, and on the browser telling the worker of a window that has closed. The
user may leave a window open for ever, and may answer, close, lock or revoke at any moment or never.

## What the violations say

- `docs/server.md` says that after a commit the old share exists nowhere on the server. Signing
  sessions keep it; `sweep_expired()` has no caller.
- `finishRecovery()` is said to be safe to retry. Stopped, or failing to store, after
  `promotePendingDeviceKey()` and before `vault.store()`, it is not: the pending key is deleted, the
  recovery is reported expired, and the user waits a second time (`background.ts:353-354`).
- `disconnect()` says the user must be able to revoke an origin at any time. A `connect()` that read
  the list before the revocation and writes it after puts the origin back (`permissions.ts:24-33`).

Observations without a run, which the models contain. `docs/server.md` says the first status call after
the assertion consumes it and starts the wait. The two are separate transactions; with another request
waiting the second one refuses and the assertion is spent (`recovery.rs:329-351`, `StatusConsume` and
`StatusCool`). `confirmReshareSaved()` and `cancelReshare()` share a buffer across awaits: reopening the
popup shows the interrupted card with an enabled cancel while a confirm still runs, and the vault
encrypts zeros (`Store` with the share `Wiped`); the file saved before the confirm still fits the
server, which is why `Recoverable` holds. `promotePendingDeviceKey()` loads the pending key again, and it need not
be the one that was completed: with the popup closed and opened while a finish was busy, a cancel clears
the state, a new start replaces the key, and the finish promotes that one, so the vault is stored with a
key the server rejects. `FinishedIsTrusted` says that it takes such a cancel, or a new start, of the
recovery whose key is trusted. `docs/server.md` says the server rejects nonce replays; one whose
reservation waits until its timestamp is out of the window is not rejected (`ReadTimes`, `Reserve`).

In `PageApi`: `unlock()` over an unlocked wallet leaves the earlier buffer unwiped, and a signature that
holds it goes on after a lock (`held = "replaced"`), although `lock()` is to make what waits fail closed
(`background.ts:584`); `LockEndsSigning` is about the buffer a lock does wipe. The queue is shared
by all windows, so closing one refuses what another shows, and an approval given in one window while
the request's own window is still opening survives a lock in between. A ceremony started while another
one is open takes the slot; the end of either closes the tab noted in it, so a tab can be left behind,
and `openCeremony()` throws when the slot was emptied while its tab opened. `relay.content.ts` answers
every error with the internal code, so the codes 4001 and 4200 of `docs/web-api.md` do not reach pages.
`docs/web-api.md` says a request to a locked wallet raises an unlock prompt; it gets an empty list or an
error at once, or at the moment it would sign (`Address`, `BeginSign`).
In `RecoveryWatch`: two overlapping checks read and write the list in turn, so a remembered recovery can
be forgotten and announced again.

In the recovery client: two starts that overlap, because the popup was closed and opened while the first
was busy, can leave the request of one with the key of the other (`background.ts:247`); the panel then
stays in its first phase, whose only button is refused with "Cancel it before starting another". The
key that took over is not lost that way, which `KeyIsKept` checks. The panel's polling effect starts anew when a
recovery has ended, and its next answer replaces the reason that was shown. `cancelReshare()` clears a
`ready` result only when nothing is pending: cancelled within the second before the popup polls, the
popup offers the file of the aborted reshare. An assertion's counter is compared with a stored counter
that another assertion may be about to replace, so the stored counter can go back
(`passkey.rs:735`, `804`). `cancelReshare()` trusts `committed`, which is set only when the commit's
answer arrives: after a commit whose answer was lost it still says the current shares stay valid, and
wipes the new one. `docs/server.md` says at most 200 management challenges may be waiting; handlers that
counted before any of them inserted exceed that, and `WaitingIsBounded` is the limit that holds. A
second ceremony for an operation that is already authorized fails after its challenge is used and the
counter advanced. `register_finish()` lacks the check of the key's type that `verify_registration()`
has; `StoredKeyIsUsable` holds because only one type is offered. A commit the extension gave up on can arrive after the next reshare has
been started, so the share that becomes live need not be dealt from the one it replaces. The next
reshare then fails or is replaced in turn; `Recoverable` covers it.

## Proofs

`RecoveryProofs`, for any number of requests, keys and handlers and any durations, from the assumptions
that `None` is no key or request and that durations are natural numbers. The inductive invariant `Inv`
adds to the properties: requests exist only in wallets with a device key (`KeyBeforeRequests`), rows,
ceremonies and grants appear in that order (`RowFirst`), every wait counts from a moment after its own
approval (`WaitIsApproved`), and what is open now was made after every takeover so far (`OpenIsNewer`).
The last one is why takeovers do not overlap: a completion ends every other open request. From it:
`TypeCorrect`, `OneCooling`, `FullWait`, `NoOverlap`, `CancelsAreCurrent`, `TakeoversAreListed`, and
`Implements`, that `Recovery` refines `DeviceKeyCustody`. `LimitHolds` needs `Counted` beside it: the
requests made are finitely many, so that they can be counted, and each has its time; the hours that
begin before a new request's do not contain it unless the last hour, which the code counts, contains all
they do. With these every property the run `recovery` checks is proved.

`ServerShareProofs`, for any number of sessions, calls and rounds, from the assumptions that the three
kinds of ids are disjoint and `LastRound` is positive. `WorkIsApproved` is inductive with the types: a
write that restores a deleted session writes what its call was already working on. The refinement needs
one more conjunct, `ShareBeforeReshare`: a reshare's approval is consumed only in a wallet with a share,
and a share stays. Each action gets a lemma that it is `Sound` (types, no new unapproved work, approvals
and shares stay). From it: `TypeCorrect`, `WorkApproved`, `DropsAreOwn`, and `Implements`, that
`ServerShare` refines `ShareCustody`.

The same module proves the system of `ReshareDevice`, for any number of reshares, calls and rounds, from
the assumptions that the original sharing is a key generation's, that `None` is no handler and that
zeros are no share. The core of `SystemInv` is about what can still happen. A reshare is `Settled` when
its run is over, its session is gone and no call works on it; a share is `Gone` when it can never become
live from then on, being a key generation's or a settled reshare's that is not staged. `BasesGone`: what
is live, and whatever any reshare starts from, is gone once something replaces it. With `OldIsGone`, a
confirm whose commit was heard may destroy the old file; with `SavedFirst`, no commit is around for a
staged share without its file. The rest says who may commit: at most one reshare's new share is pending
or at work in a confirm or a cancel (`Holders`), what the popup offers is that one's (`Offers`,
`CurrentRuns`), and until it is stored nothing else goes live (`TakenOver`). `CallsHeld`, `NotShared`,
`OwnCalls`, `HeldWorks` and `RoundsInStep` tie each coroutine to the call it waits for, so that an
answer is its own. Each action first gets a lemma that says what it does variable by variable (`Effect`),
and the invariant's conjuncts are kept by effects. From it: `SystemTypeCorrect`, `AlwaysRecoverable` and
`VaultFollows`, every safety property the run `reshare_device` checks; `ServerRulesKept`, that whatever
the worker does to the server is a step of `ServerShare`; and so `SystemWorkApproved`,
`SystemDropsAreOwn` and `SystemKeepsCustody`, that the wallet that begins with a share keeps the
server's rules too. `PromptUnlock` is in the guard of `SystemNext`, so these theorems rest on it as the run does.

`DeviceProofProofs`, for any number of requests and handlers and any limits with `NonceOutlivesProof`:
`TypeCorrect` and `ReplaysAreRefused`. The invariant is `InReach`, a request in flight was stamped at most
`Skew` ahead of the time it goes by, whether that is the clock's or the one it read, and `Remembered`, an
authenticated request either is past the last moment the check would accept it or still has its nonce,
kept at least until then. How long a reservation waits is not bounded.

`PasskeyProofs`, for any number of ceremonies, challenges, operations and handlers. The invariant `Inv`
adds to the properties what a handler between two statements relies on (`InFlight`: the rows it read,
the binding it checked, the challenge it took and not yet used), that a challenge is taken by one
handler (`Distinct`), that it was taken before it counts (`TakenFirst`), and that rows are made in one
piece (`Rows`). What a handler read can only have grown since (`Stay`), so the steps of the others
leave `InFlight` alone. The assumptions are that the kinds of bindings and the empty value differ; only
`WaitingBounded`, which counts, needs finitely many challenges and handlers (`CountsAreFinite`). From
it: `TypeCorrect`, `OneUse`, `AnswersAreBound`, `CompletedMeansVerified`, `PagesAreOne` and `WaitingBounded`, every property the run `passkey` checks;
and `KeyIsUsable` and `NeverReplaced`, that the stored passkey can be verified and stays.

`SharingProofs`, over any field in which the three indices differ and are not zero:
`TwoSharesRecover`, any two points of a line give its constant; `MixedSharesMiss`, points of two
different lines with one constant never do, so an old file and a new share cannot pass for the key; and
`ReshareKeepsSecret`, what two survivors and a joiner deal adds up to one line with the old constant,
whoever survives and whatever slopes are drawn. The steps are the field axioms: cancellation, no zero
divisors, and the two weights of a pair written with the difference of their indices.

The same module proves `Parties` over any such field in which 2 and 3 are not zero
(`CharacteristicIsAboveThree`), for any set of scalars to draw from and any number of deals, with at
least three turns of the driver's loop (`BoundsAreNaturals`). Every run follows a plan (`Plans`): what
each party contributes to the three lines dealt, or the two shares that sign. No state holds it: it is a
witness that `Begin...` provides and `ServerStarts` completes, since the server's part of a reshare is
not known before its session opens. `KeptTo`: every session and every envelope is what the plan says it
is, whichever round it is in and whatever was lost or served before, so what a session finishes with is
the planned point. For the other direction, that a run with fitting shares does not fail, `InStep`: while
nothing disturbed the run, all sessions are in the same round and all messages of that round are there,
so `OneAdvance` refuses nothing unless the shares do not fit (`FitsMatches`: that is just when the plan
cannot succeed). `Numbered` is why a new deal is not confused with an old one. From the invariant `Inv`:
`PartiesTypeCorrect`, `SharesAlwaysFit`, `OutcomesFollow` and `AlwaysKeptTogether`, every property the
run `parties` checks. TLC has the field of five elements; the theorems cover the code's.

`PageApiProofs`, for any number of requests, windows, tabs and origins, from the assumptions that `None`
is none of the words beside it and that the requests' origins and methods are the declared ones. The
inductive invariant `Inv` adds to the properties what the queue may hold and what asks for a decision
without being in it (`Queued`), what a handler may be working on at each place (`Asked`), that every
list kept over an await and every handler past its check belongs to origins the user agreed to
(`Agreed`), and that a handler keeps one buffer through its ceremony, the current one only while the
wallet is unlocked, and a wiped one if a lock came (`Buffered`).
`Queued` is why the closing of one window settles every handler: none waits undecided outside the
queue, and the windows show no more than the queue. From it: `TypeCorrect`, `NeverStranded`,
`NoSilentApproval`, `NoUninvitedOrigin` and `LockHolds`, every safety property the run `page_api`
checks.

`RecoveryWatchProofs`, for any finite set of claims, any number of checks and any cap, period and delay
that satisfy `WatchIsFastEnough` (both below the server's wait). The invariant's core is `Watched`: a
claim that waits, was not shown and has missed no check is not ready yet, and it has only begun, or the
browser runs and its alarm comes before the claim is ready, or a check is on its way. `AlarmIsNear`
bounds the alarm by a period or a delay, `Remembered` says that only what was shown is written down, and
`RememberKeeps` is what the capped list returns. From it: `TypeCorrect`, `NothingUntold` and `InTime`,
every property the run `recovery_watch` checks. The instance has a period of 1 and a wait of 2; the
theorem is what covers the code's 5 minutes and its wait of a day.

`RecoveryDeviceProofs`, for any number of requests, keys and coroutines, so for any overlap of starts,
finishes, cancels and polls. A step of a coroutine leaves the others where they are (`Moves`), and a step
of the server changes other claims in one direction only; the invariant says what the coroutines may
rely on meanwhile. `Inv`, for the types: where a coroutine of each function can be (`Shaped`), what it
carries there (`Carried`), that only a request whose tab was opened is approved (`OnlyOpened`), and that
starts that overlap have requests of their own (`Beginning`). From it: `TypeCorrect`.

`TakenKeyStays` (`KeyIsKept`) and `RestoredIsTrusted` (`FinishedIsTrusted`) assume `Cooling > 0`: with an
empty wait a late poll of an earlier recovery can discard the key of the next one after it took over.
The code's wait is a day. Their invariant, `Lasting`, adds what a wait gives. `WaitedFirst`: the claim
that somebody is about to complete has waited, or is over. When the clock moves, no start, no cancel and
nothing about another recovery is in progress, so for each claim that waits and was not given up one of
two things holds and goes on to hold (`KeptOrLost`): its recovery is written down, its key is set aside,
no vault is stored and no coroutine is left that would take either away (`Kept`), or one of them is gone
and nobody will complete the claim any more (`Lost`). A claim that took over is `Kept`, or its key is the
active one and every finish that still runs would make it so again (`Promoted`). `KeysDiffer`, `Known`,
`CleansUp`, `StoresTaken` and `Trusted` say that no two claims have one key, that a coroutine is about a
claim that exists, that a poll cleans up only after a claim that ended or lost its key, that a finish
promotes and stores only after its claim took over, and that the trusted key is a taken claim's. The
assumption in `Tick` is part of the next-state relation, so both theorems rest on it as the run does.

Only model-checked: liveness (`RunEnds`, `Settles`). Liveness under fairness and
`ENABLED` are outside the prover.

## Not modelled, and the plan

Not modelled: key derivation, sealing and envelope contents; the proofs and commitments inside a round
(dkls23), hence parties that deviate; the functions of `backend.rs` that run all parties in one
process, which only tests use; HTTP and UI layout; several wallets at once, since no statement spans
two, except that DKG and signing rounds find a session by its id alone; the awaits of `createKey()`,
`confirmRecoverySaved()` and `cancelOnboarding()`.

Every safety property of the passing runs is proved. Planned: the awaits of onboarding, which share the
pattern of `confirmReshareSaved()`.
