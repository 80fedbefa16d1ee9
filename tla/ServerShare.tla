---------------------------- MODULE ServerShare ----------------------------
(***************************************************************************)
(* The server's share of one wallet and the three protocols that run over  *)
(* HTTP with it: key generation creates it, signing uses it, a reshare     *)
(* stages a replacement that a commit makes live (api.rs and reshare.rs    *)
(* over the tables of store.rs).                                           *)
(*                                                                         *)
(* The server keeps no state between two requests: a round reads the       *)
(* sealed session, computes, and writes it back in a later statement, so   *)
(* calls of one session and of others interleave between the two.  A call  *)
(* that passed the device proof runs its first statement from an idle      *)
(* slot; task[h] is what it knows from then on until its answer, and       *)
(* Abandon drops it at any await.                                          *)
(*                                                                         *)
(* A share is named after the sharing it belongs to: the key generation or *)
(* the reshare that dealt it.  The cryptography is one fact: a last round  *)
(* can succeed only when both sides work from the same sharing.  Any other *)
(* reason to refuse a message is in its content, which is left out, so any *)
(* message may be refused.                                                 *)
(***************************************************************************)
EXTENDS Integers

CONSTANTS
    DkgIds,         \* key generation session ids
    SignIds,        \* signing session ids
    ReshareIds,     \* reshare session ids
    Handlers,       \* slots for calls in flight
    None,           \* SQL NULL, no row, no local value
    LastRound       \* the round whose message finishes a session

Ids == DkgIds \union SignIds \union ReshareIds
ApprovedIds == SignIds \union ReshareIds
Shares == DkgIds \union ReshareIds

ASSUME IdsAreDisjoint ==
    /\ DkgIds \intersect SignIds = {}
    /\ DkgIds \intersect ReshareIds = {}
    /\ SignIds \intersect ReshareIds = {}
    /\ None \notin Ids
ASSUME LastRoundIsPositive == LastRound \in Nat \ {0}

VARIABLES
    live,           \* the share in key_shares, or None
    grant,          \* the operation's row in passkey_authorizations
    session,        \* its row in dkg_sessions, sign_sessions, reshare_sessions
    staged,         \* the wallet's row in pending_reshares
    task            \* calls in flight

vars == <<live, grant, session, staged, task>>

-----------------------------------------------------------------------------
(* Types                                                                    *)

Sessions == [round : 1..LastRound, base : Shares \union {None}]
NoSession == [round |-> 0, base |-> None]

\* lapsed: expires_at has passed.
StagedShares == [share : ReshareIds, lapsed : BOOLEAN]
NoStaged == [share |-> None, lapsed |-> FALSE]

\* pc is what the call does next; ok and refused are answers on their way.
Tasks ==
    [pc : {"idle", "read", "open", "send", "close", "fail", "ok", "refused"},
     id : Ids \union {None}, round : 0..LastRound, base : Shares \union {None}]
Resting(pc) == [pc |-> pc, id |-> None, round |-> 0, base |-> None]
Idle == Resting("idle")

TypeOK ==
    /\ live \in Shares \union {None}
    /\ grant \in [ApprovedIds -> {"none", "granted", "lapsed", "consumed"}]
    /\ session \in [Ids -> Sessions \union {NoSession}]
    /\ staged \in StagedShares \union {NoStaged}
    /\ task \in [Handlers -> Tasks]
    /\ \A h \in Handlers :
         /\ task[h].pc = "read" => task[h].id \in ApprovedIds
         /\ task[h].pc \in {"open", "send", "close"} => task[h].id \in Ids
         /\ task[h].pc = "send" => task[h].round \in 1..(LastRound - 1)
         /\ task[h].pc = "fail" => task[h].id \in ReshareIds

Init ==
    /\ live = None
    /\ grant = [o \in ApprovedIds |-> "none"]
    /\ session = [i \in Ids |-> NoSession]
    /\ staged = NoStaged
    /\ task = [h \in Handlers |-> Idle]

-----------------------------------------------------------------------------
(* Helpers.  A definition whose name begins with Slip is not the code: it   *)
(* is the definition after it with a mistake one could make there, kept to  *)
(* show that a property notices.                                            *)

Begin(h, pc, i, round, base) ==
    task' = [task EXCEPT ![h] = [pc |-> pc, id |-> i, round |-> round, base |-> base]]

Reply(h, answer) == task' = [task EXCEPT ![h] = Resting(answer)]

\* INSERT ... ON CONFLICT DO UPDATE, so a late write restores a deleted row.
Put(i, round, base) == session' = [session EXCEPT ![i] = [round |-> round, base |-> base]]

Delete(i) == session' = [session EXCEPT ![i] = NoSession]

\* abort_reshare(): the reshare's session and, if it is the one, its share.
SlipDropAnyStaged(r) ==
    /\ Delete(r)
    /\ staged' = NoStaged
AbortReshare(r) ==
    /\ Delete(r)
    /\ staged' = IF staged.share = r THEN NoStaged ELSE staged

\* advance() can accept the message: it is for this round, and at the end the
\* two sides' shares fit together.
Fits(row, n, b) ==
    /\ n = row.round
    /\ row.round = LastRound => b = row.base

SlipOneMore(row) == row.round <= LastRound
MoreRounds(row) == row.round < LastRound

-----------------------------------------------------------------------------
(* Around the calls: answers, approvals, time limits                        *)

Answer(h) ==
    /\ task[h].pc \in {"ok", "refused"}
    /\ task' = [task EXCEPT ![h] = Idle]
    /\ UNCHANGED <<live, grant, session, staged>>

\* A dropped connection, a storage error or a crash: the tables stay.
Abandon(h) ==
    /\ task[h].pc \notin {"idle", "ok", "refused"}
    /\ task' = [task EXCEPT ![h] = Idle]
    /\ UNCHANGED <<live, grant, session, staged>>

\* The owner's passkey approves the operation, once.
Approve(o) ==
    /\ grant[o] = "none"
    /\ grant' = [grant EXCEPT ![o] = "granted"]
    /\ UNCHANGED <<live, session, staged, task>>

\* The approval was not used in time.
GrantLapses(o) ==
    /\ grant[o] = "granted"
    /\ grant' = [grant EXCEPT ![o] = "lapsed"]
    /\ UNCHANGED <<live, session, staged, task>>

StagedLapses ==
    /\ staged # NoStaged
    /\ ~ staged.lapsed
    /\ staged' = [staged EXCEPT !.lapsed = TRUE]
    /\ UNCHANGED <<live, grant, session, task>>

-----------------------------------------------------------------------------
(* start_sign() and reshare::start(): consume the approval, read the share, *)
(* open the session.  start_dkg() only opens it.  A reshare also asks for   *)
(* the wallet's key before it consumes, and a key once made stays.          *)

SlipKeepGrant(o) == UNCHANGED grant
ConsumeGrant(o) == grant' = [grant EXCEPT ![o] = "consumed"]

Startable(o) == grant[o] = "granted" /\ (o \in ReshareIds => live # None)

Start(h, o) ==
    /\ task[h] = Idle
    /\ \/ /\ Startable(o)
          /\ ConsumeGrant(o)
          /\ Begin(h, "read", o, 0, None)
       \/ /\ ~ Startable(o)
          /\ Reply(h, "refused")
          /\ UNCHANGED grant
    /\ UNCHANGED <<live, session, staged>>

ReadShare(h) ==
    /\ task[h].pc = "read"
    /\ IF live = None THEN Reply(h, "refused")
       ELSE Begin(h, "open", task[h].id, 0, live)
    /\ UNCHANGED <<live, grant, session, staged>>

Open(h) ==
    /\ task[h].pc = "open"
    /\ Put(task[h].id, 1, task[h].base)
    /\ Reply(h, "ok")
    /\ UNCHANGED <<live, grant, staged>>

StartDkg(h, d) ==
    /\ task[h] = Idle
    /\ Put(d, 1, None)
    /\ Reply(h, "ok")
    /\ UNCHANGED <<live, grant, staged>>

-----------------------------------------------------------------------------
(* advance_dkg(), advance_sign() and reshare::advance(): take the session,  *)
(* compute, then write it back, close it or, for a reshare, abort           *)

\* No row, or one whose time has passed, which is deleted.
TakeNothing(h, i) ==
    /\ Delete(i)
    /\ Reply(h, "refused")

\* Envelopes that do not parse change nothing.  A failed round ends a reshare
\* and leaves the session of the other two protocols as it was.
TakeAndFail(h, i) ==
    /\ session[i] # NoSession
    /\ Reply(h, "refused") \/ (i \in ReshareIds /\ Begin(h, "fail", i, 0, None))
    /\ UNCHANGED session

TakeAndAdvance(h, i, n, b) ==
    LET row == session[i] IN
    /\ row # NoSession
    /\ Fits(row, n, b)
    /\ \/ /\ MoreRounds(row)
          /\ Begin(h, "send", i, row.round, row.base)
       \/ /\ row.round = LastRound
          /\ Begin(h, "close", i, 0, None)
    /\ UNCHANGED session

\* A message of round n from a peer that works from share b.
Take(h, i, n, b) ==
    /\ task[h] = Idle
    /\ TakeNothing(h, i) \/ TakeAndFail(h, i) \/ TakeAndAdvance(h, i, n, b)
    /\ UNCHANGED <<live, grant, staged>>

Send(h) ==
    /\ task[h].pc = "send"
    /\ Put(task[h].id, task[h].round + 1, task[h].base)
    /\ Reply(h, "ok")
    /\ UNCHANGED <<live, grant, staged>>

\* finish_dkg(): a wallet that has a share keeps it, and its session.
FinishDkg(h) ==
    \/ /\ live = None
       /\ live' = task[h].id
       /\ Delete(task[h].id)
       /\ Reply(h, "ok")
    \/ /\ live # None
       /\ Reply(h, "refused")
       /\ UNCHANGED <<live, session>>

CloseDkg(h) ==
    /\ task[h].pc = "close"
    /\ task[h].id \in DkgIds
    /\ FinishDkg(h)
    /\ UNCHANGED <<grant, staged>>

CloseSign(h) ==
    /\ task[h].pc = "close"
    /\ task[h].id \in SignIds
    /\ Delete(task[h].id)
    /\ Reply(h, "ok")
    /\ UNCHANGED <<live, grant, staged>>

StageReshare(h) ==
    /\ task[h].pc = "close"
    /\ task[h].id \in ReshareIds
    /\ Delete(task[h].id)
    /\ staged' = [share |-> task[h].id, lapsed |-> FALSE]
    /\ Reply(h, "ok")
    /\ UNCHANGED <<live, grant>>

FailReshare(h) ==
    /\ task[h].pc = "fail"
    /\ AbortReshare(task[h].id)
    /\ Reply(h, "refused")
    /\ UNCHANGED <<live, grant>>

-----------------------------------------------------------------------------
(* commit() and abort()                                                     *)

SlipCommitAny(r) == live # None /\ staged # NoStaged /\ ~ staged.lapsed
Committable(r) == live # None /\ staged.share = r /\ ~ staged.lapsed

Commit(h, r) ==
    /\ task[h] = Idle
    /\ \/ /\ Committable(r)
          /\ live' = r
          /\ staged' = NoStaged
          /\ Reply(h, "ok")
       \/ /\ ~ Committable(r)
          /\ Reply(h, "refused")
          /\ UNCHANGED <<live, staged>>
    /\ UNCHANGED <<grant, session>>

Abort(h, r) ==
    /\ task[h] = Idle
    /\ AbortReshare(r)
    /\ Reply(h, "ok")
    /\ UNCHANGED <<live, grant>>

-----------------------------------------------------------------------------

\* The first statement of a call.
Arrive(h) ==
    \/ \E o \in ApprovedIds : Start(h, o)
    \/ \E d \in DkgIds : StartDkg(h, d)
    \/ \E i \in Ids, n \in 1..LastRound, b \in Shares \union {None} : Take(h, i, n, b)
    \/ \E r \in ReshareIds : Commit(h, r) \/ Abort(h, r)

\* The later ones.
Continue(h) ==
    \/ ReadShare(h) \/ Open(h)
    \/ Send(h) \/ CloseDkg(h) \/ CloseSign(h)
    \/ StageReshare(h) \/ FailReshare(h)

Lapses == (\E o \in ApprovedIds : GrantLapses(o)) \/ StagedLapses

Next ==
    \/ \E h \in Handlers : Arrive(h) \/ Continue(h) \/ Answer(h) \/ Abandon(h)
    \/ \E o \in ApprovedIds : Approve(o)
    \/ Lapses

Spec == Init /\ [][Next]_vars

-----------------------------------------------------------------------------
(* Properties                                                               *)

(***************************************************************************)
(* No session of a signature or a reshare exists, nothing of it is in      *)
(* flight, staged or live, unless its own passkey approval was consumed:   *)
(* not after a late write put a deleted session back, not after a retry.   *)
(***************************************************************************)
WorkIsApproved ==
    \A o \in ApprovedIds :
        \/ session[o] # NoSession
        \/ \E h \in Handlers : task[h].id = o
        \/ staged.share = o
        \/ live = o
        => grant[o] = "consumed"

(***************************************************************************)
(* A staged share goes away only by becoming live or by an abort or a      *)
(* failed round of its own reshare: one that was cancelled and is still    *)
(* winding down never takes the share of another one with it.              *)
(***************************************************************************)
DroppedByItsOwn ==
    [][staged # NoStaged /\ staged' = NoStaged =>
         \/ live' = staged.share
         \/ \E h \in Handlers :
              \/ task[h].id = staged.share /\ task[h].pc = "fail"
              \/ Abort(h, staged.share)]_vars

(***************************************************************************)
(* docs/server.md: after a commit the old share exists nowhere on the      *)
(* server.  The state of a signing session holds the share it was opened   *)
(* with.                                                                   *)
(***************************************************************************)
OldShareIsGone ==
    \A s \in SignIds : session[s].base # None => session[s].base = live

(***************************************************************************)
(* The tables implement the promise of ShareCustody.                       *)
(***************************************************************************)
Custody == INSTANCE ShareCustody WITH
    Origins <- DkgIds, Reshares <- ReshareIds, Signatures <- SignIds,
    NoShare <- None, ready <- staged.share,
    spent <- {o \in ApprovedIds : grant[o] = "consumed"}

\* ServerShare implements ShareCustody: the property TLC checks.
CustodySpec == Custody!Spec
=============================================================================
