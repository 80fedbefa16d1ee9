--------------------------- MODULE ReshareDevice ---------------------------
(***************************************************************************)
(* A reshare from end to end: the extension's worker, its vault and popup  *)
(* (background.ts, protocolRunner.ts, vault.ts, the popup's cards) with    *)
(* the server of module ServerShare.  It begins on a device that was just  *)
(* restored, so the wallet already has a share.                            *)
(*                                                                         *)
(* The worker is one thread, but its functions await, so a run, a confirm  *)
(* and a cancel are three coroutines per reshare that interleave, each     *)
(* waiting for at most one call to the server.  A call may be lost before  *)
(* or after the server works on it, and a commit or an abort the worker    *)
(* gave up on may still arrive.  The worker may be stopped at any time and *)
(* the device may be lost.                                                 *)
(***************************************************************************)
EXTENDS ServerShare

CONSTANTS
    Original,       \* the sharing the wallet was made with
    Wiped           \* a share buffer after wipe(): zeros

ASSUME OriginalIsADkg == Original \in DkgIds
ASSUME NoneIsNoHandler == None \notin Handlers
ASSUME WipedIsNoShare == Wiped \notin Shares /\ Wiped # None

VARIABLES
    vault,          \* the record vault.ts keeps: a share and whose it is
    files,          \* the recovery files the user has, by sharing
    run,            \* performReshare(), one per reshare id
    reshareRun,     \* what the popup is told about the current run
    current,        \* the run that holds the current reshareToken, or None
    pending,        \* pendingReshare, by reshare id
    object,         \* the object pendingReshare points or pointed to
    confirm,        \* confirmReshareSaved()
    cancel,         \* cancelReshare()
    popup,          \* the reshare whose new recovery file the popup offers
    late            \* commits and aborts still on their way, nobody waiting

worker == <<run, reshareRun, current, pending, object, confirm, cancel>>
device == <<vault, files, worker, popup, late>>
system == <<vars, device>>

-----------------------------------------------------------------------------
(* Types                                                                    *)

\* h: the handler that works on this coroutine's call, once one does.
Callers == Handlers \union {None}

Runs == [pc : {"none", "checked", "auth", "start", "round", "undo", "over"},
         round : 0..LastRound, base : Shares \union {None, Wiped}, h : Callers]
NoRun == [pc |-> "none", round |-> 0, base |-> None, h |-> None]

Quiet == [pc |-> "idle", h |-> None]

NothingRuns == [phase |-> "idle", id |-> None]

DeviceTypeOK ==
    /\ vault \in [share : Shares \union {Wiped}, party : {"recovery", "extension"}]
    /\ files \subseteq Shares
    /\ run \in [ReshareIds -> Runs]
    /\ reshareRun \in [phase : {"idle", "working", "ready", "failed"}, id : ReshareIds \union {None}]
    /\ current \in ReshareIds \union {None}
    /\ pending \in ReshareIds \union {None}
    /\ object \in [ReshareIds -> [committed : BOOLEAN, wiped : BOOLEAN]]
    /\ confirm \in [ReshareIds -> [pc : {"idle", "commit", "store"}, h : Callers]]
    /\ cancel \in [ReshareIds -> [pc : {"idle", "abort"}, h : Callers]]
    /\ popup \in ReshareIds \union {None}
    /\ late \subseteq ReshareIds \X {"commit", "abort"}

SystemTypeOK == TypeOK /\ DeviceTypeOK

WorkerStart ==
    /\ run = [t \in ReshareIds |-> NoRun]
    /\ reshareRun = NothingRuns
    /\ current = None
    /\ pending = None
    /\ object = [t \in ReshareIds |-> [committed |-> FALSE, wiped |-> FALSE]]
    /\ confirm = [t \in ReshareIds |-> Quiet]
    /\ cancel = [t \in ReshareIds |-> Quiet]

SystemInit ==
    /\ live = Original
    /\ grant = [o \in ApprovedIds |-> "none"]
    /\ session = [i \in Ids |-> NoSession]
    /\ staged = NoStaged
    /\ task = [h \in Handlers |-> Idle]
    /\ vault = [share |-> Original, party |-> "recovery"]
    /\ files = {Original}
    /\ WorkerStart
    /\ popup = None
    /\ late = {}

-----------------------------------------------------------------------------
(* Calls.  A coroutine c[t] that makes one is sent, then served by some     *)
(* handler, then answered; or it throws.                                    *)

\* Which handler serves a call makes no difference: the next one that is free.
NextFree ==
    IF \E h \in Handlers : task[h] = Idle
    THEN {CHOOSE h \in Handlers : task[h] = Idle} ELSE {}

Unserved(c) == c.h = None
Served(c) == c.h # None
Answered(c) == Served(c) /\ task[c.h].pc \in {"ok", "refused"}
AnsweredOk(c) == Answered(c) /\ task[c.h].pc = "ok"

\* The worker stops waiting: the answer arrived, or an error did.
Hear(c) == Answered(c) /\ Answer(c.h)

\* A network error.  What was sent may or may not still arrive.
Lose(t, what) ==
    /\ UNCHANGED vars
    /\ \/ late' = late
       \/ late' = late \union {<<t, what>>}

Waited(h) == \E t \in ReshareIds : h \in {run[t].h, confirm[t].h, cancel[t].h}

-----------------------------------------------------------------------------
(* startReshare() and performReshare()                                      *)

Advance(t, pc) == run' = [run EXCEPT ![t].pc = pc, ![t].h = None]

\* A start draws a fresh id.
FreshId == CHOOSE t \in ReshareIds : run[t].pc = "none"

\* The checks come before the awaits, so two starts can both pass them.
StartReshare(t) ==
    /\ run[t].pc = "none"
    /\ t = FreshId
    /\ vault.party = "recovery"
    /\ pending = None
    /\ reshareRun.phase = "idle"
    /\ popup = None
    /\ Advance(t, "checked")
    /\ UNCHANGED <<vars, vault, files, reshareRun, current, pending, object, confirm, cancel, popup, late>>

\* The password opens the vault and the run gets its token.
Unlock(t) ==
    /\ run[t].pc = "checked"
    /\ run' = [run EXCEPT ![t].pc = "auth", ![t].base = vault.share]
    /\ reshareRun' = [phase |-> "working", id |-> t]
    /\ current' = t
    /\ UNCHANGED <<vars, vault, files, pending, object, confirm, cancel, popup, late>>

\* Only the current run reports that it failed.
SlipUnreported(t) == reshareRun
Outcome(t) == IF t = current THEN [phase |-> "failed", id |-> t] ELSE reshareRun

\* The run ends without a result.
Failed(t) ==
    /\ Advance(t, "over")
    /\ reshareRun' = Outcome(t)
    /\ UNCHANGED <<vault, files, current, pending, object, confirm, cancel, popup>>

\* authorizeWithPasskey(): approved in the browser, or refused or timed out.
Authorize(t) ==
    /\ run[t].pc = "auth"
    /\ grant[t] # "none"
    /\ Advance(t, "start")
    /\ UNCHANGED <<vars, vault, files, reshareRun, current, pending, object, confirm, cancel, popup, late>>

NotAuthorized(t) ==
    /\ run[t].pc = "auth"
    /\ Failed(t)
    /\ UNCHANGED <<vars, late>>

\* runReshare() posts the start, then one message per round.
Post(t) ==
    /\ Unserved(run[t])
    /\ \E h \in NextFree :
         /\ \/ run[t].pc = "start" /\ Start(h, t)
            \/ run[t].pc = "round" /\ Take(h, t, run[t].round, run[t].base)
            \/ run[t].pc = "undo" /\ Abort(h, t)
         /\ run' = [run EXCEPT ![t].h = h]
    /\ UNCHANGED <<vault, files, reshareRun, current, pending, object, confirm, cancel, popup, late>>

SlipOneMoreRound(t) == TRUE
RoundsLeft(t) == run[t].round < LastRound

NextRound(t) ==
    /\ run[t].pc \in {"start", "round"}
    /\ RoundsLeft(t)
    /\ AnsweredOk(run[t])
    /\ Hear(run[t])
    /\ run' = [run EXCEPT ![t].pc = "round", ![t].round = @ + 1, ![t].h = None]
    /\ UNCHANGED <<vault, files, reshareRun, current, pending, object, confirm, cancel, popup, late>>

\* An error in runReshare() aborts on the server before it is rethrown.
Undo(t) ==
    /\ run[t].pc \in {"start", "round"}
    /\ \/ Answered(run[t]) /\ ~ AnsweredOk(run[t]) /\ Hear(run[t])
       \/ UNCHANGED vars
    /\ Advance(t, "undo")
    /\ UNCHANGED <<vault, files, reshareRun, current, pending, object, confirm, cancel, popup, late>>

Undone(t) ==
    /\ run[t].pc = "undo"
    /\ Failed(t)
    /\ \/ Hear(run[t]) /\ late' = late
       \/ Unserved(run[t]) /\ Lose(t, "abort")
       \/ Served(run[t]) /\ UNCHANGED <<vars, late>>

\* The server staged its share.  A run whose token is no longer the current
\* one undoes itself; otherwise the result waits for the popup.
SlipNoToken(t) == TRUE
IsCurrent(t) == t = current

Staged(t) ==
    /\ run[t].pc = "round"
    /\ run[t].round = LastRound
    /\ AnsweredOk(run[t])
    /\ Hear(run[t])
    /\ \/ /\ IsCurrent(t)
          /\ Advance(t, "over")
          /\ pending' = t
          /\ reshareRun' = [phase |-> "ready", id |-> t]
       \/ /\ ~ IsCurrent(t)
          /\ Advance(t, "undo")
          /\ UNCHANGED <<pending, reshareRun>>
    /\ UNCHANGED <<vault, files, current, object, confirm, cancel, popup, late>>

-----------------------------------------------------------------------------
(* The popup: it is told of a failure once, takes the new recovery share    *)
(* once, and the user saves it                                              *)

ReportFailure ==
    /\ reshareRun.phase = "failed"
    /\ reshareRun' = NothingRuns
    /\ UNCHANGED <<vars, vault, files, run, current, pending, object, confirm, cancel, popup, late>>

TakeRecovery ==
    /\ reshareRun.phase = "ready"
    /\ popup' = reshareRun.id
    /\ reshareRun' = NothingRuns
    /\ UNCHANGED <<vars, vault, files, run, current, pending, object, confirm, cancel, late>>

SaveFile ==
    /\ popup # None
    /\ popup \notin files
    /\ files' = files \union {popup}
    /\ UNCHANGED <<vars, vault, worker, popup, late>>

ClosePopup ==
    /\ popup # None
    /\ popup' = None
    /\ UNCHANGED <<vars, vault, files, worker, late>>

\* The export card disables its buttons while one of its calls runs.
Busy == popup # None /\ (confirm[popup] # Quiet \/ cancel[popup] # Quiet)

-----------------------------------------------------------------------------
(* confirmReshareSaved(): commit unless already done, then store            *)

SlipStoreFirst(t) == "store"
AfterChecks(t) == IF object[t].committed THEN "store" ELSE "commit"

\* The card's button waits for the download.
SlipNotSaved == popup # None
Downloaded == popup \in files

ConfirmStart ==
    /\ Downloaded
    /\ ~ Busy
    /\ pending # None
    /\ confirm[pending] = Quiet
    /\ confirm' = [confirm EXCEPT ![pending].pc = AfterChecks(pending)]
    /\ UNCHANGED <<vars, vault, files, run, reshareRun, current, pending, object, cancel, popup, late>>

ConfirmPost(t) ==
    /\ confirm[t].pc = "commit"
    /\ Unserved(confirm[t])
    /\ \E h \in NextFree :
         /\ Commit(h, t)
         /\ confirm' = [confirm EXCEPT ![t].h = h]
    /\ UNCHANGED <<vault, files, run, reshareRun, current, pending, object, cancel, popup, late>>

Committed(t) ==
    /\ confirm[t].pc = "commit"
    /\ AnsweredOk(confirm[t])
    /\ Hear(confirm[t])
    /\ object' = [object EXCEPT ![t].committed = TRUE]
    /\ confirm' = [confirm EXCEPT ![t] = [pc |-> "store", h |-> None]]
    /\ UNCHANGED <<vault, files, run, reshareRun, current, pending, cancel, popup, late>>

NotCommitted(t) ==
    /\ confirm[t].pc = "commit"
    /\ \/ /\ Answered(confirm[t])
          /\ ~ AnsweredOk(confirm[t])
          /\ Hear(confirm[t])
          /\ late' = late
       \/ /\ Unserved(confirm[t])
          /\ Lose(t, "commit")
       \/ /\ Served(confirm[t])
          /\ UNCHANGED <<vars, late>>
    /\ confirm' = [confirm EXCEPT ![t] = Quiet]
    /\ UNCHANGED <<vault, files, run, reshareRun, current, pending, object, cancel, popup>>

\* The user destroys the file that was restored from, or keeps it.
Store(t) ==
    /\ confirm[t].pc = "store"
    /\ vault' = [share |-> IF object[t].wiped THEN Wiped ELSE t, party |-> "extension"]
    /\ pending' = None
    /\ confirm' = [confirm EXCEPT ![t] = Quiet]
    /\ popup' = IF popup = t THEN None ELSE popup
    /\ files' \in {files, files \ {run[t].base}}
    /\ UNCHANGED <<vars, run, reshareRun, current, object, cancel, late>>

NotStored(t) ==
    /\ confirm[t].pc = "store"
    /\ confirm' = [confirm EXCEPT ![t] = Quiet]
    /\ UNCHANGED <<vars, vault, files, run, reshareRun, current, pending, object, cancel, popup, late>>

-----------------------------------------------------------------------------
(* cancelReshare(): nothing pending, or abort, then wipe.  One already      *)
(* committed is an error and changes nothing.                               *)

Cancellable == vault.party = "recovery" /\ ~ Busy

CancelRun ==
    /\ Cancellable
    /\ pending = None
    /\ current # None \/ reshareRun # NothingRuns
    /\ current' = None
    /\ reshareRun' = NothingRuns
    /\ popup' = None
    /\ UNCHANGED <<vars, vault, files, run, pending, object, confirm, cancel, late>>

CancelStart ==
    /\ Cancellable
    /\ pending # None
    /\ ~ object[pending].committed
    /\ cancel[pending] = Quiet
    /\ cancel' = [cancel EXCEPT ![pending].pc = "abort"]
    /\ UNCHANGED <<vars, vault, files, run, reshareRun, current, pending, object, confirm, popup, late>>

CancelPost(t) ==
    /\ cancel[t].pc = "abort"
    /\ Unserved(cancel[t])
    /\ \E h \in NextFree :
         /\ Abort(h, t)
         /\ cancel' = [cancel EXCEPT ![t].h = h]
    /\ UNCHANGED <<vault, files, run, reshareRun, current, pending, object, confirm, popup, late>>

\* The abort was answered or failed; either way the local part goes on.
Cancelled(t) ==
    /\ cancel[t].pc = "abort"
    /\ \/ Hear(cancel[t]) /\ late' = late
       \/ Unserved(cancel[t]) /\ Lose(t, "abort")
       \/ Served(cancel[t]) /\ UNCHANGED <<vars, late>>
    /\ cancel' = [cancel EXCEPT ![t] = Quiet]
    /\ object' = [object EXCEPT ![t].wiped = TRUE]
    /\ pending' = None
    /\ popup' = IF popup = t THEN None ELSE popup
    /\ UNCHANGED <<vault, files, run, reshareRun, current, confirm>>

-----------------------------------------------------------------------------
(* The server, the network and the device                                   *)

ServerStep(h) ==
    /\ \/ Continue(h)
       \/ ~ Waited(h) /\ (Answer(h) \/ Abandon(h))
    /\ UNCHANGED device

\* Assumed: no approval is given between a start's checks and its token.
\* Nothing in the code orders the two, but opening the vault takes the worker
\* about a second and a passkey approval takes the user more.
PromptUnlock == \A u \in ReshareIds : run[u].pc # "checked"

ApproveInBrowser(t) ==
    /\ run[t].pc = "auth"
    /\ PromptUnlock
    /\ Approve(t)
    /\ UNCHANGED device

TimePasses == Lapses /\ UNCHANGED device

ArriveLate ==
    /\ \E t \in ReshareIds, what \in {"commit", "abort"} :
         /\ <<t, what>> \in late
         /\ \E h \in NextFree :
              IF what = "commit" THEN Commit(h, t) ELSE Abort(h, t)
         /\ late' = late \ {<<t, what>>}
    /\ UNCHANGED <<vault, files, worker, popup>>

\* Everything the worker holds is in memory.
Forget ==
    /\ run' = [t \in ReshareIds |->
                 IF run[t].pc = "none" THEN run[t]
                 ELSE [run[t] EXCEPT !.pc = "over", !.round = 0, !.h = None]]
    /\ reshareRun' = NothingRuns
    /\ current' = None
    /\ pending' = None
    /\ confirm' = [t \in ReshareIds |-> Quiet]
    /\ cancel' = [t \in ReshareIds |-> Quiet]
    /\ UNCHANGED object

WorkerStops ==
    /\ Forget
    /\ UNCHANGED <<vars, vault, files, popup, late>>

\* The device is lost and the wallet restored from a file.
Restore(f) ==
    /\ Forget
    /\ vault' = [share |-> f, party |-> "recovery"]
    /\ popup' = None
    /\ UNCHANGED <<vars, files, late>>

RunStep(t) ==
    \/ Unlock(t) \/ Authorize(t) \/ NotAuthorized(t)
    \/ Post(t) \/ NextRound(t) \/ Undo(t) \/ Undone(t) \/ Staged(t)

Coroutines(t) ==
    \/ RunStep(t)
    \/ ConfirmPost(t) \/ Committed(t) \/ NotCommitted(t) \/ Store(t) \/ NotStored(t)
    \/ CancelPost(t) \/ Cancelled(t)

User ==
    \/ \E t \in ReshareIds : StartReshare(t)
    \/ ReportFailure \/ TakeRecovery \/ SaveFile \/ ClosePopup
    \/ ConfirmStart \/ CancelRun \/ CancelStart

Environment ==
    \/ TimePasses
    \/ ArriveLate
    \/ WorkerStops
    \/ \E f \in files : Restore(f)

SystemNext ==
    \/ \E t \in ReshareIds : Coroutines(t) \/ ApproveInBrowser(t)
    \/ User
    \/ \E h \in Handlers : ServerStep(h)
    \/ Environment

SystemSpec == SystemInit /\ [][SystemNext]_system

\* The worker's own awaits and the server's finish: the browser fails a request
\* that gets no answer, and the passkey poll gives up after 120 seconds.
\* Nothing is asked of the user, the passkey or the network.
Fairness ==
    /\ \A t \in ReshareIds : WF_system(RunStep(t))
    /\ \A h \in Handlers : WF_system(ServerStep(h))

FairSpec == SystemSpec /\ Fairness

-----------------------------------------------------------------------------
(* Properties                                                               *)

(***************************************************************************)
(* The user always has a recovery file that fits the server's share: the   *)
(* address survives the loss of the device at any step of a reshare, even  *)
(* for a user who destroys the old file as soon as the new one is in use.  *)
(***************************************************************************)
Recoverable == live \in files

(***************************************************************************)
(* The vault takes a share over from a reshare only once the server's      *)
(* share of that reshare is live.                                          *)
(***************************************************************************)
VaultFollowsServer ==
    [][vault' # vault /\ vault'.party = "extension" /\ vault'.share # Wiped =>
         vault'.share = live]_system

(***************************************************************************)
(* A reshare never stays "working": whatever is lost, cancelled or started *)
(* again, the popup is told of a result, a failure or nothing to wait for, *)
(* and the user can go on.                                                 *)
(***************************************************************************)
RunEnds == reshareRun.phase = "working" ~> reshareRun.phase # "working"
=============================================================================
