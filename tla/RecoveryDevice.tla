--------------------------- MODULE RecoveryDevice ---------------------------
(***************************************************************************)
(* Restoring a wallet on a fresh install: beginRecovery(),                 *)
(* recoveryProgress(), finishRecovery() and abandonRecovery() of           *)
(* background.ts over the install's storage, and the popup's RecoverPanel  *)
(* that calls them, against a server that keeps the promise of             *)
(* DeviceKeyCustody (which module Recovery implements).                    *)
(*                                                                         *)
(* The worker is one thread and every storage or network access is an      *)
(* await, so a coroutine is one action per access.  A call may be lost     *)
(* before or after the server works on it, or be worked on after the       *)
(* install stopped waiting; the worker may be stopped at any moment and    *)
(* keeps only what is stored.  Closing the ceremony's tab is left out: a   *)
(* tab, once opened, can be approved in at any time.                       *)
(***************************************************************************)
EXTENDS Integers

CONSTANTS
    Claims,         \* request ids the server can draw
    Keys,           \* device keys createDeviceKey() can make
    None,           \* undefined: nothing stored, nothing registered
    Coroutines,     \* slots for calls of the worker's functions
    Cooling,        \* the server's wait
    Window,         \* COMPLETE_WINDOW_SECONDS
    MaxTime         \* bound: the clock stops here

ASSUME NoneIsNew == None \notin Claims \union Keys \union Coroutines
ASSUME DurationsAreNaturals == Cooling \in Nat /\ Window \in Nat /\ MaxTime \in Nat

VARIABLES
    time, key, approved, claim,     \* the server, as in DeviceKeyCustody
    activeKey,      \* IndexedDB record "pair": the installation's key
    pendingKey,     \* IndexedDB record "pending": the key set aside
    recovery,       \* chrome.storage "recovery": the request in progress
    vault,          \* whether chrome.storage "vault" holds a share
    opened,         \* requests whose ceremony tab was opened
    gaveUp,         \* history: requests that could take over, or had, when the
                    \* user cancelled, and those that had when he started anew
    page,           \* the phase RecoverPanel shows, "closed" without a popup
    waits,          \* the coroutine a button of the popup waits for (busy)
    heard,          \* the recoveryProgress() whose answer is still wanted
    task,           \* the worker's coroutines
    late            \* requests whose complete() nobody waits for may still arrive

server == <<time, key, approved, claim>>
stored == <<activeKey, pendingKey, recovery, vault>>
popup == <<page, waits, heard>>
user == <<opened, gaveUp>>
vars == <<server, stored, popup, user, task, late>>

Server == INSTANCE DeviceKeyCustody WITH NoKey <- None

-----------------------------------------------------------------------------
(* Types                                                                    *)

Calls == {"request", "status", "complete", "cancel"}
Answers == {"awaitingAssertion", "cooling", "ready", "completed", "over", "done", "error"}
Phases == {"idle", "awaitingAssertion", "cooling", "ready", "ended"}

\* pc is what the coroutine does next; sent and answered are the two halves of
\* the call to the server it waits for.
Tasks == [op : {"none", "begin", "poll", "finish", "abandon"},
          pc : {"idle", "exists", "state", "key", "make", "sent", "answered", "write", "open",
                "load", "activate", "promoted", "store", "stored", "discard", "clear"},
          req : Claims \union {None},
          key : Keys \union {None},
          call : Calls \union {None},
          answer : Answers \union {None}]
Idle == [op |-> "none", pc |-> "idle", req |-> None, key |-> None, call |-> None, answer |-> None]

TypeOK ==
    /\ time \in 0..MaxTime
    /\ key \in Keys \union {None}
    /\ approved \subseteq Claims
    /\ claim \in [Claims -> [phase : Server!Phases, key : Keys \union {None},
                             ready : Nat, until : Nat]]
    /\ activeKey \in Keys \union {None}
    /\ pendingKey \in Keys \union {None}
    /\ recovery \in Claims \union {None}
    /\ vault \in BOOLEAN
    /\ opened \subseteq Claims
    /\ gaveUp \subseteq Claims
    /\ page \in Phases \union {"closed"}
    /\ waits \in Coroutines \union {None}
    /\ heard \in Coroutines \union {None}
    /\ task \in [Coroutines -> Tasks]
    /\ late \subseteq Claims
    /\ \A t \in Coroutines : task[t].pc = "sent" =>
         /\ task[t].key \in Keys
         /\ task[t].call # "request" => task[t].req \in Claims

Init ==
    /\ Server!Init
    /\ activeKey = None
    /\ pendingKey = None
    /\ recovery = None
    /\ vault = FALSE
    /\ opened = {}
    /\ gaveUp = {}
    /\ page = "closed"
    /\ waits = None
    /\ heard = None
    /\ task = [t \in Coroutines |-> Idle]
    /\ late = {}

-----------------------------------------------------------------------------
(* The popup.  A definition whose name begins with Slip is not the code: it *)
(* is the definition after it with a mistake one could make there.          *)

\* The polling effect is started anew, and the answer of the old one ignored,
\* when the panel enters or leaves one of these two phases.
SamePace(p, q) == \A phase \in {"awaitingAssertion", "cooling"} : p = phase <=> q = phase

\* The popup is told and shows p.
Show(p) ==
    /\ page' = p
    /\ heard' = IF SamePace(page, p) THEN heard ELSE None

\* Coroutine t returns, and the panel shows p if it still wants to know.
Return(t, p) ==
    /\ task' = [task EXCEPT ![t] = Idle]
    /\ \/ t = waits /\ waits' = None /\ Show(p)
       \/ t = heard /\ heard' = None /\ page' = p /\ UNCHANGED waits
       \/ t \notin {waits, heard} /\ UNCHANGED popup

\* It throws: the panel shows the error and stays in its phase.
Throw(t) == Return(t, page)

OpenPopup ==
    /\ page = "closed"
    /\ ~ vault
    /\ page' = "idle"
    /\ UNCHANGED <<server, stored, waits, heard, user, task, late>>

ClosePopup ==
    /\ page # "closed"
    /\ page' = "closed"
    /\ waits' = None
    /\ heard' = None
    /\ UNCHANGED <<server, stored, user, task, late>>

StartAgain ==
    /\ page = "ended"
    /\ Show("idle")
    /\ UNCHANGED <<server, stored, waits, user, task, late>>

Enter(t, op, pc) ==
    /\ task[t] = Idle
    /\ task' = [task EXCEPT ![t] = [Idle EXCEPT !.op = op, !.pc = pc]]

Press(t, op, pc) ==
    /\ waits = None
    /\ Enter(t, op, pc)
    /\ waits' = t
    /\ UNCHANGED <<server, stored, page, heard, user, late>>

BeginRecovery(t) == page = "idle" /\ Press(t, "begin", "exists")
FinishRecovery(t) == page = "ready" /\ Press(t, "finish", "exists")
AbandonRecovery(t) ==
    /\ page \in {"awaitingAssertion", "cooling", "ready"}
    /\ Press(t, "abandon", "state")

\* The effect polls when it starts anew and while it waits; here it may always.
RecoveryProgress(t) ==
    /\ page # "closed"
    /\ heard = None
    /\ Enter(t, "poll", "state")
    /\ heard' = t
    /\ UNCHANGED <<server, stored, page, waits, user, late>>

-----------------------------------------------------------------------------
(* Calls to the server                                                      *)

Step(t, pc, c, k, call) ==
    task' = [task EXCEPT ![t] = [op |-> @.op, pc |-> pc, req |-> c, key |-> k,
                                 call |-> call, answer |-> None]]
Goto(t, pc) == Step(t, pc, task[t].req, None, None)
Send(t, call, c, k) == Step(t, "sent", c, k, call)

\* What status() reports of a claim.
State(c) ==
    LET phase == claim[c].phase IN
    CASE phase = "asked" -> "awaitingAssertion"
      [] phase = "waiting" /\ time < claim[c].ready -> "cooling"
      [] phase = "waiting" /\ claim[c].ready <= time /\ time <= claim[c].until -> "ready"
      [] phase = "waiting" /\ time > claim[c].until -> "over"
      [] phase = "taken" -> "completed"
      [] phase = "over" -> "over"

Authentic(c, k) == claim[c].phase # "absent" /\ claim[c].key = k

\* The server works on a call.  The first status() after the approval starts
\* the wait.
Serve(call, c, k, answer) ==
    \/ /\ call = "request"
       /\ Server!Ask(c, k)
       /\ answer = "done"
    \/ /\ call = "status"
       /\ Authentic(c, k)
       /\ Server!Begin(c) \/ UNCHANGED server
       /\ answer = State(c)'
    \/ /\ call = "complete"
       /\ Authentic(c, k)
       /\ Server!TakeOver(c)
       /\ answer = "done"
    \/ /\ call = "cancel"
       /\ Authentic(c, k) \/ key = k
       /\ Server!Object(c)
       /\ answer = "done"

Served(t) ==
    /\ task[t].pc = "sent"
    /\ \E c \in Claims, a \in Answers :
         /\ task[t].call = "request" \/ c = task[t].req
         /\ Serve(task[t].call, c, task[t].key, a)
         /\ task' = [task EXCEPT ![t] = [@ EXCEPT !.pc = "answered", !.req = c, !.answer = a]]
    /\ UNCHANGED <<stored, popup, user, late>>

\* The calls that may arrive after nobody waits for them.  A late cancel() is
\* an Object, a late status() is one of the next poll, a late request() makes a
\* claim that no ceremony is opened for, and a complete() of a claim that has
\* ended is refused.
Unanswered(ts) ==
    LET sent == {t \in ts : task[t].pc = "sent" /\ task[t].call = "complete"} IN
    {c \in Claims : Server!Alive(c) /\
        \E t \in sent : task[t].req = c /\ Authentic(c, task[t].key)}

\* Refused, or the network failed before or after the server worked on it.
CallFails(t) ==
    /\ task[t].pc \in {"sent", "answered"}
    /\ task[t].answer # "error"
    /\ task' = [task EXCEPT ![t] = [@ EXCEPT !.pc = "answered", !.answer = "error"]]
    /\ late' = late \union Unanswered({t})
    /\ UNCHANGED <<server, stored, popup, user>>

ServedLate(c) ==
    /\ Serve("complete", c, claim[c].key, "done")
    /\ late' = late \ {c}
    /\ UNCHANGED <<stored, popup, user, task>>

-----------------------------------------------------------------------------
(* The coroutines, one await after the other                                *)

Exists(t) ==
    /\ task[t].pc = "exists"
    /\ \/ vault /\ Throw(t)
       \/ ~ vault /\ Goto(t, "state") /\ UNCHANGED popup
    /\ UNCHANGED <<server, stored, user, late>>

\* recoveryState.read().
NoneInProgress(t) ==
    /\ task[t].pc = "state"
    /\ recovery = None
    /\ CASE task[t].op = "begin" -> Goto(t, "make") /\ UNCHANGED popup
         [] task[t].op = "poll" -> Return(t, "idle")
         [] task[t].op = "finish" -> Throw(t)
         [] task[t].op = "abandon" -> Goto(t, "discard") /\ UNCHANGED popup
    /\ UNCHANGED <<server, stored, user, late>>

\* For gaveUp: the wait of the request is over.
Ripe(c) == claim[c].phase = "taken" \/ (claim[c].phase = "waiting" /\ claim[c].ready <= time)

InProgress(t) ==
    /\ task[t].pc = "state"
    /\ recovery # None
    /\ \/ task[t].op = "begin" /\ Throw(t)
       \/ task[t].op # "begin" /\ Step(t, "key", recovery, None, None) /\ UNCHANGED popup
    /\ gaveUp' = gaveUp \union {c \in {recovery} : task[t].op = "abandon" /\ Ripe(c)}
    /\ UNCHANGED <<server, stored, opened, late>>

\* loadPendingDeviceKey(), and the call that is signed with it.
SlipSignsAnyway(t) == task[t].pc = "key"
HasKey(t) == task[t].pc = "key" /\ pendingKey # None

AskServer(t) ==
    /\ HasKey(t)
    /\ Send(t, IF task[t].op = "abandon" THEN "cancel" ELSE "status", task[t].req, pendingKey)
    /\ UNCHANGED <<server, stored, popup, user, late>>

NoKeyLeft(t) ==
    /\ task[t].pc = "key"
    /\ pendingKey = None
    /\ CASE task[t].op = "poll" -> Goto(t, "clear") /\ UNCHANGED popup
         [] task[t].op = "finish" -> Throw(t)
         [] task[t].op = "abandon" -> Goto(t, "discard") /\ UNCHANGED popup
    /\ UNCHANGED <<server, stored, user, late>>

\* createDeviceKey(), storePendingDeviceKey(), and the request with that key.
FreshKey(k) ==
    /\ k \notin {pendingKey, activeKey, key}
    /\ \A c \in Claims : claim[c].key # k
    /\ \A t \in Coroutines : task[t].key # k
MakeKey(t) ==
    /\ task[t].pc = "make"
    /\ \E k \in Keys :
         /\ FreshKey(k)
         /\ pendingKey' = k
         /\ Send(t, "request", None, k)
    /\ gaveUp' = gaveUp \union {c \in Claims : claim[c].phase = "taken"}
    /\ UNCHANGED <<server, activeKey, recovery, vault, popup, opened, late>>

\* beginRecovery(): a failure undoes what was stored.
Requested(t) ==
    /\ task[t].pc = "answered"
    /\ task[t].call = "request"
    /\ Goto(t, IF task[t].answer = "done" THEN "write" ELSE "discard")
    /\ UNCHANGED <<server, stored, popup, user, late>>

WriteState(t) ==
    /\ task[t].pc = "write"
    /\ recovery' = task[t].req
    /\ Goto(t, "open")
    /\ UNCHANGED <<server, activeKey, pendingKey, vault, popup, user, late>>

OpenCeremony(t) ==
    /\ task[t].pc = "open"
    /\ opened' = opened \union {task[t].req}
    /\ Return(t, "awaitingAssertion")
    /\ UNCHANGED <<server, stored, gaveUp, late>>

\* recoveryProgress(): show it, or clean up a recovery that has ended.
ProgressAnswered(t) ==
    LET answer == task[t].answer IN
    /\ task[t].pc = "answered"
    /\ task[t].op = "poll"
    /\ CASE answer \in {"awaitingAssertion", "cooling"} -> Return(t, answer)
         [] answer \in {"ready", "completed"} -> Return(t, "ready")
         [] answer = "over" -> Goto(t, "discard") /\ UNCHANGED popup
         [] answer = "error" -> Throw(t)
    /\ UNCHANGED <<server, stored, user, late>>

\* finishRecovery(): complete it unless the server already has.
FinishAnswered(t) ==
    LET answer == task[t].answer IN
    /\ task[t].pc = "answered"
    /\ task[t].op = "finish"
    /\ task[t].call = "status"
    /\ CASE answer \in {"awaitingAssertion", "cooling", "error"} -> Throw(t)
         [] answer = "over" -> Goto(t, "discard") /\ UNCHANGED popup
         [] answer = "ready" ->
              Send(t, "complete", task[t].req, task[t].key) /\ UNCHANGED popup
         [] answer = "completed" -> Goto(t, "load") /\ UNCHANGED popup
    /\ UNCHANGED <<server, stored, user, late>>

SlipNoMatter(t) == task[t].call = "complete"
CompletedNow(t) == task[t].call = "complete" /\ task[t].answer = "done"

CompleteAnswered(t) ==
    /\ task[t].pc = "answered"
    /\ \/ CompletedNow(t) /\ Goto(t, "load") /\ UNCHANGED popup
       \/ task[t].call = "complete" /\ ~ CompletedNow(t) /\ Throw(t)
    /\ UNCHANGED <<server, stored, user, late>>

\* promotePendingDeviceKey() loads the record again, whatever it now holds.
LoadPending(t) ==
    /\ task[t].pc = "load"
    /\ \/ pendingKey = None /\ Throw(t)
       \/ /\ pendingKey # None
          /\ Step(t, "activate", task[t].req, pendingKey, None)
          /\ UNCHANGED popup
    /\ UNCHANGED <<server, stored, user, late>>

SlipDiscardsFirst(t) ==
    \/ /\ task[t].pc = "activate"
       /\ pendingKey' = None
       /\ Step(t, "promoted", task[t].req, task[t].key, None)
       /\ UNCHANGED activeKey
    \/ /\ task[t].pc = "promoted"
       /\ activeKey' = task[t].key
       /\ Goto(t, "store")
       /\ UNCHANGED pendingKey
Promote(t) ==
    \/ /\ task[t].pc = "activate"
       /\ activeKey' = task[t].key
       /\ Goto(t, "promoted")
       /\ UNCHANGED pendingKey
    \/ /\ task[t].pc = "promoted"
       /\ pendingKey' = None
       /\ Goto(t, "store")
       /\ UNCHANGED activeKey

PromoteKey(t) ==
    /\ Promote(t)
    /\ UNCHANGED <<server, recovery, vault, popup, user, late>>

StoreVault(t) ==
    /\ task[t].pc = "store"
    /\ vault' = TRUE
    /\ Goto(t, "stored")
    /\ UNCHANGED <<server, activeKey, pendingKey, recovery, popup, user, late>>

Restored(t) ==
    /\ task[t].pc = "stored"
    /\ recovery' = None
    /\ Return(t, "closed")
    /\ UNCHANGED <<server, activeKey, pendingKey, vault, user, late>>

\* abandonRecovery() goes on whatever the server said.
CancelAnswered(t) ==
    /\ task[t].pc = "answered"
    /\ task[t].call = "cancel"
    /\ Goto(t, "discard")
    /\ UNCHANGED <<server, stored, popup, user, late>>

\* discardPendingDeviceKey() and recoveryState.clear(): what begin does when it
\* failed, and the other three when the recovery is over.
Discard(t) ==
    /\ task[t].pc = "discard"
    /\ pendingKey' = None
    /\ Goto(t, "clear")
    /\ UNCHANGED <<server, activeKey, recovery, vault, popup, user, late>>

Clear(t) ==
    /\ task[t].pc = "clear"
    /\ recovery' = None
    /\ CASE task[t].op = "poll" -> Return(t, "ended")
         [] task[t].op = "abandon" -> Return(t, "idle")
         [] task[t].op \in {"begin", "finish"} -> Throw(t)
    /\ UNCHANGED <<server, activeKey, pendingKey, vault, user, late>>

\* A storage access or the opening of a tab fails.  beginRecovery() catches what
\* happens after the key was stored, and it and abandonRecovery() go on when the
\* key cannot be discarded.
Caught(t) ==
    \/ task[t].pc \in {"write", "open"} /\ Goto(t, "discard")
    \/ /\ task[t].pc = "discard"
       /\ task[t].op \in {"begin", "abandon"}
       /\ Goto(t, "clear")
NotCaught(t) ==
    \/ task[t].pc \notin {"idle", "sent", "answered", "write", "open", "discard"}
    \/ task[t].pc = "discard" /\ task[t].op \in {"poll", "finish"}

AccessFails(t) ==
    /\ \/ Caught(t) /\ UNCHANGED popup
       \/ NotCaught(t) /\ Throw(t)
    /\ UNCHANGED <<server, stored, user, late>>

-----------------------------------------------------------------------------
(* The surroundings                                                         *)

\* Bound, and assumption: the wait is long next to a coroutine.  When the clock
\* moves, every coroutine has ended but polls and finishes of the recovery in
\* progress, and those finishes are past their status().  It stands still while
\* no claim waits, since nothing else depends on it.
Tick ==
    /\ time < MaxTime
    /\ \E c \in Claims : claim[c].phase = "waiting"
    /\ \A t \in Coroutines :
         \/ task[t].op = "none"
         \/ task[t].op = "poll" /\ task[t].req \in {None, recovery}
         \/ /\ task[t].op = "finish" /\ task[t].req = recovery
            /\ task[t].pc \notin {"exists", "state", "key"} /\ task[t].call # "status"
    /\ time' = time + 1
    /\ Server!Advance
    /\ UNCHANGED <<stored, popup, user, task, late>>

\* The user approves in the ceremony tab; a second time, or once the request has
\* ended, it starts nothing.
Approve(c) ==
    /\ c \in opened \ approved
    /\ claim[c].phase = "asked"
    /\ Server!Approve(c)
    /\ UNCHANGED <<stored, popup, user, task, late>>

\* The old device or the management page objects, or an unanswered request
\* lapses.
Object(c) ==
    /\ Server!Object(c)
    /\ UNCHANGED <<stored, popup, user, task, late>>

WorkerStops ==
    /\ \E t \in Coroutines : task[t] # Idle
    /\ task' = [t \in Coroutines |-> Idle]
    /\ late' = late \union Unanswered(Coroutines)
    /\ waits' = None
    /\ heard' = None
    /\ UNCHANGED <<server, stored, page, user>>

Work(t) ==
    \/ Served(t) \/ CallFails(t) \/ AccessFails(t)
    \/ Exists(t) \/ NoneInProgress(t) \/ InProgress(t) \/ AskServer(t) \/ NoKeyLeft(t)
    \/ MakeKey(t) \/ Requested(t) \/ WriteState(t) \/ OpenCeremony(t)
    \/ ProgressAnswered(t) \/ FinishAnswered(t) \/ CompleteAnswered(t)
    \/ LoadPending(t) \/ PromoteKey(t) \/ StoreVault(t) \/ Restored(t)
    \/ CancelAnswered(t) \/ Discard(t) \/ Clear(t)

Next ==
    \/ OpenPopup
    \/ ClosePopup
    \/ StartAgain
    \/ \E t \in Coroutines :
         \/ BeginRecovery(t) \/ FinishRecovery(t) \/ AbandonRecovery(t) \/ RecoveryProgress(t)
         \/ Work(t)
    \/ \E c \in late : ServedLate(c)
    \/ Tick
    \/ \E c \in Claims : Approve(c) \/ Object(c)
    \/ WorkerStops

Spec == Init /\ [][Next]_vars

-----------------------------------------------------------------------------
(* Properties                                                               *)

(***************************************************************************)
(* The share is stored with the device key the server trusts: with another *)
(* it could neither sign with the server nor start over (beginRecovery()   *)
(* refuses a vault).  Except when the trusted key is that of a recovery    *)
(* the user gave up, since a finish of it that still runs then loads       *)
(* whatever key the next recovery has set aside.                           *)
(***************************************************************************)
FinishedIsTrusted ==
    vault =>
        \/ activeKey = key /\ key # None
        \/ \E c \in gaveUp : claim[c].phase = "taken" /\ claim[c].key = key

(***************************************************************************)
(* The key that took over stays on this install, set aside or active, for  *)
(* as long as the user neither cancels that very recovery nor starts       *)
(* another, whatever is lost, late or stopped and however often the popup  *)
(* is closed and its buttons pressed again.                                *)
(***************************************************************************)
KeyIsKept ==
    \A c \in Claims \ gaveUp :
        claim[c].phase = "taken" /\ key = claim[c].key => key \in {pendingKey, activeKey}

(***************************************************************************)
(* background.ts: finishing is "Safe to retry: if the server already       *)
(* completed, only the local steps are repeated."  So a recovery that took *)
(* over, was not cancelled and is not stored yet can be finished again.    *)
(***************************************************************************)
SafeToRetry ==
    \A c \in Claims \ gaveUp :
        /\ claim[c].phase = "taken"
        /\ ~ vault
        /\ \A t \in Coroutines : task[t] = Idle
        => recovery = c /\ pendingKey = claim[c].key
=============================================================================
