------------------------------ MODULE PageApi ------------------------------
(***************************************************************************)
(* The extension's worker answering web pages: the approval queue          *)
(* (approvals.ts) and its windows (ApproveApp.tsx), the list of connected  *)
(* origins (permissions.ts), the page methods (pageApi.ts), locking,       *)
(* unlocking and signing behind a passkey ceremony (background.ts).        *)
(*                                                                         *)
(* The worker runs one handler per request, interleaved at every await, so *)
(* what a handler read before an await (the origins, the unlocked share)   *)
(* is kept beside its place in the code.  A page's window is named after   *)
(* the request that opened it; so is a ceremony and its tab.               *)
(***************************************************************************)
EXTENDS FiniteSets

CONSTANTS
    Requests,    \* page requests, and signatures asked for in the popup
    Origins,     \* what the browser reports of the senders
    Known,       \* the origins connected to begin with
    Origin,      \* the origin of each request
    Asks,        \* the methods each request may ask for
    None

Methods == {"eth_accounts", "eth_requestAccounts", "personal_sign", "sign"}

ASSUME RequestsAreSupported ==
    /\ Known \in SUBSET Origins
    /\ Origin \in [Requests -> Origins]
    /\ Asks \in [Requests -> SUBSET Methods]

\* What has not happened is told apart from what may have.
ASSUME NoneIsNew ==
    None \notin {"approved", "rejected", "current", "replaced", "wiped"}

VARIABLES
    origins,     \* chrome.storage.local "origins"
    method,      \* the method each request asks for
    at,          \* where each request's handler is
    list,        \* the origins that handler read
    queue,       \* approvals: the requests that await the user
    decision,    \* what settled each request
    window,      \* the approval window of each request
    listening,   \* the windows whose closing the worker hears of
    view,        \* what each window shows of the queue
    answering,   \* the windows with an answer under way
    unlocked,    \* whether there is an unlockedShare
    held,        \* what became of the buffer each sign() holds
    slot,        \* pendingPasskey: its ceremony and its tab
    ceremony,    \* how far each ceremony is
    tabs,        \* the ceremony tabs that have not been loaded yet
    revoking,    \* the list a disconnect() read, of each origin
    granted,     \* history: origins the user has ever agreed to connect
    cut          \* history: requests that held the share when a lock came

handlerVars == <<method, at, list>>
approvalVars == <<queue, decision, window, listening, view, answering>>
passkeyVars == <<slot, ceremony, tabs>>
originVars == <<origins, revoking, granted>>
lockVars == <<unlocked, cut>>
vars == <<handlerVars, approvalVars, lockVars, held, passkeyVars, originVars>>

Done == {"answered", "empty", "failed", "lost"}

\* Signing, before the ceremony is through and the share is used
Holding == {"starting", "launching", "polling"}

Signs(r) == method[r] \in {"personal_sign", "sign"}

Init ==
    /\ origins = Known
    /\ method = [r \in Requests |-> None]
    /\ at = [r \in Requests |-> "idle"]
    /\ list = [r \in Requests |-> {}]
    /\ queue = {}
    /\ decision = [r \in Requests |-> None]
    /\ window = [r \in Requests |-> "none"]
    /\ listening = {}
    /\ view = [r \in Requests |-> {}]
    /\ answering = {}
    /\ unlocked = FALSE
    /\ held = [r \in Requests |-> None]
    /\ slot = None
    /\ ceremony = [r \in Requests |-> "none"]
    /\ tabs = {}
    /\ revoking = [o \in Origins |-> None]
    /\ granted = origins
    /\ cut = {}

Goto(r, place) == at' = [at EXCEPT ![r] = place]

-----------------------------------------------------------------------------
(* The approval queue.  A window shows what it last fetched; an entry that *)
(* has gone away meanwhile stays on the screen, but answering it changes   *)
(* nothing, so view keeps only what can still be decided.                  *)

Leave(rs) ==
    /\ queue' = queue \ rs
    /\ view' = [w \in Requests |-> view[w] \ rs]

SlipDismisses ==
    /\ Leave(queue)
    /\ decision' = [r \in Requests |->
                        IF r \in queue THEN "dismissed" ELSE decision[r]]

\* Everything still waiting is refused.
RejectAll ==
    /\ Leave(queue)
    /\ decision' = [r \in Requests |->
                        IF r \in queue THEN "rejected" ELSE decision[r]]

\* A request joins the queue; its handler now awaits windows.create().
Park(r) ==
    /\ queue' = queue \union {r}
    /\ Goto(r, "opening")

\* The window is up, and the worker hears of its closing: a window that was
\* created has the id that its listener compares.
Opened(r) ==
    /\ at[r] = "opening"
    /\ Goto(r, "waiting")
    /\ window' = [window EXCEPT ![r] = "open"]
    /\ listening' = listening \union {r}
    /\ UNCHANGED <<method, list, queue, decision, view, answering, lockVars, held, passkeyVars, originVars>>

\* The browser opens no window: the page gets an error, the entry stays.
OpenFails(r) ==
    /\ at[r] = "opening"
    /\ Goto(r, "failed")
    /\ UNCHANGED <<method, list, approvalVars, lockVars, held, passkeyVars, originVars>>

\* The window fetches the queue when it is loaded, or loaded again.
Load(w) ==
    /\ window[w] = "open"
    /\ w \notin answering
    /\ view[w] # queue
    /\ view' = [view EXCEPT ![w] = queue]
    /\ UNCHANGED <<handlerVars, queue, decision, window, listening, answering, lockVars, held, passkeyVars, originVars>>

\* The user answers a request the window shows, one answer at a time.
Decide(w, r, approved) ==
    /\ window[w] = "open"
    /\ r \in view[w]
    /\ w \notin answering
    /\ answering' = answering \union {w}
    /\ Leave({r})
    /\ decision' = [decision EXCEPT ![r] = IF approved THEN "approved" ELSE "rejected"]
    /\ granted' = IF approved /\ method[r] = "eth_requestAccounts"
                  THEN granted \union {Origin[r]}
                  ELSE granted
    /\ UNCHANGED <<handlerVars, window, listening, lockVars, held, passkeyVars, origins, revoking>>

\* After each answer the window fetches the queue again, and closes itself
\* when nothing is left.
Refresh(w) ==
    /\ window[w] = "open"
    /\ w \in answering
    /\ answering' = answering \ {w}
    /\ view' = [view EXCEPT ![w] = queue]
    /\ window' = [window EXCEPT ![w] = IF queue = {} THEN "closing" ELSE "open"]
    /\ UNCHANGED <<handlerVars, queue, decision, listening, lockVars, held, passkeyVars, originVars>>

CloseWindow(w) ==
    /\ window[w] = "open"
    /\ window' = [window EXCEPT ![w] = "closing"]
    /\ view' = [view EXCEPT ![w] = {}]
    /\ answering' = answering \ {w}
    /\ UNCHANGED <<handlerVars, queue, decision, listening, lockVars, held, passkeyVars, originVars>>

SlipForgets(w) ==
    /\ window[w] = "closing"
    /\ window' = [window EXCEPT ![w] = "none"]
    /\ listening' = listening \ {w}
    /\ Leave(queue)
    /\ UNCHANGED <<handlerVars, decision, answering, lockVars, held, passkeyVars, originVars>>

\* The browser tells of the closed window, which refuses all that waits.
Removed(w) ==
    /\ window[w] = "closing"
    /\ window' = [window EXCEPT ![w] = "none"]
    /\ listening' = listening \ {w}
    /\ IF w \in listening THEN RejectAll ELSE UNCHANGED <<queue, decision, view>>
    /\ UNCHANGED <<handlerVars, answering, lockVars, held, passkeyVars, originVars>>

-----------------------------------------------------------------------------
(* Locking.  A sign() holds on to the buffer it found: lock() wipes the    *)
(* current one, an unlock puts another in its place without wiping it.     *)

Unlock ==
    /\ unlocked' = TRUE
    /\ held' = [r \in Requests |-> IF held[r] = "current" THEN "replaced" ELSE held[r]]
    /\ UNCHANGED <<cut, handlerVars, approvalVars, passkeyVars, originVars>>

\* For cut: what the lock has to end.
Cuts == cut' = cut \union {r \in Requests : held[r] = "current"}

SlipKeepsBuffer ==
    /\ unlocked' = FALSE
    /\ Cuts
    /\ RejectAll
    /\ UNCHANGED <<handlerVars, window, listening, answering, held, passkeyVars, originVars>>

Lock ==
    /\ unlocked' = FALSE
    /\ held' = [r \in Requests |-> IF held[r] = "current" THEN "wiped" ELSE held[r]]
    /\ Cuts
    /\ RejectAll
    /\ UNCHANGED <<handlerVars, window, listening, answering, passkeyVars, originVars>>

-----------------------------------------------------------------------------
(* Signing: the share is taken first, then the passkey ceremony has to end,*)
(* then the session is made from the buffer as it is by then.              *)

BeginSign(r) ==
    IF unlocked
    THEN Goto(r, "starting") /\ held' = [held EXCEPT ![r] = "current"]
    ELSE Goto(r, "failed") /\ UNCHANGED held

\* The server hands out a ceremony; the slot is taken whoever has it.
Handoff(r) ==
    /\ at[r] = "starting"
    /\ Goto(r, "launching")
    /\ slot' = [of |-> r, tab |-> None]
    /\ ceremony' = [ceremony EXCEPT ![r] = "offered"]
    /\ UNCHANGED <<method, list, approvalVars, lockVars, held, tabs, originVars>>

\* The tab is noted in the slot as it is by then; without one this throws.
TabOpens(r) ==
    /\ at[r] = "launching"
    /\ tabs' = tabs \union {r}
    /\ IF slot = None
       THEN Goto(r, "failed") /\ UNCHANGED slot
       ELSE Goto(r, "polling") /\ slot' = [slot EXCEPT !.tab = r]
    /\ UNCHANGED <<method, list, approvalVars, lockVars, held, ceremony, originVars>>

\* A tab loads and asks for the slot's token, which is good for one use; the
\* user passes the ceremony it opens, or does not.
Launch(t, passed) ==
    /\ t \in tabs
    /\ tabs' = tabs \ {t}
    /\ ceremony' = IF slot # None /\ ceremony[slot.of] = "offered"
                   THEN [ceremony EXCEPT ![slot.of] = IF passed THEN "completed" ELSE "open"]
                   ELSE ceremony
    /\ UNCHANGED <<handlerVars, approvalVars, lockVars, held, slot, originVars>>

\* The polling loop's finally: the slot is emptied and its tab is closed.
CeremonyEnds ==
    /\ slot' = None
    /\ tabs' = IF slot = None THEN tabs ELSE tabs \ {slot.tab}
    /\ UNCHANGED ceremony

\* The session is made from the buffer held.  A wiped one is no key share.
MakeSession(r) ==
    /\ Goto(r, IF held[r] = "wiped" THEN "failed" ELSE "signing")
    /\ held' = [held EXCEPT ![r] = None]

SlipAnyCeremony(r) ==
    /\ at[r] = "polling"
    /\ \E c \in Requests : ceremony[c] = "completed"
    /\ CeremonyEnds
    /\ MakeSession(r)
    /\ UNCHANGED <<method, list, approvalVars, lockVars, originVars>>

Authorized(r) ==
    /\ at[r] = "polling"
    /\ ceremony[r] = "completed"
    /\ CeremonyEnds
    /\ MakeSession(r)
    /\ UNCHANGED <<method, list, approvalVars, lockVars, originVars>>

SlipOwnSlot(r) ==
    /\ at[r] = "polling"
    /\ slot # None /\ slot.of = r
    /\ Goto(r, "failed")
    /\ CeremonyEnds
    /\ held' = [held EXCEPT ![r] = None]
    /\ UNCHANGED <<method, list, approvalVars, lockVars, originVars>>

\* Two minutes are over, or a poll fails.
TimedOut(r) ==
    /\ at[r] = "polling"
    /\ Goto(r, "failed")
    /\ CeremonyEnds
    /\ held' = [held EXCEPT ![r] = None]
    /\ UNCHANGED <<method, list, approvalVars, lockVars, originVars>>

\* The server refuses the ceremony, the tab does not open, or signing fails.
SignFails(r) ==
    /\ at[r] \in {"starting", "launching", "signing"}
    /\ Goto(r, "failed")
    /\ held' = [held EXCEPT ![r] = None]
    /\ UNCHANGED <<method, list, approvalVars, lockVars, passkeyVars, originVars>>

Signed(r) ==
    /\ at[r] = "signing"
    /\ Goto(r, "answered")
    /\ UNCHANGED <<method, list, approvalVars, lockVars, held, passkeyVars, originVars>>

-----------------------------------------------------------------------------
(* The page methods.                                                       *)

\* A request arrives.  A page's begins with reading the connected origins;
\* the popup's needs no approval.
Arrive(r, m) ==
    /\ at[r] = "idle"
    /\ m \in Asks[r]
    /\ method' = [method EXCEPT ![r] = m]
    /\ IF m = "sign"
       THEN BeginSign(r) /\ UNCHANGED list
       ELSE Goto(r, "checking") /\ list' = [list EXCEPT ![r] = origins] /\ UNCHANGED held
    /\ UNCHANGED <<approvalVars, lockVars, passkeyVars, originVars>>

\* The address, or what the method makes of a locked wallet.
Address(r) ==
    Goto(r, IF unlocked THEN "answered"
            ELSE IF method[r] = "eth_accounts" THEN "empty" ELSE "failed")

Checked(r) ==
    LET connected == Origin[r] \in list[r] IN
    /\ at[r] = "checking"
    /\ \/ method[r] = "eth_accounts" /\ ~connected /\ Goto(r, "empty") /\ UNCHANGED queue
       \/ method[r] = "personal_sign" /\ ~connected /\ Goto(r, "failed") /\ UNCHANGED queue
       \/ method[r] # "personal_sign" /\ connected /\ Address(r) /\ UNCHANGED queue
       \/ method[r] = "personal_sign" /\ connected /\ Park(r)
       \/ method[r] = "eth_requestAccounts" /\ ~connected /\ Park(r)
    /\ list' = [list EXCEPT ![r] = {}]
    /\ UNCHANGED <<method, decision, window, listening, view, answering, lockVars, held, passkeyVars, originVars>>

\* The handler goes on once the user has decided: connect() reads the list,
\* sign() takes the share.
Decided(r) ==
    /\ at[r] = "waiting"
    /\ decision[r] # None
    /\ \/ /\ decision[r] = "rejected"
          /\ Goto(r, "failed")
          /\ UNCHANGED <<method, list, held>>
       \/ /\ decision[r] = "approved"
          /\ method[r] = "eth_requestAccounts"
          /\ Goto(r, "connecting")
          /\ list' = [list EXCEPT ![r] = origins]
          /\ UNCHANGED held
       \/ /\ decision[r] = "approved"
          /\ method[r] = "personal_sign"
          /\ BeginSign(r)
          /\ UNCHANGED list
    /\ UNCHANGED <<method, approvalVars, lockVars, passkeyVars, originVars>>

SlipAll(r) ==
    /\ at[r] = "connecting"
    /\ Goto(r, "connected")
    /\ origins' = list[r] \union {Origin[q] : q \in queue \union {r}}
    /\ UNCHANGED <<method, list, approvalVars, lockVars, held, passkeyVars, revoking, granted>>

\* connect() writes the list it read back with the origin added.
Connect(r) ==
    /\ at[r] = "connecting"
    /\ Goto(r, "connected")
    /\ origins' = IF Origin[r] \in list[r] THEN origins ELSE list[r] \union {Origin[r]}
    /\ list' = [list EXCEPT ![r] = {}]
    /\ UNCHANGED <<method, approvalVars, lockVars, held, passkeyVars, revoking, granted>>

Connected(r) ==
    /\ at[r] = "connected"
    /\ Address(r)
    /\ UNCHANGED <<method, list, approvalVars, lockVars, held, passkeyVars, originVars>>

\* disconnect(), pressed in the popup for an origin it lists.
ReadToDisconnect(o) ==
    /\ o \in origins
    /\ revoking[o] = None
    /\ revoking' = [revoking EXCEPT ![o] = origins]
    /\ UNCHANGED <<handlerVars, approvalVars, lockVars, held, passkeyVars, origins, granted>>

Disconnect(o) ==
    /\ revoking[o] # None
    /\ origins' = revoking[o] \ {o}
    /\ revoking' = [revoking EXCEPT ![o] = None]
    /\ UNCHANGED <<handlerVars, approvalVars, lockVars, held, passkeyVars, granted>>

\* The browser stops the worker: its handlers, its queue, its listeners and
\* the unlocked share are gone.  The windows and tabs stay.
WorkerStops ==
    /\ at' = [r \in Requests |-> IF at[r] \in Done \union {"idle"} THEN at[r] ELSE "lost"]
    /\ queue' = {}
    /\ listening' = {}
    /\ view' = [w \in Requests |-> {}]
    /\ decision' = [r \in Requests |-> IF at[r] \in Done THEN decision[r] ELSE None]
    /\ unlocked' = FALSE
    /\ slot' = None
    /\ revoking' = [o \in Origins |-> None]
    /\ list' = [r \in Requests |-> {}]
    /\ held' = [r \in Requests |-> None]
    /\ cut' = {}
    /\ UNCHANGED <<method, window, answering, ceremony, tabs, origins, granted>>

-----------------------------------------------------------------------------

\* What the worker does for a request on its own
Work(r) ==
    \/ Checked(r) \/ Opened(r) \/ OpenFails(r) \/ Decided(r)
    \/ Connect(r) \/ Connected(r)
    \/ Handoff(r) \/ TabOpens(r) \/ Authorized(r) \/ TimedOut(r)
    \/ SignFails(r) \/ Signed(r)

Next ==
    \/ \E r \in Requests : Work(r) \/ \E m \in Methods : Arrive(r, m)
    \/ \E w \in Requests : Load(w) \/ Refresh(w) \/ CloseWindow(w) \/ Removed(w)
    \/ \E w, r \in Requests, approved \in BOOLEAN : Decide(w, r, approved)
    \/ \E t \in Requests, passed \in BOOLEAN : Launch(t, passed)
    \/ \E o \in Origins : ReadToDisconnect(o) \/ Disconnect(o)
    \/ Unlock
    \/ Lock
    \/ WorkerStops

Spec == Init /\ [][Next]_vars

(***************************************************************************)
(* The worker goes on with what it awaits, and the browser tells of closed *)
(* windows.  Nothing is assumed of the user.                               *)
(***************************************************************************)
FairSpec ==
    /\ Spec
    /\ \A r \in Requests : WF_vars(Work(r)) /\ WF_vars(Removed(r))

-----------------------------------------------------------------------------

\* Types; decided and queued are told apart by WaitsAtAWindow.
TypeOK ==
    /\ origins \in SUBSET Origins /\ granted \in SUBSET Origins
    /\ method \in [Requests -> Methods \union {None}]
    /\ at \in [Requests -> Done \union Holding \union
                 {"idle", "checking", "opening", "waiting", "connecting", "connected", "signing"}]
    /\ list \in [Requests -> SUBSET Origins]
    /\ queue \in SUBSET Requests
    /\ decision \in [Requests -> {None, "approved", "rejected"}]
    /\ window \in [Requests -> {"none", "open", "closing"}]
    /\ listening \in SUBSET Requests
    /\ view \in [Requests -> SUBSET Requests]
    /\ answering \in SUBSET Requests
    /\ unlocked \in BOOLEAN /\ cut \in SUBSET Requests
    /\ held \in [Requests -> {None, "current", "replaced", "wiped"}]
    /\ slot \in [of : Requests, tab : Requests \union {None}] \union {None}
    /\ ceremony \in [Requests -> {"none", "offered", "open", "completed"}]
    /\ tabs \in SUBSET Requests
    /\ revoking \in [Origins -> (SUBSET Origins) \union {None}]

(***************************************************************************)
(* A handler that waits for the user is in the queue and has a window, one *)
(* whose closing the worker will hear of (docs/web-api.md "an unanswered   *)
(* request fails closed"): no refusal is dropped between the windows that  *)
(* share the queue, a lock and a restart.                                  *)
(***************************************************************************)
WaitsAtAWindow ==
    \A r \in Requests :
        at[r] = "waiting" /\ decision[r] = None =>
            r \in queue /\ window[r] # "none" /\ r \in listening

(***************************************************************************)
(* A page gets a signature only when the user approved that very request,  *)
(* passed the ceremony made for it, and has agreed to the origin before,   *)
(* whichever windows, tabs and ceremonies overlap (docs/web-api.md "there  *)
(* is no silent approval").                                                *)
(***************************************************************************)
SignedByConsent ==
    \A r \in Requests :
        Signs(r) /\ at[r] \in {"signing", "answered"} =>
            /\ ceremony[r] = "completed"
            /\ method[r] = "personal_sign" => decision[r] = "approved" /\ Origin[r] \in granted

(***************************************************************************)
(* Only an origin the user agreed to is ever listed, or sees the address,  *)
(* although lists are read, kept over an await and written back.           *)
(***************************************************************************)
ListedByConsent ==
    /\ origins \subseteq granted
    /\ \A r \in Requests :
        method[r] \in {"eth_accounts", "eth_requestAccounts"} /\ at[r] = "answered" =>
            Origin[r] \in granted

(***************************************************************************)
(* A lock that comes while a sign() waits for its ceremony ends it: no     *)
(* signing session starts from the share that lock wiped, although the     *)
(* handler still holds it, and although the wallet may be open again with  *)
(* another buffer by then (lock(), background.ts).  A buffer that an       *)
(* unlock() had replaced before is not wiped by the lock, and not meant.   *)
(***************************************************************************)
LockEndsSigning ==
    [][\A r \in Requests :
          at[r] = "polling" /\ at'[r] = "signing" => r \notin cut]_vars

(***************************************************************************)
(* Every request is answered in the end, unless the user leaves its own    *)
(* window open: no handler waits for a decision nobody can give any more.  *)
(***************************************************************************)
Undecided(r) == at[r] = "waiting" /\ decision[r] = None /\ window[r] = "open"
Settles == \A r \in Requests : at[r] # "idle" ~> (at[r] \in Done \/ []Undecided(r))

(***************************************************************************)
(* permissions.ts:31: "Revokes an origin. The user must be able to do this *)
(* at any time."  An origin that was revoked is listed again only by a     *)
(* connection for it.                                                      *)
(***************************************************************************)
RevokedStaysOut ==
    [][\A o \in Origins :
          o \notin origins /\ o \in origins' =>
              \E r \in Requests : at[r] = "connecting" /\ Origin[r] = o]_vars
=============================================================================
