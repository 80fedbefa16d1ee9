--------------------------- MODULE RecoveryWatch ---------------------------
(***************************************************************************)
(* The extension watching for somebody else's recovery of its wallet       *)
(* (recoveryWatch.ts, watchRecoveries() in background.ts), against the     *)
(* server of DeviceKeyCustody.  An alarm starts a check every few minutes  *)
(* and a message may start another; each is a coroutine that asks the      *)
(* server, raises a notification per recovery not yet told, and only then  *)
(* writes down that it did.                                                *)
(***************************************************************************)
EXTENDS Naturals, Sequences, SequencesExt

CONSTANTS
    Claims,
    None,
    Mine, Theirs,  \* this install's device key, and another's
    Cooling, Window,
    Checks,        \* coroutines of watchRecoveries()
    Period,        \* WATCH_PERIOD_MINUTES
    Delay,         \* the delay of the first alarm
    MaxRemembered, \* MAX_REMEMBERED
    MaxTime        \* bound on the clock

VARIABLES
    time, key, approved, claim,  \* the server, as in DeviceKeyCustody
    running,       \* whether the browser runs
    due,           \* when the alarm goes off, None when there is no alarm
    told,          \* storage: the recoveries the user has been told about
    check,         \* where each coroutine is, and what it holds
    shown,         \* history: the recoveries a notification was raised for
    seen,          \* history: those a check found that went through
    missed         \* history: those that waited while a check failed or was late

Server == INSTANCE DeviceKeyCustody WITH NoKey <- None, Keys <- {Mine, Theirs}

ASSUME WatchIsFastEnough ==
    /\ Period \in Nat \ {0} /\ Delay \in Nat \ {0} /\ MaxRemembered \in Nat \ {0}
    /\ Cooling \in Nat /\ Window \in Nat /\ MaxTime \in Nat
    /\ Period < Cooling /\ Delay < Cooling
    /\ Mine # Theirs

\* A wallet is claimed finitely often, and the lack of an alarm is no moment.
ASSUME ClaimsAreFinite == IsFiniteSet(Claims) /\ None \notin Nat

serverVars == <<time, key, approved, claim>>
historyVars == <<shown, seen, missed>>
vars == <<serverVars, running, due, told, check, historyVars>>

NoCheck == [pc |-> "idle", found |-> {}, fresh |-> {}, left |-> {}, read |-> <<>>]

Init ==
    /\ time = 0
    /\ key = Mine
    /\ approved = {}
    /\ claim = [c \in Claims |-> Server!NoClaim]
    /\ running = TRUE
    /\ due = Delay
    /\ told = <<>>
    /\ check = [k \in Checks |-> NoCheck]
    /\ shown = {}
    /\ seen = {}
    /\ missed = {}

\* live_recoveries(): approved, and still able to take over
Waiting == {c \in Claims : Server!Alive(c)}

Misses == missed' = missed \union Waiting

-----------------------------------------------------------------------------
(* The rest of the world.                                                  *)

Others ==
    /\ \E c \in Claims :
        \/ Server!Ask(c, Theirs)
        \/ Server!Approve(c)
        \/ Server!Begin(c)
        \/ Server!TakeOver(c)
        \/ Server!Object(c)
    /\ UNCHANGED <<running, due, told, check, historyVars>>

\* A claim that waits has missed a check when the clock moves on while the
\* browser is off, or a check is overdue or not through yet.
Tick ==
    /\ time < MaxTime
    /\ time' = time + 1
    /\ IF running /\ due > time /\ \A k \in Checks : check[k].pc = "idle"
       THEN UNCHANGED missed
       ELSE Misses
    /\ UNCHANGED <<key, approved, claim, running, due, told, check, shown, seen>>

\* The browser is closed.  It may forget its alarms.
BrowserStops ==
    /\ running
    /\ running' = FALSE
    /\ due' \in {due, None}
    /\ check' = [k \in Checks |-> NoCheck]
    /\ Misses
    /\ UNCHANGED <<serverVars, told, shown, seen>>

SlipNoAlarm ==
    /\ ~running
    /\ running' = TRUE
    /\ due' = IF due = None THEN time + Cooling ELSE due
    /\ UNCHANGED <<serverVars, told, check, historyVars>>

\* ensureWatchAlarm(), as the worker starts.
BrowserStarts ==
    /\ ~running
    /\ running' = TRUE
    /\ due' = IF due = None THEN time + Delay ELSE due
    /\ UNCHANGED <<serverVars, told, check, historyVars>>

\* The worker is stopped with its coroutines.
WorkerStops ==
    /\ \E k \in Checks : check[k].pc # "idle"
    /\ check' = [k \in Checks |-> NoCheck]
    /\ Misses
    /\ UNCHANGED <<serverVars, running, due, told, shown, seen>>

-----------------------------------------------------------------------------
(* watchRecoveries()                                                       *)

Start(k) ==
    /\ running
    /\ check[k].pc = "idle"
    /\ check' = [check EXCEPT ![k].pc = "listing"]
    /\ UNCHANGED <<serverVars, running, told, historyVars>>

AlarmFires(k) ==
    /\ due # None /\ due <= time
    /\ due' = time + Period
    /\ Start(k)

CheckAsked(k) == Start(k) /\ UNCHANGED due

\* There is nothing to watch, or the server does not answer, or a
\* notification does not show: the check ends with nothing written.
Fails(k) ==
    /\ check[k].pc \in {"listing", "telling"}
    /\ check' = [check EXCEPT ![k] = NoCheck]
    /\ Misses
    /\ UNCHANGED <<serverVars, running, due, told, shown, seen>>

\* The server lists what waits to the key it trusts, and nothing to another.
Listed(k) ==
    /\ check[k].pc = "listing"
    /\ check' = [check EXCEPT ![k] =
                    [@ EXCEPT !.pc = "reading", !.found = IF key = Mine THEN Waiting ELSE {}]]
    /\ UNCHANGED <<serverVars, running, due, told, historyVars>>

Unannounced(pending, alreadyTold) == pending \ ToSet(alreadyTold)

SlipUncapped(alreadyTold, fresh) == alreadyTold \o SetToSeq(fresh \ ToSet(alreadyTold))

\* The newest last, capped.
Remember(alreadyTold, fresh) ==
    LET merged == alreadyTold \o SetToSeq(fresh \ ToSet(alreadyTold))
        start == IF Len(merged) > MaxRemembered THEN Len(merged) - MaxRemembered + 1 ELSE 1
    IN  SubSeq(merged, start, Len(merged))

SlipRemembersFirst(k) ==
    LET fresh == Unannounced(check[k].found, told) IN
    /\ check[k].pc = "reading"
    /\ told' = Remember(told, fresh)
    /\ IF fresh = {}
       THEN /\ check' = [check EXCEPT ![k] = NoCheck]
            /\ seen' = seen \union check[k].found
       ELSE /\ check' = [check EXCEPT ![k] =
                            [@ EXCEPT !.pc = "telling", !.fresh = fresh, !.left = fresh]]
            /\ UNCHANGED seen
    /\ UNCHANGED <<serverVars, running, due, shown, missed>>

ReadTold(k) ==
    LET fresh == Unannounced(check[k].found, told) IN
    /\ check[k].pc = "reading"
    /\ IF fresh = {}
       THEN /\ check' = [check EXCEPT ![k] = NoCheck]
            /\ seen' = seen \union check[k].found
       ELSE /\ check' = [check EXCEPT ![k] =
                            [@ EXCEPT !.pc = "telling", !.fresh = fresh, !.left = fresh]]
            /\ UNCHANGED seen
    /\ UNCHANGED <<serverVars, running, due, told, shown, missed>>

\* A notification is raised, one recovery after the other.
Notify(k, c) ==
    /\ check[k].pc = "telling"
    /\ c \in check[k].left
    /\ check' = [check EXCEPT ![k].left = @ \ {c}]
    /\ shown' = shown \union {c}
    /\ UNCHANGED <<serverVars, running, due, told, seen, missed>>

\* The list is read again, for what another check added meanwhile.
ReadAgain(k) ==
    /\ check[k].pc = "telling"
    /\ check[k].left = {}
    /\ check' = [check EXCEPT ![k] = [@ EXCEPT !.pc = "writing", !.read = told]]
    /\ UNCHANGED <<serverVars, running, due, told, historyVars>>

WriteTold(k) ==
    /\ check[k].pc = "writing"
    /\ told' = Remember(check[k].read, check[k].fresh)
    /\ seen' = seen \union check[k].found
    /\ check' = [check EXCEPT ![k] = NoCheck]
    /\ UNCHANGED <<serverVars, running, due, shown, missed>>

-----------------------------------------------------------------------------

Next ==
    \/ Others
    \/ Tick
    \/ BrowserStops
    \/ BrowserStarts
    \/ WorkerStops
    \/ \E k \in Checks :
        \/ AlarmFires(k)
        \/ CheckAsked(k)
        \/ Fails(k)
        \/ Listed(k)
        \/ ReadTold(k)
        \/ \E c \in Claims : Notify(k, c)
        \/ ReadAgain(k)
        \/ WriteTold(k)

Spec == Init /\ [][Next]_vars

-----------------------------------------------------------------------------

\* Types; the list in storage never outgrows its cap.
TypeOK ==
    /\ time \in 0 .. MaxTime
    /\ running \in BOOLEAN
    /\ due \in 0 .. MaxTime + Period + Delay \union {None}
    /\ Len(told) <= MaxRemembered /\ ToSet(told) \subseteq Claims
    /\ \A k \in Checks :
        /\ check[k].pc \in {"idle", "listing", "reading", "telling", "writing"}
        /\ check[k].left \subseteq check[k].fresh
        /\ check[k].fresh \subseteq check[k].found
    /\ UNION {shown, seen, missed} \subseteq Claims

(***************************************************************************)
(* A recovery is remembered only after its notification was raised, "so    *)
(* one that failed to show is tried again" (background.ts:406): whatever   *)
(* checks overlapped, failed or were cut off before, one that goes through *)
(* leaves no recovery it found untold.                                     *)
(***************************************************************************)
FoundIsTold == seen \subseteq shown

(***************************************************************************)
(* docs/recovery.md: the owner can object until a device takes over, so a  *)
(* running browser tells them in time.  A claim takes this install's place *)
(* untold only when, while it waited, a check failed, was late or was cut  *)
(* off.                                                                    *)
(***************************************************************************)
ToldInTime ==
    [][\A c \in Claims :
          key = Mine /\ claim[c].phase = "waiting" /\ claim'[c].phase = "taken" =>
              c \in shown \union missed]_vars
=============================================================================
