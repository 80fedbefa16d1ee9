------------------------ MODULE RecoveryDeviceProofs ------------------------
(***************************************************************************)
(* Theorems about RecoveryDevice, for any number of requests, keys and     *)
(* coroutines and any durations: the popup may be closed and opened at any *)
(* time, so calls of the same function may overlap.                        *)
(***************************************************************************)
EXTENDS RecoveryDevice, TLAPS

\* Where a coroutine of each function can be, and what it calls.
Shaped ==
    \A t \in Coroutines :
        /\ task[t].op = "none" => task[t].pc = "idle"
        /\ task[t].op = "begin" =>
             task[t].pc \in {"exists", "state", "make", "sent", "answered", "write", "open",
                             "discard", "clear"}
        /\ task[t].op \in {"poll", "abandon"} =>
             task[t].pc \in {"state", "key", "sent", "answered", "discard", "clear"}
        /\ task[t].op = "finish" => task[t].pc \notin {"idle", "make", "write", "open"}
        /\ task[t].pc \in {"sent", "answered"} =>
             /\ task[t].call = "request" <=> task[t].op = "begin"
             /\ task[t].call = "status" => task[t].op \in {"poll", "finish"}
             /\ task[t].call = "complete" => task[t].op = "finish"
             /\ task[t].call = "cancel" => task[t].op = "abandon"

\* What recoveryProgress() and finishRecovery() may be told.
Reports == {"awaitingAssertion", "cooling", "ready", "completed", "over", "error"}

\* What a coroutine has read stays with it.
Carried ==
    \A t \in Coroutines :
        /\ task[t].pc \in {"key", "write", "open", "load", "activate", "promoted", "store",
                           "stored"} => task[t].req \in Claims
        /\ task[t].pc \in {"sent", "answered"} => task[t].call \in Calls
        /\ task[t].pc = "answered" /\ task[t].call = "status" => task[t].answer \in Reports
        /\ task[t].pc = "answered" /\ task[t].call = "request" /\ task[t].answer = "done" =>
             task[t].req \in Claims
        /\ task[t].pc = "answered" /\ task[t].call # "request" => task[t].req \in Claims
        /\ task[t].op = "finish" /\ task[t].pc \notin {"exists", "state"} => task[t].req \in Claims
        /\ task[t].pc \in {"answered", "activate"} => task[t].key \in Keys

\* Only a recovery whose tab was opened is approved, waits or takes over.
OnlyOpened ==
    /\ approved \subseteq opened
    /\ \A c \in Claims :
        /\ claim[c].phase \in {"waiting", "taken"} => c \in approved
        /\ c \in opened => claim[c].phase # "absent"

\* Starts that overlap have requests of their own, which nobody has opened yet.
HasRequest(t) ==
    /\ task[t].op = "begin"
    /\ \/ task[t].pc \in {"write", "open"}
       \/ task[t].pc = "answered" /\ task[t].answer = "done"
Beginning ==
    /\ \A t \in Coroutines : HasRequest(t) =>
         task[t].req \in Claims \ opened /\ claim[task[t].req].phase # "absent"
    /\ \A t, u \in Coroutines : HasRequest(t) /\ HasRequest(u) /\ t # u =>
         task[t].req # task[u].req

Inv == TypeOK /\ Shaped /\ Carried /\ OnlyOpened /\ Beginning

\* Where coroutine t is after a step of its own; the others stay where they are.
Moves(t, op, pc, c, k, call, answer) ==
    /\ task'[t].op = op /\ task'[t].pc = pc /\ task'[t].req = c
    /\ task'[t].key = k /\ task'[t].call = call /\ task'[t].answer = answer
    /\ \A u \in Coroutines \ {t} : task'[u] = task[u]
Ends(t) ==
    /\ Moves(t, "none", "idle", None, None, None, None)
    /\ waits' = waits \/ (waits = t /\ waits' = None)

LEMMA StepMoves ==
    ASSUME NEW t \in Coroutines, NEW pc, NEW c, NEW k, NEW call, TypeOK, Step(t, pc, c, k, call)
    PROVE  Moves(t, task[t].op, pc, c, k, call, None)
BY DEF TypeOK, Step, Moves

LEMMA GotoMoves ==
    ASSUME NEW t \in Coroutines, NEW pc, TypeOK, Goto(t, pc)
    PROVE  Moves(t, task[t].op, pc, task[t].req, None, None, None)
BY StepMoves DEF Goto

LEMMA SendMoves ==
    ASSUME NEW t \in Coroutines, NEW call, NEW c, NEW k, TypeOK, Send(t, call, c, k)
    PROVE  Moves(t, task[t].op, "sent", c, k, call, None)
BY StepMoves DEF Send

LEMMA ReturnMoves ==
    ASSUME NEW t \in Coroutines, NEW p, TypeOK, Return(t, p)
    PROVE  Ends(t)
BY DEF TypeOK, Return, Idle, Moves, Ends, popup

LEMMA ThrowMoves ==
    ASSUME NEW t \in Coroutines, TypeOK, Throw(t)
    PROVE  Ends(t)
BY ReturnMoves DEF Throw

LEMMA EnterMoves ==
    ASSUME NEW t \in Coroutines, NEW op, NEW pc, TypeOK, Enter(t, op, pc)
    PROVE  task[t].op = "none" /\ Moves(t, op, pc, None, None, None, None)
BY DEF TypeOK, Enter, Idle, Moves

\* The server's part of a step, claim by claim.
Keeps(d) == claim'[d].key = claim[d].key

LEMMA AskDoes ==
    ASSUME NEW c \in Claims, NEW k, TypeOK, Server!Ask(c, k)
    PROVE  /\ claim[c].phase = "absent" /\ claim'[c].phase = "asked" /\ claim'[c].key = k
           /\ \A d \in Claims \ {c} : claim'[d].phase = claim[d].phase /\ Keeps(d)
           /\ UNCHANGED <<time, key, approved>>
BY DEF TypeOK, Server!Ask, Keeps

LEMMA BeginDoes ==
    ASSUME NEW c \in Claims, TypeOK, Server!Begin(c)
    PROVE  /\ claim[c].phase = "asked" /\ c \in approved /\ claim'[c].phase = "waiting"
           /\ \A d \in Claims \ {c} :
                \/ claim'[d].phase = claim[d].phase
                \/ claim[d].phase = "waiting" /\ claim'[d].phase = "over"
           /\ \A d \in Claims : Keeps(d)
           /\ UNCHANGED <<time, key, approved>>
BY DEF TypeOK, Server!Begin, Keeps

LEMMA TakeOverDoes ==
    ASSUME NEW c \in Claims, TypeOK, Server!TakeOver(c)
    PROVE  /\ claim[c].phase = "waiting" /\ claim'[c].phase = "taken" /\ key' = claim[c].key
           /\ \A d \in Claims \ {c} :
                IF claim[d].phase \in {"asked", "waiting"} THEN claim'[d].phase = "over"
                ELSE claim'[d].phase = claim[d].phase
           /\ \A d \in Claims : Keeps(d)
           /\ UNCHANGED <<time, approved>>
BY DEF TypeOK, Server!TakeOver, Server!Alive, Keeps

LEMMA ObjectDoes ==
    ASSUME NEW c \in Claims, TypeOK, Server!Object(c)
    PROVE  /\ claim[c].phase \in {"asked", "waiting"} /\ claim'[c].phase = "over"
           /\ \A d \in Claims \ {c} : claim'[d].phase = claim[d].phase
           /\ \A d \in Claims : Keeps(d)
           /\ UNCHANGED <<time, key, approved>>
BY DEF TypeOK, Server!Object, Keeps

\* The actions below branch on the function that runs or on what was answered;
\* each lemma lists the branches of one.
LEMMA NoneInProgressCases ==
    ASSUME NEW t \in Coroutines, TypeOK, Shaped, NoneInProgress(t)
    PROVE  /\ task[t].pc = "state" /\ recovery = None /\ UNCHANGED <<server, stored, user, late>>
           /\ \/ task[t].op = "begin" /\ Goto(t, "make") /\ UNCHANGED popup
              \/ task[t].op = "poll" /\ Return(t, "idle")
              \/ task[t].op = "finish" /\ Throw(t)
              \/ task[t].op = "abandon" /\ Goto(t, "discard") /\ UNCHANGED popup
<1>1. task[t].pc = "state" /\ recovery = None /\ UNCHANGED <<server, stored, user, late>>
  BY DEF NoneInProgress
<1>2. task[t].op \in {"begin", "poll", "finish", "abandon"}
  BY <1>1 DEF TypeOK, Tasks, Shaped
<1>3. CASE task[t].op = "begin"
  BY <1>1, <1>3 DEF NoneInProgress
<1>4. CASE task[t].op = "poll"
  BY <1>1, <1>4 DEF NoneInProgress
<1>5. CASE task[t].op = "finish"
  BY <1>1, <1>5 DEF NoneInProgress
<1>6. CASE task[t].op = "abandon"
  BY <1>1, <1>6 DEF NoneInProgress
<1> QED
  BY <1>1, <1>2, <1>3, <1>4, <1>5, <1>6

LEMMA NoKeyLeftCases ==
    ASSUME NEW t \in Coroutines, TypeOK, Shaped, NoKeyLeft(t)
    PROVE  /\ task[t].pc = "key" /\ pendingKey = None /\ UNCHANGED <<server, stored, user, late>>
           /\ \/ task[t].op = "poll" /\ Goto(t, "clear") /\ UNCHANGED popup
              \/ task[t].op = "finish" /\ Throw(t)
              \/ task[t].op = "abandon" /\ Goto(t, "discard") /\ UNCHANGED popup
<1>1. task[t].pc = "key" /\ pendingKey = None /\ UNCHANGED <<server, stored, user, late>>
  BY DEF NoKeyLeft
<1>2. task[t].op \in {"poll", "finish", "abandon"}
  BY <1>1 DEF TypeOK, Tasks, Shaped
<1>3. CASE task[t].op = "poll"
  BY <1>1, <1>3 DEF NoKeyLeft
<1>4. CASE task[t].op = "finish"
  BY <1>1, <1>4 DEF NoKeyLeft
<1>5. CASE task[t].op = "abandon"
  BY <1>1, <1>5 DEF NoKeyLeft
<1> QED
  BY <1>1, <1>2, <1>3, <1>4, <1>5

LEMMA ClearCases ==
    ASSUME NEW t \in Coroutines, TypeOK, Shaped, Clear(t)
    PROVE  /\ task[t].pc = "clear" /\ recovery' = None
           /\ UNCHANGED <<server, activeKey, pendingKey, vault, user, late>>
           /\ \/ task[t].op = "poll" /\ Return(t, "ended")
              \/ task[t].op = "abandon" /\ Return(t, "idle")
              \/ task[t].op \in {"begin", "finish"} /\ Throw(t)
<1>1. task[t].pc = "clear" /\ recovery' = None
           /\ UNCHANGED <<server, activeKey, pendingKey, vault, user, late>>
  BY DEF Clear
<1>2. task[t].op \in {"begin", "poll", "finish", "abandon"}
  BY <1>1 DEF TypeOK, Tasks, Shaped
<1>3. CASE task[t].op = "poll"
  BY <1>1, <1>3 DEF Clear
<1>4. CASE task[t].op = "abandon"
  BY <1>1, <1>4 DEF Clear
<1>5. CASE task[t].op \in {"begin", "finish"}
  BY <1>1, <1>5 DEF Clear
<1> QED
  BY <1>1, <1>2, <1>3, <1>4, <1>5

LEMMA ProgressAnsweredCases ==
    ASSUME NEW t \in Coroutines, TypeOK, Shaped, Carried, ProgressAnswered(t)
    PROVE  /\ task[t].pc = "answered" /\ task[t].op = "poll"
           /\ UNCHANGED <<server, stored, user, late>>
           /\ \/ \E p \in {"awaitingAssertion", "cooling", "ready"} : Return(t, p)
              \/ task[t].answer = "over" /\ Goto(t, "discard") /\ UNCHANGED popup
              \/ Throw(t)
<1>1. /\ task[t].pc = "answered" /\ task[t].op = "poll"
      /\ UNCHANGED <<server, stored, user, late>>
  BY DEF ProgressAnswered
<1>2. CASE task[t].answer \in {"awaitingAssertion", "cooling"}
  BY <1>1, <1>2 DEF ProgressAnswered
<1>3. CASE task[t].answer \in {"ready", "completed"}
  BY <1>1, <1>3 DEF ProgressAnswered
<1>4. CASE task[t].answer = "over"
  BY <1>1, <1>4 DEF ProgressAnswered
<1>5. CASE task[t].answer = "error"
  BY <1>1, <1>5 DEF ProgressAnswered
<1>6. task[t].answer \in Reports
  BY <1>1 DEF TypeOK, Tasks, Calls, Shaped, Carried
<1> QED
  BY <1>1, <1>2, <1>3, <1>4, <1>5, <1>6 DEF Reports

LEMMA FinishAnsweredCases ==
    ASSUME NEW t \in Coroutines, Carried, FinishAnswered(t)
    PROVE  /\ task[t].pc = "answered" /\ task[t].op = "finish" /\ task[t].call = "status"
           /\ UNCHANGED <<server, stored, user, late>>
           /\ \/ Throw(t)
              \/ task[t].answer = "over" /\ Goto(t, "discard") /\ UNCHANGED popup
              \/ /\ task[t].answer = "ready"
                 /\ Send(t, "complete", task[t].req, task[t].key) /\ UNCHANGED popup
              \/ task[t].answer = "completed" /\ Goto(t, "load") /\ UNCHANGED popup
<1>1. /\ task[t].pc = "answered" /\ task[t].op = "finish" /\ task[t].call = "status"
      /\ UNCHANGED <<server, stored, user, late>>
  BY DEF FinishAnswered
<1>2. CASE task[t].answer \in {"awaitingAssertion", "cooling", "error"}
  BY <1>1, <1>2 DEF FinishAnswered
<1>3. CASE task[t].answer = "over"
  BY <1>1, <1>3 DEF FinishAnswered
<1>4. CASE task[t].answer = "ready"
  BY <1>1, <1>4 DEF FinishAnswered
<1>5. CASE task[t].answer = "completed"
  BY <1>1, <1>5 DEF FinishAnswered
<1>6. task[t].answer \in Reports
  BY <1>1 DEF Carried
<1> QED
  BY <1>1, <1>2, <1>3, <1>4, <1>5, <1>6 DEF Reports

\* A claim that cannot take over any more.
Ended(c) == claim[c].phase = "over" \/ (claim[c].phase = "waiting" /\ time > claim[c].until)

\* What Served does, one call at a time: the four below.
Answering(t, c, a) ==
    /\ task[t].pc = "sent"
    /\ task' = [task EXCEPT ![t] = [@ EXCEPT !.pc = "answered", !.req = c, !.answer = a]]
    /\ UNCHANGED <<stored, popup, user, late>>
Requesting(t, c, a) ==
    task[t].call = "request" /\ a = "done" /\ Server!Ask(c, task[t].key)
Polling(t, c, a) ==
    /\ task[t].call = "status" /\ c = task[t].req /\ claim[c].key = task[t].key
    /\ Server!Begin(c) \/ UNCHANGED server
    /\ a \in Reports
    /\ a = "completed" => claim'[c].phase = "taken"
    /\ a = "ready" => claim'[c].phase = "waiting" /\ claim'[c].ready <= time'
    /\ a = "over" => Ended(c)'
Completing(t, c, a) ==
    /\ task[t].call = "complete" /\ c = task[t].req /\ claim[c].key = task[t].key
    /\ a = "done" /\ Server!TakeOver(c)
Cancelling(t, c, a) ==
    task[t].call = "cancel" /\ c = task[t].req /\ a = "done" /\ Server!Object(c)

LEMMA ReportsOfState ==
    ASSUME NEW c \in Claims, time' \in Nat, claim'[c].ready \in Nat, claim'[c].until \in Nat,
           claim'[c].phase \in Server!Phases \ {"absent"}
    PROVE  /\ State(c)' \in Reports
           /\ State(c)' = "completed" => claim'[c].phase = "taken"
           /\ State(c)' = "ready" => claim'[c].phase = "waiting" /\ claim'[c].ready <= time'
           /\ State(c)' = "over" => Ended(c)'
<1>1. CASE claim'[c].phase = "asked"
  BY <1>1 DEF State, Reports, Ended
<1>2. CASE claim'[c].phase = "waiting"
  <2>1. CASE time' < claim'[c].ready
    BY <1>2, <2>1 DEF State, Reports, Ended
  <2>2. CASE claim'[c].ready <= time' /\ time' <= claim'[c].until
    BY <1>2, <2>2 DEF State, Reports, Ended
  <2>3. CASE claim'[c].ready <= time' /\ time' > claim'[c].until
    BY <1>2, <2>3 DEF State, Reports, Ended
  <2> QED BY <2>1, <2>2, <2>3
<1>3. CASE claim'[c].phase = "taken"
  BY <1>3 DEF State, Reports, Ended
<1>4. CASE claim'[c].phase = "over"
  BY <1>4 DEF State, Reports, Ended
<1> QED
  BY <1>1, <1>2, <1>3, <1>4 DEF Server!Phases

LEMMA ServedCases ==
    ASSUME NEW t \in Coroutines, TypeOK, Carried, Served(t)
    PROVE  \E c \in Claims, a \in Answers :
             /\ Answering(t, c, a)
             /\ \/ Requesting(t, c, a) \/ Polling(t, c, a)
                \/ Completing(t, c, a) \/ Cancelling(t, c, a)
<1>1. PICK c \in Claims, a \in Answers :
        /\ task[t].call = "request" \/ c = task[t].req
        /\ Serve(task[t].call, c, task[t].key, a)
        /\ Answering(t, c, a)
  BY DEF Served, Answering
<1>2. CASE task[t].call = "request"
  BY <1>1, <1>2 DEF Serve, Requesting
<1>3. CASE task[t].call = "status"
  <2>1. /\ claim[c].phase # "absent" /\ claim[c].key = task[t].key
        /\ Server!Begin(c) \/ UNCHANGED server
        /\ a = State(c)'
    BY <1>1, <1>3 DEF Serve, Authentic
  <2>2. /\ time' \in Nat /\ claim'[c].ready \in Nat /\ claim'[c].until \in Nat
        /\ claim'[c].phase \in Server!Phases \ {"absent"}
    <3>1. CASE UNCHANGED server
      BY <2>1, <3>1, DurationsAreNaturals DEF TypeOK, server
    <3>2. CASE Server!Begin(c)
      BY <2>1, <3>2, DurationsAreNaturals DEF TypeOK, Server!Begin, Server!Phases
    <3> QED BY <2>1, <3>1, <3>2
  <2>3. /\ a \in Reports
        /\ a = "completed" => claim'[c].phase = "taken"
        /\ a = "ready" => claim'[c].phase = "waiting" /\ claim'[c].ready <= time'
        /\ a = "over" => Ended(c)'
    BY <2>1, <2>2, ReportsOfState
  <2> QED BY <1>1, <1>3, <2>1, <2>3 DEF Polling
<1>4. CASE task[t].call = "complete"
  BY <1>1, <1>4 DEF Serve, Authentic, Completing
<1>5. CASE task[t].call = "cancel"
  BY <1>1, <1>5 DEF Serve, Cancelling
<1> QED
  BY <1>1, <1>2, <1>3, <1>4, <1>5 DEF Carried, Answering, Calls

LEMMA ServedLateCases ==
    ASSUME NEW c \in late, ServedLate(c)
    PROVE  /\ Server!TakeOver(c) /\ late' = late \ {c}
           /\ UNCHANGED <<stored, popup, user, task>>
BY DEF ServedLate, Serve

LEMMA AnsweringMoves ==
    ASSUME NEW t \in Coroutines, NEW c \in Claims, NEW a \in Answers, TypeOK,
           Answering(t, c, a)
    PROVE  /\ task[t].pc = "sent"
           /\ Moves(t, task[t].op, "answered", c, task[t].key, task[t].call, a)
           /\ UNCHANGED <<stored, popup, user, late>>
BY DEF TypeOK, Tasks, Answering, Moves

LEMMA CallFailsMoves ==
    ASSUME NEW t \in Coroutines, TypeOK, CallFails(t)
    PROVE  /\ task[t].pc \in {"sent", "answered"}
           /\ Moves(t, task[t].op, "answered", task[t].req, task[t].key, task[t].call, "error")
           /\ UNCHANGED <<server, stored, popup, user>>
BY DEF TypeOK, Tasks, CallFails, Moves

\* What touches neither the server nor the storage nor a tab.
Quietly(t) ==
    \/ BeginRecovery(t) \/ FinishRecovery(t) \/ AbandonRecovery(t) \/ RecoveryProgress(t)
    \/ CallFails(t) \/ AccessFails(t) \/ Exists(t) \/ NoneInProgress(t) \/ InProgress(t)
    \/ AskServer(t) \/ NoKeyLeft(t) \/ Requested(t) \/ ProgressAnswered(t)
    \/ FinishAnswered(t) \/ CompleteAnswered(t) \/ LoadPending(t) \/ CancelAnswered(t)

LEMMA QuietlyKeeps ==
    ASSUME NEW t \in Coroutines, Quietly(t)
    PROVE  UNCHANGED <<server, stored, opened>>
<1> USE DEF user
<1>1. CASE BeginRecovery(t) \/ FinishRecovery(t) \/ AbandonRecovery(t) \/ RecoveryProgress(t)
  BY <1>1 DEF BeginRecovery, FinishRecovery, AbandonRecovery, RecoveryProgress, Press
<1>2. CASE CallFails(t) \/ AccessFails(t) \/ Exists(t) \/ NoneInProgress(t) \/ InProgress(t)
  BY <1>2 DEF CallFails, AccessFails, Exists, NoneInProgress, InProgress
<1>3. CASE AskServer(t) \/ NoKeyLeft(t) \/ Requested(t) \/ ProgressAnswered(t)
  BY <1>3 DEF AskServer, NoKeyLeft, Requested, ProgressAnswered
<1>4. CASE FinishAnswered(t) \/ CompleteAnswered(t) \/ LoadPending(t) \/ CancelAnswered(t)
  BY <1>4 DEF FinishAnswered, CompleteAnswered, LoadPending, CancelAnswered
<1> QED
  BY <1>1, <1>2, <1>3, <1>4 DEF Quietly

\* The parts of TypeOK, and what keeps them.
ServerTyped ==
    /\ time \in 0..MaxTime /\ key \in Keys \union {None} /\ approved \subseteq Claims
    /\ claim \in [Claims -> [phase : Server!Phases, key : Keys \union {None},
                             ready : Nat, until : Nat]]
StorageTyped ==
    /\ activeKey \in Keys \union {None} /\ pendingKey \in Keys \union {None}
    /\ recovery \in Claims \union {None} /\ vault \in BOOLEAN
    /\ opened \subseteq Claims /\ gaveUp \subseteq Claims /\ late \subseteq Claims
PopupTyped ==
    /\ page \in Phases \union {"closed"}
    /\ waits \in Coroutines \union {None} /\ heard \in Coroutines \union {None}
TaskTyped ==
    /\ task \in [Coroutines -> Tasks]
    /\ \A t \in Coroutines : task[t].pc = "sent" =>
         task[t].key \in Keys /\ (task[t].call # "request" => task[t].req \in Claims)
Typed == ServerTyped /\ StorageTyped /\ PopupTyped /\ TaskTyped

LEMMA Parts == (TypeOK <=> Typed) /\ (TypeOK' <=> Typed')
BY DEF TypeOK, Typed, ServerTyped, StorageTyped, PopupTyped, TaskTyped

Places == {"exists", "state", "key", "make", "answered", "write", "open", "load", "activate",
           "promoted", "store", "stored", "discard", "clear"}

LEMMA StepKeeps ==
    ASSUME NEW t \in Coroutines, NEW pc \in Places \union {"sent"}, NEW c \in Claims \union {None},
           NEW k \in Keys \union {None}, NEW call \in Calls \union {None}, TypeOK,
           Step(t, pc, c, k, call),
           pc = "sent" => k \in Keys /\ (call # "request" => c \in Claims)
    PROVE  TaskTyped'
<1> DEFINE new == [op |-> task[t].op, pc |-> pc, req |-> c, key |-> k, call |-> call,
                   answer |-> None]
<1>1. new \in Tasks /\ new.pc = pc /\ new.key = k /\ new.call = call /\ new.req = c
  BY DEF TypeOK, Tasks, Places
<1>2. TaskTyped /\ task' = [task EXCEPT ![t] = new]
  BY DEF TypeOK, TaskTyped, Step
<1> HIDE DEF new
<1> QED
  BY <1>1, <1>2 DEF TaskTyped

LEMMA GotoKeeps ==
    ASSUME NEW t \in Coroutines, NEW pc \in Places, TypeOK, Goto(t, pc)
    PROVE  TaskTyped'
<1>1. task[t].req \in Claims \union {None} /\ pc # "sent"
  BY DEF TypeOK, Tasks, Places
<1> QED
  BY <1>1, StepKeeps DEF Goto

LEMMA SendKeeps ==
    ASSUME NEW t \in Coroutines, NEW call \in Calls, NEW c \in Claims \union {None},
           NEW k \in Keys, call # "request" => c \in Claims, TypeOK, Send(t, call, c, k)
    PROVE  TaskTyped'
BY StepKeeps DEF Send

LEMMA ReturnKeeps ==
    ASSUME NEW t \in Coroutines, NEW p \in Phases \union {"closed"}, TypeOK, Return(t, p)
    PROVE  TaskTyped' /\ PopupTyped'
<1>1. Idle \in Tasks /\ Idle.pc # "sent"
  BY DEF Idle, Tasks
<1>2. TaskTyped /\ PopupTyped
  BY DEF TypeOK, TaskTyped, PopupTyped
<1>3. TaskTyped'
  BY <1>1, <1>2 DEF TaskTyped, Return
<1>4. PopupTyped'
  BY <1>2 DEF PopupTyped, Return, Show, popup
<1> QED
  BY <1>3, <1>4

LEMMA ThrowKeeps ==
    ASSUME NEW t \in Coroutines, TypeOK, Throw(t)
    PROVE  TaskTyped' /\ PopupTyped'
BY ReturnKeeps DEF Throw, TypeOK

LEMMA EnterKeeps ==
    ASSUME NEW t \in Coroutines, NEW op \in {"begin", "poll", "finish", "abandon"},
           NEW pc \in Places, TypeOK, Enter(t, op, pc)
    PROVE  TaskTyped'
<1> DEFINE new == [Idle EXCEPT !.op = op, !.pc = pc]
<1>1. new \in Tasks /\ new.pc # "sent"
  BY DEF Idle, Tasks, Places
<1>2. TaskTyped /\ task' = [task EXCEPT ![t] = new]
  BY DEF TypeOK, TaskTyped, Enter
<1> HIDE DEF new
<1> QED
  BY <1>1, <1>2 DEF TaskTyped

LEMMA AnsweringKeeps ==
    ASSUME NEW t \in Coroutines, NEW c \in Claims, NEW a \in Answers, TypeOK,
           Answering(t, c, a)
    PROVE  /\ task' \in [Coroutines -> Tasks]
           /\ \A u \in Coroutines : task'[u].pc = "sent" => task'[u] = task[u]
<1> DEFINE new == [task[t] EXCEPT !.pc = "answered", !.req = c, !.answer = a]
<1>1. task \in [Coroutines -> Tasks] /\ task' = [task EXCEPT ![t] = new]
  BY DEF TypeOK, Answering
<1>2. task[t] \in Tasks /\ c \in Claims \union {None}
  BY <1>1
<1>3. \A r \in Tasks : LET s == [r EXCEPT !.pc = "answered", !.req = c, !.answer = a] IN
        s \in Tasks /\ s.pc = "answered"
  BY <1>2 DEF Tasks
<1>4. new \in Tasks /\ new.pc = "answered"
  BY <1>2, <1>3
<1> HIDE DEF new
<1> QED
  BY <1>1, <1>4

LEMMA CallFailsKeeps ==
    ASSUME NEW t \in Coroutines, TypeOK, CallFails(t)
    PROVE  TaskTyped' /\ late' \subseteq Claims
<1> DEFINE new == [task[t] EXCEPT !.pc = "answered", !.answer = "error"]
<1>1. task[t] \in Tasks /\ TaskTyped /\ task' = [task EXCEPT ![t] = new]
  BY DEF TypeOK, TaskTyped, CallFails
<1>2. \A r \in Tasks, a \in Answers :
        LET s == [r EXCEPT !.pc = "answered", !.answer = a] IN
        s \in Tasks /\ s.pc = "answered"
  BY DEF Tasks
<1>3. new \in Tasks /\ new.pc = "answered"
  BY <1>1, <1>2 DEF Answers
<1> HIDE DEF new
<1>4. TaskTyped'
  BY <1>1, <1>3 DEF TaskTyped
<1>5. Unanswered({t}) \subseteq Claims
  BY DEF TypeOK, Unanswered
<1> QED
  BY <1>4, <1>5 DEF TypeOK, CallFails

ClaimRecords == [phase : Server!Phases, key : Keys \union {None}, ready : Nat, until : Nat]

LEMMA AskKeeps ==
    ASSUME NEW c \in Claims, NEW k \in Keys, TypeOK, Server!Ask(c, k)
    PROVE  ServerTyped'
<1> DEFINE new == [phase |-> "asked", key |-> k, ready |-> 0, until |-> 0]
<1>1. new \in ClaimRecords
  BY DEF ClaimRecords, Server!Phases
<1>2. claim \in [Claims -> ClaimRecords] /\ claim' = [claim EXCEPT ![c] = new]
  BY DEF TypeOK, ClaimRecords, Server!Ask
<1> HIDE DEF new
<1>3. claim' \in [Claims -> ClaimRecords]
  BY <1>1, <1>2
<1> QED
  BY <1>3 DEF TypeOK, ServerTyped, ClaimRecords, Server!Ask

LEMMA BeginKeeps ==
    ASSUME NEW c \in Claims, TypeOK, Server!Begin(c)
    PROVE  ServerTyped'
<1> DEFINE new(d) == IF d = c
                     THEN [phase |-> "waiting", key |-> claim[c].key,
                           ready |-> time + Cooling, until |-> time + Cooling + Window]
                     ELSE IF claim[d].phase = "waiting"
                          THEN [claim[d] EXCEPT !.phase = "over"]
                          ELSE claim[d]
<1>1. /\ time + Cooling \in Nat /\ time + Cooling + Window \in Nat
      /\ \A d \in Claims : claim[d] \in ClaimRecords
  BY DurationsAreNaturals DEF TypeOK, ClaimRecords
<1>2. \A d \in Claims : new(d) \in ClaimRecords
  BY <1>1 DEF ClaimRecords, Server!Phases
<1>3. claim' = [d \in Claims |-> new(d)]
  BY DEF Server!Begin
<1> HIDE DEF new
<1>4. claim' \in [Claims -> ClaimRecords]
  BY <1>2, <1>3
<1> QED
  BY <1>4 DEF TypeOK, ServerTyped, ClaimRecords, Server!Begin

LEMMA TakeOverKeeps ==
    ASSUME NEW c \in Claims, TypeOK, Server!TakeOver(c)
    PROVE  ServerTyped'
<1> DEFINE new(d) == IF d = c THEN [claim[d] EXCEPT !.phase = "taken"]
                     ELSE IF claim[d].phase \in {"asked", "waiting"}
                          THEN [claim[d] EXCEPT !.phase = "over"]
                          ELSE claim[d]
<1>1. \A d \in Claims : claim[d] \in ClaimRecords
  BY DEF TypeOK, ClaimRecords
<1>2. \A d \in Claims : new(d) \in ClaimRecords
  BY <1>1 DEF ClaimRecords, Server!Phases
<1>3. claim' = [d \in Claims |-> new(d)] /\ key' = claim[c].key
  BY DEF Server!TakeOver
<1> HIDE DEF new
<1>4. claim' \in [Claims -> ClaimRecords]
  BY <1>2, <1>3
<1>5. key' \in Keys \union {None}
  BY <1>1, <1>3 DEF ClaimRecords
<1> QED
  BY <1>4, <1>5 DEF TypeOK, ServerTyped, ClaimRecords, Server!TakeOver

LEMMA ObjectKeeps ==
    ASSUME NEW c \in Claims, TypeOK, Server!Object(c)
    PROVE  ServerTyped'
BY DEF TypeOK, ServerTyped, Server!Object, Server!Phases

\* The numbers among them.
LEMMA Numbers ==
    ASSUME TypeOK
    PROVE  /\ time \in Nat /\ Cooling \in Nat
           /\ \A c \in Claims : claim[c].ready \in Nat /\ claim[c].until \in Nat
           /\ \A c \in Claims : claim[c].phase \in Server!Phases
BY DurationsAreNaturals DEF TypeOK

\* When a claim waits from and until.
Times(d) == claim'[d].ready = claim[d].ready /\ claim'[d].until = claim[d].until

LEMMA AskTimes ==
    ASSUME NEW c \in Claims, NEW k, TypeOK, Server!Ask(c, k)
    PROVE  \A d \in Claims \ {c} : Times(d)
BY DEF TypeOK, Server!Ask, Times

LEMMA BeginTimes ==
    ASSUME NEW c \in Claims, TypeOK, Server!Begin(c)
    PROVE  claim'[c].ready = time + Cooling /\ \A d \in Claims \ {c} : Times(d)
BY DEF TypeOK, Server!Begin, Times

LEMMA TakeOverTimes ==
    ASSUME NEW c \in Claims, TypeOK, Server!TakeOver(c)
    PROVE  time <= claim[c].until /\ \A d \in Claims : Times(d)
BY DEF TypeOK, Server!TakeOver, Server!Alive, Times

LEMMA ObjectTimes ==
    ASSUME NEW c \in Claims, TypeOK, Server!Object(c)
    PROVE  \A d \in Claims : Times(d)
BY DEF TypeOK, Server!Object, Times

\* A call that fails may still arrive.
LEMMA CallFailsLate ==
    ASSUME NEW t \in Coroutines, CallFails(t)
    PROVE  \A c \in late' :
             \/ c \in late
             \/ /\ task[t].pc = "sent" /\ task[t].call = "complete"
                /\ c = task[t].req /\ claim[c].key = task[t].key
BY DEF CallFails, Unanswered, Authentic

LEMMA StopsLate ==
    ASSUME WorkerStops
    PROVE  \A c \in late' :
             \/ c \in late
             \/ \E t \in Coroutines :
                  /\ task[t].pc = "sent" /\ task[t].call = "complete"
                  /\ c = task[t].req /\ claim[c].key = task[t].key
BY DEF WorkerStops, Unanswered, Authentic

\* Each action keeps the types.
LEMMA TypeStep == Inv /\ [Next]_vars => TypeOK'
<1> SUFFICES ASSUME Inv, [Next]_vars PROVE Typed'
  BY Parts
<1> USE NoneIsNew, DurationsAreNaturals DEF Inv, Typed, Shaped, Carried, StorageTyped,
   PopupTyped, ServerTyped, TaskTyped, Phases, server, stored, popup, user
<1>1. Typed /\ TypeOK
  BY Parts
<1>2. CASE OpenPopup
  BY <1>2, <1>1 DEF OpenPopup
<1>3. CASE StartAgain
  BY <1>3, <1>1 DEF StartAgain, Show
<1>4. ASSUME NEW t \in Coroutines, BeginRecovery(t)
      PROVE  Typed'
  BY <1>4, <1>1, EnterKeeps DEF BeginRecovery, Press, Places
<1>5. ASSUME NEW t \in Coroutines, FinishRecovery(t)
      PROVE  Typed'
  BY <1>5, <1>1, EnterKeeps DEF FinishRecovery, Press, Places
<1>6. ASSUME NEW t \in Coroutines, AbandonRecovery(t)
      PROVE  Typed'
  BY <1>6, <1>1, EnterKeeps DEF AbandonRecovery, Press, Places
<1>7. ASSUME NEW t \in Coroutines, RecoveryProgress(t)
      PROVE  Typed'
  BY <1>7, <1>1, EnterKeeps DEF RecoveryProgress, Places
<1>8. ASSUME NEW t \in Coroutines, Served(t)
      PROVE  Typed'
  <2>1. PICK c \in Claims, a \in Answers :
          /\ Answering(t, c, a)
          /\ \/ Requesting(t, c, a) \/ Polling(t, c, a)
             \/ Completing(t, c, a) \/ Cancelling(t, c, a)
    BY <1>8, ServedCases
  <2>2. TaskTyped' /\ UNCHANGED <<stored, popup, user, late>> /\ task[t].key \in Keys
    BY <1>1, <2>1, AnsweringKeeps DEF Answering
  <2>3. CASE Requesting(t, c, a)
    BY <1>1, <2>2, <2>3, AskKeeps DEF Requesting
  <2>4. CASE Polling(t, c, a)
    BY <1>1, <2>2, <2>4, BeginKeeps DEF Polling
  <2>5. CASE Completing(t, c, a)
    BY <1>1, <2>2, <2>5, TakeOverKeeps DEF Completing
  <2>6. CASE Cancelling(t, c, a)
    BY <1>1, <2>2, <2>6, ObjectKeeps DEF Cancelling
  <2> QED BY <2>1, <2>3, <2>4, <2>5, <2>6
<1>9. ASSUME NEW t \in Coroutines, CallFails(t)
      PROVE  Typed'
  BY <1>9, <1>1, CallFailsKeeps, CallFailsMoves
<1>10. ASSUME NEW t \in Coroutines, AccessFails(t)
      PROVE  Typed'
  BY <1>10, <1>1, GotoKeeps, ThrowKeeps DEF AccessFails, Caught, NotCaught,
     Places
<1>11. ASSUME NEW t \in Coroutines, Exists(t)
      PROVE  Typed'
  BY <1>11, <1>1, GotoKeeps, ThrowKeeps DEF Exists, Places
<1>12. ASSUME NEW t \in Coroutines, NoneInProgress(t)
      PROVE  Typed'
  BY <1>12, <1>1, NoneInProgressCases, GotoKeeps, ReturnKeeps, ThrowKeeps DEF
     Places
<1>13. ASSUME NEW t \in Coroutines, InProgress(t)
      PROVE  Typed'
  BY <1>13, <1>1, StepKeeps, ThrowKeeps DEF InProgress, Places
<1>14. ASSUME NEW t \in Coroutines, AskServer(t)
      PROVE  Typed'
  BY <1>14, <1>1, SendKeeps DEF AskServer, HasKey, Calls
<1>15. ASSUME NEW t \in Coroutines, NoKeyLeft(t)
      PROVE  Typed'
  BY <1>15, <1>1, NoKeyLeftCases, GotoKeeps, ThrowKeeps DEF Places
<1>16. ASSUME NEW t \in Coroutines, MakeKey(t)
      PROVE  Typed'
  BY <1>16, <1>1, SendKeeps DEF MakeKey, Calls
<1>17. ASSUME NEW t \in Coroutines, Requested(t)
      PROVE  Typed'
  BY <1>17, <1>1, GotoKeeps DEF Requested, Places
<1>18. ASSUME NEW t \in Coroutines, WriteState(t)
      PROVE  Typed'
  BY <1>18, <1>1, GotoKeeps DEF WriteState, Places
<1>19. ASSUME NEW t \in Coroutines, OpenCeremony(t)
      PROVE  Typed'
  BY <1>19, <1>1, ReturnKeeps DEF OpenCeremony
<1>20. ASSUME NEW t \in Coroutines, ProgressAnswered(t)
      PROVE  Typed'
  BY <1>20, <1>1, ProgressAnsweredCases, GotoKeeps, ReturnKeeps, ThrowKeeps DEF
     Places
<1>21. ASSUME NEW t \in Coroutines, FinishAnswered(t)
      PROVE  Typed'
  BY <1>21, <1>1, FinishAnsweredCases, GotoKeeps, SendKeeps, ThrowKeeps DEF
     Places, Calls
<1>22. ASSUME NEW t \in Coroutines, CompleteAnswered(t)
      PROVE  Typed'
  BY <1>22, <1>1, GotoKeeps, ThrowKeeps DEF CompleteAnswered, CompletedNow,
     Places
<1>23. ASSUME NEW t \in Coroutines, LoadPending(t)
      PROVE  Typed'
  BY <1>23, <1>1, StepKeeps, ThrowKeeps DEF LoadPending, Places
<1>24. ASSUME NEW t \in Coroutines, PromoteKey(t)
      PROVE  Typed'
  BY <1>24, <1>1, GotoKeeps DEF PromoteKey, Promote, Places
<1>25. ASSUME NEW t \in Coroutines, StoreVault(t)
      PROVE  Typed'
  BY <1>25, <1>1, GotoKeeps DEF StoreVault, Places
<1>26. ASSUME NEW t \in Coroutines, Restored(t)
      PROVE  Typed'
  BY <1>26, <1>1, ReturnKeeps DEF Restored
<1>27. ASSUME NEW t \in Coroutines, CancelAnswered(t)
      PROVE  Typed'
  BY <1>27, <1>1, GotoKeeps DEF CancelAnswered, Places
<1>28. ASSUME NEW t \in Coroutines, Discard(t)
      PROVE  Typed'
  BY <1>28, <1>1, GotoKeeps DEF Discard, Places
<1>29. ASSUME NEW t \in Coroutines, Clear(t)
      PROVE  Typed'
  BY <1>29, <1>1, ClearCases, ReturnKeeps, ThrowKeeps
<1>30. ASSUME NEW c \in late, ServedLate(c)
      PROVE  Typed'
  BY <1>30, <1>1, ServedLateCases, TakeOverKeeps
<1>31. CASE Tick
  BY <1>31, <1>1 DEF Tick, Server!Advance
<1>32. ASSUME NEW c \in Claims, Approve(c)
      PROVE  Typed'
  BY <1>32, <1>1 DEF Approve, Server!Approve
<1>33. ASSUME NEW c \in Claims, Object(c)
      PROVE  Typed'
  BY <1>33, <1>1, ObjectKeeps DEF Object
<1>34. CASE WorkerStops
  <2>1. Idle \in Tasks /\ Idle.pc # "sent"
    BY DEF Idle, Tasks
  <2>2. Unanswered(Coroutines) \subseteq Claims
    BY <1>1 DEF Unanswered
  <2>3. TaskTyped'
    BY <1>34, <2>1 DEF WorkerStops
  <2> QED BY <1>34, <1>1, <2>2, <2>3 DEF WorkerStops
<1>35. CASE ClosePopup
  BY <1>35, <1>1 DEF ClosePopup
<1>36. CASE UNCHANGED vars
  BY <1>1, <1>36 DEF vars
<1> QED
  BY <1>2, <1>3, <1>4, <1>5, <1>6, <1>7, <1>8, <1>9, <1>10, <1>11, <1>12,
     <1>13, <1>14, <1>15, <1>16, <1>17, <1>18, <1>19, <1>20, <1>21, <1>22,
     <1>23, <1>24, <1>25, <1>26, <1>27, <1>28, <1>29, <1>30, <1>31, <1>32,
     <1>33, <1>34, <1>35, <1>36 DEF Next, Work

\* Every function goes through its own places.
LEMMA ShapedStep ==
    ASSUME Inv, [Next]_vars
    PROVE  Shaped'
<1> USE NoneIsNew DEF Inv, server, stored, popup, user, Moves, Ends, Keeps, Times, Shaped,
    Carried, Calls
<1>1. /\ \A t \in Coroutines : task[t].op \in {"none", "begin", "poll", "finish", "abandon"}
      /\ late \subseteq Claims /\ opened \subseteq Claims
      /\ recovery \in Claims \union {None} /\ pendingKey \in Keys \union {None}
      /\ time \in Nat /\ Cooling \in Nat
      /\ \A c \in Claims : claim[c].ready \in Nat /\ claim[c].until \in Nat
      /\ \A t \in Coroutines : task[t].pc = "sent" =>
           task[t].key \in Keys /\ (task[t].call # "request" => task[t].req \in Claims)
  BY Numbers DEF TypeOK, Tasks
<1>2. ASSUME NEW t \in Coroutines, BeginRecovery(t)
      PROVE  Shaped'
  BY <1>2, <1>1, EnterMoves DEF BeginRecovery, Press
<1>3. ASSUME NEW t \in Coroutines, FinishRecovery(t)
      PROVE  Shaped'
  BY <1>3, <1>1, EnterMoves DEF FinishRecovery, Press
<1>4. ASSUME NEW t \in Coroutines, AbandonRecovery(t)
      PROVE  Shaped'
  BY <1>4, <1>1, EnterMoves DEF AbandonRecovery, Press
<1>5. ASSUME NEW t \in Coroutines, RecoveryProgress(t)
      PROVE  Shaped'
  BY <1>5, <1>1, EnterMoves DEF RecoveryProgress
<1>6. ASSUME NEW t \in Coroutines, Served(t)
      PROVE  Shaped'
  <2>1. PICK c \in Claims, a \in Answers :
          /\ Answering(t, c, a)
          /\ \/ Requesting(t, c, a) \/ Polling(t, c, a)
             \/ Completing(t, c, a) \/ Cancelling(t, c, a)
    BY <1>6, ServedCases
  <2>2. /\ task[t].pc = "sent"
        /\ Moves(t, task[t].op, "answered", c, task[t].key, task[t].call, a)
        /\ UNCHANGED <<stored, popup, user, late>>
    BY <2>1, AnsweringMoves
  <2>3. CASE Requesting(t, c, a)
    BY <2>2, <2>3, AskDoes, AskTimes, <1>1 DEF Requesting
  <2>4. CASE Polling(t, c, a)
    <3>1. CASE Server!Begin(c)
      BY <2>2, <2>4, <3>1, BeginDoes, BeginTimes, <1>1 DEF Polling
    <3>2. CASE UNCHANGED server
      BY <2>2, <2>4, <3>2, <1>1 DEF Polling
    <3> QED BY <2>4, <3>1, <3>2 DEF Polling
  <2>5. CASE Completing(t, c, a)
    BY <2>2, <2>5, TakeOverDoes, TakeOverTimes, <1>1 DEF Completing
  <2>6. CASE Cancelling(t, c, a)
    BY <2>2, <2>6, ObjectDoes, ObjectTimes, <1>1 DEF Cancelling
  <2> QED BY <2>1, <2>3, <2>4, <2>5, <2>6
<1>7. ASSUME NEW t \in Coroutines, CallFails(t)
      PROVE  Shaped'
  BY <1>7, <1>1, CallFailsMoves, CallFailsLate
<1>8. ASSUME NEW t \in Coroutines, AccessFails(t)
      PROVE  Shaped'
  BY <1>8, <1>1, GotoMoves, ThrowMoves DEF AccessFails, Caught, NotCaught
<1>9. ASSUME NEW t \in Coroutines, Exists(t)
      PROVE  Shaped'
  BY <1>9, <1>1, GotoMoves, ThrowMoves DEF Exists
<1>10. ASSUME NEW t \in Coroutines, NoneInProgress(t)
      PROVE  Shaped'
  BY <1>10, <1>1, NoneInProgressCases, GotoMoves, ReturnMoves, ThrowMoves
<1>11. ASSUME NEW t \in Coroutines, InProgress(t)
      PROVE  Shaped'
  BY <1>11, <1>1, StepMoves, ThrowMoves DEF InProgress
<1>12. ASSUME NEW t \in Coroutines, AskServer(t)
      PROVE  Shaped'
  BY <1>12, <1>1, SendMoves DEF AskServer, HasKey
<1>13. ASSUME NEW t \in Coroutines, NoKeyLeft(t)
      PROVE  Shaped'
  BY <1>13, <1>1, NoKeyLeftCases, GotoMoves, ThrowMoves
<1>14. ASSUME NEW t \in Coroutines, MakeKey(t)
      PROVE  Shaped'
  BY <1>14, <1>1, SendMoves DEF MakeKey, FreshKey
<1>15. ASSUME NEW t \in Coroutines, Requested(t)
      PROVE  Shaped'
  BY <1>15, <1>1, GotoMoves DEF Requested
<1>16. ASSUME NEW t \in Coroutines, WriteState(t)
      PROVE  Shaped'
  BY <1>16, <1>1, GotoMoves DEF WriteState
<1>17. ASSUME NEW t \in Coroutines, OpenCeremony(t)
      PROVE  Shaped'
  BY <1>17, <1>1, ReturnMoves DEF OpenCeremony
<1>18. ASSUME NEW t \in Coroutines, ProgressAnswered(t)
      PROVE  Shaped'
  BY <1>18, <1>1, ProgressAnsweredCases, GotoMoves, ReturnMoves, ThrowMoves
<1>19. ASSUME NEW t \in Coroutines, FinishAnswered(t)
      PROVE  Shaped'
  BY <1>19, <1>1, FinishAnsweredCases, GotoMoves, SendMoves, ThrowMoves
<1>20. ASSUME NEW t \in Coroutines, CompleteAnswered(t)
      PROVE  Shaped'
  BY <1>20, <1>1, GotoMoves, ThrowMoves DEF CompleteAnswered, CompletedNow
<1>21. ASSUME NEW t \in Coroutines, LoadPending(t)
      PROVE  Shaped'
  BY <1>21, <1>1, StepMoves, ThrowMoves DEF LoadPending
<1>22. ASSUME NEW t \in Coroutines, PromoteKey(t)
      PROVE  Shaped'
  BY <1>22, <1>1, GotoMoves DEF PromoteKey, Promote
<1>23. ASSUME NEW t \in Coroutines, StoreVault(t)
      PROVE  Shaped'
  BY <1>23, <1>1, GotoMoves DEF StoreVault
<1>24. ASSUME NEW t \in Coroutines, Restored(t)
      PROVE  Shaped'
  BY <1>24, <1>1, ReturnMoves DEF Restored
<1>25. ASSUME NEW t \in Coroutines, CancelAnswered(t)
      PROVE  Shaped'
  BY <1>25, <1>1, GotoMoves DEF CancelAnswered
<1>26. ASSUME NEW t \in Coroutines, Discard(t)
      PROVE  Shaped'
  BY <1>26, <1>1, GotoMoves DEF Discard
<1>27. ASSUME NEW t \in Coroutines, Clear(t)
      PROVE  Shaped'
  BY <1>27, <1>1, ClearCases, ReturnMoves, ThrowMoves
<1>28. ASSUME NEW c \in late, ServedLate(c)
      PROVE  Shaped'
  BY <1>28, <1>1, ServedLateCases, TakeOverDoes, TakeOverTimes
<1>29. ASSUME NEW c \in Claims, Object(c)
      PROVE  Shaped'
  BY <1>29, <1>1, ObjectDoes, ObjectTimes DEF Object
<1>30. ASSUME NEW c \in Claims, Approve(c)
      PROVE  Shaped'
  BY <1>30, <1>1 DEF Approve, Server!Approve
<1>31. CASE WorkerStops
  BY <1>31, <1>1, StopsLate DEF WorkerStops, Idle
<1>32. CASE Tick
  BY <1>32, <1>1 DEF Tick, Server!Advance
\* No other action changes what this is about.
<1>33. CASE OpenPopup \/ ClosePopup \/ StartAgain
  BY <1>33, <1>1 DEF OpenPopup, ClosePopup, StartAgain, Show
<1>34. CASE UNCHANGED vars
  BY <1>34 DEF vars
<1> HIDE DEF Inv, server, stored, popup, user, Moves, Ends, Keeps, Times, Shaped, Carried, Calls
<1> QED BY <1>2, <1>3, <1>4, <1>5, <1>6, <1>7, <1>8, <1>9, <1>10, <1>11, <1>12, <1>13, <1>14,
    <1>15, <1>16, <1>17, <1>18, <1>19, <1>20, <1>21, <1>22, <1>23, <1>24, <1>25, <1>26, <1>27,
    <1>28, <1>29, <1>30, <1>31, <1>32, <1>33, <1>34 DEF Next, Work

\* A request and a key, once read, go along to the place that uses them.
LEMMA CarriedStep ==
    ASSUME Inv, [Next]_vars
    PROVE  Carried'
<1> USE NoneIsNew DEF Inv, server, stored, popup, user, Moves, Ends, Keeps, Times, Carried,
    Shaped, Calls, Reports
<1>1. /\ \A t \in Coroutines : task[t].op \in {"none", "begin", "poll", "finish", "abandon"}
      /\ late \subseteq Claims /\ opened \subseteq Claims
      /\ recovery \in Claims \union {None} /\ pendingKey \in Keys \union {None}
      /\ time \in Nat /\ Cooling \in Nat
      /\ \A c \in Claims : claim[c].ready \in Nat /\ claim[c].until \in Nat
      /\ \A t \in Coroutines : task[t].pc = "sent" =>
           task[t].key \in Keys /\ (task[t].call # "request" => task[t].req \in Claims)
  BY Numbers DEF TypeOK, Tasks
<1>2. ASSUME NEW t \in Coroutines, BeginRecovery(t)
      PROVE  Carried'
  BY <1>2, <1>1, EnterMoves DEF BeginRecovery, Press
<1>3. ASSUME NEW t \in Coroutines, FinishRecovery(t)
      PROVE  Carried'
  BY <1>3, <1>1, EnterMoves DEF FinishRecovery, Press
<1>4. ASSUME NEW t \in Coroutines, AbandonRecovery(t)
      PROVE  Carried'
  BY <1>4, <1>1, EnterMoves DEF AbandonRecovery, Press
<1>5. ASSUME NEW t \in Coroutines, RecoveryProgress(t)
      PROVE  Carried'
  BY <1>5, <1>1, EnterMoves DEF RecoveryProgress
<1>6. ASSUME NEW t \in Coroutines, Served(t)
      PROVE  Carried'
  <2>1. PICK c \in Claims, a \in Answers :
          /\ Answering(t, c, a)
          /\ \/ Requesting(t, c, a) \/ Polling(t, c, a)
             \/ Completing(t, c, a) \/ Cancelling(t, c, a)
    BY <1>6, ServedCases
  <2>2. /\ task[t].pc = "sent"
        /\ Moves(t, task[t].op, "answered", c, task[t].key, task[t].call, a)
        /\ UNCHANGED <<stored, popup, user, late>>
    BY <2>1, AnsweringMoves
  <2>3. /\ task[t].call \in Calls /\ task[t].key \in Keys
        /\ task[t].call = "status" => a \in Reports
    BY <2>1, <2>2, <1>1 DEF Requesting, Polling, Completing, Cancelling
  <2> QED BY <2>2, <2>3
<1>7. ASSUME NEW t \in Coroutines, CallFails(t)
      PROVE  Carried'
  BY <1>7, <1>1, CallFailsMoves, CallFailsLate
<1>8. ASSUME NEW t \in Coroutines, AccessFails(t)
      PROVE  Carried'
  BY <1>8, <1>1, GotoMoves, ThrowMoves DEF AccessFails, Caught, NotCaught
<1>9. ASSUME NEW t \in Coroutines, Exists(t)
      PROVE  Carried'
  BY <1>9, <1>1, GotoMoves, ThrowMoves DEF Exists
<1>10. ASSUME NEW t \in Coroutines, NoneInProgress(t)
      PROVE  Carried'
  BY <1>10, <1>1, NoneInProgressCases, GotoMoves, ReturnMoves, ThrowMoves
<1>11. ASSUME NEW t \in Coroutines, InProgress(t)
      PROVE  Carried'
  BY <1>11, <1>1, StepMoves, ThrowMoves DEF InProgress
<1>12. ASSUME NEW t \in Coroutines, AskServer(t)
      PROVE  Carried'
  BY <1>12, <1>1, SendMoves DEF AskServer, HasKey
<1>13. ASSUME NEW t \in Coroutines, NoKeyLeft(t)
      PROVE  Carried'
  BY <1>13, <1>1, NoKeyLeftCases, GotoMoves, ThrowMoves
<1>14. ASSUME NEW t \in Coroutines, MakeKey(t)
      PROVE  Carried'
  BY <1>14, <1>1, SendMoves DEF MakeKey, FreshKey
<1>15. ASSUME NEW t \in Coroutines, Requested(t)
      PROVE  Carried'
  BY <1>15, <1>1, GotoMoves DEF Requested
<1>16. ASSUME NEW t \in Coroutines, WriteState(t)
      PROVE  Carried'
  BY <1>16, <1>1, GotoMoves DEF WriteState
<1>17. ASSUME NEW t \in Coroutines, OpenCeremony(t)
      PROVE  Carried'
  BY <1>17, <1>1, ReturnMoves DEF OpenCeremony
<1>18. ASSUME NEW t \in Coroutines, ProgressAnswered(t)
      PROVE  Carried'
  BY <1>18, <1>1, ProgressAnsweredCases, GotoMoves, ReturnMoves, ThrowMoves
<1>19. ASSUME NEW t \in Coroutines, FinishAnswered(t)
      PROVE  Carried'
  BY <1>19, <1>1, FinishAnsweredCases, GotoMoves, SendMoves, ThrowMoves
<1>20. ASSUME NEW t \in Coroutines, CompleteAnswered(t)
      PROVE  Carried'
  BY <1>20, <1>1, GotoMoves, ThrowMoves DEF CompleteAnswered, CompletedNow
<1>21. ASSUME NEW t \in Coroutines, LoadPending(t)
      PROVE  Carried'
  BY <1>21, <1>1, StepMoves, ThrowMoves DEF LoadPending
<1>22. ASSUME NEW t \in Coroutines, PromoteKey(t)
      PROVE  Carried'
  BY <1>22, <1>1, GotoMoves DEF PromoteKey, Promote
<1>23. ASSUME NEW t \in Coroutines, StoreVault(t)
      PROVE  Carried'
  BY <1>23, <1>1, GotoMoves DEF StoreVault
<1>24. ASSUME NEW t \in Coroutines, Restored(t)
      PROVE  Carried'
  BY <1>24, <1>1, ReturnMoves DEF Restored
<1>25. ASSUME NEW t \in Coroutines, CancelAnswered(t)
      PROVE  Carried'
  BY <1>25, <1>1, GotoMoves DEF CancelAnswered
<1>26. ASSUME NEW t \in Coroutines, Discard(t)
      PROVE  Carried'
  BY <1>26, <1>1, GotoMoves DEF Discard
<1>27. ASSUME NEW t \in Coroutines, Clear(t)
      PROVE  Carried'
  BY <1>27, <1>1, ClearCases, ReturnMoves, ThrowMoves
<1>28. ASSUME NEW c \in late, ServedLate(c)
      PROVE  Carried'
  BY <1>28, <1>1, ServedLateCases, TakeOverDoes, TakeOverTimes
<1>29. ASSUME NEW c \in Claims, Object(c)
      PROVE  Carried'
  BY <1>29, <1>1, ObjectDoes, ObjectTimes DEF Object
<1>30. ASSUME NEW c \in Claims, Approve(c)
      PROVE  Carried'
  BY <1>30, <1>1 DEF Approve, Server!Approve
<1>31. CASE WorkerStops
  BY <1>31, <1>1, StopsLate DEF WorkerStops, Idle
<1>32. CASE Tick
  BY <1>32, <1>1 DEF Tick, Server!Advance
\* No other action changes what this is about.
<1>33. CASE OpenPopup \/ ClosePopup \/ StartAgain
  BY <1>33, <1>1 DEF OpenPopup, ClosePopup, StartAgain, Show
<1>34. CASE UNCHANGED vars
  BY <1>34 DEF vars
<1> HIDE DEF Inv, server, stored, popup, user, Moves, Ends, Keeps, Times, Carried, Shaped,
    Calls, Reports
<1> QED BY <1>2, <1>3, <1>4, <1>5, <1>6, <1>7, <1>8, <1>9, <1>10, <1>11, <1>12, <1>13, <1>14,
    <1>15, <1>16, <1>17, <1>18, <1>19, <1>20, <1>21, <1>22, <1>23, <1>24, <1>25, <1>26, <1>27,
    <1>28, <1>29, <1>30, <1>31, <1>32, <1>33, <1>34 DEF Next, Work

\* A start opens the tab of a request the server has.
LEMMA OnlyOpenedStep ==
    ASSUME Inv, [Next]_vars
    PROVE  OnlyOpened'
<1> USE NoneIsNew DEF Inv, server, stored, popup, user, Moves, Ends, Keeps, Times, OnlyOpened,
    Beginning, HasRequest, Shaped, Carried
<1>1. /\ \A t \in Coroutines : task[t].op \in {"none", "begin", "poll", "finish", "abandon"}
      /\ late \subseteq Claims /\ opened \subseteq Claims
      /\ recovery \in Claims \union {None} /\ pendingKey \in Keys \union {None}
      /\ time \in Nat /\ Cooling \in Nat
      /\ \A c \in Claims : claim[c].ready \in Nat /\ claim[c].until \in Nat
      /\ \A t \in Coroutines : task[t].pc = "sent" =>
           task[t].key \in Keys /\ (task[t].call # "request" => task[t].req \in Claims)
  BY Numbers DEF TypeOK, Tasks
<1>2. ASSUME NEW t \in Coroutines, BeginRecovery(t)
      PROVE  OnlyOpened'
  BY <1>2, <1>1, EnterMoves DEF BeginRecovery, Press
<1>3. ASSUME NEW t \in Coroutines, FinishRecovery(t)
      PROVE  OnlyOpened'
  BY <1>3, <1>1, EnterMoves DEF FinishRecovery, Press
<1>4. ASSUME NEW t \in Coroutines, AbandonRecovery(t)
      PROVE  OnlyOpened'
  BY <1>4, <1>1, EnterMoves DEF AbandonRecovery, Press
<1>5. ASSUME NEW t \in Coroutines, RecoveryProgress(t)
      PROVE  OnlyOpened'
  BY <1>5, <1>1, EnterMoves DEF RecoveryProgress
<1>6. ASSUME NEW t \in Coroutines, Served(t)
      PROVE  OnlyOpened'
  <2>1. PICK c \in Claims, a \in Answers :
          /\ Answering(t, c, a)
          /\ \/ Requesting(t, c, a) \/ Polling(t, c, a)
             \/ Completing(t, c, a) \/ Cancelling(t, c, a)
    BY <1>6, ServedCases
  <2>2. /\ task[t].pc = "sent"
        /\ Moves(t, task[t].op, "answered", c, task[t].key, task[t].call, a)
        /\ UNCHANGED <<stored, popup, user, late>>
    BY <2>1, AnsweringMoves
  <2>3. CASE Requesting(t, c, a)
    BY <2>2, <2>3, AskDoes, AskTimes, <1>1 DEF Requesting
  <2>4. CASE Polling(t, c, a)
    <3>1. CASE Server!Begin(c)
      BY <2>2, <2>4, <3>1, BeginDoes, BeginTimes, <1>1 DEF Polling
    <3>2. CASE UNCHANGED server
      BY <2>2, <2>4, <3>2, <1>1 DEF Polling
    <3> QED BY <2>4, <3>1, <3>2 DEF Polling
  <2>5. CASE Completing(t, c, a)
    BY <2>2, <2>5, TakeOverDoes, TakeOverTimes, <1>1 DEF Completing
  <2>6. CASE Cancelling(t, c, a)
    BY <2>2, <2>6, ObjectDoes, ObjectTimes, <1>1 DEF Cancelling
  <2> QED BY <2>1, <2>3, <2>4, <2>5, <2>6
<1>7. ASSUME NEW t \in Coroutines, CallFails(t)
      PROVE  OnlyOpened'
  BY <1>7, <1>1, CallFailsMoves, CallFailsLate
<1>8. ASSUME NEW t \in Coroutines, AccessFails(t)
      PROVE  OnlyOpened'
  BY <1>8, <1>1, GotoMoves, ThrowMoves DEF AccessFails, Caught, NotCaught
<1>9. ASSUME NEW t \in Coroutines, Exists(t)
      PROVE  OnlyOpened'
  BY <1>9, <1>1, GotoMoves, ThrowMoves DEF Exists
<1>10. ASSUME NEW t \in Coroutines, NoneInProgress(t)
      PROVE  OnlyOpened'
  BY <1>10, <1>1, NoneInProgressCases, GotoMoves, ReturnMoves, ThrowMoves
<1>11. ASSUME NEW t \in Coroutines, InProgress(t)
      PROVE  OnlyOpened'
  BY <1>11, <1>1, StepMoves, ThrowMoves DEF InProgress
<1>12. ASSUME NEW t \in Coroutines, AskServer(t)
      PROVE  OnlyOpened'
  BY <1>12, <1>1, SendMoves DEF AskServer, HasKey
<1>13. ASSUME NEW t \in Coroutines, NoKeyLeft(t)
      PROVE  OnlyOpened'
  BY <1>13, <1>1, NoKeyLeftCases, GotoMoves, ThrowMoves
<1>14. ASSUME NEW t \in Coroutines, MakeKey(t)
      PROVE  OnlyOpened'
  BY <1>14, <1>1, SendMoves DEF MakeKey, FreshKey
<1>15. ASSUME NEW t \in Coroutines, Requested(t)
      PROVE  OnlyOpened'
  BY <1>15, <1>1, GotoMoves DEF Requested
<1>16. ASSUME NEW t \in Coroutines, WriteState(t)
      PROVE  OnlyOpened'
  BY <1>16, <1>1, GotoMoves DEF WriteState
<1>17. ASSUME NEW t \in Coroutines, OpenCeremony(t)
      PROVE  OnlyOpened'
  BY <1>17, <1>1, ReturnMoves DEF OpenCeremony
<1>18. ASSUME NEW t \in Coroutines, ProgressAnswered(t)
      PROVE  OnlyOpened'
  BY <1>18, <1>1, ProgressAnsweredCases, GotoMoves, ReturnMoves, ThrowMoves
<1>19. ASSUME NEW t \in Coroutines, FinishAnswered(t)
      PROVE  OnlyOpened'
  BY <1>19, <1>1, FinishAnsweredCases, GotoMoves, SendMoves, ThrowMoves
<1>20. ASSUME NEW t \in Coroutines, CompleteAnswered(t)
      PROVE  OnlyOpened'
  BY <1>20, <1>1, GotoMoves, ThrowMoves DEF CompleteAnswered, CompletedNow
<1>21. ASSUME NEW t \in Coroutines, LoadPending(t)
      PROVE  OnlyOpened'
  BY <1>21, <1>1, StepMoves, ThrowMoves DEF LoadPending
<1>22. ASSUME NEW t \in Coroutines, PromoteKey(t)
      PROVE  OnlyOpened'
  BY <1>22, <1>1, GotoMoves DEF PromoteKey, Promote
<1>23. ASSUME NEW t \in Coroutines, StoreVault(t)
      PROVE  OnlyOpened'
  BY <1>23, <1>1, GotoMoves DEF StoreVault
<1>24. ASSUME NEW t \in Coroutines, Restored(t)
      PROVE  OnlyOpened'
  BY <1>24, <1>1, ReturnMoves DEF Restored
<1>25. ASSUME NEW t \in Coroutines, CancelAnswered(t)
      PROVE  OnlyOpened'
  BY <1>25, <1>1, GotoMoves DEF CancelAnswered
<1>26. ASSUME NEW t \in Coroutines, Discard(t)
      PROVE  OnlyOpened'
  BY <1>26, <1>1, GotoMoves DEF Discard
<1>27. ASSUME NEW t \in Coroutines, Clear(t)
      PROVE  OnlyOpened'
  BY <1>27, <1>1, ClearCases, ReturnMoves, ThrowMoves
<1>28. ASSUME NEW c \in late, ServedLate(c)
      PROVE  OnlyOpened'
  BY <1>28, <1>1, ServedLateCases, TakeOverDoes, TakeOverTimes
<1>29. ASSUME NEW c \in Claims, Object(c)
      PROVE  OnlyOpened'
  BY <1>29, <1>1, ObjectDoes, ObjectTimes DEF Object
<1>30. ASSUME NEW c \in Claims, Approve(c)
      PROVE  OnlyOpened'
  BY <1>30, <1>1 DEF Approve, Server!Approve
<1>31. CASE WorkerStops
  BY <1>31, <1>1, StopsLate DEF WorkerStops, Idle
<1>32. CASE Tick
  BY <1>32, <1>1 DEF Tick, Server!Advance
\* No other action changes what this is about.
<1>33. CASE OpenPopup \/ ClosePopup \/ StartAgain
  BY <1>33, <1>1 DEF OpenPopup, ClosePopup, StartAgain, Show
<1>34. CASE UNCHANGED vars
  BY <1>34 DEF vars
<1> HIDE DEF Inv, server, stored, popup, user, Moves, Ends, Keeps, Times, OnlyOpened, Beginning,
    HasRequest, Shaped, Carried
<1> QED BY <1>2, <1>3, <1>4, <1>5, <1>6, <1>7, <1>8, <1>9, <1>10, <1>11, <1>12, <1>13, <1>14,
    <1>15, <1>16, <1>17, <1>18, <1>19, <1>20, <1>21, <1>22, <1>23, <1>24, <1>25, <1>26, <1>27,
    <1>28, <1>29, <1>30, <1>31, <1>32, <1>33, <1>34 DEF Next, Work

\* A request is drawn once, and opened by the start that drew it.
LEMMA BeginningStep ==
    ASSUME Inv, [Next]_vars
    PROVE  Beginning'
<1> USE NoneIsNew DEF Inv, server, stored, popup, user, Moves, Ends, Keeps, Times, Beginning,
    HasRequest, OnlyOpened, Shaped, Carried
<1>1. /\ \A t \in Coroutines : task[t].op \in {"none", "begin", "poll", "finish", "abandon"}
      /\ late \subseteq Claims /\ opened \subseteq Claims
      /\ recovery \in Claims \union {None} /\ pendingKey \in Keys \union {None}
      /\ time \in Nat /\ Cooling \in Nat
      /\ \A c \in Claims : claim[c].ready \in Nat /\ claim[c].until \in Nat
      /\ \A t \in Coroutines : task[t].pc = "sent" =>
           task[t].key \in Keys /\ (task[t].call # "request" => task[t].req \in Claims)
  BY Numbers DEF TypeOK, Tasks
<1>2. ASSUME NEW t \in Coroutines, BeginRecovery(t)
      PROVE  Beginning'
  BY <1>2, <1>1, EnterMoves DEF BeginRecovery, Press
<1>3. ASSUME NEW t \in Coroutines, FinishRecovery(t)
      PROVE  Beginning'
  BY <1>3, <1>1, EnterMoves DEF FinishRecovery, Press
<1>4. ASSUME NEW t \in Coroutines, AbandonRecovery(t)
      PROVE  Beginning'
  BY <1>4, <1>1, EnterMoves DEF AbandonRecovery, Press
<1>5. ASSUME NEW t \in Coroutines, RecoveryProgress(t)
      PROVE  Beginning'
  BY <1>5, <1>1, EnterMoves DEF RecoveryProgress
<1>6. ASSUME NEW t \in Coroutines, Served(t)
      PROVE  Beginning'
  <2>1. PICK c \in Claims, a \in Answers :
          /\ Answering(t, c, a)
          /\ \/ Requesting(t, c, a) \/ Polling(t, c, a)
             \/ Completing(t, c, a) \/ Cancelling(t, c, a)
    BY <1>6, ServedCases
  <2>2. /\ task[t].pc = "sent"
        /\ Moves(t, task[t].op, "answered", c, task[t].key, task[t].call, a)
        /\ UNCHANGED <<stored, popup, user, late>>
    BY <2>1, AnsweringMoves
  <2>3. CASE Requesting(t, c, a)
    BY <2>2, <2>3, AskDoes, AskTimes, <1>1 DEF Requesting
  <2>4. CASE Polling(t, c, a)
    <3>1. CASE Server!Begin(c)
      BY <2>2, <2>4, <3>1, BeginDoes, BeginTimes, <1>1 DEF Polling
    <3>2. CASE UNCHANGED server
      BY <2>2, <2>4, <3>2, <1>1 DEF Polling
    <3> QED BY <2>4, <3>1, <3>2 DEF Polling
  <2>5. CASE Completing(t, c, a)
    BY <2>2, <2>5, TakeOverDoes, TakeOverTimes, <1>1 DEF Completing
  <2>6. CASE Cancelling(t, c, a)
    BY <2>2, <2>6, ObjectDoes, ObjectTimes, <1>1 DEF Cancelling
  <2> QED BY <2>1, <2>3, <2>4, <2>5, <2>6
<1>7. ASSUME NEW t \in Coroutines, CallFails(t)
      PROVE  Beginning'
  BY <1>7, <1>1, CallFailsMoves, CallFailsLate
<1>8. ASSUME NEW t \in Coroutines, AccessFails(t)
      PROVE  Beginning'
  BY <1>8, <1>1, GotoMoves, ThrowMoves DEF AccessFails, Caught, NotCaught
<1>9. ASSUME NEW t \in Coroutines, Exists(t)
      PROVE  Beginning'
  BY <1>9, <1>1, GotoMoves, ThrowMoves DEF Exists
<1>10. ASSUME NEW t \in Coroutines, NoneInProgress(t)
      PROVE  Beginning'
  BY <1>10, <1>1, NoneInProgressCases, GotoMoves, ReturnMoves, ThrowMoves
<1>11. ASSUME NEW t \in Coroutines, InProgress(t)
      PROVE  Beginning'
  BY <1>11, <1>1, StepMoves, ThrowMoves DEF InProgress
<1>12. ASSUME NEW t \in Coroutines, AskServer(t)
      PROVE  Beginning'
  BY <1>12, <1>1, SendMoves DEF AskServer, HasKey
<1>13. ASSUME NEW t \in Coroutines, NoKeyLeft(t)
      PROVE  Beginning'
  BY <1>13, <1>1, NoKeyLeftCases, GotoMoves, ThrowMoves
<1>14. ASSUME NEW t \in Coroutines, MakeKey(t)
      PROVE  Beginning'
  BY <1>14, <1>1, SendMoves DEF MakeKey, FreshKey
<1>15. ASSUME NEW t \in Coroutines, Requested(t)
      PROVE  Beginning'
  BY <1>15, <1>1, GotoMoves DEF Requested
<1>16. ASSUME NEW t \in Coroutines, WriteState(t)
      PROVE  Beginning'
  BY <1>16, <1>1, GotoMoves DEF WriteState
<1>17. ASSUME NEW t \in Coroutines, OpenCeremony(t)
      PROVE  Beginning'
  BY <1>17, <1>1, ReturnMoves DEF OpenCeremony
<1>18. ASSUME NEW t \in Coroutines, ProgressAnswered(t)
      PROVE  Beginning'
  BY <1>18, <1>1, ProgressAnsweredCases, GotoMoves, ReturnMoves, ThrowMoves
<1>19. ASSUME NEW t \in Coroutines, FinishAnswered(t)
      PROVE  Beginning'
  BY <1>19, <1>1, FinishAnsweredCases, GotoMoves, SendMoves, ThrowMoves
<1>20. ASSUME NEW t \in Coroutines, CompleteAnswered(t)
      PROVE  Beginning'
  BY <1>20, <1>1, GotoMoves, ThrowMoves DEF CompleteAnswered, CompletedNow
<1>21. ASSUME NEW t \in Coroutines, LoadPending(t)
      PROVE  Beginning'
  BY <1>21, <1>1, StepMoves, ThrowMoves DEF LoadPending
<1>22. ASSUME NEW t \in Coroutines, PromoteKey(t)
      PROVE  Beginning'
  BY <1>22, <1>1, GotoMoves DEF PromoteKey, Promote
<1>23. ASSUME NEW t \in Coroutines, StoreVault(t)
      PROVE  Beginning'
  BY <1>23, <1>1, GotoMoves DEF StoreVault
<1>24. ASSUME NEW t \in Coroutines, Restored(t)
      PROVE  Beginning'
  BY <1>24, <1>1, ReturnMoves DEF Restored
<1>25. ASSUME NEW t \in Coroutines, CancelAnswered(t)
      PROVE  Beginning'
  BY <1>25, <1>1, GotoMoves DEF CancelAnswered
<1>26. ASSUME NEW t \in Coroutines, Discard(t)
      PROVE  Beginning'
  BY <1>26, <1>1, GotoMoves DEF Discard
<1>27. ASSUME NEW t \in Coroutines, Clear(t)
      PROVE  Beginning'
  BY <1>27, <1>1, ClearCases, ReturnMoves, ThrowMoves
<1>28. ASSUME NEW c \in late, ServedLate(c)
      PROVE  Beginning'
  BY <1>28, <1>1, ServedLateCases, TakeOverDoes, TakeOverTimes
<1>29. ASSUME NEW c \in Claims, Object(c)
      PROVE  Beginning'
  BY <1>29, <1>1, ObjectDoes, ObjectTimes DEF Object
<1>30. ASSUME NEW c \in Claims, Approve(c)
      PROVE  Beginning'
  BY <1>30, <1>1 DEF Approve, Server!Approve
<1>31. CASE WorkerStops
  BY <1>31, <1>1, StopsLate DEF WorkerStops, Idle
<1>32. CASE Tick
  BY <1>32, <1>1 DEF Tick, Server!Advance
\* No other action changes what this is about.
<1>33. CASE OpenPopup \/ ClosePopup \/ StartAgain
  BY <1>33, <1>1 DEF OpenPopup, ClosePopup, StartAgain, Show
<1>34. CASE UNCHANGED vars
  BY <1>34 DEF vars
<1> HIDE DEF Inv, server, stored, popup, user, Moves, Ends, Keeps, Times, Beginning, HasRequest,
    OnlyOpened, Shaped, Carried
<1> QED BY <1>2, <1>3, <1>4, <1>5, <1>6, <1>7, <1>8, <1>9, <1>10, <1>11, <1>12, <1>13, <1>14,
    <1>15, <1>16, <1>17, <1>18, <1>19, <1>20, <1>21, <1>22, <1>23, <1>24, <1>25, <1>26, <1>27,
    <1>28, <1>29, <1>30, <1>31, <1>32, <1>33, <1>34 DEF Next, Work

LEMMA Initially == Init => Inv
<1> SUFFICES ASSUME Init PROVE Inv
  OBVIOUS
<1>1. ServerTyped
  BY DurationsAreNaturals DEF Init, Server!Init, Server!NoClaim, ServerTyped, Server!Phases
<1>2. StorageTyped /\ PopupTyped
  BY DEF Init, StorageTyped, PopupTyped
<1>3. /\ TaskTyped
      /\ \A t \in Coroutines : task[t].op = "none" /\ task[t].pc = "idle"
  BY DEF Init, TaskTyped, Idle, Tasks
<1>4. TypeOK
  BY <1>1, <1>2, <1>3, Parts DEF Typed
<1>5. \A c \in Claims : claim[c].phase = "absent"
  BY DEF Init, Server!Init, Server!NoClaim
<1>6. Shaped /\ Carried
  BY <1>3 DEF Shaped, Carried
<1>7. OnlyOpened /\ Beginning
  BY <1>3, <1>5 DEF Init, Server!Init, OnlyOpened, Beginning, HasRequest
<1> QED
  BY <1>4, <1>6, <1>7 DEF Inv

LEMMA Inductive == Inv /\ [Next]_vars => Inv'
<1> SUFFICES ASSUME Inv, [Next]_vars PROVE Inv'
  OBVIOUS
<1>1. TypeOK' /\ Shaped' /\ Carried'
  BY TypeStep, ShapedStep, CarriedStep
<1>2. OnlyOpened' /\ Beginning'
  BY OnlyOpenedStep, BeginningStep
<1> QED
  BY <1>1, <1>2 DEF Inv

\* Every variable, and every coroutine, keeps its type.
THEOREM TypeCorrect == Spec => []TypeOK
<1>1. Init => Inv
  BY Initially
<1>2. Inv /\ [Next]_vars => Inv'
  BY Inductive
<1>3. Inv => TypeOK
  BY DEF Inv
<1> QED
  BY <1>1, <1>2, <1>3, PTL DEF Spec

-----------------------------------------------------------------------------
(* The key that took over stays, and the vault comes with it, when the wait *)
(* is not empty                                                             *)

\* No two claims have one key, nor will those that are being asked for.
Asks(t) == task[t].op = "begin" /\ task[t].pc = "sent"
KeysDiffer ==
    /\ \A c \in Claims : claim[c].phase # "absent" => claim[c].key # None
    /\ \A c, d \in Claims : c # d /\ claim[c].phase # "absent" /\ claim[d].phase # "absent" =>
         claim[c].key # claim[d].key
    /\ \A t \in Coroutines, c \in Claims : Asks(t) /\ claim[c].phase # "absent" =>
         claim[c].key # task[t].key
    /\ \A t, u \in Coroutines : Asks(t) /\ Asks(u) /\ t # u => task[t].key # task[u].key

\* A recovery, and what was read of it, names a request the server has.
Looks(t) == task[t].op \in {"poll", "finish"} /\ task[t].pc \notin {"exists", "state"}
Known ==
    /\ recovery # None => claim[recovery].phase # "absent"
    /\ \A t \in Coroutines : Looks(t) =>
         task[t].req \in Claims /\ claim[task[t].req].phase # "absent"

\* A claim that somebody is about to complete has waited, or is over.
Waited(c) == Ripe(c) \/ claim[c].phase = "over"
Completes(t) ==
    /\ task[t].op = "finish"
    /\ \/ task[t].pc \in {"sent", "answered"} /\ task[t].call = "complete"
       \/ task[t].pc = "answered" /\ task[t].call = "status" /\ task[t].answer = "ready"
WaitedFirst ==
    /\ \A c \in late : Waited(c)
    /\ \A t \in Coroutines : Completes(t) => Waited(task[t].req)

\* Polls and finishes clean up only after a recovery that ended or lost its key.
ToldOver(t) == task[t].pc = "answered" /\ task[t].call = "status" /\ task[t].answer = "over"
CleansUp ==
    \A t \in Coroutines : Looks(t) =>
        /\ task[t].pc = "discard" \/ ToldOver(t) => Ended(task[t].req)
        /\ task[t].pc = "clear" =>
             Ended(task[t].req) \/ pendingKey # claim[task[t].req].key

\* A finish promotes and stores only after its claim has taken over.
SawTakeover(t) ==
    /\ task[t].op = "finish"
    /\ \/ task[t].pc \in {"load", "activate", "promoted", "store", "stored"}
       \/ task[t].pc = "answered" /\ task[t].call = "status" /\ task[t].answer = "completed"
       \/ task[t].pc = "answered" /\ task[t].call = "complete" /\ task[t].answer = "done"
StoresTaken ==
    \A t \in Coroutines : SawTakeover(t) =>
        task[t].req \in Claims /\ claim[task[t].req].phase = "taken"

\* The key the server trusts is that of a claim, and there is one by then.
Holds(c) == claim[c].phase = "taken" /\ key = claim[c].key
Trusted ==
    /\ key # None => \E c \in Claims : Holds(c)
    /\ \A c \in Claims : claim[c].phase = "taken" => key # None
    /\ vault => key # None

\* The claim's key is the server's, or can become it.
Due(c) ==
    \/ claim[c].phase = "waiting" /\ claim[c].ready <= time /\ time <= claim[c].until
    \/ Holds(c)

\* It is set aside, nobody takes it away, and no other is promoted,
Kept(c) ==
    /\ recovery = c /\ pendingKey = claim[c].key /\ ~ vault
    /\ \A t \in Coroutines :
         /\ task[t].op \in {"poll", "finish"} => task[t].req \in {None, c}
         /\ task[t].op \in {"begin", "abandon"} => task[t].pc \in {"exists", "state"}
         /\ task[t].pc \notin {"promoted", "store", "stored"}
         /\ task[t].pc = "activate" => task[t].key = claim[c].key

\* or nobody completes the claim any more,
FinishOf(t, c) == task[t].op = "finish" /\ task[t].req = c
Lost(c) ==
    /\ claim[c].phase = "waiting" /\ c \notin late
    /\ \A t \in Coroutines : FinishOf(t, c) =>
         /\ task[t].pc = "sent" => task[t].key # claim[c].key
         /\ task[t].pc = "answered" => task[t].answer = "error"
    /\ \/ pendingKey # claim[c].key
       \/ recovery # c /\ \A t \in Coroutines : ~ FinishOf(t, c)
       \/ /\ vault
          /\ \A t \in Coroutines : task[t].op = "finish" =>
               task[t].pc \in {"exists", "discard", "clear"}

\* or it is promoted, and every finish that still runs promotes it again.
Promoted(c) ==
    /\ Holds(c) /\ activeKey = key /\ pendingKey \in {None, key}
    /\ \A t \in Coroutines : task[t].pc = "activate" => task[t].key = key

KeptOrLost == \A c \in Claims \ gaveUp : Due(c) => Kept(c) \/ Lost(c) \/ Promoted(c)

Lasting ==
    /\ Inv /\ KeysDiffer /\ Known /\ WaitedFirst /\ CleansUp /\ StoresTaken /\ Trusted
    /\ KeptOrLost

\* A start makes a new key, and asks with it once.
LEMMA KeysDifferStep ==
    ASSUME Lasting, [Next]_vars
    PROVE  KeysDiffer'
<1> USE NoneIsNew DEF Lasting, Inv, Shaped, Carried, Calls, server, stored, popup, user, Moves,
    Ends, Keeps, Times, KeysDiffer, Asks
<1>1. /\ \A t \in Coroutines : task[t].op \in {"none", "begin", "poll", "finish", "abandon"}
      /\ late \subseteq Claims /\ opened \subseteq Claims
      /\ recovery \in Claims \union {None} /\ pendingKey \in Keys \union {None}
      /\ time \in Nat /\ Cooling \in Nat
      /\ \A c \in Claims : claim[c].ready \in Nat /\ claim[c].until \in Nat
      /\ \A t \in Coroutines : task[t].pc = "sent" =>
           task[t].key \in Keys /\ (task[t].call # "request" => task[t].req \in Claims)
  BY Numbers DEF TypeOK, Tasks
<1>2. ASSUME NEW t \in Coroutines, BeginRecovery(t)
      PROVE  KeysDiffer'
  BY <1>2, <1>1, EnterMoves DEF BeginRecovery, Press
<1>3. ASSUME NEW t \in Coroutines, FinishRecovery(t)
      PROVE  KeysDiffer'
  BY <1>3, <1>1, EnterMoves DEF FinishRecovery, Press
<1>4. ASSUME NEW t \in Coroutines, AbandonRecovery(t)
      PROVE  KeysDiffer'
  BY <1>4, <1>1, EnterMoves DEF AbandonRecovery, Press
<1>5. ASSUME NEW t \in Coroutines, RecoveryProgress(t)
      PROVE  KeysDiffer'
  BY <1>5, <1>1, EnterMoves DEF RecoveryProgress
<1>6. ASSUME NEW t \in Coroutines, Served(t)
      PROVE  KeysDiffer'
  <2>1. PICK c \in Claims, a \in Answers :
          /\ Answering(t, c, a)
          /\ \/ Requesting(t, c, a) \/ Polling(t, c, a)
             \/ Completing(t, c, a) \/ Cancelling(t, c, a)
    BY <1>6, ServedCases
  <2>2. /\ task[t].pc = "sent"
        /\ Moves(t, task[t].op, "answered", c, task[t].key, task[t].call, a)
        /\ UNCHANGED <<stored, popup, user, late>>
    BY <2>1, AnsweringMoves
  <2>3. CASE Requesting(t, c, a)
    BY <2>2, <2>3, AskDoes, AskTimes, <1>1 DEF Requesting
  <2>4. CASE Polling(t, c, a)
    <3>1. CASE Server!Begin(c)
      BY <2>2, <2>4, <3>1, BeginDoes, BeginTimes, <1>1 DEF Polling
    <3>2. CASE UNCHANGED server
      BY <2>2, <2>4, <3>2, <1>1 DEF Polling
    <3> QED BY <2>4, <3>1, <3>2 DEF Polling
  <2>5. CASE Completing(t, c, a)
    BY <2>2, <2>5, TakeOverDoes, TakeOverTimes, <1>1 DEF Completing
  <2>6. CASE Cancelling(t, c, a)
    BY <2>2, <2>6, ObjectDoes, ObjectTimes, <1>1 DEF Cancelling
  <2> QED BY <2>1, <2>3, <2>4, <2>5, <2>6
<1>7. ASSUME NEW t \in Coroutines, CallFails(t)
      PROVE  KeysDiffer'
  BY <1>7, <1>1, CallFailsMoves, CallFailsLate
<1>8. ASSUME NEW t \in Coroutines, AccessFails(t)
      PROVE  KeysDiffer'
  BY <1>8, <1>1, GotoMoves, ThrowMoves DEF AccessFails, Caught, NotCaught
<1>9. ASSUME NEW t \in Coroutines, Exists(t)
      PROVE  KeysDiffer'
  BY <1>9, <1>1, GotoMoves, ThrowMoves DEF Exists
<1>10. ASSUME NEW t \in Coroutines, NoneInProgress(t)
      PROVE  KeysDiffer'
  BY <1>10, <1>1, NoneInProgressCases, GotoMoves, ReturnMoves, ThrowMoves
<1>11. ASSUME NEW t \in Coroutines, InProgress(t)
      PROVE  KeysDiffer'
  BY <1>11, <1>1, StepMoves, ThrowMoves DEF InProgress
<1>12. ASSUME NEW t \in Coroutines, AskServer(t)
      PROVE  KeysDiffer'
  BY <1>12, <1>1, SendMoves DEF AskServer, HasKey
<1>13. ASSUME NEW t \in Coroutines, NoKeyLeft(t)
      PROVE  KeysDiffer'
  BY <1>13, <1>1, NoKeyLeftCases, GotoMoves, ThrowMoves
<1>14. ASSUME NEW t \in Coroutines, MakeKey(t)
      PROVE  KeysDiffer'
  BY <1>14, <1>1, SendMoves DEF MakeKey, FreshKey
<1>15. ASSUME NEW t \in Coroutines, Requested(t)
      PROVE  KeysDiffer'
  BY <1>15, <1>1, GotoMoves DEF Requested
<1>16. ASSUME NEW t \in Coroutines, WriteState(t)
      PROVE  KeysDiffer'
  BY <1>16, <1>1, GotoMoves DEF WriteState
<1>17. ASSUME NEW t \in Coroutines, OpenCeremony(t)
      PROVE  KeysDiffer'
  BY <1>17, <1>1, ReturnMoves DEF OpenCeremony
<1>18. ASSUME NEW t \in Coroutines, ProgressAnswered(t)
      PROVE  KeysDiffer'
  BY <1>18, <1>1, ProgressAnsweredCases, GotoMoves, ReturnMoves, ThrowMoves
<1>19. ASSUME NEW t \in Coroutines, FinishAnswered(t)
      PROVE  KeysDiffer'
  BY <1>19, <1>1, FinishAnsweredCases, GotoMoves, SendMoves, ThrowMoves
<1>20. ASSUME NEW t \in Coroutines, CompleteAnswered(t)
      PROVE  KeysDiffer'
  BY <1>20, <1>1, GotoMoves, ThrowMoves DEF CompleteAnswered, CompletedNow
<1>21. ASSUME NEW t \in Coroutines, LoadPending(t)
      PROVE  KeysDiffer'
  BY <1>21, <1>1, StepMoves, ThrowMoves DEF LoadPending
<1>22. ASSUME NEW t \in Coroutines, PromoteKey(t)
      PROVE  KeysDiffer'
  BY <1>22, <1>1, GotoMoves DEF PromoteKey, Promote
<1>23. ASSUME NEW t \in Coroutines, StoreVault(t)
      PROVE  KeysDiffer'
  BY <1>23, <1>1, GotoMoves DEF StoreVault
<1>24. ASSUME NEW t \in Coroutines, Restored(t)
      PROVE  KeysDiffer'
  BY <1>24, <1>1, ReturnMoves DEF Restored
<1>25. ASSUME NEW t \in Coroutines, CancelAnswered(t)
      PROVE  KeysDiffer'
  BY <1>25, <1>1, GotoMoves DEF CancelAnswered
<1>26. ASSUME NEW t \in Coroutines, Discard(t)
      PROVE  KeysDiffer'
  BY <1>26, <1>1, GotoMoves DEF Discard
<1>27. ASSUME NEW t \in Coroutines, Clear(t)
      PROVE  KeysDiffer'
  BY <1>27, <1>1, ClearCases, ReturnMoves, ThrowMoves
<1>28. ASSUME NEW c \in late, ServedLate(c)
      PROVE  KeysDiffer'
  BY <1>28, <1>1, ServedLateCases, TakeOverDoes, TakeOverTimes
<1>29. ASSUME NEW c \in Claims, Object(c)
      PROVE  KeysDiffer'
  BY <1>29, <1>1, ObjectDoes, ObjectTimes DEF Object
<1>30. ASSUME NEW c \in Claims, Approve(c)
      PROVE  KeysDiffer'
  BY <1>30, <1>1 DEF Approve, Server!Approve
<1>31. CASE WorkerStops
  BY <1>31, <1>1, StopsLate DEF WorkerStops, Idle
<1>32. CASE Tick
  BY <1>32, <1>1 DEF Tick, Server!Advance
\* No other action changes what this is about.
<1>33. CASE OpenPopup \/ ClosePopup \/ StartAgain
  BY <1>33, <1>1 DEF OpenPopup, ClosePopup, StartAgain, Show
<1>34. CASE UNCHANGED vars
  BY <1>34 DEF vars
<1> HIDE DEF Lasting, Inv, Shaped, Carried, Calls, server, stored, popup, user, Moves, Ends,
    Keeps, Times, KeysDiffer, Asks
<1> QED BY <1>2, <1>3, <1>4, <1>5, <1>6, <1>7, <1>8, <1>9, <1>10, <1>11, <1>12, <1>13, <1>14,
    <1>15, <1>16, <1>17, <1>18, <1>19, <1>20, <1>21, <1>22, <1>23, <1>24, <1>25, <1>26, <1>27,
    <1>28, <1>29, <1>30, <1>31, <1>32, <1>33, <1>34 DEF Next, Work

\* A request, once made, stays.
LEMMA KnownStep ==
    ASSUME Lasting, [Next]_vars
    PROVE  Known'
<1> USE NoneIsNew DEF Lasting, Inv, Shaped, Carried, Calls, server, stored, popup, user, Moves,
    Ends, Keeps, Times, Known, Looks, Beginning, HasRequest
<1>1. /\ \A t \in Coroutines : task[t].op \in {"none", "begin", "poll", "finish", "abandon"}
      /\ late \subseteq Claims /\ opened \subseteq Claims
      /\ recovery \in Claims \union {None} /\ pendingKey \in Keys \union {None}
      /\ time \in Nat /\ Cooling \in Nat
      /\ \A c \in Claims : claim[c].ready \in Nat /\ claim[c].until \in Nat
      /\ \A t \in Coroutines : task[t].pc = "sent" =>
           task[t].key \in Keys /\ (task[t].call # "request" => task[t].req \in Claims)
  BY Numbers DEF TypeOK, Tasks
<1>2. ASSUME NEW t \in Coroutines, BeginRecovery(t)
      PROVE  Known'
  BY <1>2, <1>1, EnterMoves DEF BeginRecovery, Press
<1>3. ASSUME NEW t \in Coroutines, FinishRecovery(t)
      PROVE  Known'
  BY <1>3, <1>1, EnterMoves DEF FinishRecovery, Press
<1>4. ASSUME NEW t \in Coroutines, AbandonRecovery(t)
      PROVE  Known'
  BY <1>4, <1>1, EnterMoves DEF AbandonRecovery, Press
<1>5. ASSUME NEW t \in Coroutines, RecoveryProgress(t)
      PROVE  Known'
  BY <1>5, <1>1, EnterMoves DEF RecoveryProgress
<1>6. ASSUME NEW t \in Coroutines, Served(t)
      PROVE  Known'
  <2>1. PICK c \in Claims, a \in Answers :
          /\ Answering(t, c, a)
          /\ \/ Requesting(t, c, a) \/ Polling(t, c, a)
             \/ Completing(t, c, a) \/ Cancelling(t, c, a)
    BY <1>6, ServedCases
  <2>2. /\ task[t].pc = "sent"
        /\ Moves(t, task[t].op, "answered", c, task[t].key, task[t].call, a)
        /\ UNCHANGED <<stored, popup, user, late>>
    BY <2>1, AnsweringMoves
  <2>3. CASE Requesting(t, c, a)
    BY <2>2, <2>3, AskDoes, AskTimes, <1>1 DEF Requesting
  <2>4. CASE Polling(t, c, a)
    <3>1. CASE Server!Begin(c)
      BY <2>2, <2>4, <3>1, BeginDoes, BeginTimes, <1>1 DEF Polling
    <3>2. CASE UNCHANGED server
      BY <2>2, <2>4, <3>2, <1>1 DEF Polling
    <3> QED BY <2>4, <3>1, <3>2 DEF Polling
  <2>5. CASE Completing(t, c, a)
    BY <2>2, <2>5, TakeOverDoes, TakeOverTimes, <1>1 DEF Completing
  <2>6. CASE Cancelling(t, c, a)
    BY <2>2, <2>6, ObjectDoes, ObjectTimes, <1>1 DEF Cancelling
  <2> QED BY <2>1, <2>3, <2>4, <2>5, <2>6
<1>7. ASSUME NEW t \in Coroutines, CallFails(t)
      PROVE  Known'
  BY <1>7, <1>1, CallFailsMoves, CallFailsLate
<1>8. ASSUME NEW t \in Coroutines, AccessFails(t)
      PROVE  Known'
  BY <1>8, <1>1, GotoMoves, ThrowMoves DEF AccessFails, Caught, NotCaught
<1>9. ASSUME NEW t \in Coroutines, Exists(t)
      PROVE  Known'
  BY <1>9, <1>1, GotoMoves, ThrowMoves DEF Exists
<1>10. ASSUME NEW t \in Coroutines, NoneInProgress(t)
      PROVE  Known'
  BY <1>10, <1>1, NoneInProgressCases, GotoMoves, ReturnMoves, ThrowMoves
<1>11. ASSUME NEW t \in Coroutines, InProgress(t)
      PROVE  Known'
  BY <1>11, <1>1, StepMoves, ThrowMoves DEF InProgress
<1>12. ASSUME NEW t \in Coroutines, AskServer(t)
      PROVE  Known'
  BY <1>12, <1>1, SendMoves DEF AskServer, HasKey
<1>13. ASSUME NEW t \in Coroutines, NoKeyLeft(t)
      PROVE  Known'
  BY <1>13, <1>1, NoKeyLeftCases, GotoMoves, ThrowMoves
<1>14. ASSUME NEW t \in Coroutines, MakeKey(t)
      PROVE  Known'
  BY <1>14, <1>1, SendMoves DEF MakeKey, FreshKey
<1>15. ASSUME NEW t \in Coroutines, Requested(t)
      PROVE  Known'
  BY <1>15, <1>1, GotoMoves DEF Requested
<1>16. ASSUME NEW t \in Coroutines, WriteState(t)
      PROVE  Known'
  BY <1>16, <1>1, GotoMoves DEF WriteState
<1>17. ASSUME NEW t \in Coroutines, OpenCeremony(t)
      PROVE  Known'
  BY <1>17, <1>1, ReturnMoves DEF OpenCeremony
<1>18. ASSUME NEW t \in Coroutines, ProgressAnswered(t)
      PROVE  Known'
  BY <1>18, <1>1, ProgressAnsweredCases, GotoMoves, ReturnMoves, ThrowMoves
<1>19. ASSUME NEW t \in Coroutines, FinishAnswered(t)
      PROVE  Known'
  BY <1>19, <1>1, FinishAnsweredCases, GotoMoves, SendMoves, ThrowMoves
<1>20. ASSUME NEW t \in Coroutines, CompleteAnswered(t)
      PROVE  Known'
  BY <1>20, <1>1, GotoMoves, ThrowMoves DEF CompleteAnswered, CompletedNow
<1>21. ASSUME NEW t \in Coroutines, LoadPending(t)
      PROVE  Known'
  BY <1>21, <1>1, StepMoves, ThrowMoves DEF LoadPending
<1>22. ASSUME NEW t \in Coroutines, PromoteKey(t)
      PROVE  Known'
  BY <1>22, <1>1, GotoMoves DEF PromoteKey, Promote
<1>23. ASSUME NEW t \in Coroutines, StoreVault(t)
      PROVE  Known'
  BY <1>23, <1>1, GotoMoves DEF StoreVault
<1>24. ASSUME NEW t \in Coroutines, Restored(t)
      PROVE  Known'
  BY <1>24, <1>1, ReturnMoves DEF Restored
<1>25. ASSUME NEW t \in Coroutines, CancelAnswered(t)
      PROVE  Known'
  BY <1>25, <1>1, GotoMoves DEF CancelAnswered
<1>26. ASSUME NEW t \in Coroutines, Discard(t)
      PROVE  Known'
  BY <1>26, <1>1, GotoMoves DEF Discard
<1>27. ASSUME NEW t \in Coroutines, Clear(t)
      PROVE  Known'
  BY <1>27, <1>1, ClearCases, ReturnMoves, ThrowMoves
<1>28. ASSUME NEW c \in late, ServedLate(c)
      PROVE  Known'
  BY <1>28, <1>1, ServedLateCases, TakeOverDoes, TakeOverTimes
<1>29. ASSUME NEW c \in Claims, Object(c)
      PROVE  Known'
  BY <1>29, <1>1, ObjectDoes, ObjectTimes DEF Object
<1>30. ASSUME NEW c \in Claims, Approve(c)
      PROVE  Known'
  BY <1>30, <1>1 DEF Approve, Server!Approve
<1>31. CASE WorkerStops
  BY <1>31, <1>1, StopsLate DEF WorkerStops, Idle
<1>32. CASE Tick
  BY <1>32, <1>1 DEF Tick, Server!Advance
\* No other action changes what this is about.
<1>33. CASE OpenPopup \/ ClosePopup \/ StartAgain
  BY <1>33, <1>1 DEF OpenPopup, ClosePopup, StartAgain, Show
<1>34. CASE UNCHANGED vars
  BY <1>34 DEF vars
<1> HIDE DEF Lasting, Inv, Shaped, Carried, Calls, server, stored, popup, user, Moves, Ends,
    Keeps, Times, Known, Looks, Beginning, HasRequest
<1> QED BY <1>2, <1>3, <1>4, <1>5, <1>6, <1>7, <1>8, <1>9, <1>10, <1>11, <1>12, <1>13, <1>14,
    <1>15, <1>16, <1>17, <1>18, <1>19, <1>20, <1>21, <1>22, <1>23, <1>24, <1>25, <1>26, <1>27,
    <1>28, <1>29, <1>30, <1>31, <1>32, <1>33, <1>34 DEF Next, Work

\* The server says so before a finish completes.
LEMMA WaitedFirstStep ==
    ASSUME Lasting, [Next]_vars
    PROVE  WaitedFirst'
<1> USE NoneIsNew DEF Lasting, Inv, Shaped, Carried, Calls, server, stored, popup, user, Moves,
    Ends, Keeps, Times, WaitedFirst, Waited, Ripe, Completes, Known, Looks
<1>1. /\ \A t \in Coroutines : task[t].op \in {"none", "begin", "poll", "finish", "abandon"}
      /\ late \subseteq Claims /\ opened \subseteq Claims
      /\ recovery \in Claims \union {None} /\ pendingKey \in Keys \union {None}
      /\ time \in Nat /\ Cooling \in Nat
      /\ \A c \in Claims : claim[c].ready \in Nat /\ claim[c].until \in Nat
      /\ \A t \in Coroutines : task[t].pc = "sent" =>
           task[t].key \in Keys /\ (task[t].call # "request" => task[t].req \in Claims)
  BY Numbers DEF TypeOK, Tasks
<1>2. ASSUME NEW t \in Coroutines, BeginRecovery(t)
      PROVE  WaitedFirst'
  BY <1>2, <1>1, EnterMoves DEF BeginRecovery, Press
<1>3. ASSUME NEW t \in Coroutines, FinishRecovery(t)
      PROVE  WaitedFirst'
  BY <1>3, <1>1, EnterMoves DEF FinishRecovery, Press
<1>4. ASSUME NEW t \in Coroutines, AbandonRecovery(t)
      PROVE  WaitedFirst'
  BY <1>4, <1>1, EnterMoves DEF AbandonRecovery, Press
<1>5. ASSUME NEW t \in Coroutines, RecoveryProgress(t)
      PROVE  WaitedFirst'
  BY <1>5, <1>1, EnterMoves DEF RecoveryProgress
<1>6. ASSUME NEW t \in Coroutines, Served(t)
      PROVE  WaitedFirst'
  <2>1. PICK c \in Claims, a \in Answers :
          /\ Answering(t, c, a)
          /\ \/ Requesting(t, c, a) \/ Polling(t, c, a)
             \/ Completing(t, c, a) \/ Cancelling(t, c, a)
    BY <1>6, ServedCases
  <2>2. /\ task[t].pc = "sent"
        /\ Moves(t, task[t].op, "answered", c, task[t].key, task[t].call, a)
        /\ UNCHANGED <<stored, popup, user, late>>
    BY <2>1, AnsweringMoves
  <2>3. CASE Requesting(t, c, a)
    BY <2>2, <2>3, AskDoes, AskTimes, <1>1 DEF Requesting
  <2>4. CASE Polling(t, c, a)
    <3>1. CASE Server!Begin(c)
      BY <2>2, <2>4, <3>1, BeginDoes, BeginTimes, <1>1 DEF Polling
    <3>2. CASE UNCHANGED server
      BY <2>2, <2>4, <3>2, <1>1 DEF Polling
    <3> QED BY <2>4, <3>1, <3>2 DEF Polling
  <2>5. CASE Completing(t, c, a)
    BY <2>2, <2>5, TakeOverDoes, TakeOverTimes, <1>1 DEF Completing
  <2>6. CASE Cancelling(t, c, a)
    BY <2>2, <2>6, ObjectDoes, ObjectTimes, <1>1 DEF Cancelling
  <2> QED BY <2>1, <2>3, <2>4, <2>5, <2>6
<1>7. ASSUME NEW t \in Coroutines, CallFails(t)
      PROVE  WaitedFirst'
  BY <1>7, <1>1, CallFailsMoves, CallFailsLate
<1>8. ASSUME NEW t \in Coroutines, AccessFails(t)
      PROVE  WaitedFirst'
  BY <1>8, <1>1, GotoMoves, ThrowMoves DEF AccessFails, Caught, NotCaught
<1>9. ASSUME NEW t \in Coroutines, Exists(t)
      PROVE  WaitedFirst'
  BY <1>9, <1>1, GotoMoves, ThrowMoves DEF Exists
<1>10. ASSUME NEW t \in Coroutines, NoneInProgress(t)
      PROVE  WaitedFirst'
  BY <1>10, <1>1, NoneInProgressCases, GotoMoves, ReturnMoves, ThrowMoves
<1>11. ASSUME NEW t \in Coroutines, InProgress(t)
      PROVE  WaitedFirst'
  BY <1>11, <1>1, StepMoves, ThrowMoves DEF InProgress
<1>12. ASSUME NEW t \in Coroutines, AskServer(t)
      PROVE  WaitedFirst'
  BY <1>12, <1>1, SendMoves DEF AskServer, HasKey
<1>13. ASSUME NEW t \in Coroutines, NoKeyLeft(t)
      PROVE  WaitedFirst'
  BY <1>13, <1>1, NoKeyLeftCases, GotoMoves, ThrowMoves
<1>14. ASSUME NEW t \in Coroutines, MakeKey(t)
      PROVE  WaitedFirst'
  BY <1>14, <1>1, SendMoves DEF MakeKey, FreshKey
<1>15. ASSUME NEW t \in Coroutines, Requested(t)
      PROVE  WaitedFirst'
  BY <1>15, <1>1, GotoMoves DEF Requested
<1>16. ASSUME NEW t \in Coroutines, WriteState(t)
      PROVE  WaitedFirst'
  BY <1>16, <1>1, GotoMoves DEF WriteState
<1>17. ASSUME NEW t \in Coroutines, OpenCeremony(t)
      PROVE  WaitedFirst'
  BY <1>17, <1>1, ReturnMoves DEF OpenCeremony
<1>18. ASSUME NEW t \in Coroutines, ProgressAnswered(t)
      PROVE  WaitedFirst'
  BY <1>18, <1>1, ProgressAnsweredCases, GotoMoves, ReturnMoves, ThrowMoves
<1>19. ASSUME NEW t \in Coroutines, FinishAnswered(t)
      PROVE  WaitedFirst'
  BY <1>19, <1>1, FinishAnsweredCases, GotoMoves, SendMoves, ThrowMoves
<1>20. ASSUME NEW t \in Coroutines, CompleteAnswered(t)
      PROVE  WaitedFirst'
  BY <1>20, <1>1, GotoMoves, ThrowMoves DEF CompleteAnswered, CompletedNow
<1>21. ASSUME NEW t \in Coroutines, LoadPending(t)
      PROVE  WaitedFirst'
  BY <1>21, <1>1, StepMoves, ThrowMoves DEF LoadPending
<1>22. ASSUME NEW t \in Coroutines, PromoteKey(t)
      PROVE  WaitedFirst'
  BY <1>22, <1>1, GotoMoves DEF PromoteKey, Promote
<1>23. ASSUME NEW t \in Coroutines, StoreVault(t)
      PROVE  WaitedFirst'
  BY <1>23, <1>1, GotoMoves DEF StoreVault
<1>24. ASSUME NEW t \in Coroutines, Restored(t)
      PROVE  WaitedFirst'
  BY <1>24, <1>1, ReturnMoves DEF Restored
<1>25. ASSUME NEW t \in Coroutines, CancelAnswered(t)
      PROVE  WaitedFirst'
  BY <1>25, <1>1, GotoMoves DEF CancelAnswered
<1>26. ASSUME NEW t \in Coroutines, Discard(t)
      PROVE  WaitedFirst'
  BY <1>26, <1>1, GotoMoves DEF Discard
<1>27. ASSUME NEW t \in Coroutines, Clear(t)
      PROVE  WaitedFirst'
  BY <1>27, <1>1, ClearCases, ReturnMoves, ThrowMoves
<1>28. ASSUME NEW c \in late, ServedLate(c)
      PROVE  WaitedFirst'
  BY <1>28, <1>1, ServedLateCases, TakeOverDoes, TakeOverTimes
<1>29. ASSUME NEW c \in Claims, Object(c)
      PROVE  WaitedFirst'
  BY <1>29, <1>1, ObjectDoes, ObjectTimes DEF Object
<1>30. ASSUME NEW c \in Claims, Approve(c)
      PROVE  WaitedFirst'
  BY <1>30, <1>1 DEF Approve, Server!Approve
<1>31. CASE WorkerStops
  BY <1>31, <1>1, StopsLate DEF WorkerStops, Idle
<1>32. CASE Tick
  BY <1>32, <1>1 DEF Tick, Server!Advance
\* No other action changes what this is about.
<1>33. CASE OpenPopup \/ ClosePopup \/ StartAgain
  BY <1>33, <1>1 DEF OpenPopup, ClosePopup, StartAgain, Show
<1>34. CASE UNCHANGED vars
  BY <1>34 DEF vars
<1> HIDE DEF Lasting, Inv, Shaped, Carried, Calls, server, stored, popup, user, Moves, Ends,
    Keeps, Times, WaitedFirst, Waited, Ripe, Completes, Known, Looks
<1> QED BY <1>2, <1>3, <1>4, <1>5, <1>6, <1>7, <1>8, <1>9, <1>10, <1>11, <1>12, <1>13, <1>14,
    <1>15, <1>16, <1>17, <1>18, <1>19, <1>20, <1>21, <1>22, <1>23, <1>24, <1>25, <1>26, <1>27,
    <1>28, <1>29, <1>30, <1>31, <1>32, <1>33, <1>34 DEF Next, Work

\* What has ended stays so, and no claim gets a second key.
LEMMA CleansUpStep ==
    ASSUME Lasting, [Next]_vars
    PROVE  CleansUp'
<1> USE NoneIsNew DEF Lasting, Inv, Shaped, Carried, Calls, server, stored, popup, user, Moves,
    Ends, Keeps, Times, CleansUp, Looks, ToldOver, Ended, Known, KeysDiffer
<1>1. /\ \A t \in Coroutines : task[t].op \in {"none", "begin", "poll", "finish", "abandon"}
      /\ late \subseteq Claims /\ opened \subseteq Claims
      /\ recovery \in Claims \union {None} /\ pendingKey \in Keys \union {None}
      /\ time \in Nat /\ Cooling \in Nat
      /\ \A c \in Claims : claim[c].ready \in Nat /\ claim[c].until \in Nat
      /\ \A t \in Coroutines : task[t].pc = "sent" =>
           task[t].key \in Keys /\ (task[t].call # "request" => task[t].req \in Claims)
  BY Numbers DEF TypeOK, Tasks
<1>2. ASSUME NEW t \in Coroutines, BeginRecovery(t)
      PROVE  CleansUp'
  BY <1>2, <1>1, EnterMoves DEF BeginRecovery, Press
<1>3. ASSUME NEW t \in Coroutines, FinishRecovery(t)
      PROVE  CleansUp'
  BY <1>3, <1>1, EnterMoves DEF FinishRecovery, Press
<1>4. ASSUME NEW t \in Coroutines, AbandonRecovery(t)
      PROVE  CleansUp'
  BY <1>4, <1>1, EnterMoves DEF AbandonRecovery, Press
<1>5. ASSUME NEW t \in Coroutines, RecoveryProgress(t)
      PROVE  CleansUp'
  BY <1>5, <1>1, EnterMoves DEF RecoveryProgress
<1>6. ASSUME NEW t \in Coroutines, Served(t)
      PROVE  CleansUp'
  <2>1. PICK c \in Claims, a \in Answers :
          /\ Answering(t, c, a)
          /\ \/ Requesting(t, c, a) \/ Polling(t, c, a)
             \/ Completing(t, c, a) \/ Cancelling(t, c, a)
    BY <1>6, ServedCases
  <2>2. /\ task[t].pc = "sent"
        /\ Moves(t, task[t].op, "answered", c, task[t].key, task[t].call, a)
        /\ UNCHANGED <<stored, popup, user, late>>
    BY <2>1, AnsweringMoves
  <2>3. CASE Requesting(t, c, a)
    BY <2>2, <2>3, AskDoes, AskTimes, <1>1 DEF Requesting
  <2>4. CASE Polling(t, c, a)
    <3>1. CASE Server!Begin(c)
      BY <2>2, <2>4, <3>1, BeginDoes, BeginTimes, <1>1 DEF Polling
    <3>2. CASE UNCHANGED server
      BY <2>2, <2>4, <3>2, <1>1 DEF Polling
    <3> QED BY <2>4, <3>1, <3>2 DEF Polling
  <2>5. CASE Completing(t, c, a)
    BY <2>2, <2>5, TakeOverDoes, TakeOverTimes, <1>1 DEF Completing
  <2>6. CASE Cancelling(t, c, a)
    BY <2>2, <2>6, ObjectDoes, ObjectTimes, <1>1 DEF Cancelling
  <2> QED BY <2>1, <2>3, <2>4, <2>5, <2>6
<1>7. ASSUME NEW t \in Coroutines, CallFails(t)
      PROVE  CleansUp'
  BY <1>7, <1>1, CallFailsMoves, CallFailsLate
<1>8. ASSUME NEW t \in Coroutines, AccessFails(t)
      PROVE  CleansUp'
  BY <1>8, <1>1, GotoMoves, ThrowMoves DEF AccessFails, Caught, NotCaught
<1>9. ASSUME NEW t \in Coroutines, Exists(t)
      PROVE  CleansUp'
  BY <1>9, <1>1, GotoMoves, ThrowMoves DEF Exists
<1>10. ASSUME NEW t \in Coroutines, NoneInProgress(t)
      PROVE  CleansUp'
  BY <1>10, <1>1, NoneInProgressCases, GotoMoves, ReturnMoves, ThrowMoves
<1>11. ASSUME NEW t \in Coroutines, InProgress(t)
      PROVE  CleansUp'
  BY <1>11, <1>1, StepMoves, ThrowMoves DEF InProgress
<1>12. ASSUME NEW t \in Coroutines, AskServer(t)
      PROVE  CleansUp'
  BY <1>12, <1>1, SendMoves DEF AskServer, HasKey
<1>13. ASSUME NEW t \in Coroutines, NoKeyLeft(t)
      PROVE  CleansUp'
  BY <1>13, <1>1, NoKeyLeftCases, GotoMoves, ThrowMoves
<1>14. ASSUME NEW t \in Coroutines, MakeKey(t)
      PROVE  CleansUp'
  BY <1>14, <1>1, SendMoves DEF MakeKey, FreshKey
<1>15. ASSUME NEW t \in Coroutines, Requested(t)
      PROVE  CleansUp'
  BY <1>15, <1>1, GotoMoves DEF Requested
<1>16. ASSUME NEW t \in Coroutines, WriteState(t)
      PROVE  CleansUp'
  BY <1>16, <1>1, GotoMoves DEF WriteState
<1>17. ASSUME NEW t \in Coroutines, OpenCeremony(t)
      PROVE  CleansUp'
  BY <1>17, <1>1, ReturnMoves DEF OpenCeremony
<1>18. ASSUME NEW t \in Coroutines, ProgressAnswered(t)
      PROVE  CleansUp'
  BY <1>18, <1>1, ProgressAnsweredCases, GotoMoves, ReturnMoves, ThrowMoves
<1>19. ASSUME NEW t \in Coroutines, FinishAnswered(t)
      PROVE  CleansUp'
  BY <1>19, <1>1, FinishAnsweredCases, GotoMoves, SendMoves, ThrowMoves
<1>20. ASSUME NEW t \in Coroutines, CompleteAnswered(t)
      PROVE  CleansUp'
  BY <1>20, <1>1, GotoMoves, ThrowMoves DEF CompleteAnswered, CompletedNow
<1>21. ASSUME NEW t \in Coroutines, LoadPending(t)
      PROVE  CleansUp'
  BY <1>21, <1>1, StepMoves, ThrowMoves DEF LoadPending
<1>22. ASSUME NEW t \in Coroutines, PromoteKey(t)
      PROVE  CleansUp'
  BY <1>22, <1>1, GotoMoves DEF PromoteKey, Promote
<1>23. ASSUME NEW t \in Coroutines, StoreVault(t)
      PROVE  CleansUp'
  BY <1>23, <1>1, GotoMoves DEF StoreVault
<1>24. ASSUME NEW t \in Coroutines, Restored(t)
      PROVE  CleansUp'
  BY <1>24, <1>1, ReturnMoves DEF Restored
<1>25. ASSUME NEW t \in Coroutines, CancelAnswered(t)
      PROVE  CleansUp'
  BY <1>25, <1>1, GotoMoves DEF CancelAnswered
<1>26. ASSUME NEW t \in Coroutines, Discard(t)
      PROVE  CleansUp'
  BY <1>26, <1>1, GotoMoves DEF Discard
<1>27. ASSUME NEW t \in Coroutines, Clear(t)
      PROVE  CleansUp'
  BY <1>27, <1>1, ClearCases, ReturnMoves, ThrowMoves
<1>28. ASSUME NEW c \in late, ServedLate(c)
      PROVE  CleansUp'
  BY <1>28, <1>1, ServedLateCases, TakeOverDoes, TakeOverTimes
<1>29. ASSUME NEW c \in Claims, Object(c)
      PROVE  CleansUp'
  BY <1>29, <1>1, ObjectDoes, ObjectTimes DEF Object
<1>30. ASSUME NEW c \in Claims, Approve(c)
      PROVE  CleansUp'
  BY <1>30, <1>1 DEF Approve, Server!Approve
<1>31. CASE WorkerStops
  BY <1>31, <1>1, StopsLate DEF WorkerStops, Idle
<1>32. CASE Tick
  BY <1>32, <1>1 DEF Tick, Server!Advance
\* No other action changes what this is about.
<1>33. CASE OpenPopup \/ ClosePopup \/ StartAgain
  BY <1>33, <1>1 DEF OpenPopup, ClosePopup, StartAgain, Show
<1>34. CASE UNCHANGED vars
  BY <1>34 DEF vars
<1> HIDE DEF Lasting, Inv, Shaped, Carried, Calls, server, stored, popup, user, Moves, Ends,
    Keeps, Times, CleansUp, Looks, ToldOver, Ended, Known, KeysDiffer
<1> QED BY <1>2, <1>3, <1>4, <1>5, <1>6, <1>7, <1>8, <1>9, <1>10, <1>11, <1>12, <1>13, <1>14,
    <1>15, <1>16, <1>17, <1>18, <1>19, <1>20, <1>21, <1>22, <1>23, <1>24, <1>25, <1>26, <1>27,
    <1>28, <1>29, <1>30, <1>31, <1>32, <1>33, <1>34 DEF Next, Work

\* What has taken over stays so.
LEMMA StoresTakenStep ==
    ASSUME Lasting, [Next]_vars
    PROVE  StoresTaken'
<1> USE NoneIsNew DEF Lasting, Inv, Shaped, Carried, Calls, server, stored, popup, user, Moves,
    Ends, Keeps, Times, StoresTaken, SawTakeover, Reports
<1>1. /\ \A t \in Coroutines : task[t].op \in {"none", "begin", "poll", "finish", "abandon"}
      /\ late \subseteq Claims /\ opened \subseteq Claims
      /\ recovery \in Claims \union {None} /\ pendingKey \in Keys \union {None}
      /\ time \in Nat /\ Cooling \in Nat
      /\ \A c \in Claims : claim[c].ready \in Nat /\ claim[c].until \in Nat
      /\ \A t \in Coroutines : task[t].pc = "sent" =>
           task[t].key \in Keys /\ (task[t].call # "request" => task[t].req \in Claims)
  BY Numbers DEF TypeOK, Tasks
<1>2. ASSUME NEW t \in Coroutines, BeginRecovery(t)
      PROVE  StoresTaken'
  BY <1>2, <1>1, EnterMoves DEF BeginRecovery, Press
<1>3. ASSUME NEW t \in Coroutines, FinishRecovery(t)
      PROVE  StoresTaken'
  BY <1>3, <1>1, EnterMoves DEF FinishRecovery, Press
<1>4. ASSUME NEW t \in Coroutines, AbandonRecovery(t)
      PROVE  StoresTaken'
  BY <1>4, <1>1, EnterMoves DEF AbandonRecovery, Press
<1>5. ASSUME NEW t \in Coroutines, RecoveryProgress(t)
      PROVE  StoresTaken'
  BY <1>5, <1>1, EnterMoves DEF RecoveryProgress
<1>6. ASSUME NEW t \in Coroutines, Served(t)
      PROVE  StoresTaken'
  <2>1. PICK c \in Claims, a \in Answers :
          /\ Answering(t, c, a)
          /\ \/ Requesting(t, c, a) \/ Polling(t, c, a)
             \/ Completing(t, c, a) \/ Cancelling(t, c, a)
    BY <1>6, ServedCases
  <2>2. /\ task[t].pc = "sent"
        /\ Moves(t, task[t].op, "answered", c, task[t].key, task[t].call, a)
        /\ UNCHANGED <<stored, popup, user, late>>
    BY <2>1, AnsweringMoves
  <2>3. CASE Requesting(t, c, a)
    BY <2>2, <2>3, AskDoes, AskTimes, <1>1 DEF Requesting
  <2>4. CASE Polling(t, c, a)
    <3>1. CASE Server!Begin(c)
      BY <2>2, <2>4, <3>1, BeginDoes, BeginTimes, <1>1 DEF Polling
    <3>2. CASE UNCHANGED server
      BY <2>2, <2>4, <3>2, <1>1 DEF Polling
    <3> QED BY <2>4, <3>1, <3>2 DEF Polling
  <2>5. CASE Completing(t, c, a)
    BY <2>2, <2>5, TakeOverDoes, TakeOverTimes, <1>1 DEF Completing
  <2>6. CASE Cancelling(t, c, a)
    BY <2>2, <2>6, ObjectDoes, ObjectTimes, <1>1 DEF Cancelling
  <2> QED BY <2>1, <2>3, <2>4, <2>5, <2>6
<1>7. ASSUME NEW t \in Coroutines, CallFails(t)
      PROVE  StoresTaken'
  BY <1>7, <1>1, CallFailsMoves, CallFailsLate
<1>8. ASSUME NEW t \in Coroutines, AccessFails(t)
      PROVE  StoresTaken'
  BY <1>8, <1>1, GotoMoves, ThrowMoves DEF AccessFails, Caught, NotCaught
<1>9. ASSUME NEW t \in Coroutines, Exists(t)
      PROVE  StoresTaken'
  BY <1>9, <1>1, GotoMoves, ThrowMoves DEF Exists
<1>10. ASSUME NEW t \in Coroutines, NoneInProgress(t)
      PROVE  StoresTaken'
  BY <1>10, <1>1, NoneInProgressCases, GotoMoves, ReturnMoves, ThrowMoves
<1>11. ASSUME NEW t \in Coroutines, InProgress(t)
      PROVE  StoresTaken'
  BY <1>11, <1>1, StepMoves, ThrowMoves DEF InProgress
<1>12. ASSUME NEW t \in Coroutines, AskServer(t)
      PROVE  StoresTaken'
  BY <1>12, <1>1, SendMoves DEF AskServer, HasKey
<1>13. ASSUME NEW t \in Coroutines, NoKeyLeft(t)
      PROVE  StoresTaken'
  BY <1>13, <1>1, NoKeyLeftCases, GotoMoves, ThrowMoves
<1>14. ASSUME NEW t \in Coroutines, MakeKey(t)
      PROVE  StoresTaken'
  BY <1>14, <1>1, SendMoves DEF MakeKey, FreshKey
<1>15. ASSUME NEW t \in Coroutines, Requested(t)
      PROVE  StoresTaken'
  BY <1>15, <1>1, GotoMoves DEF Requested
<1>16. ASSUME NEW t \in Coroutines, WriteState(t)
      PROVE  StoresTaken'
  BY <1>16, <1>1, GotoMoves DEF WriteState
<1>17. ASSUME NEW t \in Coroutines, OpenCeremony(t)
      PROVE  StoresTaken'
  BY <1>17, <1>1, ReturnMoves DEF OpenCeremony
<1>18. ASSUME NEW t \in Coroutines, ProgressAnswered(t)
      PROVE  StoresTaken'
  BY <1>18, <1>1, ProgressAnsweredCases, GotoMoves, ReturnMoves, ThrowMoves
<1>19. ASSUME NEW t \in Coroutines, FinishAnswered(t)
      PROVE  StoresTaken'
  BY <1>19, <1>1, FinishAnsweredCases, GotoMoves, SendMoves, ThrowMoves
<1>20. ASSUME NEW t \in Coroutines, CompleteAnswered(t)
      PROVE  StoresTaken'
  BY <1>20, <1>1, GotoMoves, ThrowMoves DEF CompleteAnswered, CompletedNow
<1>21. ASSUME NEW t \in Coroutines, LoadPending(t)
      PROVE  StoresTaken'
  BY <1>21, <1>1, StepMoves, ThrowMoves DEF LoadPending
<1>22. ASSUME NEW t \in Coroutines, PromoteKey(t)
      PROVE  StoresTaken'
  BY <1>22, <1>1, GotoMoves DEF PromoteKey, Promote
<1>23. ASSUME NEW t \in Coroutines, StoreVault(t)
      PROVE  StoresTaken'
  BY <1>23, <1>1, GotoMoves DEF StoreVault
<1>24. ASSUME NEW t \in Coroutines, Restored(t)
      PROVE  StoresTaken'
  BY <1>24, <1>1, ReturnMoves DEF Restored
<1>25. ASSUME NEW t \in Coroutines, CancelAnswered(t)
      PROVE  StoresTaken'
  BY <1>25, <1>1, GotoMoves DEF CancelAnswered
<1>26. ASSUME NEW t \in Coroutines, Discard(t)
      PROVE  StoresTaken'
  BY <1>26, <1>1, GotoMoves DEF Discard
<1>27. ASSUME NEW t \in Coroutines, Clear(t)
      PROVE  StoresTaken'
  BY <1>27, <1>1, ClearCases, ReturnMoves, ThrowMoves
<1>28. ASSUME NEW c \in late, ServedLate(c)
      PROVE  StoresTaken'
  BY <1>28, <1>1, ServedLateCases, TakeOverDoes, TakeOverTimes
<1>29. ASSUME NEW c \in Claims, Object(c)
      PROVE  StoresTaken'
  BY <1>29, <1>1, ObjectDoes, ObjectTimes DEF Object
<1>30. ASSUME NEW c \in Claims, Approve(c)
      PROVE  StoresTaken'
  BY <1>30, <1>1 DEF Approve, Server!Approve
<1>31. CASE WorkerStops
  BY <1>31, <1>1, StopsLate DEF WorkerStops, Idle
<1>32. CASE Tick
  BY <1>32, <1>1 DEF Tick, Server!Advance
\* No other action changes what this is about.
<1>33. CASE OpenPopup \/ ClosePopup \/ StartAgain
  BY <1>33, <1>1 DEF OpenPopup, ClosePopup, StartAgain, Show
<1>34. CASE UNCHANGED vars
  BY <1>34 DEF vars
<1> HIDE DEF Lasting, Inv, Shaped, Carried, Calls, server, stored, popup, user, Moves, Ends,
    Keeps, Times, StoresTaken, SawTakeover, Reports
<1> QED BY <1>2, <1>3, <1>4, <1>5, <1>6, <1>7, <1>8, <1>9, <1>10, <1>11, <1>12, <1>13, <1>14,
    <1>15, <1>16, <1>17, <1>18, <1>19, <1>20, <1>21, <1>22, <1>23, <1>24, <1>25, <1>26, <1>27,
    <1>28, <1>29, <1>30, <1>31, <1>32, <1>33, <1>34 DEF Next, Work

\* The trusted key changes when a claim takes over.
LEMMA TrustedStep ==
    ASSUME Lasting, [Next]_vars
    PROVE  Trusted'
<1> USE NoneIsNew DEF Lasting, Inv, Shaped, Carried, Calls, server, stored, popup, user, Moves,
    Ends, Keeps, Times, Trusted, Holds, KeysDiffer, StoresTaken, SawTakeover
<1>1. /\ \A t \in Coroutines : task[t].op \in {"none", "begin", "poll", "finish", "abandon"}
      /\ late \subseteq Claims /\ opened \subseteq Claims
      /\ recovery \in Claims \union {None} /\ pendingKey \in Keys \union {None}
      /\ time \in Nat /\ Cooling \in Nat
      /\ \A c \in Claims : claim[c].ready \in Nat /\ claim[c].until \in Nat
      /\ \A t \in Coroutines : task[t].pc = "sent" =>
           task[t].key \in Keys /\ (task[t].call # "request" => task[t].req \in Claims)
  BY Numbers DEF TypeOK, Tasks
<1>2. ASSUME NEW t \in Coroutines, BeginRecovery(t)
      PROVE  Trusted'
  BY <1>2, <1>1, EnterMoves DEF BeginRecovery, Press
<1>3. ASSUME NEW t \in Coroutines, FinishRecovery(t)
      PROVE  Trusted'
  BY <1>3, <1>1, EnterMoves DEF FinishRecovery, Press
<1>4. ASSUME NEW t \in Coroutines, AbandonRecovery(t)
      PROVE  Trusted'
  BY <1>4, <1>1, EnterMoves DEF AbandonRecovery, Press
<1>5. ASSUME NEW t \in Coroutines, RecoveryProgress(t)
      PROVE  Trusted'
  BY <1>5, <1>1, EnterMoves DEF RecoveryProgress
<1>6. ASSUME NEW t \in Coroutines, Served(t)
      PROVE  Trusted'
  <2>1. PICK c \in Claims, a \in Answers :
          /\ Answering(t, c, a)
          /\ \/ Requesting(t, c, a) \/ Polling(t, c, a)
             \/ Completing(t, c, a) \/ Cancelling(t, c, a)
    BY <1>6, ServedCases
  <2>2. /\ task[t].pc = "sent"
        /\ Moves(t, task[t].op, "answered", c, task[t].key, task[t].call, a)
        /\ UNCHANGED <<stored, popup, user, late>>
    BY <2>1, AnsweringMoves
  <2>3. CASE Requesting(t, c, a)
    BY <2>2, <2>3, AskDoes, AskTimes, <1>1 DEF Requesting
  <2>4. CASE Polling(t, c, a)
    <3>1. CASE Server!Begin(c)
      BY <2>2, <2>4, <3>1, BeginDoes, BeginTimes, <1>1 DEF Polling
    <3>2. CASE UNCHANGED server
      BY <2>2, <2>4, <3>2, <1>1 DEF Polling
    <3> QED BY <2>4, <3>1, <3>2 DEF Polling
  <2>5. CASE Completing(t, c, a)
    BY <2>2, <2>5, TakeOverDoes, TakeOverTimes, <1>1 DEF Completing
  <2>6. CASE Cancelling(t, c, a)
    BY <2>2, <2>6, ObjectDoes, ObjectTimes, <1>1 DEF Cancelling
  <2> QED BY <2>1, <2>3, <2>4, <2>5, <2>6
<1>7. ASSUME NEW t \in Coroutines, CallFails(t)
      PROVE  Trusted'
  BY <1>7, <1>1, CallFailsMoves, CallFailsLate
<1>8. ASSUME NEW t \in Coroutines, AccessFails(t)
      PROVE  Trusted'
  BY <1>8, <1>1, GotoMoves, ThrowMoves DEF AccessFails, Caught, NotCaught
<1>9. ASSUME NEW t \in Coroutines, Exists(t)
      PROVE  Trusted'
  BY <1>9, <1>1, GotoMoves, ThrowMoves DEF Exists
<1>10. ASSUME NEW t \in Coroutines, NoneInProgress(t)
      PROVE  Trusted'
  BY <1>10, <1>1, NoneInProgressCases, GotoMoves, ReturnMoves, ThrowMoves
<1>11. ASSUME NEW t \in Coroutines, InProgress(t)
      PROVE  Trusted'
  BY <1>11, <1>1, StepMoves, ThrowMoves DEF InProgress
<1>12. ASSUME NEW t \in Coroutines, AskServer(t)
      PROVE  Trusted'
  BY <1>12, <1>1, SendMoves DEF AskServer, HasKey
<1>13. ASSUME NEW t \in Coroutines, NoKeyLeft(t)
      PROVE  Trusted'
  BY <1>13, <1>1, NoKeyLeftCases, GotoMoves, ThrowMoves
<1>14. ASSUME NEW t \in Coroutines, MakeKey(t)
      PROVE  Trusted'
  BY <1>14, <1>1, SendMoves DEF MakeKey, FreshKey
<1>15. ASSUME NEW t \in Coroutines, Requested(t)
      PROVE  Trusted'
  BY <1>15, <1>1, GotoMoves DEF Requested
<1>16. ASSUME NEW t \in Coroutines, WriteState(t)
      PROVE  Trusted'
  BY <1>16, <1>1, GotoMoves DEF WriteState
<1>17. ASSUME NEW t \in Coroutines, OpenCeremony(t)
      PROVE  Trusted'
  BY <1>17, <1>1, ReturnMoves DEF OpenCeremony
<1>18. ASSUME NEW t \in Coroutines, ProgressAnswered(t)
      PROVE  Trusted'
  BY <1>18, <1>1, ProgressAnsweredCases, GotoMoves, ReturnMoves, ThrowMoves
<1>19. ASSUME NEW t \in Coroutines, FinishAnswered(t)
      PROVE  Trusted'
  BY <1>19, <1>1, FinishAnsweredCases, GotoMoves, SendMoves, ThrowMoves
<1>20. ASSUME NEW t \in Coroutines, CompleteAnswered(t)
      PROVE  Trusted'
  BY <1>20, <1>1, GotoMoves, ThrowMoves DEF CompleteAnswered, CompletedNow
<1>21. ASSUME NEW t \in Coroutines, LoadPending(t)
      PROVE  Trusted'
  BY <1>21, <1>1, StepMoves, ThrowMoves DEF LoadPending
<1>22. ASSUME NEW t \in Coroutines, PromoteKey(t)
      PROVE  Trusted'
  BY <1>22, <1>1, GotoMoves DEF PromoteKey, Promote
<1>23. ASSUME NEW t \in Coroutines, StoreVault(t)
      PROVE  Trusted'
  BY <1>23, <1>1, GotoMoves DEF StoreVault
<1>24. ASSUME NEW t \in Coroutines, Restored(t)
      PROVE  Trusted'
  BY <1>24, <1>1, ReturnMoves DEF Restored
<1>25. ASSUME NEW t \in Coroutines, CancelAnswered(t)
      PROVE  Trusted'
  BY <1>25, <1>1, GotoMoves DEF CancelAnswered
<1>26. ASSUME NEW t \in Coroutines, Discard(t)
      PROVE  Trusted'
  BY <1>26, <1>1, GotoMoves DEF Discard
<1>27. ASSUME NEW t \in Coroutines, Clear(t)
      PROVE  Trusted'
  BY <1>27, <1>1, ClearCases, ReturnMoves, ThrowMoves
<1>28. ASSUME NEW c \in late, ServedLate(c)
      PROVE  Trusted'
  BY <1>28, <1>1, ServedLateCases, TakeOverDoes, TakeOverTimes
<1>29. ASSUME NEW c \in Claims, Object(c)
      PROVE  Trusted'
  BY <1>29, <1>1, ObjectDoes, ObjectTimes DEF Object
<1>30. ASSUME NEW c \in Claims, Approve(c)
      PROVE  Trusted'
  BY <1>30, <1>1 DEF Approve, Server!Approve
<1>31. CASE WorkerStops
  BY <1>31, <1>1, StopsLate DEF WorkerStops, Idle
<1>32. CASE Tick
  BY <1>32, <1>1 DEF Tick, Server!Advance
\* No other action changes what this is about.
<1>33. CASE OpenPopup \/ ClosePopup \/ StartAgain
  BY <1>33, <1>1 DEF OpenPopup, ClosePopup, StartAgain, Show
<1>34. CASE UNCHANGED vars
  BY <1>34 DEF vars
<1> HIDE DEF Lasting, Inv, Shaped, Carried, Calls, server, stored, popup, user, Moves, Ends,
    Keeps, Times, Trusted, Holds, KeysDiffer, StoresTaken, SawTakeover
<1> QED BY <1>2, <1>3, <1>4, <1>5, <1>6, <1>7, <1>8, <1>9, <1>10, <1>11, <1>12, <1>13, <1>14,
    <1>15, <1>16, <1>17, <1>18, <1>19, <1>20, <1>21, <1>22, <1>23, <1>24, <1>25, <1>26, <1>27,
    <1>28, <1>29, <1>30, <1>31, <1>32, <1>33, <1>34 DEF Next, Work

\* The clock moves only when no other coroutine could take the key away, and
\* what promotes or stores it comes after that.
LEMMA KeptOrLostStep ==
    ASSUME Lasting, [Next]_vars, Cooling > 0
    PROVE  KeptOrLost'
<1> USE NoneIsNew DEF Lasting, Inv, Shaped, Carried, Calls, server, stored, popup, user, Moves,
    Ends, Keeps, Times, KeptOrLost, Kept, Lost, Promoted, Holds, Due, FinishOf, KeysDiffer,
    Asks, Known, Looks, WaitedFirst, Waited, Ripe, Completes, CleansUp, ToldOver, Ended,
    StoresTaken, SawTakeover, Beginning, HasRequest, OnlyOpened
<1>1. /\ \A t \in Coroutines : task[t].op \in {"none", "begin", "poll", "finish", "abandon"}
      /\ late \subseteq Claims /\ opened \subseteq Claims
      /\ recovery \in Claims \union {None} /\ pendingKey \in Keys \union {None}
      /\ time \in Nat /\ Cooling \in Nat
      /\ \A c \in Claims : claim[c].ready \in Nat /\ claim[c].until \in Nat
      /\ \A t \in Coroutines : task[t].pc = "sent" =>
           task[t].key \in Keys /\ (task[t].call # "request" => task[t].req \in Claims)
  BY Numbers DEF TypeOK, Tasks
<1>2. ASSUME NEW t \in Coroutines, BeginRecovery(t)
      PROVE  KeptOrLost'
  BY SMTT(30), <1>2, <1>1, EnterMoves DEF BeginRecovery, Press
<1>3. ASSUME NEW t \in Coroutines, FinishRecovery(t)
      PROVE  KeptOrLost'
  BY SMTT(30), <1>3, <1>1, EnterMoves DEF FinishRecovery, Press
<1>4. ASSUME NEW t \in Coroutines, AbandonRecovery(t)
      PROVE  KeptOrLost'
  BY SMTT(30), <1>4, <1>1, EnterMoves DEF AbandonRecovery, Press
<1>5. ASSUME NEW t \in Coroutines, RecoveryProgress(t)
      PROVE  KeptOrLost'
  BY SMTT(30), <1>5, <1>1, EnterMoves DEF RecoveryProgress
<1>6. ASSUME NEW t \in Coroutines, Served(t)
      PROVE  KeptOrLost'
  <2>1. PICK c \in Claims, a \in Answers :
          /\ Answering(t, c, a)
          /\ \/ Requesting(t, c, a) \/ Polling(t, c, a)
             \/ Completing(t, c, a) \/ Cancelling(t, c, a)
    BY <1>6, ServedCases
  <2>2. /\ task[t].pc = "sent"
        /\ Moves(t, task[t].op, "answered", c, task[t].key, task[t].call, a)
        /\ UNCHANGED <<stored, popup, user, late>>
    BY <2>1, AnsweringMoves
  <2>3. CASE Requesting(t, c, a)
    BY SMTT(30), <2>2, <2>3, AskDoes, AskTimes, <1>1 DEF Requesting
  <2>4. CASE Polling(t, c, a)
    <3>1. CASE Server!Begin(c)
      BY SMTT(30), <2>2, <2>4, <3>1, BeginDoes, BeginTimes, <1>1 DEF Polling
    <3>2. CASE UNCHANGED server
      BY SMTT(30), <2>2, <2>4, <3>2, <1>1 DEF Polling
    <3> QED BY <2>4, <3>1, <3>2 DEF Polling
  <2>5. CASE Completing(t, c, a)
    BY SMTT(30), <2>2, <2>5, TakeOverDoes, TakeOverTimes, <1>1 DEF Completing
  <2>6. CASE Cancelling(t, c, a)
    BY SMTT(30), <2>2, <2>6, ObjectDoes, ObjectTimes, <1>1 DEF Cancelling
  <2> QED BY <2>1, <2>3, <2>4, <2>5, <2>6
<1>7. ASSUME NEW t \in Coroutines, CallFails(t)
      PROVE  KeptOrLost'
  BY SMTT(30), <1>7, <1>1, CallFailsMoves, CallFailsLate
<1>8. ASSUME NEW t \in Coroutines, AccessFails(t)
      PROVE  KeptOrLost'
  BY SMTT(30), <1>8, <1>1, GotoMoves, ThrowMoves DEF AccessFails, Caught, NotCaught
<1>9. ASSUME NEW t \in Coroutines, Exists(t)
      PROVE  KeptOrLost'
  BY SMTT(30), <1>9, <1>1, GotoMoves, ThrowMoves DEF Exists
<1>10. ASSUME NEW t \in Coroutines, NoneInProgress(t)
      PROVE  KeptOrLost'
  BY SMTT(30), <1>10, <1>1, NoneInProgressCases, GotoMoves, ReturnMoves, ThrowMoves
<1>11. ASSUME NEW t \in Coroutines, InProgress(t)
      PROVE  KeptOrLost'
  BY SMTT(30), <1>11, <1>1, StepMoves, ThrowMoves DEF InProgress
<1>12. ASSUME NEW t \in Coroutines, AskServer(t)
      PROVE  KeptOrLost'
  BY SMTT(30), <1>12, <1>1, SendMoves DEF AskServer, HasKey
<1>13. ASSUME NEW t \in Coroutines, NoKeyLeft(t)
      PROVE  KeptOrLost'
  BY SMTT(30), <1>13, <1>1, NoKeyLeftCases, GotoMoves, ThrowMoves
<1>14. ASSUME NEW t \in Coroutines, MakeKey(t)
      PROVE  KeptOrLost'
  BY SMTT(30), <1>14, <1>1, SendMoves DEF MakeKey, FreshKey
<1>15. ASSUME NEW t \in Coroutines, Requested(t)
      PROVE  KeptOrLost'
  BY SMTT(30), <1>15, <1>1, GotoMoves DEF Requested
<1>16. ASSUME NEW t \in Coroutines, WriteState(t)
      PROVE  KeptOrLost'
  BY SMTT(30), <1>16, <1>1, GotoMoves DEF WriteState
<1>17. ASSUME NEW t \in Coroutines, OpenCeremony(t)
      PROVE  KeptOrLost'
  BY SMTT(30), <1>17, <1>1, ReturnMoves DEF OpenCeremony
<1>18. ASSUME NEW t \in Coroutines, ProgressAnswered(t)
      PROVE  KeptOrLost'
  BY SMTT(30), <1>18, <1>1, ProgressAnsweredCases, GotoMoves, ReturnMoves, ThrowMoves
<1>19. ASSUME NEW t \in Coroutines, FinishAnswered(t)
      PROVE  KeptOrLost'
  BY SMTT(30), <1>19, <1>1, FinishAnsweredCases, GotoMoves, SendMoves, ThrowMoves
<1>20. ASSUME NEW t \in Coroutines, CompleteAnswered(t)
      PROVE  KeptOrLost'
  BY SMTT(30), <1>20, <1>1, GotoMoves, ThrowMoves DEF CompleteAnswered, CompletedNow
<1>21. ASSUME NEW t \in Coroutines, LoadPending(t)
      PROVE  KeptOrLost'
  BY SMTT(30), <1>21, <1>1, StepMoves, ThrowMoves DEF LoadPending
<1>22. ASSUME NEW t \in Coroutines, PromoteKey(t)
      PROVE  KeptOrLost'
  BY SMTT(30), <1>22, <1>1, GotoMoves DEF PromoteKey, Promote
<1>23. ASSUME NEW t \in Coroutines, StoreVault(t)
      PROVE  KeptOrLost'
  BY SMTT(30), <1>23, <1>1, GotoMoves DEF StoreVault
<1>24. ASSUME NEW t \in Coroutines, Restored(t)
      PROVE  KeptOrLost'
  BY SMTT(30), <1>24, <1>1, ReturnMoves DEF Restored
<1>25. ASSUME NEW t \in Coroutines, CancelAnswered(t)
      PROVE  KeptOrLost'
  BY SMTT(30), <1>25, <1>1, GotoMoves DEF CancelAnswered
<1>26. ASSUME NEW t \in Coroutines, Discard(t)
      PROVE  KeptOrLost'
  BY SMTT(30), <1>26, <1>1, GotoMoves DEF Discard
<1>27. ASSUME NEW t \in Coroutines, Clear(t)
      PROVE  KeptOrLost'
  BY SMTT(30), <1>27, <1>1, ClearCases, ReturnMoves, ThrowMoves
<1>28. ASSUME NEW c \in late, ServedLate(c)
      PROVE  KeptOrLost'
  BY SMTT(30), <1>28, <1>1, ServedLateCases, TakeOverDoes, TakeOverTimes
<1>29. ASSUME NEW c \in Claims, Object(c)
      PROVE  KeptOrLost'
  BY SMTT(30), <1>29, <1>1, ObjectDoes, ObjectTimes DEF Object
<1>30. ASSUME NEW c \in Claims, Approve(c)
      PROVE  KeptOrLost'
  BY SMTT(30), <1>30, <1>1 DEF Approve, Server!Approve
<1>31. CASE WorkerStops
  BY SMTT(30), <1>31, <1>1, StopsLate DEF WorkerStops, Idle
<1>32. CASE Tick
  <2> SUFFICES ASSUME NEW c \in Claims \ gaveUp, Due(c)'
               PROVE  Kept(c)' \/ Lost(c)' \/ Promoted(c)'
    BY <1>32 DEF Tick
  <2>1. /\ time' = time + 1
        /\ \A t \in Coroutines :
             \/ task[t].op = "none"
             \/ task[t].op = "poll" /\ task[t].req \in {None, recovery}
             \/ /\ task[t].op = "finish" /\ task[t].req = recovery
                /\ task[t].pc \notin {"exists", "state", "key"} /\ task[t].call # "status"
        /\ UNCHANGED <<key, approved, claim, stored, popup, user, task, late>>
    BY <1>32 DEF Tick, Server!Advance
  <2>2. CASE Due(c)
    <3>1. Kept(c) \/ Lost(c) \/ Promoted(c)
      BY <2>2
    <3>2. Kept(c) => Kept(c)'
      BY <2>1
    <3>3. Lost(c) => Lost(c)'
      BY <2>1
    <3>4. Promoted(c) => Promoted(c)'
      BY <2>1
    <3> QED BY <3>1, <3>2, <3>3, <3>4
  <2>3. CASE ~ Due(c)
    <3>1. claim[c].phase = "waiting" /\ ~ Waited(c)
      BY <1>1, <2>1, <2>3
    <3>2. c \notin late
      BY <3>1
    <3>3. \A t \in Coroutines : FinishOf(t, c) => task[t].pc \in {"discard", "clear"}
      <4> SUFFICES ASSUME NEW t \in Coroutines, FinishOf(t, c),
                          task[t].pc \notin {"discard", "clear"}
                   PROVE  FALSE
        OBVIOUS
      <4>1. ~ SawTakeover(t) /\ ~ Completes(t)
        BY <3>1
      <4>2. task[t].pc \in {"sent", "answered"}
        BY <2>1, <4>1 DEF TypeOK, Tasks
      <4>3. task[t].call = "complete"
        BY <2>1, <4>2
      <4> QED BY <4>1, <4>2, <4>3
    <3>4. CASE recovery = c /\ pendingKey = claim[c].key
      <4>1. \A t \in Coroutines : task[t].op = "finish" => task[t].pc \in {"discard", "clear"}
        BY <2>1, <3>3, <3>4
      <4> QED BY <2>1, <3>1, <3>2, <3>4, <4>1
    <3>5. CASE pendingKey # claim[c].key
      BY <2>1, <3>1, <3>2, <3>3, <3>5
    <3>6. CASE recovery # c
      <4>1. \A t \in Coroutines : ~ FinishOf(t, c)
        BY <2>1, <3>6
      <4> QED BY <2>1, <3>1, <3>2, <3>6, <4>1
    <3> QED BY <3>4, <3>5, <3>6
  <2> QED BY <2>2, <2>3
\* No other action changes what this is about.
<1>33. CASE OpenPopup \/ ClosePopup \/ StartAgain
  BY SMTT(30), <1>33, <1>1 DEF OpenPopup, ClosePopup, StartAgain, Show
<1>34. CASE UNCHANGED vars
  BY <1>34 DEF vars
<1> HIDE DEF Lasting, Inv, Shaped, Carried, Calls, server, stored, popup, user, Moves, Ends,
    Keeps, Times, KeptOrLost, Kept, Lost, Promoted, Holds, Due, FinishOf, KeysDiffer, Asks,
    Known, Looks, WaitedFirst, Waited, Ripe, Completes, CleansUp, ToldOver, Ended, StoresTaken,
    SawTakeover, Beginning, HasRequest, OnlyOpened
<1> QED BY <1>2, <1>3, <1>4, <1>5, <1>6, <1>7, <1>8, <1>9, <1>10, <1>11, <1>12, <1>13, <1>14,
    <1>15, <1>16, <1>17, <1>18, <1>19, <1>20, <1>21, <1>22, <1>23, <1>24, <1>25, <1>26, <1>27,
    <1>28, <1>29, <1>30, <1>31, <1>32, <1>33, <1>34 DEF Next, Work

LEMMA LastingInitially == Init => Lasting
<1> SUFFICES ASSUME Init PROVE Lasting
  OBVIOUS
<1>1. Inv
  BY Initially
<1>2. \A c \in Claims : claim[c].phase = "absent"
  BY DEF Init, Server!Init, Server!NoClaim
<1>3. \A t \in Coroutines : task[t].op = "none" /\ task[t].pc = "idle"
  BY DEF Init, Idle
<1>4. KeysDiffer /\ Known /\ WaitedFirst
  BY <1>2, <1>3 DEF Init, KeysDiffer, Asks, Known, Looks, WaitedFirst, Completes
<1>5. CleansUp /\ StoresTaken
  BY <1>3 DEF CleansUp, Looks, StoresTaken, SawTakeover
<1>6. Trusted /\ KeptOrLost
  BY <1>2 DEF Init, Server!Init, Trusted, KeptOrLost, Due, Holds
<1> QED
  BY <1>1, <1>4, <1>5, <1>6 DEF Lasting

LEMMA LastingInductive ==
    ASSUME Lasting, [Next]_vars, Cooling > 0
    PROVE  Lasting'
<1>1. Inv'
  BY Inductive DEF Lasting
<1>2. KeysDiffer' /\ Known' /\ WaitedFirst'
  BY KeysDifferStep, KnownStep, WaitedFirstStep
<1>3. CleansUp' /\ StoresTaken' /\ Trusted' /\ KeptOrLost'
  BY CleansUpStep, StoresTakenStep, TrustedStep, KeptOrLostStep
<1> QED
  BY <1>1, <1>2, <1>3 DEF Lasting

LEMMA LastingInvariant ==
    ASSUME Cooling > 0
    PROVE  Spec => []Lasting
<1>1. Init => Lasting
  BY LastingInitially
<1>2. Lasting /\ [Next]_vars => Lasting'
  BY LastingInductive
<1> QED
  BY <1>1, <1>2, PTL DEF Spec

\* What the server took over to is not lost on the way: neither recoveryProgress()
\* nor the other functions discard or replace the key of a recovery that took
\* over, unless that recovery was cancelled or another one started.  Without a
\* wait the next recovery could take over while a poll of the last one still
\* cleans up.
THEOREM TakenKeyStays ==
    ASSUME Cooling > 0
    PROVE  Spec => []KeyIsKept
<1>1. Lasting => KeyIsKept
  <2> SUFFICES ASSUME Lasting, NEW c \in Claims \ gaveUp, Holds(c)
               PROVE  key \in {pendingKey, activeKey}
    BY DEF KeyIsKept, Holds
  <2>1. Kept(c) \/ Lost(c) \/ Promoted(c)
    BY DEF Lasting, KeptOrLost, Due
  <2> QED
    BY <2>1 DEF Kept, Lost, Promoted, Holds
<1> QED
  BY LastingInvariant, <1>1, PTL

\* finishRecovery() stores the share only on an install whose active key is the
\* one the server trusts, however its calls overlap and whatever fails, and no
\* later call changes either of the two, unless the user gave the recovery of
\* the trusted key up.
THEOREM RestoredIsTrusted ==
    ASSUME Cooling > 0
    PROVE  Spec => []FinishedIsTrusted
<1>1. Lasting => FinishedIsTrusted
  <2> SUFFICES ASSUME Lasting, vault
               PROVE  \/ activeKey = key /\ key # None
                      \/ \E c \in gaveUp : claim[c].phase = "taken" /\ claim[c].key = key
    BY DEF FinishedIsTrusted
  <2>1. PICK c \in Claims : Holds(c)
    BY DEF Lasting, Trusted
  <2>2. CASE c \in gaveUp
    BY <2>1, <2>2 DEF Holds
  <2>3. CASE c \notin gaveUp
    <3>1. Kept(c) \/ Lost(c) \/ Promoted(c)
      BY <2>1, <2>3 DEF Lasting, KeptOrLost, Due
    <3> QED
      BY <2>1, <3>1 DEF Lasting, Trusted, Kept, Lost, Promoted, Holds
  <2> QED
    BY <2>2, <2>3
<1> QED
  BY LastingInvariant, <1>1, PTL
=============================================================================
