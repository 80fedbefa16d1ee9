------------------------- MODULE ServerShareProofs -------------------------
(***************************************************************************)
(* Proofs about ServerShare for every number of sessions, calls in flight  *)
(* and rounds, from one inductive invariant, Inv; then about the system    *)
(* that ReshareDevice makes of it with a device, for every number of       *)
(* reshares, from SystemInv.  A step of the system is described there by   *)
(* its effect on each variable, and each conjunct of the invariant is      *)
(* shown to survive every effect.                                          *)
(***************************************************************************)
EXTENDS ReshareDevice, TLAPS

\* A reshare's approval is consumed only in a wallet that has a share, and a
\* share once there stays.
ShareBeforeReshare == \A r \in ReshareIds : grant[r] = "consumed" => live # None

Inv == TypeOK /\ WorkIsApproved /\ ShareBeforeReshare

\* The call is answered or dropped: it keeps nothing of what it worked on.
Released(h) ==
    \E pc \in {"idle", "ok", "refused"} : task' = [task EXCEPT ![h] = Resting(pc)]

\* What WorkIsApproved asks an approval for.
Works(o) ==
    \/ session[o] # NoSession
    \/ \E h \in Handlers : task[h].id = o
    \/ staged.share = o
    \/ live = o

\* The conjuncts of TypeOK that are about the calls.
TasksOK ==
    /\ task \in [Handlers -> Tasks]
    /\ \A h \in Handlers :
         /\ task[h].pc = "read" => task[h].id \in ApprovedIds
         /\ task[h].pc \in {"open", "send", "close"} => task[h].id \in Ids
         /\ task[h].pc = "send" => task[h].round \in 1..(LastRound - 1)
         /\ task[h].pc = "fail" => task[h].id \in ReshareIds

-----------------------------------------------------------------------------
(* Lemmas on the helpers                                                    *)

\* An idle or answered call holds nothing.
LEMMA IdleTasks ==
    \A pc \in {"idle", "ok", "refused"} :
        /\ Resting(pc) \in Tasks
        /\ Resting(pc).pc = pc
        /\ Resting(pc).id = None
BY LastRoundIsPositive DEF Resting, Tasks

\* Rows that Put and Delete write are rows.
LEMMA Rows ==
    /\ NoSession \in Sessions \union {NoSession}
    /\ \A n \in 1..LastRound, b \in Shares \union {None} :
         [round |-> n, base |-> b] \in Sessions
BY DEF Sessions

\* None names no session, so a call that holds nothing works on none.
LEMMA NoneIsNoId == None \notin Ids /\ None \notin Shares
BY IdsAreDisjoint DEF Ids, Shares

\* A released call leaves the calls well formed, and no new work.
LEMMA ReleasedCalls ==
    ASSUME TypeOK, NEW h \in Handlers, Released(h)
    PROVE  /\ TasksOK'
           /\ \A g \in Handlers, o \in Ids : task'[g].id = o => task[g].id = o
<1> PICK pc \in {"idle", "ok", "refused"} : task' = [task EXCEPT ![h] = Resting(pc)]
  BY DEF Released
<1>1. task' \in [Handlers -> Tasks]
  BY IdleTasks DEF TypeOK
<1>2. \A g \in Handlers : task'[g] = IF g = h THEN Resting(pc) ELSE task[g]
  BY DEF TypeOK
<1>3. TasksOK'
  BY <1>1, <1>2, IdleTasks DEF TypeOK, TasksOK
<1>4. ASSUME NEW g \in Handlers, NEW o \in Ids, task'[g].id = o
      PROVE  task[g].id = o
  BY <1>2, <1>4, IdleTasks, NoneIsNoId
<1>5. QED
  BY <1>3, <1>4

\* Replies, answers and dropped calls release.
LEMMA Releases ==
    /\ \A h : Reply(h, "ok") \/ Reply(h, "refused") => Released(h)
    /\ \A h \in Handlers : Answer(h) \/ Abandon(h) => Released(h)
BY DEF Reply, Released, Answer, Abandon, Idle

\* A call that begins work on an operation it may work on is well formed, and
\* the only new work is that one.
LEMMA BegunCalls ==
    ASSUME TypeOK, NEW h \in Handlers, NEW i \in Ids, NEW n \in 0..LastRound,
           NEW b \in Shares \union {None}, NEW pc \in {"read", "open", "send", "close", "fail"},
           Begin(h, pc, i, n, b),
           pc = "read" => i \in ApprovedIds,
           pc = "send" => n \in 1..(LastRound - 1),
           pc = "fail" => i \in ReshareIds
    PROVE  /\ TasksOK'
           /\ \A g \in Handlers, o \in Ids : task'[g].id = o => task[g].id = o \/ o = i
<1>1. [pc |-> pc, id |-> i, round |-> n, base |-> b] \in Tasks
  BY DEF Tasks
<1>2. \A g \in Handlers :
        task'[g] = IF g = h THEN [pc |-> pc, id |-> i, round |-> n, base |-> b] ELSE task[g]
  BY DEF TypeOK, Begin
<1>3. task' \in [Handlers -> Tasks]
  BY <1>1 DEF TypeOK, Begin
<1>4. TasksOK'
  BY <1>2, <1>3 DEF TypeOK, TasksOK
<1>5. ASSUME NEW g \in Handlers, NEW o \in Ids, task'[g].id = o
      PROVE  task[g].id = o \/ o = i
  BY <1>2, <1>5
<1>6. QED
  BY <1>4, <1>5

\* Writing a row leaves rows, and work only on that row's operation.
LEMMA WrittenRows ==
    ASSUME TypeOK, NEW i \in Ids, NEW n \in 1..LastRound,
           NEW b \in Shares \union {None}, Put(i, n, b)
    PROVE  /\ session' \in [Ids -> Sessions \union {NoSession}]
           /\ \A o \in Ids : session'[o] # NoSession => session[o] # NoSession \/ o = i
BY Rows DEF Put, TypeOK

\* Deleting a row leaves rows, and no new ones.
LEMMA DeletedRows ==
    ASSUME TypeOK, NEW i \in Ids, Delete(i)
    PROVE  /\ session' \in [Ids -> Sessions \union {NoSession}]
           /\ \A o \in Ids : session'[o] # NoSession => session[o] # NoSession
BY Rows DEF Delete, TypeOK

\* An abort leaves rows and shares well formed, and no new work.
LEMMA Aborted ==
    ASSUME TypeOK, NEW r \in ReshareIds, AbortReshare(r)
    PROVE  /\ session' \in [Ids -> Sessions \union {NoSession}]
           /\ \A o \in Ids : session'[o] # NoSession => session[o] # NoSession
           /\ staged' \in {staged, NoStaged}
<1>1. r \in Ids
  BY DEF Ids
<1>2. QED
  BY <1>1, DeletedRows DEF AbortReshare

\* The row a call has taken, when the message fits and more rounds follow.
LEMMA TakenRow ==
    ASSUME TypeOK, NEW i \in Ids, session[i] # NoSession
    PROVE  /\ session[i].round \in 1..LastRound
           /\ session[i].base \in Shares \union {None}
BY DEF TypeOK, Sessions

-----------------------------------------------------------------------------
(* The invariant is inductive                                               *)

\* What every step keeps: types; new work only with a consumed approval;
\* approvals stay consumed; the share stays; a reshare's approval is consumed
\* only where there is a share.
Sound ==
    /\ TypeOK'
    /\ \A o \in ApprovedIds : Works(o)' => Works(o) \/ grant'[o] = "consumed"
    /\ \A o \in ApprovedIds : grant[o] = "consumed" => grant'[o] = "consumed"
    /\ live # None => live' # None
    /\ \A r \in ReshareIds :
         grant'[r] = "consumed" => grant[r] = "consumed" \/ live # None

LEMMA SoundSteps ==
    ASSUME Inv, Sound PROVE Inv'
<1>1. TypeOK'
  BY DEF Sound
<1>2. WorkIsApproved'
  BY DEF Sound, Inv, WorkIsApproved, Works
<1>3. ShareBeforeReshare'
  BY DEF Sound, Inv, ShareBeforeReshare
<1>4. QED
  BY <1>1, <1>2, <1>3 DEF Inv

\* A step of the calls alone, or of the calls and the sessions, that keeps
\* both well formed and begins work only on approved operations.
LEMMA CallSteps ==
    ASSUME Inv, TasksOK', UNCHANGED <<live, grant, staged>>,
           session' \in [Ids -> Sessions \union {NoSession}],
           \A o \in ApprovedIds :
             /\ session'[o] # NoSession => Works(o)
             /\ \A h \in Handlers : task'[h].id = o => Works(o)
    PROVE  Sound
<1>1. TypeOK'
  BY DEF Inv, TypeOK, TasksOK
<1>2. \A o \in ApprovedIds : Works(o)' => Works(o)
  BY DEF Works
<1>3. QED
  BY <1>1, <1>2 DEF Sound

\* A call that ends without touching a table.
LEMMA QuietSteps ==
    ASSUME Inv, NEW h \in Handlers, Released(h), UNCHANGED <<live, grant, session, staged>>
    PROVE  Sound
<1>1. /\ TasksOK'
      /\ \A g \in Handlers, o \in Ids : task'[g].id = o => task[g].id = o
  BY ReleasedCalls DEF Inv
<1>2. ApprovedIds \subseteq Ids
  BY DEF ApprovedIds, Ids
<1>3. QED
  BY <1>1, <1>2, CallSteps DEF Inv, TypeOK, Works

LEMMA AnswerStep ==
    ASSUME Inv, NEW h \in Handlers, Answer(h) \/ Abandon(h) PROVE Sound
<1>1. Released(h) /\ UNCHANGED <<live, grant, session, staged>>
  BY Releases DEF Answer, Abandon
<1>2. QED
  BY <1>1, QuietSteps

LEMMA ApproveStep ==
    ASSUME Inv, NEW o \in ApprovedIds, Approve(o) \/ GrantLapses(o) PROVE Sound
<1>1. grant' \in [ApprovedIds -> {"none", "granted", "lapsed", "consumed"}]
  BY DEF Inv, TypeOK, Approve, GrantLapses
<1>2. TypeOK'
  BY <1>1 DEF Inv, TypeOK, Approve, GrantLapses
<1>3. \A a \in ApprovedIds : grant[a] = "consumed" <=> grant'[a] = "consumed"
  BY DEF Inv, TypeOK, Approve, GrantLapses
<1>4. \A a \in ApprovedIds : Works(a)' => Works(a)
  BY DEF Works, Approve, GrantLapses
<1>5. live' = live
  BY DEF Approve, GrantLapses
<1>6. QED
  BY <1>2, <1>3, <1>4, <1>5 DEF Sound, ApprovedIds

LEMMA StagedLapsesStep ==
    ASSUME Inv, StagedLapses PROVE Sound
<1>1. staged' \in StagedShares /\ staged'.share = staged.share
  BY DEF Inv, TypeOK, StagedLapses, StagedShares, NoStaged
<1>2. TypeOK'
  BY <1>1 DEF Inv, TypeOK, StagedLapses
<1>3. \A o \in ApprovedIds : Works(o)' => Works(o)
  BY <1>1 DEF Works, StagedLapses
<1>4. QED
  BY <1>2, <1>3 DEF Sound, StagedLapses

LEMMA StartStep ==
    ASSUME Inv, NEW h \in Handlers, NEW o \in ApprovedIds, Start(h, o) PROVE Sound
<1>1. CASE Reply(h, "refused") /\ UNCHANGED grant
  <2>1. Released(h) /\ UNCHANGED <<live, grant, session, staged>>
    BY <1>1, Releases DEF Start
  <2>2. QED
    BY <2>1, QuietSteps
<1>2. CASE Startable(o) /\ ConsumeGrant(o) /\ Begin(h, "read", o, 0, None)
  <2>1. o \in Ids /\ 0 \in 0..LastRound
    BY LastRoundIsPositive DEF ApprovedIds, Ids
  <2>2. /\ TasksOK'
        /\ \A g \in Handlers, a \in Ids : task'[g].id = a => task[g].id = a \/ a = o
    BY <1>2, <2>1, BegunCalls DEF Inv
  <2>3. /\ grant' \in [ApprovedIds -> {"none", "granted", "lapsed", "consumed"}]
        /\ grant'[o] = "consumed"
        /\ \A a \in ApprovedIds : a # o => grant'[a] = grant[a]
    BY <1>2 DEF ConsumeGrant, Inv, TypeOK
  <2>4. TypeOK'
    BY <2>2, <2>3 DEF Inv, TypeOK, TasksOK, Start
  <2>5. \A a \in ApprovedIds : Works(a)' => Works(a) \/ grant'[a] = "consumed"
    BY <2>2, <2>3 DEF Works, Start, ApprovedIds, Ids
  <2>6. \A r \in ReshareIds :
          grant'[r] = "consumed" => grant[r] = "consumed" \/ live # None
    BY <1>2, <2>3 DEF Startable, ApprovedIds
  <2>7. QED
    BY <2>3, <2>4, <2>5, <2>6 DEF Sound, Start
<1>3. QED
  BY <1>1, <1>2 DEF Start

LEMMA ReadShareStep ==
    ASSUME Inv, NEW h \in Handlers, ReadShare(h) PROVE Sound
<1>1. CASE Reply(h, "refused")
  <2>1. Released(h) /\ UNCHANGED <<live, grant, session, staged>>
    BY <1>1, Releases DEF ReadShare
  <2>2. QED
    BY <2>1, QuietSteps
<1>2. CASE Begin(h, "open", task[h].id, 0, live)
  <2>1. task[h].id \in Ids /\ 0 \in 0..LastRound /\ live \in Shares \union {None}
    BY LastRoundIsPositive DEF Inv, TypeOK, ReadShare, ApprovedIds, Ids
  <2>2. /\ TasksOK'
        /\ \A g \in Handlers, a \in Ids :
             task'[g].id = a => task[g].id = a \/ a = task[h].id
    BY <1>2, <2>1, BegunCalls DEF Inv
  <2>3. \A a \in ApprovedIds, g \in Handlers : task'[g].id = a => Works(a)
    BY <2>2 DEF Works, ApprovedIds, Ids
  <2>4. QED
    BY <2>2, <2>3, CallSteps DEF ReadShare, Works, Inv, TypeOK
<1>3. QED
  BY <1>1, <1>2 DEF ReadShare

\* Open and Send write the row of the call's own session.
LEMMA WriteStep ==
    ASSUME Inv, NEW h \in Handlers, NEW n \in 1..LastRound, task[h].id \in Ids,
           Put(task[h].id, n, task[h].base), Reply(h, "ok"),
           UNCHANGED <<live, grant, staged>>
    PROVE  Sound
<1>1. task[h].base \in Shares \union {None}
  BY DEF Inv, TypeOK, Tasks
<1>2. /\ session' \in [Ids -> Sessions \union {NoSession}]
      /\ \A o \in Ids : session'[o] # NoSession => session[o] # NoSession \/ o = task[h].id
  BY <1>1, WrittenRows DEF Inv
<1>3. /\ TasksOK'
      /\ \A g \in Handlers, o \in Ids : task'[g].id = o => task[g].id = o
  BY Releases, ReleasedCalls DEF Inv
<1>4. \A o \in ApprovedIds :
        /\ session'[o] # NoSession => Works(o)
        /\ \A g \in Handlers : task'[g].id = o => Works(o)
  BY <1>2, <1>3 DEF Works, ApprovedIds, Ids
<1>5. QED
  BY <1>2, <1>3, <1>4, CallSteps

LEMMA OpenStep ==
    ASSUME Inv, NEW h \in Handlers, Open(h) PROVE Sound
<1>1. 1 \in 1..LastRound /\ task[h].id \in Ids
  BY LastRoundIsPositive DEF Inv, TypeOK, Open
<1>2. QED
  BY <1>1, WriteStep DEF Open

LEMMA SendStep ==
    ASSUME Inv, NEW h \in Handlers, Send(h) PROVE Sound
<1>1. task[h].id \in Ids /\ task[h].round \in 1..(LastRound - 1)
  BY DEF Inv, TypeOK, Send
<1>2. task[h].round + 1 \in 1..LastRound
  BY <1>1, LastRoundIsPositive
<1>3. QED
  BY <1>1, <1>2, WriteStep DEF Send

LEMMA StartDkgStep ==
    ASSUME Inv, NEW h \in Handlers, NEW d \in DkgIds, StartDkg(h, d) PROVE Sound
<1>1. d \in Ids /\ d \notin ApprovedIds /\ 1 \in 1..LastRound
  BY IdsAreDisjoint, LastRoundIsPositive DEF Ids, ApprovedIds
<1>2. /\ session' \in [Ids -> Sessions \union {NoSession}]
      /\ \A o \in Ids : session'[o] # NoSession => session[o] # NoSession \/ o = d
  BY <1>1, WrittenRows DEF Inv, StartDkg
<1>3. /\ TasksOK'
      /\ \A g \in Handlers, o \in Ids : task'[g].id = o => task[g].id = o
  BY Releases, ReleasedCalls DEF Inv, StartDkg
<1>4. \A o \in ApprovedIds :
        /\ session'[o] # NoSession => Works(o)
        /\ \A g \in Handlers : task'[g].id = o => Works(o)
  BY <1>1, <1>2, <1>3 DEF Works, ApprovedIds, Ids
<1>5. QED
  BY <1>2, <1>3, <1>4, CallSteps DEF StartDkg

\* Steps that delete the session and end the call.
LEMMA CloseSteps ==
    ASSUME Inv, NEW h \in Handlers, NEW i \in Ids, Delete(i), Released(h),
           UNCHANGED <<live, grant, staged>>
    PROVE  Sound
<1>1. /\ session' \in [Ids -> Sessions \union {NoSession}]
      /\ \A o \in Ids : session'[o] # NoSession => session[o] # NoSession
  BY DeletedRows DEF Inv
<1>2. /\ TasksOK'
      /\ \A g \in Handlers, o \in Ids : task'[g].id = o => task[g].id = o
  BY ReleasedCalls DEF Inv
<1>3. \A o \in ApprovedIds :
        /\ session'[o] # NoSession => Works(o)
        /\ \A g \in Handlers : task'[g].id = o => Works(o)
  BY <1>1, <1>2 DEF Works, ApprovedIds, Ids
<1>4. QED
  BY <1>1, <1>2, <1>3, CallSteps

\* Steps that go on with a session there is.
LEMMA GoOnSteps ==
    ASSUME Inv, NEW h \in Handlers, NEW i \in Ids, session[i] # NoSession,
           NEW n \in 0..LastRound, NEW b \in Shares \union {None},
           NEW pc \in {"send", "close", "fail"}, Begin(h, pc, i, n, b),
           pc = "send" => n \in 1..(LastRound - 1),
           pc = "fail" => i \in ReshareIds,
           UNCHANGED <<live, grant, session, staged>>
    PROVE  Sound
<1>1. /\ TasksOK'
      /\ \A g \in Handlers, o \in Ids : task'[g].id = o => task[g].id = o \/ o = i
  BY BegunCalls DEF Inv
<1>2. \A o \in ApprovedIds :
        /\ session'[o] # NoSession => Works(o)
        /\ \A g \in Handlers : task'[g].id = o => Works(o)
  BY <1>1 DEF Works, ApprovedIds, Ids
<1>3. QED
  BY <1>1, <1>2, CallSteps DEF Inv, TypeOK

LEMMA TakeStep ==
    ASSUME Inv, NEW h \in Handlers, NEW i \in Ids, NEW n \in 1..LastRound,
           NEW b \in Shares \union {None}, Take(h, i, n, b)
    PROVE  Sound
<1>1. CASE TakeNothing(h, i)
  BY <1>1, Releases, CloseSteps DEF Take, TakeNothing
<1>2. CASE TakeAndFail(h, i)
  <2>1. CASE Reply(h, "refused")
    BY <1>2, <2>1, Releases, QuietSteps DEF Take, TakeAndFail
  <2>2. CASE i \in ReshareIds /\ Begin(h, "fail", i, 0, None)
    <3>1. 0 \in 0..LastRound /\ None \in Shares \union {None}
      BY LastRoundIsPositive
    <3>2. QED
      BY <1>2, <2>2, <3>1, GoOnSteps DEF Take, TakeAndFail
  <2>3. QED
    BY <1>2, <2>1, <2>2 DEF TakeAndFail
<1>3. CASE TakeAndAdvance(h, i, n, b)
  <2>1. session[i].round \in 1..LastRound /\ session[i].base \in Shares \union {None}
    BY <1>3, TakenRow DEF Inv, TakeAndAdvance
  <2>2. CASE MoreRounds(session[i]) /\ Begin(h, "send", i, session[i].round, session[i].base)
    <3>1. session[i].round \in 1..(LastRound - 1) /\ session[i].round \in 0..LastRound
      BY <2>1, <2>2, LastRoundIsPositive DEF MoreRounds
    <3>2. QED
      BY <1>3, <2>1, <2>2, <3>1, GoOnSteps DEF Take, TakeAndAdvance
  <2>3. CASE Begin(h, "close", i, 0, None)
    <3>1. 0 \in 0..LastRound /\ None \in Shares \union {None}
      BY LastRoundIsPositive
    <3>2. QED
      BY <1>3, <2>3, <3>1, GoOnSteps DEF Take, TakeAndAdvance
  <2>4. QED
    BY <1>3, <2>2, <2>3 DEF TakeAndAdvance
<1>4. QED
  BY <1>1, <1>2, <1>3 DEF Take

LEMMA CloseDkgStep ==
    ASSUME Inv, NEW h \in Handlers, CloseDkg(h) PROVE Sound
<1> DEFINE d == task[h].id
<1>1. d \in DkgIds /\ d \in Ids /\ d \in Shares /\ d \notin ApprovedIds
  BY IdsAreDisjoint DEF CloseDkg, Ids, Shares, ApprovedIds
<1>2. CASE live = None /\ live' = d /\ Delete(d) /\ Reply(h, "ok")
  <2>1. /\ session' \in [Ids -> Sessions \union {NoSession}]
        /\ \A o \in Ids : session'[o] # NoSession => session[o] # NoSession
    BY <1>1, <1>2, DeletedRows DEF Inv
  <2>2. /\ TasksOK'
        /\ \A g \in Handlers, o \in Ids : task'[g].id = o => task[g].id = o
    BY <1>2, Releases, ReleasedCalls DEF Inv
  <2>3. TypeOK'
    BY <1>1, <1>2, <2>1, <2>2 DEF Inv, TypeOK, TasksOK, CloseDkg
  <2>4. \A o \in ApprovedIds : Works(o)' => Works(o)
    BY <1>1, <1>2, <2>1, <2>2 DEF Works, CloseDkg, ApprovedIds, Ids
  <2>5. QED
    BY <1>2, <2>3, <2>4 DEF Sound, CloseDkg
<1>3. CASE Reply(h, "refused") /\ UNCHANGED <<live, session>>
  BY <1>3, Releases, QuietSteps DEF CloseDkg
<1>4. QED
  BY <1>2, <1>3 DEF CloseDkg, FinishDkg

LEMMA CloseSignStep ==
    ASSUME Inv, NEW h \in Handlers, CloseSign(h) PROVE Sound
<1>1. task[h].id \in Ids
  BY DEF CloseSign, Ids
<1>2. QED
  BY <1>1, Releases, CloseSteps DEF CloseSign

\* Staging the share of an approved reshare, or dropping a staged share,
\* while the call ends.
LEMMA StagingSteps ==
    ASSUME Inv, NEW h \in Handlers, Released(h), UNCHANGED grant,
           session' \in [Ids -> Sessions \union {NoSession}],
           \A o \in Ids : session'[o] # NoSession => session[o] # NoSession,
           staged' \in StagedShares \union {NoStaged},
           live' \in Shares \union {None}, live # None => live' # None,
           \A o \in ApprovedIds : staged'.share = o \/ live' = o => Works(o)
    PROVE  Sound
<1>1. /\ TasksOK'
      /\ \A g \in Handlers, o \in Ids : task'[g].id = o => task[g].id = o
  BY ReleasedCalls DEF Inv
<1>2. TypeOK'
  BY <1>1 DEF Inv, TypeOK, TasksOK
<1>3. \A o \in ApprovedIds : Works(o)' => Works(o)
  BY <1>1 DEF Works, ApprovedIds, Ids
<1>4. QED
  BY <1>2, <1>3 DEF Sound

LEMMA StageReshareStep ==
    ASSUME Inv, NEW h \in Handlers, StageReshare(h) PROVE Sound
<1>1. task[h].id \in Ids /\ task[h].id \in ReshareIds
  BY DEF StageReshare, Ids
<1>2. /\ session' \in [Ids -> Sessions \union {NoSession}]
      /\ \A o \in Ids : session'[o] # NoSession => session[o] # NoSession
  BY <1>1, DeletedRows DEF Inv, StageReshare
<1>3. staged' \in StagedShares /\ staged'.share = task[h].id
  BY <1>1 DEF StageReshare, StagedShares
<1>4. Released(h)
  BY Releases DEF StageReshare
<1>5. \A o \in ApprovedIds : staged'.share = o \/ live' = o => Works(o)
  BY <1>3 DEF StageReshare, Works
<1>6. QED
  BY <1>2, <1>3, <1>4, <1>5, StagingSteps DEF StageReshare, Inv, TypeOK

LEMMA AbortSteps ==
    ASSUME Inv, NEW h \in Handlers, NEW r \in ReshareIds, AbortReshare(r),
           Released(h), UNCHANGED <<live, grant>>
    PROVE  Sound
<1>1. /\ session' \in [Ids -> Sessions \union {NoSession}]
      /\ \A o \in Ids : session'[o] # NoSession => session[o] # NoSession
      /\ staged' \in {staged, NoStaged}
  BY Aborted DEF Inv
<1>2. \A o \in ApprovedIds : staged'.share = o \/ live' = o => Works(o)
  BY <1>1, NoneIsNoId DEF Works, NoStaged, ApprovedIds, Ids
<1>3. QED
  BY <1>1, <1>2, StagingSteps DEF Inv, TypeOK

LEMMA CommitStep ==
    ASSUME Inv, NEW h \in Handlers, NEW r \in ReshareIds, Commit(h, r) PROVE Sound
<1>1. CASE Committable(r) /\ live' = r /\ staged' = NoStaged /\ Reply(h, "ok")
  <2>1. Released(h)
    BY <1>1, Releases
  <2>2. r \in Shares /\ r # None
    BY NoneIsNoId DEF Shares
  <2>3. \A o \in ApprovedIds : staged'.share = o \/ live' = o => Works(o)
    BY <1>1, NoneIsNoId DEF Committable, NoStaged, Works, ApprovedIds, Ids
  <2>4. QED
    BY <1>1, <2>1, <2>2, <2>3, StagingSteps DEF Commit, Inv, TypeOK
<1>2. CASE Reply(h, "refused") /\ UNCHANGED <<live, staged>>
  BY <1>2, Releases, QuietSteps DEF Commit
<1>3. QED
  BY <1>1, <1>2 DEF Commit

\* The tables and calls the system begins with.
LEMMA InitInv == Init => Inv
<1> SUFFICES ASSUME Init PROVE Inv
  OBVIOUS
<1>1. TypeOK
  BY IdleTasks DEF Init, TypeOK, Idle, Resting
<1>2. WorkIsApproved
  BY NoneIsNoId DEF Init, WorkIsApproved, NoStaged, Idle, Resting, ApprovedIds, Ids
<1>3. ShareBeforeReshare
  BY DEF Init, ShareBeforeReshare, ApprovedIds
<1>4. QED
  BY <1>1, <1>2, <1>3 DEF Inv

LEMMA NextInv == Inv /\ [Next]_vars => Inv'
<1> SUFFICES ASSUME Inv, [Next]_vars PROVE Inv'
  OBVIOUS
<1>1. CASE UNCHANGED vars
  BY <1>1 DEF vars, Inv, TypeOK, WorkIsApproved, ShareBeforeReshare
<1>2. ASSUME NEW h \in Handlers, Arrive(h) PROVE Sound
  <2>1. CASE \E o \in ApprovedIds : Start(h, o)
    BY <2>1, StartStep
  <2>2. CASE \E d \in DkgIds : StartDkg(h, d)
    BY <2>2, StartDkgStep
  <2>3. CASE \E i \in Ids, n \in 1..LastRound, b \in Shares \union {None} : Take(h, i, n, b)
    BY <2>3, TakeStep
  <2>4. ASSUME NEW r \in ReshareIds, Abort(h, r) PROVE Sound
    BY <2>4, Releases, AbortSteps DEF Abort
  <2>5. QED
    BY <1>2, <2>1, <2>2, <2>3, <2>4, CommitStep DEF Arrive
<1>3. ASSUME NEW h \in Handlers, Continue(h) PROVE Sound
  <2>1. ASSUME FailReshare(h) PROVE Sound
    <3>1. task[h].id \in ReshareIds
      BY <2>1 DEF FailReshare, Inv, TypeOK
    <3>2. QED
      BY <2>1, <3>1, Releases, AbortSteps DEF FailReshare
  <2>2. QED
    BY <1>3, <2>1, ReadShareStep, OpenStep, SendStep, CloseDkgStep, CloseSignStep,
       StageReshareStep DEF Continue
<1>4. CASE Next
  BY <1>2, <1>3, <1>4, SoundSteps, AnswerStep, ApproveStep, StagedLapsesStep
     DEF Next, Lapses
<1>5. QED
  BY <1>1, <1>4

LEMMA InvAlways == Spec => []Inv
<1>1. Init => Inv
  BY InitInv
<1>2. Inv /\ [Next]_vars => Inv'
  BY NextInv
<1>3. QED
  BY <1>1, <1>2, PTL DEF Spec

\* Every row, every call and the share in use stay well formed.
THEOREM TypeCorrect == Spec => []TypeOK
<1>1. Inv => TypeOK
  BY DEF Inv
<1>2. QED
  BY <1>1, InvAlways, PTL

\* Whatever is left of a signature or a reshare, in a table or in flight, the
\* passkey approved it and the approval is gone.
THEOREM WorkApproved == Spec => []WorkIsApproved
<1>1. Inv => WorkIsApproved
  BY DEF Inv
<1>2. QED
  BY <1>1, InvAlways, PTL

-----------------------------------------------------------------------------
(* A staged share is dropped only by its own reshare                        *)

LEMMA DropStep ==
    ASSUME Inv, Next, staged # NoStaged, staged' = NoStaged
    PROVE  \/ live' = staged.share
           \/ \E h \in Handlers :
                \/ task[h].id = staged.share /\ task[h].pc = "fail"
                \/ Abort(h, staged.share)
<1>1. ASSUME NEW h \in Handlers, Arrive(h)
      PROVE  live' = staged.share \/ Abort(h, staged.share)
  <2>1. ASSUME NEW r \in ReshareIds, Commit(h, r) PROVE live' = staged.share
    BY <2>1 DEF Commit, Committable
  <2>2. ASSUME NEW r \in ReshareIds, Abort(h, r) PROVE Abort(h, staged.share)
    BY <2>2 DEF Abort, AbortReshare
  <2>3. QED
    BY <1>1, <2>1, <2>2 DEF Arrive, Start, StartDkg, Take
<1>2. ASSUME NEW h \in Handlers, Continue(h)
      PROVE  task[h].id = staged.share /\ task[h].pc = "fail"
  <2>1. CASE FailReshare(h)
    BY <2>1 DEF FailReshare, AbortReshare
  <2>2. CASE StageReshare(h)
    BY <2>2, NoneIsNoId DEF StageReshare, NoStaged, Shares
  <2>3. QED
    BY <1>2, <2>1, <2>2 DEF Continue, ReadShare, Open, Send, CloseDkg, CloseSign
<1>3. ASSUME NEW h \in Handlers, Answer(h) \/ Abandon(h) PROVE FALSE
  BY <1>3 DEF Answer, Abandon
<1>4. ASSUME (\E o \in ApprovedIds : Approve(o) \/ GrantLapses(o)) \/ StagedLapses PROVE FALSE
  BY <1>4 DEF Approve, GrantLapses, StagedLapses, NoStaged, Inv, TypeOK, StagedShares
<1>5. QED
  BY <1>1, <1>2, <1>3, <1>4 DEF Next, Lapses

\* A reshare that is winding down never takes another one's share with it.
THEOREM DropsAreOwn == Spec => DroppedByItsOwn
<1>1. Inv /\ [Next]_vars =>
        [staged # NoStaged /\ staged' = NoStaged =>
           \/ live' = staged.share
           \/ \E h \in Handlers :
                \/ task[h].id = staged.share /\ task[h].pc = "fail"
                \/ Abort(h, staged.share)]_vars
  BY DropStep DEF vars
<1>2. QED
  BY <1>1, InvAlways, PTL DEF Spec, DroppedByItsOwn

-----------------------------------------------------------------------------
(* The tables implement ShareCustody                                        *)

LEMMA CustodyInit == Init => Custody!Init
BY DEF Init, Custody!Init, NoStaged, ApprovedIds

\* Calls that only read, work on sessions or answer are not seen.
LEMMA Unseen ==
    ASSUME UNCHANGED <<live, grant, staged>> PROVE UNCHANGED Custody!vars
BY DEF Custody!vars

LEMMA StartIsSpend ==
    ASSUME Inv, NEW h \in Handlers, NEW o \in ApprovedIds, Start(h, o)
    PROVE  Custody!Next \/ UNCHANGED Custody!vars
<1> DEFINE Spent == {a \in ApprovedIds : grant[a] = "consumed"}
<1>1. CASE UNCHANGED grant
  BY <1>1, Unseen DEF Start
<1>2. CASE Startable(o) /\ ConsumeGrant(o)
  <2>1. o \notin Spent
    BY <1>2 DEF Startable
  <2>2. Spent' = Spent \union {o}
    BY <1>2 DEF ConsumeGrant, Inv, TypeOK
  <2>3. Custody!Spend(o)
    BY <2>1, <2>2 DEF Custody!Spend, Start
  <2>4. QED
    BY <2>3 DEF Custody!Next, ApprovedIds
<1>3. QED
  BY <1>1, <1>2 DEF Start

LEMMA StageIsSetAside ==
    ASSUME Inv, NEW h \in Handlers, StageReshare(h) PROVE Custody!Next
<1> DEFINE r == task[h].id
<1>1. r \in ReshareIds /\ r \in ApprovedIds
  BY DEF StageReshare, ApprovedIds
<1>2. grant[r] = "consumed"
  BY <1>1 DEF Inv, WorkIsApproved
<1>3. live # None
  BY <1>1, <1>2 DEF Inv, ShareBeforeReshare
<1>4. Custody!SetAside(r)
  BY <1>1, <1>2, <1>3 DEF Custody!SetAside, StageReshare
<1>5. QED
  BY <1>1, <1>4 DEF Custody!Next

LEMMA AbortIsDrop ==
    ASSUME Inv, NEW r \in ReshareIds, AbortReshare(r), UNCHANGED <<live, grant>>
    PROVE  Custody!Next \/ UNCHANGED Custody!vars
<1>1. CASE staged' = NoStaged
  BY <1>1 DEF Custody!Next, Custody!Drop, NoStaged
<1>2. CASE UNCHANGED staged
  BY <1>2, Unseen
<1>3. QED
  BY <1>1, <1>2 DEF AbortReshare

LEMMA CommitIsReplace ==
    ASSUME Inv, NEW h \in Handlers, NEW r \in ReshareIds, Commit(h, r)
    PROVE  Custody!Next \/ UNCHANGED Custody!vars
<1>1. CASE UNCHANGED <<live, staged>>
  BY <1>1, Unseen DEF Commit
<1>2. CASE Committable(r) /\ live' = r /\ staged' = NoStaged
  <2>1. r # None
    BY NoneIsNoId DEF Shares
  <2>2. Custody!Replace
    BY <1>2, <2>1 DEF Custody!Replace, Committable, Commit, NoStaged
  <2>3. QED
    BY <2>2 DEF Custody!Next
<1>3. QED
  BY <1>1, <1>2 DEF Commit

LEMMA CloseIsCreate ==
    ASSUME Inv, NEW h \in Handlers, CloseDkg(h)
    PROVE  Custody!Next \/ UNCHANGED Custody!vars
<1>1. CASE live = None /\ live' = task[h].id
  BY <1>1 DEF CloseDkg, Custody!Next, Custody!Create
<1>2. CASE UNCHANGED live
  BY <1>2, Unseen DEF CloseDkg
<1>3. QED
  BY <1>1, <1>2 DEF CloseDkg, FinishDkg

LEMMA CustodyStep == Inv /\ [Next]_vars => [Custody!Next]_(Custody!vars)
<1> SUFFICES ASSUME Inv, [Next]_vars PROVE Custody!Next \/ UNCHANGED Custody!vars
  OBVIOUS
<1>1. CASE UNCHANGED vars
  BY <1>1, Unseen DEF vars
<1>2. ASSUME NEW h \in Handlers, Arrive(h)
      PROVE  Custody!Next \/ UNCHANGED Custody!vars
  <2>1. ASSUME NEW d \in DkgIds, StartDkg(h, d) PROVE UNCHANGED Custody!vars
    BY <2>1, Unseen DEF StartDkg
  <2>2. ASSUME NEW i \in Ids, NEW n \in 1..LastRound, NEW b \in Shares \union {None},
               Take(h, i, n, b)
        PROVE  UNCHANGED Custody!vars
    BY <2>2, Unseen DEF Take
  <2>3. ASSUME NEW r \in ReshareIds, Abort(h, r)
        PROVE  Custody!Next \/ UNCHANGED Custody!vars
    BY <2>3, AbortIsDrop DEF Abort
  <2>4. QED
    BY <1>2, <2>1, <2>2, <2>3, StartIsSpend, CommitIsReplace DEF Arrive
<1>3. ASSUME NEW h \in Handlers, Continue(h)
      PROVE  Custody!Next \/ UNCHANGED Custody!vars
  <2>1. ASSUME FailReshare(h) PROVE Custody!Next \/ UNCHANGED Custody!vars
    <3>1. task[h].id \in ReshareIds
      BY <2>1 DEF FailReshare, Inv, TypeOK
    <3>2. QED
      BY <2>1, <3>1, AbortIsDrop DEF FailReshare
  <2>2. ASSUME ReadShare(h) \/ Open(h) \/ Send(h) \/ CloseSign(h)
        PROVE  UNCHANGED Custody!vars
    BY <2>2, Unseen DEF ReadShare, Open, Send, CloseSign
  <2>3. QED
    BY <1>3, <2>1, <2>2, CloseIsCreate, StageIsSetAside DEF Continue
<1>4. ASSUME NEW h \in Handlers, Answer(h) \/ Abandon(h) PROVE UNCHANGED Custody!vars
  BY <1>4, Unseen DEF Answer, Abandon
<1>5. ASSUME NEW o \in ApprovedIds, Approve(o) \/ GrantLapses(o)
      PROVE  UNCHANGED Custody!vars
  <2>1. {a \in ApprovedIds : grant[a] = "consumed"}' = {a \in ApprovedIds : grant[a] = "consumed"}
    BY <1>5 DEF Approve, GrantLapses, Inv, TypeOK
  <2>2. QED
    BY <1>5, <2>1 DEF Approve, GrantLapses, Custody!vars
<1>6. ASSUME StagedLapses PROVE UNCHANGED Custody!vars
  <2>1. staged'.share = staged.share
    BY <1>6 DEF StagedLapses, Inv, TypeOK, StagedShares, NoStaged
  <2>2. QED
    BY <1>6, <2>1 DEF StagedLapses, Custody!vars
<1>7. QED
  BY <1>1, <1>2, <1>3, <1>4, <1>5, <1>6 DEF Next, Lapses

\* The server keeps the promise of ShareCustody with any number of sessions
\* and calls in flight, interleaved and dropped anywhere.
THEOREM Implements == Spec => CustodySpec
<1>1. Init => Custody!Init
  BY CustodyInit
<1>2. Inv /\ [Next]_vars => [Custody!Next]_(Custody!vars)
  BY CustodyStep
<1>3. QED
  BY <1>1, <1>2, InvAlways, PTL DEF Spec, CustodySpec, Custody!Spec

-----------------------------------------------------------------------------
(* ReshareDevice: what its invariant says                                   *)

\* A reshare whose run ended, with nothing of it in flight or on the server.
Settled ==
    {t \in ReshareIds :
       /\ run[t].pc = "over"
       /\ session[t] = NoSession
       /\ \A h \in Handlers : task[h].id # t}

\* Sharings that never become live from now on.
Gone == {b \in Shares : b \in DkgIds \/ (b \in Settled /\ staged.share # b)}

\* The run has not called the server yet.
Early(t) == run[t].pc \in {"none", "checked", "auth"}

Confirming(t) == confirm[t].pc # "idle"
Cancelling(t) == cancel[t].pc # "idle"

\* A commit the server may still work on.
CommitAround(t) == confirm[t].pc = "commit" \/ <<t, "commit">> \in late

\* The worker knows, or is about to be told, that the server committed.
CommitDone(t) ==
    \/ object[t].committed
    \/ confirm[t].pc = "store"
    \/ /\ confirm[t].pc = "commit"
       /\ confirm[t].h # None
       /\ task[confirm[t].h].pc = "ok"

AtRest(h) == task[h].pc \in {"idle", "ok", "refused"}

\* A call works for one reshare, and holds nothing before and after.
CallsWork ==
    \A h \in Handlers : IF AtRest(h) THEN task[h].id = None ELSE task[h].id \in ReshareIds

\* A coroutine that waits has a handler at work or with its answer.  Commits
\* and aborts are answered at once.
CallsHeld ==
    \A t \in ReshareIds :
      /\ run[t].h # None =>
           /\ run[t].pc \in {"start", "round", "undo"}
           /\ task[run[t].h].pc # "idle"
           /\ run[t].pc = "undo" => AtRest(run[t].h)
      /\ confirm[t].h # None =>
           confirm[t].pc = "commit" /\ task[confirm[t].h].pc \in {"ok", "refused"}
      /\ cancel[t].h # None =>
           cancel[t].pc = "abort" /\ task[cancel[t].h].pc \in {"ok", "refused"}

\* No two coroutines wait for the same call.
NotShared ==
    \A t, u \in ReshareIds :
      /\ run[t].h # None =>
           /\ run[t].h # confirm[u].h
           /\ run[t].h # cancel[u].h
           /\ t # u => run[t].h # run[u].h
      /\ confirm[t].h # None =>
           /\ confirm[t].h # cancel[u].h
           /\ t # u => confirm[t].h # confirm[u].h
      /\ cancel[t].h # None /\ t # u => cancel[t].h # cancel[u].h

\* Until a run gives up, the only call of its reshare is the one it waits for.
OwnCalls ==
    \A t \in ReshareIds :
      /\ Early(t) \/ run[t].pc \in {"start", "round"} =>
           \A h \in Handlers : task[h].id = t => h = run[t].h
      /\ Early(t) => session[t] = NoSession /\ staged.share # t
      /\ run[t].pc \in {"none", "checked"} => grant[t] = "none"

\* And what it waits for works on its reshare.
HeldWorks ==
    \A t \in ReshareIds :
      run[t].pc \in {"start", "round"} /\ run[t].h # None => task[run[t].h].id \in {t, None}

\* The call of a round works on that round, and the last one leaves no session.
RoundsInStep ==
    \A t \in ReshareIds :
      run[t].pc = "round" =>
        /\ run[t].round > 0
        /\ run[t].h # None =>
             /\ task[run[t].h].pc \notin {"read", "open"}
             /\ task[run[t].h].pc = "send" => task[run[t].h].round = run[t].round
             /\ task[run[t].h].pc = "close" => run[t].round = LastRound
             /\ task[run[t].h].pc = "ok" /\ run[t].round = LastRound =>
                  session[t] = NoSession

\* Whatever a reshare starts from, and what is live, is gone once replaced.
BasesGone ==
    /\ live \in Gone
    /\ \A t \in ReshareIds :
         /\ session[t] # NoSession => session[t].base \in Gone
         /\ staged.share = t => run[t].base \in Gone
    /\ \A h \in Handlers :
         /\ task[h].pc \in {"open", "send"} => task[h].base \in Gone
         /\ task[h].pc = "close" => run[task[h].id].base \in Gone

\* Once committed, what the reshare started from is not live and never will be.
OldIsGone ==
    \A t \in ReshareIds : CommitDone(t) =>
      t \in Settled /\ run[t].base \in Gone /\ run[t].base # live

\* Only a settled reshare waits for its file, is confirmed or is committed.
SettledFirst ==
    \A t \in ReshareIds : pending = t \/ Confirming(t) \/ CommitAround(t) => t \in Settled

\* The file is saved before the commit.
SavedFirst ==
    \A t \in ReshareIds : CommitAround(t) /\ staged.share = t => t \in files

NobodyChecked == \A u \in ReshareIds : run[u].pc # "checked"

\* The popup offers t's file, or is about to.
Offered(t) == popup = t \/ (reshareRun.phase = "ready" /\ reshareRun.id = t)

\* The file on offer is the pending reshare's, if one is pending.
Offers ==
    \A t \in ReshareIds : Offered(t) =>
      /\ NobodyChecked
      /\ pending # None => pending = t
      /\ current # None => run[current].pc = "over"
      /\ \A u \in ReshareIds : Offered(u) => u = t

\* The run that holds the token is the one the popup hears of, and once it is
\* approved no other start is half way.
CurrentRuns ==
    \A t \in ReshareIds : current = t =>
      /\ run[t].pc \in {"auth", "start", "round"} =>
           reshareRun.phase = "working" /\ reshareRun.id = t
      /\ run[t].pc \in {"start", "round"} \/ (run[t].pc = "auth" /\ grant[t] # "none") =>
           NobodyChecked

\* The reshare whose new share is pending or at work in a confirm or a cancel.
Holder(t) == pending = t \/ Cancelling(t) \/ (Confirming(t) /\ ~ object[t].wiped)

\* There is at most one: its run holds the token and is over.
Holders ==
    \A t \in ReshareIds : Holder(t) =>
      /\ current = t
      /\ NobodyChecked
      /\ run[t].pc = "over"
      /\ pending = None => vault.party = "extension"

\* Until the holder is stored, its share stays live once it is.
TakenOver ==
    \A t \in ReshareIds : Holder(t) /\ CommitDone(t) /\ ~ object[t].wiped =>
      /\ live = t
      /\ \A u \in ReshareIds : u # t => ~ (CommitAround(u) /\ staged.share = u)

SystemInv ==
    /\ SystemTypeOK /\ WorkIsApproved /\ ShareBeforeReshare
    /\ CallsWork /\ CallsHeld /\ NotShared /\ OwnCalls /\ HeldWorks /\ RoundsInStep
    /\ BasesGone /\ OldIsGone /\ SettledFirst /\ SavedFirst /\ Recoverable
    /\ Offers /\ CurrentRuns /\ Holders /\ TakenOver

-----------------------------------------------------------------------------
(* ReshareDevice: what each step does, variable by variable                 *)

\* Call h is answered, heard or dropped, or works on.
CallRests(h, pc) ==
    /\ task'[h].pc = pc
    /\ task'[h].id = None
    /\ \A g \in Handlers : g # h => task'[g] = task[g]

CallWorks(h, pc, i, n, b) ==
    /\ task'[h].pc = pc
    /\ task'[h].id = i
    /\ task'[h].round = n
    /\ task'[h].base = b
    /\ \A g \in Handlers : g # h => task'[g] = task[g]

RowGoes(t) ==
    /\ session'[t] = NoSession
    /\ \A u \in ReshareIds : u # t => session'[u] = session[u]

RowIs(t, b) ==
    /\ session'[t] # NoSession
    /\ session'[t].base = b
    /\ \A u \in ReshareIds : u # t => session'[u] = session[u]

RunIs(t, pc, n, b, k) ==
    /\ run'[t].pc = pc
    /\ run'[t].round = n
    /\ run'[t].base = b
    /\ run'[t].h = k
    /\ \A u \in ReshareIds : u # t => run'[u] = run[u]

ConfirmIs(t, pc, k) ==
    /\ confirm'[t].pc = pc
    /\ confirm'[t].h = k
    /\ \A u \in ReshareIds : u # t => confirm'[u] = confirm[u]

CancelIs(t, pc, k) ==
    /\ cancel'[t].pc = pc
    /\ cancel'[t].h = k
    /\ \A u \in ReshareIds : u # t => cancel'[u] = cancel[u]

ObjectIs(t, c, w) ==
    /\ object'[t].committed = c
    /\ object'[t].wiped = w
    /\ \A u \in ReshareIds : u # t => object'[u] = object[u]

\* The tables but for the calls.
KeepTables == UNCHANGED <<live, grant, session, staged>>

\* A commit or an abort of t, in an idle slot.
Commits(h, t) ==
    /\ task[h].pc = "idle"
    /\ UNCHANGED <<grant, session>>
    /\ \/ /\ staged.share = t
          /\ live' = t
          /\ staged'.share = None
          /\ CallRests(h, "ok")
       \/ /\ UNCHANGED live
          /\ staged'.share = staged.share
          /\ CallRests(h, "refused")

Aborts(h, t) ==
    /\ task[h].pc = "idle"
    /\ UNCHANGED <<live, grant>>
    /\ RowGoes(t)
    /\ staged'.share \in {staged.share, None}
    /\ CallRests(h, "ok")

\* The answer of call h is heard.
Hears(h) ==
    /\ h \in Handlers
    /\ task[h].pc \in {"ok", "refused"}
    /\ CallRests(h, "idle")
    /\ KeepTables

-----------------------------------------------------------------------------

StartsReshare(t) ==
    /\ run[t].pc = "none"
    /\ vault.party = "recovery"
    /\ pending = None
    /\ reshareRun.phase = "idle"
    /\ popup = None
    /\ RunIs(t, "checked", run[t].round, run[t].base, None)
    /\ UNCHANGED <<vars, vault, files, reshareRun, current, pending, object, confirm, cancel, popup, late>>

Unlocks(t) ==
    /\ run[t].pc = "checked"
    /\ RunIs(t, "auth", run[t].round, vault.share, run[t].h)
    /\ reshareRun'.phase = "working" /\ reshareRun'.id = t
    /\ current' = t
    /\ UNCHANGED <<vars, vault, files, pending, object, confirm, cancel, popup, late>>

Authorizes(t) ==
    /\ run[t].pc = "auth"
    /\ grant[t] # "none"
    /\ RunIs(t, "start", run[t].round, run[t].base, None)
    /\ UNCHANGED <<vars, vault, files, reshareRun, current, pending, object, confirm, cancel, popup, late>>

\* What the popup is told when t fails.
Reports(t) ==
    /\ current = t => reshareRun'.phase = "failed" /\ reshareRun'.id = t
    /\ current # t => reshareRun' = reshareRun

Declines(t) ==
    /\ run[t].pc = "auth"
    /\ RunIs(t, "over", run[t].round, run[t].base, None)
    /\ Reports(t)
    /\ UNCHANGED <<vars, vault, files, current, pending, object, confirm, cancel, popup, late>>

\* The message of a run reaches the server.
Posts(t, h) ==
    /\ run[t].h = None
    /\ task[h].pc = "idle"
    /\ RunIs(t, run[t].pc, run[t].round, run[t].base, h)
    /\ UNCHANGED <<vault, files, reshareRun, current, pending, object, confirm, cancel, popup, late>>

PostsStart(t, h) ==
    /\ Posts(t, h)
    /\ run[t].pc = "start"
    /\ UNCHANGED <<live, session, staged>>
    /\ \/ CallRests(h, "refused") /\ UNCHANGED grant
       \/ /\ CallWorks(h, "read", t, 0, None)
          /\ grant'[t] = "consumed"
          /\ \A u \in ReshareIds : u # t => grant'[u] = grant[u]

PostsRound(t, h) ==
    /\ Posts(t, h)
    /\ run[t].pc = "round"
    /\ UNCHANGED <<live, grant, staged>>
    /\ \/ RowGoes(t) /\ CallRests(h, "refused")
       \/ /\ UNCHANGED session
          /\ session[t] # NoSession
          /\ \/ CallRests(h, "refused")
             \/ CallWorks(h, "fail", t, 0, None)
             \/ CallWorks(h, "send", t, run[t].round, session[t].base)
             \/ /\ CallWorks(h, "close", t, 0, None)
                /\ run[t].round = LastRound
                /\ run[t].base = session[t].base

PostsUndo(t, h) == Posts(t, h) /\ run[t].pc = "undo" /\ Aborts(h, t)

GoesOn(t) ==
    /\ run[t].pc \in {"start", "round"}
    /\ run[t].round < LastRound
    /\ Hears(run[t].h)
    /\ run[t].h # None
    /\ RunIs(t, "round", run[t].round + 1, run[t].base, None)
    /\ UNCHANGED <<vault, files, reshareRun, current, pending, object, confirm, cancel, popup, late>>

\* A coroutine that waits with handler h stops waiting.
StopsWaiting(h) == (h # None /\ Hears(h)) \/ UNCHANGED vars

GivesUp(t) ==
    /\ run[t].pc \in {"start", "round"}
    /\ StopsWaiting(run[t].h)
    /\ RunIs(t, "undo", run[t].round, run[t].base, None)
    /\ UNCHANGED <<vault, files, reshareRun, current, pending, object, confirm, cancel, popup, late>>

Ends(t) ==
    /\ run[t].pc = "undo"
    /\ StopsWaiting(run[t].h)
    /\ RunIs(t, "over", run[t].round, run[t].base, None)
    /\ Reports(t)
    /\ late' \in {late, late \union {<<t, "abort">>}}
    /\ UNCHANGED <<vault, files, current, pending, object, confirm, cancel, popup>>

Stages(t) ==
    /\ run[t].pc = "round"
    /\ run[t].round = LastRound
    /\ run[t].h # None
    /\ task[run[t].h].pc = "ok"
    /\ Hears(run[t].h)
    /\ UNCHANGED <<vault, files, current, object, confirm, cancel, popup, late>>

StagesPending(t) ==
    /\ Stages(t)
    /\ current = t
    /\ RunIs(t, "over", run[t].round, run[t].base, None)
    /\ pending' = t
    /\ reshareRun'.phase = "ready" /\ reshareRun'.id = t

StagesInVain(t) ==
    /\ Stages(t)
    /\ RunIs(t, "undo", run[t].round, run[t].base, None)
    /\ UNCHANGED <<pending, reshareRun>>

StartsConfirm(t) ==
    /\ pending = t
    /\ popup # None /\ popup \in files
    /\ confirm[t].pc = "idle"
    /\ \/ object[t].committed /\ ConfirmIs(t, "store", confirm[t].h)
       \/ ~ object[t].committed /\ ConfirmIs(t, "commit", confirm[t].h)
    /\ UNCHANGED <<vars, vault, files, run, reshareRun, current, pending, object, cancel, popup, late>>

PostsCommit(t, h) ==
    /\ confirm[t].pc = "commit"
    /\ confirm[t].h = None
    /\ Commits(h, t)
    /\ ConfirmIs(t, "commit", h)
    /\ UNCHANGED <<vault, files, run, reshareRun, current, pending, object, cancel, popup, late>>

HearsCommit(t) ==
    /\ confirm[t].pc = "commit"
    /\ confirm[t].h # None
    /\ task[confirm[t].h].pc = "ok"
    /\ Hears(confirm[t].h)
    /\ ObjectIs(t, TRUE, object[t].wiped)
    /\ ConfirmIs(t, "store", None)
    /\ UNCHANGED <<vault, files, run, reshareRun, current, pending, cancel, popup, late>>

FailsCommit(t) ==
    /\ confirm[t].pc = "commit"
    /\ StopsWaiting(confirm[t].h)
    /\ late' \in {late, late \union {<<t, "commit">>}}
    /\ ConfirmIs(t, "idle", None)
    /\ UNCHANGED <<vault, files, run, reshareRun, current, pending, object, cancel, popup>>

Stores(t) ==
    /\ confirm[t].pc = "store"
    /\ vault'.share = IF object[t].wiped THEN Wiped ELSE t
    /\ vault'.party = "extension"
    /\ pending' = None
    /\ ConfirmIs(t, "idle", None)
    /\ popup' \in {None, popup}
    /\ files' \in {files, files \ {run[t].base}}
    /\ UNCHANGED <<vars, run, reshareRun, current, object, cancel, late>>

FailsStore(t) ==
    /\ confirm[t].pc = "store"
    /\ ConfirmIs(t, "idle", None)
    /\ UNCHANGED <<vars, vault, files, run, reshareRun, current, pending, object, cancel, popup, late>>

StartsCancel(t) ==
    /\ pending = t
    /\ cancel[t].pc = "idle"
    /\ CancelIs(t, "abort", cancel[t].h)
    /\ UNCHANGED <<vars, vault, files, run, reshareRun, current, pending, object, confirm, popup, late>>

PostsCancel(t, h) ==
    /\ cancel[t].pc = "abort"
    /\ cancel[t].h = None
    /\ Aborts(h, t)
    /\ CancelIs(t, "abort", h)
    /\ UNCHANGED <<vault, files, run, reshareRun, current, pending, object, confirm, popup, late>>

Cancels(t) ==
    /\ cancel[t].pc = "abort"
    /\ StopsWaiting(cancel[t].h)
    /\ late' \in {late, late \union {<<t, "abort">>}}
    /\ CancelIs(t, "idle", None)
    /\ ObjectIs(t, object[t].committed, TRUE)
    /\ pending' = None
    /\ popup' \in {None, popup}
    /\ UNCHANGED <<vault, files, run, reshareRun, current, confirm>>

\* The later statements of a call, and the answers and drops nobody waits for.
Reads(h) ==
    /\ task[h].pc = "read"
    /\ CallWorks(h, "open", task[h].id, 0, live)
    /\ KeepTables /\ UNCHANGED device

Writes(h) ==
    /\ task[h].pc \in {"open", "send"}
    /\ RowIs(task[h].id, task[h].base)
    /\ CallRests(h, "ok")
    /\ UNCHANGED <<live, grant, staged, device>>

StagesShare(h) ==
    /\ task[h].pc = "close"
    /\ RowGoes(task[h].id)
    /\ staged'.share = task[h].id
    /\ CallRests(h, "ok")
    /\ UNCHANGED <<live, grant, device>>

DropsFailed(h) ==
    /\ task[h].pc = "fail"
    /\ RowGoes(task[h].id)
    /\ staged'.share \in {staged.share, None}
    /\ CallRests(h, "refused")
    /\ UNCHANGED <<live, grant, device>>

DropsCall(h) ==
    /\ \A t \in ReshareIds : h \notin {run[t].h, confirm[t].h, cancel[t].h}
    /\ CallRests(h, "idle")
    /\ KeepTables /\ UNCHANGED device

\* Approvals are given and time passes.
Approves(t) ==
    /\ run[t].pc = "auth"
    /\ NobodyChecked
    /\ \A u \in ReshareIds : u # t => grant'[u] = grant[u]
    /\ UNCHANGED <<live, session, staged, task, device>>

Lapsed ==
    /\ \A u \in ReshareIds : grant'[u] = "none" <=> grant[u] = "none"
    /\ staged'.share = staged.share
    /\ UNCHANGED <<live, session, task, device>>

ArrivesLate(t, h) ==
    /\ \/ <<t, "commit">> \in late /\ Commits(h, t)
       \/ Aborts(h, t)
    /\ late' \subseteq late
    /\ UNCHANGED <<vault, files, worker, popup>>

\* The worker's memory is gone.
Forgets ==
    /\ \A t \in ReshareIds :
         /\ run[t].pc = "none" => run'[t] = run[t]
         /\ run[t].pc # "none" =>
              run'[t].pc = "over" /\ run'[t].h = None /\ run'[t].base = run[t].base
         /\ confirm'[t].pc = "idle" /\ confirm'[t].h = None
         /\ cancel'[t].pc = "idle" /\ cancel'[t].h = None
    /\ reshareRun'.phase = "idle"
    /\ current' = None
    /\ pending' = None
    /\ popup' \in {popup, None}
    /\ UNCHANGED <<vars, files, object, late>>

\* The popup's own steps; a cancel with nothing pending.
Hides ==
    /\ reshareRun'.phase = "idle"
    /\ \/ reshareRun.phase = "failed" /\ popup' = popup
       \/ reshareRun.phase = "ready" /\ popup' = reshareRun.id
    /\ UNCHANGED <<vars, vault, files, run, current, pending, object, confirm, cancel, late>>

Saves ==
    /\ files \subseteq files'
    /\ popup' \in {popup, None}
    /\ UNCHANGED <<vars, vault, worker, late>>

CancelsRun ==
    /\ vault.party = "recovery"
    /\ pending = None
    /\ current' = None
    /\ reshareRun'.phase = "idle"
    /\ popup' = None
    /\ UNCHANGED <<vars, vault, files, run, pending, object, confirm, cancel, late>>

Effect ==
    \/ \E t \in ReshareIds :
         \/ StartsReshare(t) \/ Unlocks(t) \/ Authorizes(t) \/ Declines(t)
         \/ GoesOn(t) \/ GivesUp(t) \/ Ends(t) \/ StagesPending(t) \/ StagesInVain(t)
         \/ StartsConfirm(t) \/ HearsCommit(t) \/ FailsCommit(t) \/ Stores(t) \/ FailsStore(t)
         \/ StartsCancel(t) \/ Cancels(t) \/ Approves(t)
         \/ \E h \in Handlers :
              \/ PostsStart(t, h) \/ PostsRound(t, h) \/ PostsUndo(t, h)
              \/ PostsCommit(t, h) \/ PostsCancel(t, h) \/ ArrivesLate(t, h)
    \/ \E h \in Handlers :
         Reads(h) \/ Writes(h) \/ StagesShare(h) \/ DropsFailed(h) \/ DropsCall(h)
    \/ Hides \/ Saves \/ CancelsRun \/ Forgets \/ Lapsed

-----------------------------------------------------------------------------

\* The parts that the step lemmas use.
LEMMA SystemParts ==
    /\ SystemTypeOK <=> TypeOK /\ DeviceTypeOK
    /\ Inv <=> TypeOK /\ WorkIsApproved /\ ShareBeforeReshare
BY DEF SystemTypeOK, Inv

\* None is no reshare id.
LEMMA NoneIsNoReshare == None \notin ReshareIds
BY IdsAreDisjoint DEF Ids

\* What a call holds once it rests or goes on.
LEMMA CallFields ==
    ASSUME TypeOK, NEW h \in Handlers
    PROVE  /\ \A pc \in {"idle", "ok", "refused"} :
                task' = [task EXCEPT ![h] = Resting(pc)] => CallRests(h, pc)
           /\ \A pc, i, n, b : Begin(h, pc, i, n, b) => CallWorks(h, pc, i, n, b)
BY DEF TypeOK, Resting, CallRests, CallWorks, Begin

\* Answers, and answers heard or dropped, touch one call and no table.
LEMMA AnswerFields ==
    ASSUME TypeOK, NEW h \in Handlers
    PROVE  /\ Reply(h, "ok") => CallRests(h, "ok")
           /\ Reply(h, "refused") => CallRests(h, "refused")
           /\ Answer(h) \/ Abandon(h) => CallRests(h, "idle") /\ KeepTables
BY CallFields DEF Reply, Answer, Abandon, Idle, KeepTables

\* Deleting and writing a session touches one reshare's row.
LEMMA RowFields ==
    ASSUME TypeOK, NEW t \in ReshareIds
    PROVE  /\ Delete(t) => RowGoes(t)
           /\ \A n \in Nat \ {0} : \A b : Put(t, n, b) => RowIs(t, b)
<1> t \in Ids /\ ReshareIds \subseteq Ids
  BY DEF Ids
<1>1. Delete(t) => RowGoes(t)
  BY DEF TypeOK, Delete, RowGoes
<1>2. ASSUME NEW n \in Nat \ {0}, NEW b, Put(t, n, b)
      PROVE RowIs(t, b)
  <2>1. session'[t] = [round |-> n, base |-> b]
    BY <1>2 DEF TypeOK, Put
  <2>2. session'[t].round # NoSession.round /\ session'[t].base = b
    BY <2>1 DEF NoSession
  <2>3. \A u \in ReshareIds : u # t => session'[u] = session[u]
    BY <1>2 DEF TypeOK, Put
  <2>4. QED
    BY <2>2, <2>3 DEF RowIs
<1>3. QED
  BY <1>1, <1>2

\* A call arrives in an idle slot.
LEMMA FreeHandler == \A h \in NextFree : h \in Handlers /\ task[h] = Idle /\ task[h].pc = "idle"
BY DEF NextFree, Idle, Resting

\* What a run holds once it moves on, waits, begins or takes its next round.
LEMMA RunFields ==
    ASSUME DeviceTypeOK, NEW t \in ReshareIds
    PROVE  /\ \A pc : Advance(t, pc) => RunIs(t, pc, run[t].round, run[t].base, None)
           /\ \A h : run' = [run EXCEPT ![t].h = h] =>
                RunIs(t, run[t].pc, run[t].round, run[t].base, h)
           /\ \A b : run' = [run EXCEPT ![t].pc = "auth", ![t].base = b] =>
                RunIs(t, "auth", run[t].round, b, run[t].h)
           /\ run' = [run EXCEPT ![t].pc = "round", ![t].round = @ + 1, ![t].h = None] =>
                RunIs(t, "round", run[t].round + 1, run[t].base, None)
<1> USE DEF DeviceTypeOK, RunIs, Runs
<1>1. \A pc : Advance(t, pc) => RunIs(t, pc, run[t].round, run[t].base, None)
  BY DEF Advance
<1>2. \A h : run' = [run EXCEPT ![t].h = h] =>
                RunIs(t, run[t].pc, run[t].round, run[t].base, h)
  OBVIOUS
<1>3. \A b : run' = [run EXCEPT ![t].pc = "auth", ![t].base = b] =>
                RunIs(t, "auth", run[t].round, b, run[t].h)
  OBVIOUS
<1>4. run' = [run EXCEPT ![t].pc = "round", ![t].round = @ + 1, ![t].h = None] =>
                RunIs(t, "round", run[t].round + 1, run[t].base, None)
  OBVIOUS
<1>5. QED
  BY <1>1, <1>2, <1>3, <1>4

\* What a confirm, a cancel and a pending object hold after each assignment.
LEMMA CoroutineFields ==
    ASSUME DeviceTypeOK, NEW t \in ReshareIds
    PROVE  /\ \A pc : confirm' = [confirm EXCEPT ![t].pc = pc] => ConfirmIs(t, pc, confirm[t].h)
           /\ \A h : confirm' = [confirm EXCEPT ![t].h = h] => ConfirmIs(t, confirm[t].pc, h)
           /\ \A pc : confirm' = [confirm EXCEPT ![t] = [pc |-> pc, h |-> None]] =>
                ConfirmIs(t, pc, None)
           /\ confirm' = [confirm EXCEPT ![t] = Quiet] => ConfirmIs(t, "idle", None)
           /\ \A pc : cancel' = [cancel EXCEPT ![t].pc = pc] => CancelIs(t, pc, cancel[t].h)
           /\ \A h : cancel' = [cancel EXCEPT ![t].h = h] => CancelIs(t, cancel[t].pc, h)
           /\ cancel' = [cancel EXCEPT ![t] = Quiet] => CancelIs(t, "idle", None)
           /\ object' = [object EXCEPT ![t].committed = TRUE] => ObjectIs(t, TRUE, object[t].wiped)
           /\ object' = [object EXCEPT ![t].wiped = TRUE] => ObjectIs(t, object[t].committed, TRUE)
<1>1. /\ \A pc : confirm' = [confirm EXCEPT ![t].pc = pc] => ConfirmIs(t, pc, confirm[t].h)
      /\ \A h : confirm' = [confirm EXCEPT ![t].h = h] => ConfirmIs(t, confirm[t].pc, h)
      /\ \A pc : confirm' = [confirm EXCEPT ![t] = [pc |-> pc, h |-> None]] =>
           ConfirmIs(t, pc, None)
      /\ confirm' = [confirm EXCEPT ![t] = Quiet] => ConfirmIs(t, "idle", None)
  BY DEF DeviceTypeOK, ConfirmIs, Quiet
<1>2. /\ \A pc : cancel' = [cancel EXCEPT ![t].pc = pc] => CancelIs(t, pc, cancel[t].h)
      /\ \A h : cancel' = [cancel EXCEPT ![t].h = h] => CancelIs(t, cancel[t].pc, h)
      /\ cancel' = [cancel EXCEPT ![t] = Quiet] => CancelIs(t, "idle", None)
  BY DEF DeviceTypeOK, CancelIs, Quiet
<1>3. /\ object' = [object EXCEPT ![t].committed = TRUE] => ObjectIs(t, TRUE, object[t].wiped)
      /\ object' = [object EXCEPT ![t].wiped = TRUE] => ObjectIs(t, object[t].committed, TRUE)
  BY DEF DeviceTypeOK, ObjectIs
<1>4. QED
  BY <1>1, <1>2, <1>3

-----------------------------------------------------------------------------
(* Every step of the system is one of those                                 *)

\* A start passes its checks, gets its token and is approved.
LEMMA UnlockEffect ==
    ASSUME DeviceTypeOK, NEW t \in ReshareIds
    PROVE  /\ StartReshare(t) => StartsReshare(t)
           /\ Unlock(t) => Unlocks(t)
           /\ Authorize(t) => Authorizes(t)
<1>1. StartReshare(t) => StartsReshare(t)
  BY RunFields DEF StartReshare, StartsReshare
<1>2. ASSUME Unlock(t) PROVE Unlocks(t)
  <2>1. RunIs(t, "auth", run[t].round, vault.share, run[t].h)
    BY <1>2, RunFields DEF Unlock
  <2>2. QED
    BY <1>2, <2>1 DEF Unlock, Unlocks
<1>3. Authorize(t) => Authorizes(t)
  BY RunFields DEF Authorize, Authorizes
<1>4. QED
  BY <1>1, <1>2, <1>3

\* What a coroutine that stops waiting does.
LEMMA WaitFields ==
    ASSUME TypeOK, NEW c, c.h \in Callers
    PROVE  /\ Hear(c) => c.h # None /\ Hears(c.h)
           /\ AnsweredOk(c) => c.h # None /\ task[c.h].pc = "ok"
<1>1. ASSUME Hear(c) PROVE c.h # None /\ Hears(c.h)
  <2>1. c.h \in Handlers /\ task[c.h].pc \in {"ok", "refused"} /\ Answer(c.h)
    BY <1>1 DEF Hear, Answered, Served, Callers
  <2>2. QED
    BY <2>1, AnswerFields, NoneIsNoHandler DEF Hears
<1>2. QED
  BY <1>1 DEF AnsweredOk, Answered, Served

\* A coroutine waits for a handler or for nothing.
LEMMA Waiters ==
    ASSUME DeviceTypeOK, NEW t \in ReshareIds
    PROVE  run[t].h \in Callers /\ confirm[t].h \in Callers /\ cancel[t].h \in Callers
BY DEF DeviceTypeOK, Runs

\* A run that fails ends, and reports it if it is the current one.
LEMMA FailedFields ==
    ASSUME DeviceTypeOK, NEW t \in ReshareIds, Failed(t)
    PROVE  /\ RunIs(t, "over", run[t].round, run[t].base, None)
           /\ Reports(t)
           /\ UNCHANGED <<vault, files, current, pending, object, confirm, cancel, popup>>
BY RunFields DEF Failed, Outcome, Reports

\* A run goes on, gives up, ends, or has its share staged.
LEMMA EndEffects ==
    ASSUME TypeOK, DeviceTypeOK, NEW t \in ReshareIds
    PROVE  /\ NotAuthorized(t) => Declines(t)
           /\ NextRound(t) => GoesOn(t)
           /\ Undo(t) => GivesUp(t)
           /\ Undone(t) => Ends(t)
           /\ Staged(t) => StagesPending(t) \/ StagesInVain(t)
<1>0. run[t].h \in Callers
  BY Waiters
<1>a. Hear(run[t]) => run[t].h # None /\ Hears(run[t].h)
  BY <1>0, WaitFields
<1>b. AnsweredOk(run[t]) => run[t].h # None /\ task[run[t].h].pc = "ok"
  BY <1>0, WaitFields
<1>1. NotAuthorized(t) => Declines(t)
  BY FailedFields DEF NotAuthorized, Declines
<1>2. NextRound(t) => GoesOn(t)
  BY <1>a, <1>b, RunFields DEF NextRound, GoesOn, RoundsLeft
<1>3. Undo(t) => GivesUp(t)
  BY <1>a, RunFields DEF Undo, GivesUp, StopsWaiting
<1>4. ASSUME Undone(t) PROVE Ends(t)
  <2>1. StopsWaiting(run[t].h) /\ late' \in {late, late \union {<<t, "abort">>}}
    BY <1>4, <1>a DEF Undone, StopsWaiting, Lose
  <2>2. QED
    BY <1>4, <2>1, FailedFields DEF Undone, Ends
<1>5. ASSUME Staged(t) PROVE StagesPending(t) \/ StagesInVain(t)
  <2>1. Stages(t)
    BY <1>5, <1>a, <1>b DEF Staged, Stages
  <2>2. \A pc : Advance(t, pc) => RunIs(t, pc, run[t].round, run[t].base, None)
    BY RunFields
  <2>3. CASE /\ IsCurrent(t)
             /\ Advance(t, "over")
             /\ pending' = t
             /\ reshareRun' = [phase |-> "ready", id |-> t]
    BY <2>1, <2>2, <2>3 DEF StagesPending, IsCurrent
  <2>4. CASE Advance(t, "undo") /\ UNCHANGED <<pending, reshareRun>>
    BY <2>1, <2>2, <2>4 DEF StagesInVain
  <2>5. QED
    BY <1>5, <2>3, <2>4 DEF Staged
<1>6. QED
  BY <1>1, <1>2, <1>3, <1>4, <1>5

\* First statements of calls, as an idle slot takes them up.
LEMMA AbortFields ==
    ASSUME TypeOK, NEW h \in NextFree, NEW t \in ReshareIds
    PROVE  /\ Abort(h, t) => Aborts(h, t)
           /\ Commit(h, t) => Commits(h, t)
<1>0. h \in Handlers /\ task[h].pc = "idle"
  BY FreeHandler
<1>1. ASSUME Abort(h, t) PROVE Aborts(h, t)
  <2>1. CallRests(h, "ok") /\ RowGoes(t)
    BY <1>0, <1>1, AnswerFields, RowFields DEF Abort, AbortReshare
  <2>2. staged'.share \in {staged.share, None}
    BY <1>1 DEF Abort, AbortReshare, NoStaged
  <2>3. QED
    BY <1>0, <1>1, <2>1, <2>2 DEF Abort, Aborts
<1>2. ASSUME Commit(h, t) PROVE Commits(h, t)
  BY <1>0, <1>2, AnswerFields DEF Commit, Commits, Committable, NoStaged
<1>3. QED
  BY <1>1, <1>2

\* A message of a round is refused, drops a session whose time has passed, fails
\* the reshare, or is worked on.
LEMMA TakeFields ==
    ASSUME TypeOK, NEW h \in NextFree, NEW t \in ReshareIds, NEW n, NEW b, Take(h, t, n, b)
    PROVE  \/ RowGoes(t) /\ CallRests(h, "refused")
           \/ /\ UNCHANGED session
              /\ session[t] # NoSession
              /\ \/ CallRests(h, "refused")
                 \/ CallWorks(h, "fail", t, 0, None)
                 \/ CallWorks(h, "send", t, n, session[t].base)
                 \/ /\ CallWorks(h, "close", t, 0, None)
                    /\ n = LastRound
                    /\ b = session[t].base
<1>0. h \in Handlers
  BY FreeHandler
<1>1. CASE TakeNothing(h, t)
  BY <1>0, <1>1, AnswerFields, RowFields DEF TakeNothing
<1>2. CASE TakeAndFail(h, t)
  BY <1>0, <1>2, AnswerFields, CallFields DEF TakeAndFail
<1>3. CASE TakeAndAdvance(h, t, n, b)
  BY <1>0, <1>3, CallFields DEF TakeAndAdvance, Fits
<1>4. QED
  BY <1>1, <1>2, <1>3 DEF Take

\* A start is refused, or consumes the reshare's approval and is worked on.
LEMMA StartFields ==
    ASSUME TypeOK, NEW h \in NextFree, NEW t \in ReshareIds, Start(h, t)
    PROVE  /\ UNCHANGED <<live, session, staged>>
           /\ \/ CallRests(h, "refused") /\ UNCHANGED grant
              \/ /\ CallWorks(h, "read", t, 0, None)
                 /\ grant'[t] = "consumed"
                 /\ \A u \in ReshareIds : u # t => grant'[u] = grant[u]
<1>0. h \in Handlers
  BY FreeHandler
<1>1. ASSUME ConsumeGrant(t)
      PROVE  /\ grant'[t] = "consumed"
             /\ \A u \in ReshareIds : u # t => grant'[u] = grant[u]
  BY <1>1 DEF ConsumeGrant, TypeOK, ApprovedIds
<1>2. QED
  BY <1>0, <1>1, AnswerFields, CallFields DEF Start

\* What the call of a run does first.
LEMMA PostEffects ==
    ASSUME TypeOK, DeviceTypeOK, NEW t \in ReshareIds, Post(t)
    PROVE  \E h \in Handlers : PostsStart(t, h) \/ PostsRound(t, h) \/ PostsUndo(t, h)
<1>1. PICK h \in NextFree :
        /\ \/ run[t].pc = "start" /\ Start(h, t)
           \/ run[t].pc = "round" /\ Take(h, t, run[t].round, run[t].base)
           \/ run[t].pc = "undo" /\ Abort(h, t)
        /\ run' = [run EXCEPT ![t].h = h]
  BY DEF Post
<1>2. h \in Handlers /\ Posts(t, h)
  BY <1>1, FreeHandler, RunFields DEF Post, Posts, Unserved
<1>3. CASE run[t].pc = "start" /\ Start(h, t)
  BY <1>2, <1>3, StartFields DEF PostsStart
<1>4. CASE run[t].pc = "round" /\ Take(h, t, run[t].round, run[t].base)
  <2>1. UNCHANGED <<live, grant, staged>>
    BY <1>4 DEF Take
  <2>2. PostsRound(t, h)
    BY <1>2, <1>4, <2>1, TakeFields DEF PostsRound
  <2>3. QED
    BY <1>2, <2>2
<1>5. CASE run[t].pc = "undo" /\ Abort(h, t)
  BY <1>2, <1>5, AbortFields DEF PostsUndo
<1>6. QED
  BY <1>1, <1>3, <1>4, <1>5

\* A confirm commits, then stores; either may fail.
LEMMA ConfirmEffects ==
    ASSUME TypeOK, DeviceTypeOK, NEW t \in ReshareIds
    PROVE  /\ ConfirmPost(t) => \E h \in Handlers : PostsCommit(t, h)
           /\ Committed(t) => HearsCommit(t)
           /\ NotCommitted(t) => FailsCommit(t)
           /\ Store(t) => Stores(t)
           /\ NotStored(t) => FailsStore(t)
<1>0. confirm[t].h \in Callers
  BY Waiters
<1>a. Hear(confirm[t]) => confirm[t].h # None /\ Hears(confirm[t].h)
  BY <1>0, WaitFields
<1>b. AnsweredOk(confirm[t]) => confirm[t].h # None /\ task[confirm[t].h].pc = "ok"
  BY <1>0, WaitFields
<1>1. ASSUME ConfirmPost(t) PROVE \E h \in Handlers : PostsCommit(t, h)
  <2>1. PICK h \in NextFree : Commit(h, t) /\ confirm' = [confirm EXCEPT ![t].h = h]
    BY <1>1 DEF ConfirmPost
  <2>2. h \in Handlers /\ Commits(h, t) /\ ConfirmIs(t, confirm[t].pc, h)
    BY <2>1, FreeHandler, AbortFields, CoroutineFields
  <2>3. QED
    BY <1>1, <2>2 DEF ConfirmPost, PostsCommit, Unserved
<1>2. Committed(t) => HearsCommit(t)
  BY <1>a, <1>b, CoroutineFields DEF Committed, HearsCommit
<1>3. ASSUME NotCommitted(t) PROVE FailsCommit(t)
  <2>1. StopsWaiting(confirm[t].h) /\ late' \in {late, late \union {<<t, "commit">>}}
    BY <1>3, <1>a DEF NotCommitted, StopsWaiting, Lose
  <2>2. QED
    BY <1>3, <2>1, CoroutineFields DEF NotCommitted, FailsCommit
<1>4. ASSUME Store(t) PROVE Stores(t)
  <2>1. ConfirmIs(t, "idle", None)
    BY <1>4, CoroutineFields DEF Store
  <2>2. QED
    BY <1>4, <2>1 DEF Store, Stores
<1>5. NotStored(t) => FailsStore(t)
  BY CoroutineFields DEF NotStored, FailsStore
<1>6. QED
  BY <1>1, <1>2, <1>3, <1>4, <1>5

\* A cancel aborts and then wipes, whatever became of the abort.
LEMMA CancelEffects ==
    ASSUME TypeOK, DeviceTypeOK, NEW t \in ReshareIds
    PROVE  /\ CancelPost(t) => \E h \in Handlers : PostsCancel(t, h)
           /\ Cancelled(t) => Cancels(t)
<1>0. cancel[t].h \in Callers
  BY Waiters
<1>a. Hear(cancel[t]) => cancel[t].h # None /\ Hears(cancel[t].h)
  BY <1>0, WaitFields
<1>1. ASSUME CancelPost(t) PROVE \E h \in Handlers : PostsCancel(t, h)
  <2>1. PICK h \in NextFree : Abort(h, t) /\ cancel' = [cancel EXCEPT ![t].h = h]
    BY <1>1 DEF CancelPost
  <2>2. h \in Handlers /\ Aborts(h, t) /\ CancelIs(t, cancel[t].pc, h)
    BY <2>1, FreeHandler, AbortFields, CoroutineFields
  <2>3. QED
    BY <1>1, <2>2 DEF CancelPost, PostsCancel, Unserved
<1>2. ASSUME Cancelled(t) PROVE Cancels(t)
  <2>1. StopsWaiting(cancel[t].h) /\ late' \in {late, late \union {<<t, "abort">>}}
    BY <1>2, <1>a DEF Cancelled, StopsWaiting, Lose
  <2>2. CancelIs(t, "idle", None) /\ ObjectIs(t, object[t].committed, TRUE)
    BY <1>2, CoroutineFields DEF Cancelled
  <2>3. QED
    BY <1>2, <2>1, <2>2 DEF Cancelled, Cancels
<1>3. QED
  BY <1>1, <1>2

\* The starts of a coroutine, and what the popup does.
LEMMA UserEffects ==
    ASSUME DeviceTypeOK, User
    PROVE  \/ \E t \in ReshareIds : StartsReshare(t) \/ StartsConfirm(t) \/ StartsCancel(t)
           \/ Hides \/ Saves \/ CancelsRun
<1>1. ASSUME NEW t \in ReshareIds, StartReshare(t) PROVE StartsReshare(t)
  BY <1>1, UnlockEffect
<1>2. CASE ReportFailure \/ TakeRecovery
  BY <1>2 DEF ReportFailure, TakeRecovery, Hides, NothingRuns
<1>3. CASE SaveFile \/ ClosePopup
  BY <1>3 DEF SaveFile, ClosePopup, Saves
<1>4. CASE CancelRun
  BY <1>4 DEF CancelRun, Cancellable, CancelsRun, NothingRuns
<1>5. ASSUME ConfirmStart \/ CancelStart PROVE pending \in ReshareIds
  BY <1>5 DEF ConfirmStart, CancelStart, DeviceTypeOK
<1>6. ASSUME ConfirmStart PROVE \E t \in ReshareIds : StartsConfirm(t)
  <2>1. PICK t \in ReshareIds : t = pending
    BY <1>5, <1>6
  <2>2. PICK pc : pc = AfterChecks(t)
    OBVIOUS
  <2>3. confirm' = [confirm EXCEPT ![t].pc = pc]
    BY <1>6, <2>1, <2>2 DEF ConfirmStart
  <2>4. ConfirmIs(t, pc, confirm[t].h)
    BY <2>3, CoroutineFields
  <2>5. confirm[t].pc = "idle"
    <3>1. confirm[t] = Quiet
      BY <1>6, <2>1 DEF ConfirmStart
    <3>2. QED
      BY <3>1 DEF Quiet
  <2>6. popup # None /\ popup \in files
    <3>1. popup \in files
      BY <1>6 DEF ConfirmStart, Downloaded
    <3>2. QED
      BY <3>1, NoneIsNoId DEF DeviceTypeOK
  <2>7. StartsConfirm(t)
    BY <1>6, <2>1, <2>2, <2>4, <2>5, <2>6 DEF ConfirmStart, AfterChecks, StartsConfirm
  <2>8. QED
    BY <2>7
<1>7. ASSUME CancelStart PROVE \E t \in ReshareIds : StartsCancel(t)
  <2>1. cancel[pending].pc = "idle"
    BY <1>5, <1>7 DEF CancelStart, Quiet
  <2>2. CancelIs(pending, "abort", cancel[pending].h)
    BY <1>5, <1>7, CoroutineFields DEF CancelStart
  <2>3. StartsCancel(pending)
    BY <1>7, <2>1, <2>2 DEF CancelStart, StartsCancel
  <2>4. QED
    BY <1>5, <1>7, <2>3
<1>8. QED
  BY <1>1, <1>2, <1>3, <1>4, <1>6, <1>7 DEF User

\* The later statements of a call, and what nobody waits for.
LEMMA ServerEffects ==
    ASSUME TypeOK, CallsWork, BasesGone, NEW h \in Handlers, ServerStep(h)
    PROVE  Reads(h) \/ Writes(h) \/ StagesShare(h) \/ DropsFailed(h) \/ DropsCall(h)
<1> UNCHANGED device
  BY DEF ServerStep
<1>0. ~ AtRest(h) => task[h].id \in ReshareIds
  BY DEF CallsWork
<1>1. ASSUME ReadShare(h) PROVE Reads(h)
  <2>1. live # None
    BY NoneIsNoId DEF BasesGone, Gone
  <2>2. QED
    BY <1>1, <2>1, CallFields DEF ReadShare, Reads, KeepTables
<1>2. ASSUME Open(h) \/ Send(h) PROVE Writes(h)
  <2>1. task[h].id \in ReshareIds
    BY <1>0, <1>2 DEF Open, Send, AtRest
  <2>2. RowIs(task[h].id, task[h].base)
    <3>1. CASE Open(h)
      BY <2>1, <3>1, RowFields DEF Open
    <3>2. CASE Send(h)
      <4>1. task[h].round + 1 \in Nat \ {0}
        BY <3>2 DEF Send, TypeOK
      <4>2. QED
        BY <2>1, <3>2, <4>1, RowFields DEF Send
    <3>3. QED
      BY <1>2, <3>1, <3>2
  <2>3. QED
    BY <1>2, <2>2, AnswerFields DEF Open, Send, Writes
<1>3. ASSUME StageReshare(h) PROVE StagesShare(h)
  BY <1>3, RowFields, AnswerFields DEF StageReshare, StagesShare
<1>4. ASSUME FailReshare(h) PROVE DropsFailed(h)
  <2>1. task[h].id \in ReshareIds
    BY <1>0, <1>4 DEF FailReshare, AtRest
  <2>2. RowGoes(task[h].id)
    BY <1>4, <2>1, RowFields DEF FailReshare, AbortReshare
  <2>3. staged'.share \in {staged.share, None}
    BY <1>4 DEF FailReshare, AbortReshare, NoStaged
  <2>4. QED
    BY <1>4, <2>2, <2>3, AnswerFields DEF FailReshare, DropsFailed
<1>5. ASSUME CloseDkg(h) \/ CloseSign(h) PROVE FALSE
  BY <1>0, <1>5, IdsAreDisjoint DEF CloseDkg, CloseSign, AtRest
<1>6. ASSUME ~ Waited(h), Answer(h) \/ Abandon(h) PROVE DropsCall(h)
  BY <1>6, AnswerFields DEF Waited, DropsCall
<1>7. QED
  BY <1>1, <1>2, <1>3, <1>4, <1>5, <1>6 DEF ServerStep, Continue

\* Time passes, a late call arrives, the worker stops, a device is replaced.
LEMMA EnvironmentEffects ==
    ASSUME TypeOK, DeviceTypeOK, Environment
    PROVE  \/ Lapsed \/ Forgets
           \/ \E t \in ReshareIds, h \in Handlers : ArrivesLate(t, h)
<1>1. CASE TimePasses
  <2>1. \A u \in ReshareIds : grant'[u] = "none" <=> grant[u] = "none"
    BY <1>1 DEF TimePasses, Lapses, GrantLapses, StagedLapses, TypeOK, ApprovedIds
  <2>2. staged'.share = staged.share
    BY <1>1 DEF TimePasses, Lapses, GrantLapses, StagedLapses, TypeOK, StagedShares, NoStaged
  <2>3. QED
    BY <1>1, <2>1, <2>2 DEF TimePasses, Lapses, GrantLapses, StagedLapses, Lapsed
<1>2. CASE ArriveLate
  <2>1. PICK t \in ReshareIds, what \in {"commit", "abort"}, h \in NextFree :
          /\ <<t, what>> \in late
          /\ IF what = "commit" THEN Commit(h, t) ELSE Abort(h, t)
          /\ late' = late \ {<<t, what>>}
    BY <1>2 DEF ArriveLate
  <2>2. (<<t, "commit">> \in late /\ Commits(h, t)) \/ Aborts(h, t)
    BY <2>1, AbortFields
  <2>3. ArrivesLate(t, h)
    BY <1>2, <2>1, <2>2 DEF ArriveLate, ArrivesLate
  <2>4. QED
    BY <2>1, <2>3, FreeHandler
<1>3. ASSUME Forget, UNCHANGED <<vars, files, late>>, popup' \in {popup, None} PROVE Forgets
  <2>1. ASSUME NEW t \in ReshareIds
        PROVE  /\ run[t].pc = "none" => run'[t] = run[t]
               /\ run[t].pc # "none" =>
                    run'[t].pc = "over" /\ run'[t].h = None /\ run'[t].base = run[t].base
    <3>1. run'[t] = IF run[t].pc = "none" THEN run[t]
                    ELSE [run[t] EXCEPT !.pc = "over", !.round = 0, !.h = None]
      BY <1>3 DEF Forget
    <3>2. run[t] \in Runs
      BY DEF DeviceTypeOK
    <3>3. QED
      BY <3>1, <3>2 DEF Runs
  <2>2. \A t \in ReshareIds :
          /\ confirm'[t].pc = "idle" /\ confirm'[t].h = None
          /\ cancel'[t].pc = "idle" /\ cancel'[t].h = None
    BY <1>3 DEF Forget, Quiet
  <2>3. reshareRun'.phase = "idle" /\ current' = None /\ pending' = None /\ UNCHANGED object
    BY <1>3 DEF Forget, NothingRuns
  <2>4. QED
    BY <1>3, <2>1, <2>2, <2>3 DEF Forgets
<1>4. QED
  BY <1>1, <1>2, <1>3 DEF Environment, WorkerStops, Restore

\* No step of the system does anything else.
LEMMA Effects ==
    ASSUME TypeOK, DeviceTypeOK, CallsWork, BasesGone, SystemNext
    PROVE  Effect
<1>1. ASSUME NEW t \in ReshareIds, RunStep(t) PROVE Effect
  BY <1>1, UnlockEffect, EndEffects, PostEffects DEF RunStep, Effect
<1>2. ASSUME NEW t \in ReshareIds, Coroutines(t) PROVE Effect
  BY <1>1, <1>2, ConfirmEffects, CancelEffects DEF Coroutines, Effect
<1>3. ASSUME NEW t \in ReshareIds, ApproveInBrowser(t) PROVE Effect
  <2>1. \A u \in ReshareIds : u # t => grant'[u] = grant[u]
    BY <1>3 DEF ApproveInBrowser, Approve, TypeOK, ApprovedIds
  <2>2. Approves(t)
    BY <1>3, <2>1 DEF ApproveInBrowser, Approve, Approves, PromptUnlock, NobodyChecked
  <2>3. QED
    BY <2>2 DEF Effect
<1>4. ASSUME User PROVE Effect
  BY <1>4, UserEffects DEF Effect
<1>5. ASSUME NEW h \in Handlers, ServerStep(h) PROVE Effect
  BY <1>5, ServerEffects DEF Effect
<1>6. ASSUME Environment PROVE Effect
  BY <1>6, EnvironmentEffects DEF Effect
<1>7. QED
  BY <1>2, <1>3, <1>4, <1>5, <1>6 DEF SystemNext

-----------------------------------------------------------------------------
(* What is settled stays settled, and what is gone stays gone               *)

\* A settled reshare stays settled, and its share, once not staged, is never
\* staged again.
LEMMA SettledStays ==
    ASSUME CallsWork, Effect
    PROVE  \A b \in Settled :
             b \in Settled' /\ (staged.share # b => staged'.share # b)
<1> DEFINE Stays(b) == b \in Settled' /\ (staged.share # b => staged'.share # b)
<1> SUFFICES ASSUME NEW b \in Settled PROVE Stays(b)
  OBVIOUS
<1> USE NoneIsNoReshare
<1>1. ASSUME NEW t \in ReshareIds, StartsReshare(t) \/ Unlocks(t) \/ Authorizes(t)
               \/ Declines(t)
      PROVE  Stays(b)
  BY <1>1
     DEF StartsReshare, Unlocks, Authorizes, Declines, RunIs, Reports, vars, Settled
<1>2. ASSUME NEW t \in ReshareIds, GoesOn(t) \/ GivesUp(t) \/ Ends(t)
      PROVE  Stays(b)
  BY <1>2
     DEF GoesOn, GivesUp, Ends, RunIs, Hears, CallRests, KeepTables, StopsWaiting,
         Reports, vars, Settled
<1>3. ASSUME NEW t \in ReshareIds, StagesPending(t) \/ StagesInVain(t)
      PROVE  Stays(b)
  BY <1>3
     DEF StagesPending, StagesInVain, Stages, RunIs, Hears, CallRests, KeepTables,
         Settled
<1>4. ASSUME NEW t \in ReshareIds, HearsCommit(t) \/ FailsCommit(t) \/ Cancels(t)
      PROVE  Stays(b)
  BY <1>4
     DEF HearsCommit, FailsCommit, Cancels, Hears, CallRests, KeepTables, ObjectIs,
         ConfirmIs, StopsWaiting, CancelIs, vars, Settled
<1>5. ASSUME NEW t \in ReshareIds, NEW h \in Handlers, PostsStart(t, h) \/ PostsRound(t, h)
               \/ PostsUndo(t, h)
      PROVE  Stays(b)
  BY <1>5
     DEF PostsStart, PostsRound, PostsUndo, Posts, RunIs, CallRests, CallWorks, RowGoes,
         Aborts, Settled
<1>6. ASSUME NEW t \in ReshareIds, NEW h \in Handlers, PostsCommit(t, h) \/ PostsCancel(t, h)
               \/ ArrivesLate(t, h)
      PROVE  Stays(b)
  BY <1>6
     DEF PostsCommit, PostsCancel, ArrivesLate, Commits, CallRests, ConfirmIs, Aborts,
         RowGoes, CancelIs, worker, Settled
<1>7. ASSUME NEW h \in Handlers, Reads(h) \/ Writes(h)
      PROVE  Stays(b)
  BY <1>7
     DEF Reads, Writes, CallWorks, KeepTables, RowIs, CallRests, device, worker, AtRest,
         CallsWork, Settled
<1>8. ASSUME NEW h \in Handlers, StagesShare(h) \/ DropsFailed(h)
      PROVE  Stays(b)
  BY <1>8
     DEF StagesShare, DropsFailed, RowGoes, CallRests, device, worker, AtRest, CallsWork,
         Settled
<1>9. ASSUME NEW h \in Handlers, DropsCall(h)
      PROVE  Stays(b)
  BY <1>9
     DEF DropsCall, CallRests, KeepTables, device, worker, Settled
<1>10. CASE Forgets \/ Lapsed
  BY <1>10
     DEF Forgets, Lapsed, vars, device, worker, Settled
<1>11. ASSUME NEW t \in ReshareIds, StartsConfirm(t) \/ Stores(t) \/ FailsStore(t)
                \/ StartsCancel(t) \/ Approves(t)
      PROVE  Stays(b)
  BY <1>11
     DEF StartsConfirm, Stores, FailsStore, StartsCancel, Approves, ConfirmIs, CancelIs,
         vars, device, worker, Settled
<1>12. CASE Hides \/ Saves \/ CancelsRun
  BY <1>12
     DEF Hides, Saves, CancelsRun, vars, worker, Settled
<1>13. QED
  BY <1>1, <1>2, <1>3, <1>4, <1>5, <1>6, <1>7, <1>8, <1>9, <1>10, <1>11, <1>12 DEF Effect

\* What is settled or gone stays so.
LEMMA GoneStays ==
    ASSUME CallsWork, Effect PROVE Settled \subseteq Settled' /\ Gone \subseteq Gone'
BY SettledStays DEF Gone

-----------------------------------------------------------------------------
(* Each conjunct of the invariant is kept                                   *)

\* Calls are taken up for reshares and end with nothing.
LEMMA CallsWorkStep ==
    ASSUME CallsWork, Effect
    PROVE  CallsWork'
<1> USE NoneIsNoReshare
<1>1. ASSUME NEW t \in ReshareIds, GoesOn(t) \/ GivesUp(t) \/ Ends(t) \/ StagesPending(t)
               \/ StagesInVain(t) \/ HearsCommit(t) \/ FailsCommit(t) \/ Cancels(t)
      PROVE  CallsWork'
  BY SMTT(30), <1>1
     DEF GoesOn, GivesUp, Ends, StagesPending, StagesInVain, HearsCommit, FailsCommit,
         Cancels, RunIs, Hears, CallRests, KeepTables, StopsWaiting, Reports, Stages,
         ObjectIs, ConfirmIs, CancelIs, vars, CallsWork, AtRest
<1>2. ASSUME NEW t \in ReshareIds, NEW h \in Handlers, PostsStart(t, h) \/ PostsRound(t, h)
               \/ PostsUndo(t, h)
      PROVE  CallsWork'
  BY <1>2
     DEF PostsStart, PostsRound, PostsUndo, Posts, RunIs, CallRests, CallWorks, RowGoes,
         Aborts, CallsWork, AtRest
<1>3. ASSUME NEW t \in ReshareIds, NEW h \in Handlers, PostsCommit(t, h) \/ PostsCancel(t, h)
               \/ ArrivesLate(t, h)
      PROVE  CallsWork'
  BY <1>3
     DEF PostsCommit, PostsCancel, ArrivesLate, Commits, CallRests, ConfirmIs, Aborts,
         RowGoes, CancelIs, worker, CallsWork, AtRest
<1>4. ASSUME NEW h \in Handlers, Reads(h) \/ Writes(h) \/ StagesShare(h) \/ DropsFailed(h)
               \/ DropsCall(h)
      PROVE  CallsWork'
  BY <1>4
     DEF Reads, Writes, StagesShare, DropsFailed, DropsCall, CallWorks, KeepTables,
         RowIs, CallRests, RowGoes, device, worker, CallsWork, AtRest
<1>5. ASSUME NEW t \in ReshareIds, StartsReshare(t) \/ Unlocks(t) \/ Authorizes(t)
               \/ Declines(t) \/ StartsConfirm(t) \/ Stores(t) \/ FailsStore(t)
               \/ StartsCancel(t) \/ Approves(t)
      PROVE  CallsWork'
  BY <1>5
     DEF StartsReshare, Unlocks, Authorizes, Declines, StartsConfirm, Stores, FailsStore,
         StartsCancel, Approves, RunIs, Reports, ConfirmIs, CancelIs, vars, device,
         worker, CallsWork, AtRest
<1>6. CASE Hides \/ Saves \/ CancelsRun \/ Forgets \/ Lapsed
  BY <1>6
     DEF Hides, Saves, CancelsRun, Forgets, Lapsed, vars, worker, device, CallsWork,
         AtRest
<1>7. QED
  BY <1>1, <1>2, <1>3, <1>4, <1>5, <1>6 DEF Effect

\* A call that is waited for is neither dropped nor given to another.
LEMMA CallsHeldStep ==
    ASSUME DeviceTypeOK, CallsHeld, NotShared, Effect
    PROVE  CallsHeld'
<1> DEFINE Held(t) ==
      /\ run[t].h # None =>
           /\ run[t].pc \in {"start", "round", "undo"}
           /\ task[run[t].h].pc # "idle"
           /\ run[t].pc = "undo" => AtRest(run[t].h)
      /\ confirm[t].h # None =>
           confirm[t].pc = "commit" /\ task[confirm[t].h].pc \in {"ok", "refused"}
      /\ cancel[t].h # None =>
           cancel[t].pc = "abort" /\ task[cancel[t].h].pc \in {"ok", "refused"}
<1> SUFFICES ASSUME NEW v \in ReshareIds PROVE Held(v)'
  BY DEF CallsHeld
<1> USE Waiters
<1>1. ASSUME NEW t \in ReshareIds, StartsReshare(t) \/ Unlocks(t) \/ Authorizes(t)
               \/ Declines(t)
      PROVE  Held(v)'
  BY <1>1
     DEF StartsReshare, Unlocks, Authorizes, Declines, RunIs, Reports, vars, CallsHeld,
         NotShared, AtRest, Callers
<1>2. ASSUME NEW t \in ReshareIds, GoesOn(t) \/ StagesPending(t) \/ StagesInVain(t)
      PROVE  Held(v)'
  BY SMTT(30), <1>2
     DEF GoesOn, StagesPending, StagesInVain, RunIs, Hears, CallRests, KeepTables,
         Stages, CallsHeld, NotShared, AtRest, Callers
<1>3. ASSUME NEW t \in ReshareIds, GivesUp(t) \/ Ends(t)
      PROVE  Held(v)'
  BY <1>3
     DEF GivesUp, Ends, RunIs, StopsWaiting, Hears, CallRests, KeepTables, Reports, vars,
         CallsHeld, NotShared, AtRest, Callers
<1>4. ASSUME NEW t \in ReshareIds, StartsConfirm(t) \/ FailsStore(t) \/ Stores(t)
               \/ StartsCancel(t)
      PROVE  Held(v)'
  BY <1>4
     DEF StartsConfirm, FailsStore, Stores, StartsCancel, ConfirmIs, CancelIs, vars,
         CallsHeld, NotShared, AtRest, Callers
<1>5. ASSUME NEW t \in ReshareIds, HearsCommit(t)
      PROVE  Held(v)'
  BY <1>5
     DEF HearsCommit, Hears, CallRests, KeepTables, ObjectIs, ConfirmIs, CallsHeld,
         NotShared, AtRest, Callers
<1>6. ASSUME NEW t \in ReshareIds, FailsCommit(t)
      PROVE  Held(v)'
  BY <1>6
     DEF FailsCommit, StopsWaiting, Hears, CallRests, KeepTables, ConfirmIs, vars,
         CallsHeld, NotShared, AtRest, Callers
<1>7. ASSUME NEW t \in ReshareIds, Cancels(t)
      PROVE  Held(v)'
  BY <1>7
     DEF Cancels, StopsWaiting, Hears, CallRests, KeepTables, CancelIs, ObjectIs, vars,
         CallsHeld, NotShared, AtRest, Callers
<1>8. ASSUME NEW t \in ReshareIds, NEW h \in Handlers, PostsStart(t, h)
      PROVE  Held(v)'
  BY <1>8
     DEF PostsStart, Posts, RunIs, CallRests, CallWorks, CallsHeld, NotShared, AtRest,
         Callers
<1>9. ASSUME NEW t \in ReshareIds, NEW h \in Handlers, PostsRound(t, h)
      PROVE  Held(v)'
  BY <1>9
     DEF PostsRound, Posts, RunIs, CallRests, CallWorks, RowGoes, CallsHeld, NotShared,
         AtRest, Callers
<1>10. ASSUME NEW t \in ReshareIds, NEW h \in Handlers, PostsUndo(t, h)
      PROVE  Held(v)'
  BY <1>10
     DEF PostsUndo, Posts, RunIs, Aborts, CallRests, RowGoes, CallsHeld, NotShared,
         AtRest, Callers
<1>11. ASSUME NEW t \in ReshareIds, NEW h \in Handlers, PostsCommit(t, h)
      PROVE  Held(v)'
  BY <1>11
     DEF PostsCommit, Commits, CallRests, ConfirmIs, CallsHeld, NotShared, AtRest,
         Callers
<1>12. ASSUME NEW t \in ReshareIds, NEW h \in Handlers, PostsCancel(t, h)
      PROVE  Held(v)'
  BY <1>12
     DEF PostsCancel, Aborts, CallRests, RowGoes, CancelIs, CallsHeld, NotShared, AtRest,
         Callers
<1>13. ASSUME NEW t \in ReshareIds, NEW h \in Handlers, ArrivesLate(t, h)
      PROVE  Held(v)'
  BY <1>13
     DEF ArrivesLate, Commits, Aborts, CallRests, RowGoes, worker, CallsHeld, NotShared,
         AtRest, Callers
<1>14. ASSUME NEW h \in Handlers, Reads(h) \/ Writes(h)
      PROVE  Held(v)'
  BY <1>14
     DEF Reads, Writes, CallWorks, KeepTables, RowIs, CallRests, device, worker,
         CallsHeld, NotShared, AtRest, Callers
<1>15. ASSUME NEW h \in Handlers, StagesShare(h) \/ DropsFailed(h)
      PROVE  Held(v)'
  BY <1>15
     DEF StagesShare, DropsFailed, RowGoes, CallRests, device, worker, CallsHeld,
         NotShared, AtRest, Callers
<1>16. ASSUME NEW h \in Handlers, DropsCall(h)
      PROVE  Held(v)'
  BY <1>16
     DEF DropsCall, CallRests, KeepTables, device, worker, CallsHeld, NotShared, AtRest,
         Callers
<1>17. CASE Forgets
  BY <1>17
     DEF Forgets, vars, CallsHeld, NotShared, AtRest, Callers
<1>18. ASSUME NEW t \in ReshareIds, Approves(t)
      PROVE  Held(v)'
  BY <1>18
     DEF Approves, device, worker, CallsHeld, NotShared, AtRest, Callers
<1>19. CASE Hides \/ Saves \/ CancelsRun \/ Lapsed
  BY <1>19
     DEF Hides, Saves, CancelsRun, Lapsed, vars, worker, device, CallsHeld, NotShared,
         AtRest, Callers
<1>20. QED
  BY <1>1, <1>2, <1>3, <1>4, <1>5, <1>6, <1>7, <1>8, <1>9, <1>10, <1>11, <1>12, <1>13,
     <1>14, <1>15, <1>16, <1>17, <1>18, <1>19 DEF Effect

\* A coroutine calls with a slot that no other one waits for.
LEMMA NotSharedStep ==
    ASSUME DeviceTypeOK, CallsHeld, NotShared, Effect
    PROVE  NotShared'
<1> DEFINE Apart(t, u) ==
      /\ run[t].h # None =>
           /\ run[t].h # confirm[u].h
           /\ run[t].h # cancel[u].h
           /\ t # u => run[t].h # run[u].h
      /\ confirm[t].h # None =>
           /\ confirm[t].h # cancel[u].h
           /\ t # u => confirm[t].h # confirm[u].h
      /\ cancel[t].h # None /\ t # u => cancel[t].h # cancel[u].h
<1> SUFFICES ASSUME NEW v \in ReshareIds, NEW w \in ReshareIds PROVE Apart(v, w)'
  BY DEF NotShared
<1> USE NoneIsNoHandler
<1>1. ASSUME NEW t \in ReshareIds, StartsReshare(t) \/ Unlocks(t) \/ Authorizes(t)
               \/ Declines(t) \/ GoesOn(t) \/ GivesUp(t) \/ Ends(t) \/ StagesPending(t)
               \/ StagesInVain(t)
      PROVE  Apart(v, w)'
  BY SMTT(30), <1>1
     DEF StartsReshare, Unlocks, Authorizes, Declines, GoesOn, GivesUp, Ends,
         StagesPending, StagesInVain, RunIs, Reports, Hears, CallRests, KeepTables,
         StopsWaiting, Stages, vars, CallsHeld, NotShared
<1>2. ASSUME NEW t \in ReshareIds, StartsConfirm(t) \/ HearsCommit(t) \/ FailsCommit(t)
               \/ Stores(t) \/ FailsStore(t)
      PROVE  Apart(v, w)'
  BY SMTT(30), <1>2
     DEF StartsConfirm, HearsCommit, FailsCommit, Stores, FailsStore, ConfirmIs, Hears,
         CallRests, KeepTables, ObjectIs, StopsWaiting, vars, CallsHeld, NotShared
<1>3. ASSUME NEW t \in ReshareIds, StartsCancel(t) \/ Cancels(t)
      PROVE  Apart(v, w)'
  BY <1>3
     DEF StartsCancel, Cancels, CancelIs, StopsWaiting, Hears, CallRests, KeepTables,
         ObjectIs, vars, CallsHeld, NotShared
<1>4. ASSUME NEW t \in ReshareIds, NEW h \in Handlers, PostsStart(t, h) \/ PostsRound(t, h)
               \/ PostsUndo(t, h)
      PROVE  Apart(v, w)'
  BY <1>4
     DEF PostsStart, PostsRound, PostsUndo, Posts, RunIs, CallRests, CallWorks, RowGoes,
         Aborts, CallsHeld, NotShared
<1>5. ASSUME NEW t \in ReshareIds, NEW h \in Handlers, PostsCommit(t, h) \/ PostsCancel(t, h)
      PROVE  Apart(v, w)'
  BY <1>5
     DEF PostsCommit, PostsCancel, Commits, CallRests, ConfirmIs, Aborts, RowGoes,
         CancelIs, CallsHeld, NotShared
<1>6. CASE Forgets
  BY <1>6
     DEF Forgets, vars, CallsHeld, NotShared
<1>7. ASSUME NEW t \in ReshareIds, Approves(t)
      PROVE  Apart(v, w)'
  BY <1>7
     DEF Approves, device, worker, CallsHeld, NotShared
<1>8. ASSUME NEW t \in ReshareIds, NEW h \in Handlers, ArrivesLate(t, h)
      PROVE  Apart(v, w)'
  BY <1>8
     DEF ArrivesLate, Commits, Aborts, CallRests, RowGoes, worker, CallsHeld, NotShared
<1>9. ASSUME NEW h \in Handlers, Reads(h) \/ Writes(h) \/ StagesShare(h) \/ DropsFailed(h)
               \/ DropsCall(h)
      PROVE  Apart(v, w)'
  BY <1>9
     DEF Reads, Writes, StagesShare, DropsFailed, DropsCall, CallWorks, KeepTables,
         RowIs, CallRests, RowGoes, device, worker, CallsHeld, NotShared
<1>10. CASE Hides \/ Saves \/ CancelsRun \/ Lapsed
  BY <1>10
     DEF Hides, Saves, CancelsRun, Lapsed, vars, worker, device, CallsHeld, NotShared
<1>11. QED
  BY <1>1, <1>2, <1>3, <1>4, <1>5, <1>6, <1>7, <1>8, <1>9, <1>10 DEF Effect

\* A reshare is worked on only where its run sent it.
LEMMA OwnCallsStep ==
    ASSUME DeviceTypeOK, CallsWork, CallsHeld, NotShared, OwnCalls, Effect
    PROVE  OwnCalls'
<1> DEFINE Own(t) ==
      /\ Early(t) \/ run[t].pc \in {"start", "round"} =>
           \A h \in Handlers : task[h].id = t => h = run[t].h
      /\ Early(t) => session[t] = NoSession /\ staged.share # t
      /\ run[t].pc \in {"none", "checked"} => grant[t] = "none"
<1> SUFFICES ASSUME NEW v \in ReshareIds PROVE Own(v)'
  BY DEF OwnCalls
<1> USE NoneIsNoReshare, NoneIsNoHandler
<1>1. ASSUME NEW t \in ReshareIds, StartsReshare(t) \/ Unlocks(t) \/ Authorizes(t)
               \/ Declines(t)
      PROVE  Own(v)'
  BY <1>1
     DEF StartsReshare, Unlocks, Authorizes, Declines, RunIs, Reports, vars, CallsHeld,
         OwnCalls, Early
<1>2. ASSUME NEW t \in ReshareIds, GoesOn(t) \/ StagesPending(t) \/ StagesInVain(t)
      PROVE  Own(v)'
  BY <1>2
     DEF GoesOn, StagesPending, StagesInVain, RunIs, Hears, CallRests, KeepTables,
         Stages, OwnCalls, Early
<1>3. ASSUME NEW t \in ReshareIds, GivesUp(t) \/ Ends(t)
      PROVE  Own(v)'
  BY <1>3
     DEF GivesUp, Ends, RunIs, StopsWaiting, Hears, CallRests, KeepTables, Reports, vars,
         OwnCalls, Early
<1>4. ASSUME NEW t \in ReshareIds, HearsCommit(t) \/ FailsCommit(t) \/ Cancels(t)
      PROVE  Own(v)'
  BY <1>4
     DEF HearsCommit, FailsCommit, Cancels, Hears, CallRests, KeepTables, ObjectIs,
         ConfirmIs, StopsWaiting, CancelIs, vars, OwnCalls, Early
<1>5. ASSUME NEW t \in ReshareIds, Approves(t)
      PROVE  Own(v)'
  BY <1>5
     DEF Approves, device, worker, OwnCalls, Early
<1>6. ASSUME NEW t \in ReshareIds, NEW h \in Handlers, PostsStart(t, h) \/ PostsUndo(t, h)
      PROVE  Own(v)'
  BY <1>6
     DEF PostsStart, PostsUndo, Posts, RunIs, CallRests, CallWorks, Aborts, RowGoes,
         OwnCalls, Early
<1>7. ASSUME NEW t \in ReshareIds, NEW h \in Handlers, PostsRound(t, h)
      PROVE  Own(v)'
  BY <1>7
     DEF PostsRound, Posts, RunIs, CallRests, CallWorks, RowGoes, OwnCalls, Early
<1>8. ASSUME NEW t \in ReshareIds, NEW h \in Handlers, PostsCommit(t, h) \/ PostsCancel(t, h)
      PROVE  Own(v)'
  BY <1>8
     DEF PostsCommit, PostsCancel, Commits, CallRests, ConfirmIs, Aborts, RowGoes,
         CancelIs, OwnCalls, Early
<1>9. ASSUME NEW t \in ReshareIds, NEW h \in Handlers, ArrivesLate(t, h)
      PROVE  Own(v)'
  BY <1>9
     DEF ArrivesLate, Commits, Aborts, CallRests, RowGoes, worker, OwnCalls, Early
<1>10. ASSUME NEW h \in Handlers, Reads(h)
      PROVE  Own(v)'
  BY <1>10
     DEF Reads, CallWorks, KeepTables, device, worker, CallsWork, AtRest, CallsHeld,
         OwnCalls, Early
<1>11. ASSUME NEW h \in Handlers, Writes(h)
      PROVE  Own(v)'
  BY <1>11
     DEF Writes, RowIs, CallRests, device, worker, CallsWork, AtRest, CallsHeld,
         OwnCalls, Early
<1>12. ASSUME NEW h \in Handlers, StagesShare(h)
      PROVE  Own(v)'
  BY <1>12
     DEF StagesShare, RowGoes, CallRests, device, worker, CallsWork, AtRest, CallsHeld,
         OwnCalls, Early
<1>13. ASSUME NEW h \in Handlers, DropsFailed(h)
      PROVE  Own(v)'
  BY <1>13
     DEF DropsFailed, RowGoes, CallRests, device, worker, CallsWork, AtRest, CallsHeld,
         OwnCalls, Early
<1>14. ASSUME NEW h \in Handlers, DropsCall(h)
      PROVE  Own(v)'
  BY <1>14
     DEF DropsCall, CallRests, KeepTables, device, worker, OwnCalls, Early
<1>15. CASE Forgets
  BY <1>15
     DEF Forgets, vars, CallsHeld, OwnCalls, Early
<1>16. CASE Lapsed
  BY <1>16
     DEF Lapsed, device, worker, OwnCalls, Early
<1>17. ASSUME NEW t \in ReshareIds, StartsConfirm(t) \/ Stores(t) \/ FailsStore(t)
                \/ StartsCancel(t)
      PROVE  Own(v)'
  BY <1>17
     DEF StartsConfirm, Stores, FailsStore, StartsCancel, ConfirmIs, CancelIs, vars,
         OwnCalls, Early
<1>18. CASE Hides \/ Saves \/ CancelsRun
  BY <1>18
     DEF Hides, Saves, CancelsRun, vars, worker, OwnCalls, Early
<1>19. QED
  BY <1>1, <1>2, <1>3, <1>4, <1>5, <1>6, <1>7, <1>8, <1>9, <1>10, <1>11, <1>12, <1>13,
     <1>14, <1>15, <1>16, <1>17, <1>18 DEF Effect

\* What a run waits for stays its own.
LEMMA HeldWorksStep ==
    ASSUME DeviceTypeOK, CallsHeld, NotShared, HeldWorks, Effect
    PROVE  HeldWorks'
<1> DEFINE Own(t) ==
      run[t].pc \in {"start", "round"} /\ run[t].h # None => task[run[t].h].id \in {t, None}
<1> SUFFICES ASSUME NEW v \in ReshareIds PROVE Own(v)'
  BY DEF HeldWorks
<1> USE Waiters
<1>1. ASSUME NEW t \in ReshareIds, StartsReshare(t) \/ Unlocks(t) \/ Authorizes(t)
               \/ Declines(t)
      PROVE  Own(v)'
  BY <1>1
     DEF StartsReshare, Unlocks, Authorizes, Declines, RunIs, Reports, vars, CallsHeld,
         HeldWorks
<1>2. ASSUME NEW t \in ReshareIds, GoesOn(t) \/ StagesPending(t) \/ StagesInVain(t)
               \/ GivesUp(t) \/ Ends(t)
      PROVE  Own(v)'
  BY SMTT(30), <1>2
     DEF GoesOn, StagesPending, StagesInVain, GivesUp, Ends, RunIs, Hears, CallRests,
         KeepTables, Stages, StopsWaiting, Reports, vars, NotShared, Callers, HeldWorks
<1>3. ASSUME NEW t \in ReshareIds, HearsCommit(t) \/ FailsCommit(t) \/ Cancels(t)
      PROVE  Own(v)'
  BY <1>3
     DEF HearsCommit, FailsCommit, Cancels, Hears, CallRests, KeepTables, ObjectIs,
         ConfirmIs, StopsWaiting, CancelIs, vars, NotShared, Callers, HeldWorks
<1>4. ASSUME NEW t \in ReshareIds, NEW h \in Handlers, PostsStart(t, h) \/ PostsUndo(t, h)
      PROVE  Own(v)'
  BY <1>4
     DEF PostsStart, PostsUndo, Posts, RunIs, CallRests, CallWorks, Aborts, RowGoes,
         CallsHeld, Callers, HeldWorks
<1>5. ASSUME NEW t \in ReshareIds, NEW h \in Handlers, PostsRound(t, h)
      PROVE  Own(v)'
  BY <1>5
     DEF PostsRound, Posts, RunIs, CallRests, CallWorks, RowGoes, CallsHeld, Callers,
         HeldWorks
<1>6. ASSUME NEW t \in ReshareIds, NEW h \in Handlers, PostsCommit(t, h) \/ PostsCancel(t, h)
               \/ ArrivesLate(t, h)
      PROVE  Own(v)'
  BY <1>6
     DEF PostsCommit, PostsCancel, ArrivesLate, Commits, CallRests, ConfirmIs, Aborts,
         RowGoes, CancelIs, worker, CallsHeld, Callers, HeldWorks
<1>7. ASSUME NEW h \in Handlers, Reads(h)
      PROVE  Own(v)'
  BY <1>7
     DEF Reads, CallWorks, KeepTables, device, worker, Callers, HeldWorks
<1>8. ASSUME NEW h \in Handlers, Writes(h) \/ StagesShare(h) \/ DropsFailed(h)
      PROVE  Own(v)'
  BY <1>8
     DEF Writes, StagesShare, DropsFailed, RowIs, CallRests, RowGoes, device, worker,
         Callers, HeldWorks
<1>9. ASSUME NEW h \in Handlers, DropsCall(h)
      PROVE  Own(v)'
  BY <1>9
     DEF DropsCall, CallRests, KeepTables, device, worker, Callers, HeldWorks
<1>10. CASE Forgets
  BY <1>10
     DEF Forgets, vars, HeldWorks
<1>11. ASSUME NEW t \in ReshareIds, StartsConfirm(t) \/ Stores(t) \/ FailsStore(t)
                \/ StartsCancel(t) \/ Approves(t)
      PROVE  Own(v)'
  BY <1>11
     DEF StartsConfirm, Stores, FailsStore, StartsCancel, Approves, ConfirmIs, CancelIs,
         vars, device, worker, HeldWorks
<1>12. CASE Hides \/ Saves \/ CancelsRun \/ Lapsed
  BY <1>12
     DEF Hides, Saves, CancelsRun, Lapsed, vars, worker, device, HeldWorks
<1>13. QED
  BY <1>1, <1>2, <1>3, <1>4, <1>5, <1>6, <1>7, <1>8, <1>9, <1>10, <1>11, <1>12 DEF Effect

\* A call works on the round its run is in.
LEMMA RoundsInStepStep ==
    ASSUME TypeOK, DeviceTypeOK, CallsWork, CallsHeld, NotShared, OwnCalls, HeldWorks,
           RoundsInStep, Effect
    PROVE  RoundsInStep'
<1> DEFINE InStep(t) ==
      run[t].pc = "round" =>
        /\ run[t].round > 0
        /\ run[t].h # None =>
             /\ task[run[t].h].pc \notin {"read", "open"}
             /\ task[run[t].h].pc = "send" => task[run[t].h].round = run[t].round
             /\ task[run[t].h].pc = "close" => run[t].round = LastRound
             /\ task[run[t].h].pc = "ok" /\ run[t].round = LastRound =>
                  session[t] = NoSession
<1> SUFFICES ASSUME NEW v \in ReshareIds PROVE InStep(v)'
  BY DEF RoundsInStep
<1> USE Waiters
<1>1. ASSUME NEW t \in ReshareIds, StartsReshare(t) \/ Unlocks(t) \/ Authorizes(t)
               \/ Declines(t)
      PROVE  InStep(v)'
  BY <1>1
     DEF StartsReshare, Unlocks, Authorizes, Declines, RunIs, Reports, vars,
         RoundsInStep
<1>2. ASSUME NEW t \in ReshareIds, GoesOn(t)
      PROVE  InStep(v)'
  <2>1. run[t].round \in Nat
    BY LastRoundIsPositive DEF DeviceTypeOK, Runs
  <2>2. CASE v = t
    BY <1>2, <2>1, <2>2 DEF GoesOn, RunIs
  <2>3. CASE v # t
    BY <1>2, <2>3 DEF GoesOn, RunIs, Hears, CallRests, KeepTables, NotShared, Callers,
       RoundsInStep
  <2>4. QED
    BY <2>2, <2>3
<1>3. ASSUME NEW t \in ReshareIds, StagesPending(t) \/ StagesInVain(t) \/ GivesUp(t) \/ Ends(t)
      PROVE  InStep(v)'
  BY SMTT(30), <1>3
     DEF StagesPending, StagesInVain, GivesUp, Ends, Stages, RunIs, Hears, CallRests,
         KeepTables, StopsWaiting, Reports, vars, NotShared, Callers, RoundsInStep
<1>4. ASSUME NEW t \in ReshareIds, HearsCommit(t) \/ FailsCommit(t) \/ Cancels(t)
      PROVE  InStep(v)'
  BY SMTT(30), <1>4
     DEF HearsCommit, FailsCommit, Cancels, Hears, CallRests, KeepTables, ObjectIs,
         ConfirmIs, StopsWaiting, CancelIs, vars, NotShared, Callers, RoundsInStep
<1>5. ASSUME NEW t \in ReshareIds, NEW h \in Handlers, PostsStart(t, h) \/ PostsUndo(t, h)
      PROVE  InStep(v)'
  BY <1>5
     DEF PostsStart, PostsUndo, Posts, RunIs, CallRests, CallWorks, Aborts, RowGoes,
         CallsHeld, Callers, RoundsInStep
<1>6. ASSUME NEW t \in ReshareIds, NEW h \in Handlers, PostsRound(t, h)
      PROVE  InStep(v)'
  BY <1>6
     DEF PostsRound, Posts, RunIs, CallRests, CallWorks, RowGoes, CallsHeld, Callers,
         RoundsInStep
<1>7. ASSUME NEW t \in ReshareIds, NEW h \in Handlers, PostsCommit(t, h) \/ PostsCancel(t, h)
               \/ ArrivesLate(t, h)
      PROVE  InStep(v)'
  BY <1>7
     DEF PostsCommit, PostsCancel, ArrivesLate, Commits, CallRests, ConfirmIs, Aborts,
         RowGoes, CancelIs, worker, CallsHeld, Callers, RoundsInStep
<1>8. ASSUME NEW h \in Handlers, Reads(h)
      PROVE  InStep(v)'
  BY <1>8
     DEF Reads, CallWorks, KeepTables, device, worker, Callers, RoundsInStep
<1>9. ASSUME NEW h \in Handlers, Writes(h)
      PROVE  InStep(v)'
  BY <1>9, LastRoundIsPositive
     DEF Writes, RowIs, CallRests, device, worker, TypeOK, Callers, OwnCalls, CallsWork,
         AtRest, CallsHeld, RoundsInStep
<1>10. ASSUME NEW h \in Handlers, StagesShare(h)
      PROVE  InStep(v)'
  BY <1>10, NoneIsNoReshare
     DEF StagesShare, RowGoes, CallRests, device, worker, Callers, HeldWorks, CallsWork,
         AtRest, RoundsInStep
<1>11. ASSUME NEW h \in Handlers, DropsFailed(h)
      PROVE  InStep(v)'
  BY <1>11
     DEF DropsFailed, RowGoes, CallRests, device, worker, Callers, OwnCalls, CallsWork,
         AtRest, RoundsInStep
<1>12. ASSUME NEW h \in Handlers, DropsCall(h)
      PROVE  InStep(v)'
  BY <1>12
     DEF DropsCall, CallRests, KeepTables, device, worker, Callers, RoundsInStep
<1>13. CASE Forgets
  BY <1>13
     DEF Forgets, vars, RoundsInStep
<1>14. ASSUME NEW t \in ReshareIds, StartsConfirm(t) \/ Stores(t) \/ FailsStore(t)
                \/ StartsCancel(t) \/ Approves(t)
      PROVE  InStep(v)'
  BY <1>14
     DEF StartsConfirm, Stores, FailsStore, StartsCancel, Approves, ConfirmIs, CancelIs,
         vars, device, worker, RoundsInStep
<1>15. CASE Hides \/ Saves \/ CancelsRun \/ Lapsed
  BY <1>15
     DEF Hides, Saves, CancelsRun, Lapsed, vars, worker, device, RoundsInStep
<1>16. QED
  BY <1>1, <1>2, <1>3, <1>4, <1>5, <1>6, <1>7, <1>8, <1>9, <1>10, <1>11, <1>12, <1>13,
     <1>14, <1>15 DEF Effect
\* A commit replaces what is gone by what is not.
LEMMA StagedIsNotGone ==
    ASSUME BasesGone, NEW t \in ReshareIds, staged.share = t
    PROVE  t \notin Gone /\ run[t].base \in Gone
BY IdsAreDisjoint DEF Gone, BasesGone, Shares

\* What is live was settled when it was committed.
LEMMA LiveGoneStep ==
    ASSUME CallsWork, BasesGone, SettledFirst, Effect
    PROVE  live' \in Gone'
<1> USE NoneIsNoReshare
<1>g. Settled \subseteq Settled' /\ Gone \subseteq Gone'
  BY GoneStays
<1>1. ASSUME NEW t \in ReshareIds, NEW h \in Handlers, PostsCommit(t, h) \/ ArrivesLate(t, h)
      PROVE  live' \in Gone'
  <2>1. CASE UNCHANGED live
    BY <1>g, <2>1 DEF BasesGone
  <2>2. CASE live' # live
    <3>1. CommitAround(t) /\ live' = t /\ staged'.share = None
      BY <1>1, <2>2 DEF PostsCommit, ArrivesLate, Commits, Aborts, CommitAround
    <3>2. t \in Settled
      BY <3>1 DEF SettledFirst
    <3>3. QED
      BY <1>g, <3>1, <3>2 DEF Gone, Shares
  <2>3. QED
    BY <2>1, <2>2
<1>2. ASSUME NEW t \in ReshareIds, StartsReshare(t) \/ Unlocks(t) \/ Authorizes(t)
               \/ Declines(t) \/ GoesOn(t) \/ GivesUp(t) \/ Ends(t) \/ StagesPending(t)
               \/ StagesInVain(t) \/ StartsConfirm(t) \/ HearsCommit(t) \/ FailsCommit(t)
               \/ Stores(t) \/ FailsStore(t) \/ StartsCancel(t) \/ Cancels(t) \/ Approves(t)
      PROVE  live' \in Gone'
  BY <1>2, <1>g
     DEF StartsReshare, Unlocks, Authorizes, Declines, GoesOn, GivesUp, Ends,
         StagesPending, StagesInVain, StartsConfirm, HearsCommit, FailsCommit, Stores,
         FailsStore, StartsCancel, Cancels, Approves, RunIs, Reports, Hears, CallRests,
         KeepTables, StopsWaiting, Stages, ConfirmIs, ObjectIs, CancelIs, vars, device,
         worker, BasesGone
<1>3. ASSUME NEW t \in ReshareIds, NEW h \in Handlers, PostsStart(t, h) \/ PostsRound(t, h)
               \/ PostsUndo(t, h) \/ PostsCancel(t, h)
      PROVE  live' \in Gone'
  BY <1>3, <1>g
     DEF PostsStart, PostsRound, PostsUndo, PostsCancel, Posts, RunIs, CallRests,
         CallWorks, RowGoes, Aborts, CancelIs, BasesGone
<1>4. ASSUME NEW h \in Handlers, Reads(h) \/ Writes(h) \/ StagesShare(h) \/ DropsFailed(h)
               \/ DropsCall(h)
      PROVE  live' \in Gone'
  BY <1>4, <1>g
     DEF Reads, Writes, StagesShare, DropsFailed, DropsCall, CallWorks, KeepTables,
         RowIs, CallRests, RowGoes, device, worker, BasesGone
<1>5. CASE Hides \/ Saves \/ CancelsRun \/ Forgets \/ Lapsed
  BY <1>5, <1>g
     DEF Hides, Saves, CancelsRun, Forgets, Lapsed, vars, worker, device, BasesGone
<1>6. QED
  BY <1>1, <1>2, <1>3, <1>4, <1>5 DEF Effect

\* A session is opened with the live share and goes on with its own.
LEMMA SessionBasesStep ==
    ASSUME CallsWork, BasesGone, Effect
    PROVE  \A t \in ReshareIds : session'[t] # NoSession => session'[t].base \in Gone'
<1> USE NoneIsNoReshare
<1>g. Settled \subseteq Settled' /\ Gone \subseteq Gone'
  BY GoneStays
<1> DEFINE Based(t) == session'[t] # NoSession => session'[t].base \in Gone'
<1> SUFFICES ASSUME NEW v \in ReshareIds PROVE Based(v)
  OBVIOUS
<1>1. ASSUME NEW t \in ReshareIds, NEW h \in Handlers, PostsRound(t, h)
      PROVE  Based(v)
  BY <1>1, <1>g
     DEF PostsRound, Posts, RunIs, CallRests, CallWorks, RowGoes, BasesGone
<1>2. ASSUME NEW t \in ReshareIds, NEW h \in Handlers, PostsUndo(t, h) \/ PostsCancel(t, h)
               \/ ArrivesLate(t, h)
      PROVE  Based(v)
  BY <1>2, <1>g
     DEF PostsUndo, PostsCancel, ArrivesLate, Posts, RunIs, Aborts, CallRests, RowGoes,
         CancelIs, Commits, worker, BasesGone
<1>3. ASSUME NEW h \in Handlers, Writes(h)
      PROVE  Based(v)
  BY <1>3, <1>g
     DEF Writes, RowIs, CallRests, device, worker, CallsWork, AtRest, BasesGone
<1>4. ASSUME NEW h \in Handlers, StagesShare(h) \/ DropsFailed(h)
      PROVE  Based(v)
  BY <1>4, <1>g
     DEF StagesShare, DropsFailed, RowGoes, CallRests, device, worker, CallsWork, AtRest,
         BasesGone
<1>5. ASSUME NEW t \in ReshareIds, StartsReshare(t) \/ Unlocks(t) \/ Authorizes(t)
               \/ Declines(t) \/ GoesOn(t) \/ GivesUp(t) \/ Ends(t) \/ StagesPending(t)
               \/ StagesInVain(t) \/ StartsConfirm(t) \/ HearsCommit(t) \/ FailsCommit(t)
               \/ Stores(t) \/ FailsStore(t) \/ StartsCancel(t) \/ Cancels(t) \/ Approves(t)
      PROVE  Based(v)
  BY <1>5, <1>g
     DEF StartsReshare, Unlocks, Authorizes, Declines, GoesOn, GivesUp, Ends,
         StagesPending, StagesInVain, StartsConfirm, HearsCommit, FailsCommit, Stores,
         FailsStore, StartsCancel, Cancels, Approves, RunIs, Reports, Hears, CallRests,
         KeepTables, StopsWaiting, Stages, ConfirmIs, ObjectIs, CancelIs, vars, device,
         worker, BasesGone
<1>6. ASSUME NEW t \in ReshareIds, NEW h \in Handlers, PostsStart(t, h) \/ PostsCommit(t, h)
      PROVE  Based(v)
  BY <1>6, <1>g
     DEF PostsStart, PostsCommit, Posts, RunIs, CallRests, CallWorks, Commits, ConfirmIs,
         BasesGone
<1>7. ASSUME NEW h \in Handlers, Reads(h) \/ DropsCall(h)
      PROVE  Based(v)
  BY <1>7, <1>g
     DEF Reads, DropsCall, CallWorks, KeepTables, CallRests, device, worker, BasesGone
<1>8. CASE Hides \/ Saves \/ CancelsRun \/ Forgets \/ Lapsed
  BY <1>8, <1>g
     DEF Hides, Saves, CancelsRun, Forgets, Lapsed, vars, worker, device, BasesGone
<1>9. QED
  BY <1>1, <1>2, <1>3, <1>4, <1>5, <1>6, <1>7, <1>8 DEF Effect

\* What a staged reshare started from is gone.
LEMMA StagedBasesStep ==
    ASSUME DeviceTypeOK, CallsWork, OwnCalls, BasesGone, Effect
    PROVE  \A t \in ReshareIds : staged'.share = t => run'[t].base \in Gone'
<1> USE NoneIsNoReshare
<1>g. Settled \subseteq Settled' /\ Gone \subseteq Gone'
  BY GoneStays
<1> DEFINE Based(t) == staged'.share = t => run'[t].base \in Gone'
<1> SUFFICES ASSUME NEW v \in ReshareIds PROVE Based(v)
  OBVIOUS
<1>1. ASSUME NEW t \in ReshareIds, StartsReshare(t) \/ Authorizes(t) \/ Declines(t) \/ GoesOn(t)
      PROVE  Based(v)
  BY <1>1, <1>g
     DEF StartsReshare, Authorizes, Declines, GoesOn, RunIs, Reports, Hears, CallRests,
         KeepTables, vars, BasesGone
<1>2. ASSUME NEW t \in ReshareIds, Unlocks(t)
      PROVE  Based(v)
  BY <1>2, <1>g
     DEF Unlocks, RunIs, vars, OwnCalls, Early, BasesGone
<1>3. ASSUME NEW t \in ReshareIds, GivesUp(t) \/ Ends(t) \/ StagesPending(t) \/ StagesInVain(t)
      PROVE  Based(v)
  BY <1>3, <1>g
     DEF GivesUp, Ends, StagesPending, StagesInVain, RunIs, StopsWaiting, Hears,
         CallRests, KeepTables, Reports, Stages, vars, BasesGone
<1>4. ASSUME NEW t \in ReshareIds, NEW h \in Handlers, PostsStart(t, h)
      PROVE  Based(v)
  BY <1>4, <1>g
     DEF PostsStart, Posts, RunIs, CallRests, CallWorks, BasesGone
<1>5. ASSUME NEW t \in ReshareIds, NEW h \in Handlers, PostsRound(t, h)
      PROVE  Based(v)
  BY <1>5, <1>g
     DEF PostsRound, Posts, RunIs, CallRests, CallWorks, RowGoes, BasesGone
<1>6. ASSUME NEW t \in ReshareIds, NEW h \in Handlers, PostsUndo(t, h) \/ PostsCancel(t, h)
      PROVE  Based(v)
  BY <1>6, <1>g
     DEF PostsUndo, PostsCancel, Posts, RunIs, Aborts, CallRests, RowGoes, CancelIs,
         BasesGone
<1>7. ASSUME NEW t \in ReshareIds, NEW h \in Handlers, PostsCommit(t, h) \/ ArrivesLate(t, h)
      PROVE  Based(v)
  BY <1>7, <1>g
     DEF PostsCommit, ArrivesLate, Commits, CallRests, ConfirmIs, Aborts, RowGoes,
         worker, BasesGone
<1>8. ASSUME NEW h \in Handlers, StagesShare(h) \/ DropsFailed(h)
      PROVE  Based(v)
  BY <1>8, <1>g
     DEF StagesShare, DropsFailed, RowGoes, CallRests, device, worker, CallsWork, AtRest,
         BasesGone
<1>9. CASE Forgets
  BY <1>9, <1>g
     DEF Forgets, vars, BasesGone
<1>10. CASE Lapsed
  BY <1>10, <1>g
     DEF Lapsed, device, worker, BasesGone
<1>11. ASSUME NEW t \in ReshareIds, StartsConfirm(t) \/ HearsCommit(t) \/ FailsCommit(t)
                \/ Stores(t) \/ FailsStore(t) \/ StartsCancel(t) \/ Cancels(t) \/ Approves(t)
      PROVE  Based(v)
  BY <1>11, <1>g
     DEF StartsConfirm, HearsCommit, FailsCommit, Stores, FailsStore, StartsCancel,
         Cancels, Approves, ConfirmIs, Hears, CallRests, KeepTables, ObjectIs,
         StopsWaiting, CancelIs, vars, device, worker, BasesGone
<1>12. ASSUME NEW h \in Handlers, Reads(h) \/ Writes(h) \/ DropsCall(h)
      PROVE  Based(v)
  BY <1>12, <1>g
     DEF Reads, Writes, DropsCall, CallWorks, KeepTables, RowIs, CallRests, device,
         worker, BasesGone
<1>13. CASE Hides \/ Saves \/ CancelsRun
  BY <1>13, <1>g
     DEF Hides, Saves, CancelsRun, vars, worker, BasesGone
<1>14. QED
  BY <1>1, <1>2, <1>3, <1>4, <1>5, <1>6, <1>7, <1>8, <1>9, <1>10, <1>11, <1>12, <1>13 DEF Effect

\* Calls work with shares that are gone once replaced.
LEMMA CallBasesStep ==
    ASSUME DeviceTypeOK, CallsWork, CallsHeld, OwnCalls, BasesGone, Effect
    PROVE  \A h \in Handlers :
             /\ task'[h].pc \in {"open", "send"} => task'[h].base \in Gone'
             /\ task'[h].pc = "close" => run'[task'[h].id].base \in Gone'
<1> USE NoneIsNoReshare
<1>g. Settled \subseteq Settled' /\ Gone \subseteq Gone'
  BY GoneStays
<1> DEFINE Based(h) ==
      /\ task'[h].pc \in {"open", "send"} => task'[h].base \in Gone'
      /\ task'[h].pc = "close" => run'[task'[h].id].base \in Gone'
<1> SUFFICES ASSUME NEW g \in Handlers PROVE Based(g)
  OBVIOUS
<1>w. task[g].pc = "close" => task[g].id \in ReshareIds
  BY DEF CallsWork, AtRest
<1>1. ASSUME NEW t \in ReshareIds, StartsReshare(t) \/ Authorizes(t) \/ Declines(t)
      PROVE  Based(g)
  BY <1>1, <1>g, <1>w
     DEF StartsReshare, Authorizes, Declines, RunIs, Reports, vars, BasesGone
<1>2. ASSUME NEW t \in ReshareIds, Unlocks(t)
      PROVE  Based(g)
  BY <1>2, <1>g, <1>w, NoneIsNoHandler
     DEF Unlocks, RunIs, vars, OwnCalls, Early, CallsHeld, BasesGone
<1>3. ASSUME NEW t \in ReshareIds, GoesOn(t) \/ GivesUp(t) \/ Ends(t) \/ StagesPending(t)
               \/ StagesInVain(t)
      PROVE  Based(g)
  BY SMTT(30), <1>3, <1>g, <1>w
     DEF GoesOn, GivesUp, Ends, StagesPending, StagesInVain, RunIs, Hears, CallRests,
         KeepTables, StopsWaiting, Reports, Stages, vars, BasesGone
<1>4. ASSUME NEW t \in ReshareIds, HearsCommit(t) \/ FailsCommit(t) \/ Cancels(t)
      PROVE  Based(g)
  BY <1>4, <1>g, <1>w
     DEF HearsCommit, FailsCommit, Cancels, Hears, CallRests, KeepTables, ObjectIs,
         ConfirmIs, StopsWaiting, CancelIs, vars, BasesGone
<1>5. ASSUME NEW t \in ReshareIds, NEW h \in Handlers, PostsStart(t, h) \/ PostsUndo(t, h)
      PROVE  Based(g)
  BY <1>5, <1>g, <1>w
     DEF PostsStart, PostsUndo, Posts, RunIs, CallRests, CallWorks, Aborts, RowGoes,
         BasesGone
<1>6. ASSUME NEW t \in ReshareIds, NEW h \in Handlers, PostsRound(t, h)
      PROVE  Based(g)
  BY <1>6, <1>g, <1>w
     DEF PostsRound, Posts, RunIs, CallRests, CallWorks, RowGoes, BasesGone
<1>7. ASSUME NEW t \in ReshareIds, NEW h \in Handlers, PostsCommit(t, h) \/ PostsCancel(t, h)
               \/ ArrivesLate(t, h)
      PROVE  Based(g)
  BY <1>7, <1>g, <1>w
     DEF PostsCommit, PostsCancel, ArrivesLate, Commits, CallRests, ConfirmIs, Aborts,
         RowGoes, CancelIs, worker, BasesGone
<1>8. ASSUME NEW h \in Handlers, Reads(h) \/ Writes(h)
      PROVE  Based(g)
  BY <1>8, <1>g, <1>w
     DEF Reads, Writes, CallWorks, KeepTables, RowIs, CallRests, device, worker,
         BasesGone
<1>9. ASSUME NEW h \in Handlers, StagesShare(h) \/ DropsFailed(h) \/ DropsCall(h)
      PROVE  Based(g)
  BY <1>9, <1>g, <1>w
     DEF StagesShare, DropsFailed, DropsCall, RowGoes, CallRests, KeepTables, device,
         worker, BasesGone
<1>10. CASE Forgets
  BY <1>10, <1>g, <1>w
     DEF Forgets, vars, OwnCalls, Early, CallsHeld, BasesGone
<1>11. ASSUME NEW t \in ReshareIds, StartsConfirm(t) \/ Stores(t) \/ FailsStore(t)
                \/ StartsCancel(t) \/ Approves(t)
      PROVE  Based(g)
  BY <1>11, <1>g, <1>w
     DEF StartsConfirm, Stores, FailsStore, StartsCancel, Approves, ConfirmIs, CancelIs,
         vars, device, worker, BasesGone
<1>12. CASE Hides \/ Saves \/ CancelsRun \/ Lapsed
  BY <1>12, <1>g, <1>w
     DEF Hides, Saves, CancelsRun, Lapsed, vars, worker, device, BasesGone
<1>13. QED
  BY <1>1, <1>2, <1>3, <1>4, <1>5, <1>6, <1>7, <1>8, <1>9, <1>10, <1>11, <1>12 DEF Effect

\* What a reshare starts from is gone by then.
LEMMA BasesGoneStep ==
    ASSUME DeviceTypeOK, CallsWork, CallsHeld, OwnCalls, SettledFirst, BasesGone, Effect
    PROVE  BasesGone'
BY LiveGoneStep, SessionBasesStep, StagedBasesStep, CallBasesStep DEF BasesGone

\* What a committed reshare started from is not live again.
LEMMA OldIsGoneStep ==
    ASSUME DeviceTypeOK, CallsWork, CallsHeld, NotShared, BasesGone, SettledFirst, OldIsGone,
           Effect
    PROVE  OldIsGone'
<1> USE NoneIsNoReshare
<1>g. Settled \subseteq Settled' /\ Gone \subseteq Gone'
  BY GoneStays
<1> DEFINE OldGone(t) == CommitDone(t) => t \in Settled /\ run[t].base \in Gone /\ run[t].base # live
<1> SUFFICES ASSUME NEW v \in ReshareIds PROVE OldGone(v)'
  BY DEF OldIsGone
<1>o. v \in Settled => run[v].pc = "over"
  BY DEF Settled
<1> USE Waiters
<1>1. ASSUME NEW t \in ReshareIds, StartsReshare(t) \/ Unlocks(t) \/ Authorizes(t)
               \/ Declines(t)
      PROVE  OldGone(v)'
  BY <1>1, <1>g, <1>o
     DEF StartsReshare, Unlocks, Authorizes, Declines, RunIs, Reports, vars, OldIsGone,
         CommitDone
<1>2. ASSUME NEW t \in ReshareIds, GoesOn(t) \/ GivesUp(t) \/ Ends(t) \/ StagesPending(t)
               \/ StagesInVain(t)
      PROVE  OldGone(v)'
  BY SMTT(30), <1>2, <1>g, <1>o
     DEF GoesOn, GivesUp, Ends, StagesPending, StagesInVain, RunIs, Hears, CallRests,
         KeepTables, StopsWaiting, Reports, Stages, vars, NotShared, Callers, OldIsGone,
         CommitDone
<1>3. ASSUME NEW t \in ReshareIds, StartsConfirm(t) \/ Stores(t) \/ FailsStore(t)
      PROVE  OldGone(v)'
  BY <1>3, <1>g, <1>o
     DEF StartsConfirm, Stores, FailsStore, ConfirmIs, vars, CallsHeld, Callers,
         OldIsGone, CommitDone
<1>4. ASSUME NEW t \in ReshareIds, HearsCommit(t) \/ FailsCommit(t)
      PROVE  OldGone(v)'
  BY <1>4, <1>g, <1>o
     DEF HearsCommit, FailsCommit, Hears, CallRests, KeepTables, ObjectIs, ConfirmIs,
         StopsWaiting, vars, NotShared, Callers, OldIsGone, CommitDone
<1>5. ASSUME NEW t \in ReshareIds, Cancels(t)
      PROVE  OldGone(v)'
  BY <1>5, <1>g, <1>o
     DEF Cancels, StopsWaiting, Hears, CallRests, KeepTables, CancelIs, ObjectIs, vars,
         NotShared, Callers, OldIsGone, CommitDone
<1>6. ASSUME NEW t \in ReshareIds, NEW h \in Handlers, PostsStart(t, h)
      PROVE  OldGone(v)'
  BY <1>6, <1>g, <1>o
     DEF PostsStart, Posts, RunIs, CallRests, CallWorks, CallsHeld, Callers, OldIsGone,
         CommitDone
<1>7. ASSUME NEW t \in ReshareIds, NEW h \in Handlers, PostsRound(t, h)
      PROVE  OldGone(v)'
  BY <1>7, <1>g, <1>o
     DEF PostsRound, Posts, RunIs, CallRests, CallWorks, RowGoes, CallsHeld, Callers,
         OldIsGone, CommitDone
<1>8. ASSUME NEW t \in ReshareIds, NEW h \in Handlers, PostsUndo(t, h) \/ PostsCancel(t, h)
      PROVE  OldGone(v)'
  BY <1>8, <1>g, <1>o
     DEF PostsUndo, PostsCancel, Posts, RunIs, Aborts, CallRests, RowGoes, CancelIs,
         CallsHeld, Callers, OldIsGone, CommitDone
<1>9. ASSUME NEW t \in ReshareIds, NEW h \in Handlers, PostsCommit(t, h) \/ ArrivesLate(t, h)
      PROVE  OldGone(v)'
  <2>1. CASE UNCHANGED live
    <3>1. CommitDone(v)' => CommitDone(v)
      BY <1>9, <2>1, StagedIsNotGone
         DEF PostsCommit, ArrivesLate, Commits, Aborts, CallRests, ConfirmIs, worker,
             CommitDone,
             CallsHeld, Callers, BasesGone
    <3>2. UNCHANGED run
      BY <1>9 DEF PostsCommit, ArrivesLate, worker
    <3>3. QED
      BY <1>g, <2>1, <3>1, <3>2 DEF OldIsGone
  <2>2. CASE live' # live
    <3>1. CommitAround(t) /\ live' = t /\ staged.share = t /\ UNCHANGED run
      BY <1>9, <2>2 DEF PostsCommit, ArrivesLate, Commits, Aborts, CommitAround, worker
    <3>2. t \notin Gone /\ run[t].base \in Gone /\ t \in Settled
      BY <3>1, StagedIsNotGone DEF SettledFirst
    <3>3. v # t => (CommitDone(v)' => CommitDone(v))
      BY <1>9 DEF PostsCommit, ArrivesLate, Commits, Aborts, CallRests, ConfirmIs, worker,
               CommitDone, CallsHeld, Callers
    <3>4. QED
      BY <1>g, <3>1, <3>2, <3>3 DEF OldIsGone
  <2>3. QED
    BY <2>1, <2>2
<1>10. ASSUME NEW h \in Handlers, Reads(h) \/ Writes(h) \/ StagesShare(h) \/ DropsFailed(h)
      PROVE  OldGone(v)'
  BY <1>10, <1>g, <1>o
     DEF Reads, Writes, StagesShare, DropsFailed, CallWorks, KeepTables, RowIs,
         CallRests, RowGoes, device, worker, CallsHeld, Callers, OldIsGone, CommitDone
<1>11. ASSUME NEW h \in Handlers, DropsCall(h)
      PROVE  OldGone(v)'
  BY <1>11, <1>g, <1>o
     DEF DropsCall, CallRests, KeepTables, device, worker, Callers, OldIsGone,
         CommitDone
<1>12. CASE Forgets
  BY <1>12, <1>g, <1>o
     DEF Forgets, vars, OldIsGone, CommitDone
<1>13. ASSUME NEW t \in ReshareIds, StartsCancel(t) \/ Approves(t)
      PROVE  OldGone(v)'
  BY <1>13, <1>g, <1>o
     DEF StartsCancel, Approves, CancelIs, vars, device, worker, OldIsGone, CommitDone
<1>14. CASE Hides \/ Saves \/ CancelsRun \/ Lapsed
  BY <1>14, <1>g, <1>o
     DEF Hides, Saves, CancelsRun, Lapsed, vars, worker, device, OldIsGone, CommitDone
<1>15. QED
  BY <1>1, <1>2, <1>3, <1>4, <1>5, <1>6, <1>7, <1>8, <1>9, <1>10, <1>11, <1>12, <1>13, <1>14
     DEF Effect
\* The file of a reshare is offered once nothing of it is in flight.
LEMMA SettledFirstStep ==
    ASSUME CallsWork, CallsHeld, OwnCalls, RoundsInStep, SettledFirst, Effect
    PROVE  SettledFirst'
<1> USE NoneIsNoReshare
<1>g. Settled \subseteq Settled' /\ Gone \subseteq Gone'
  BY GoneStays
<1> DEFINE First(t) == pending = t \/ Confirming(t) \/ CommitAround(t) => t \in Settled
<1> SUFFICES ASSUME NEW v \in ReshareIds PROVE First(v)'
  BY DEF SettledFirst
<1>1. ASSUME NEW t \in ReshareIds, Ends(t)
      PROVE  First(v)'
  BY <1>1, <1>g
     DEF Ends, RunIs, StopsWaiting, Hears, CallRests, KeepTables, Reports, vars,
         SettledFirst, Confirming, CommitAround
<1>2. ASSUME NEW t \in ReshareIds, StagesPending(t)
      PROVE  First(v)'
  <2>1. t \in Settled'
    <3>1. session'[t] = NoSession
      BY <1>2 DEF StagesPending, Stages, Hears, KeepTables, RoundsInStep
    <3>2. ASSUME NEW g \in Handlers PROVE task'[g].id # t
      BY <1>2 DEF StagesPending, Stages, Hears, CallRests, OwnCalls
    <3>3. QED
      BY <1>2, <3>1, <3>2 DEF StagesPending, RunIs, Settled
  <2>2. UNCHANGED <<confirm, late>> /\ pending' = t
    BY <1>2 DEF StagesPending, Stages
  <2>3. QED
    BY <1>g, <2>1, <2>2 DEF SettledFirst, Confirming, CommitAround
<1>3. ASSUME NEW t \in ReshareIds, StartsConfirm(t) \/ Stores(t) \/ FailsStore(t)
      PROVE  First(v)'
  BY <1>3, <1>g
     DEF StartsConfirm, Stores, FailsStore, ConfirmIs, vars, SettledFirst, Confirming,
         CommitAround
<1>4. ASSUME NEW t \in ReshareIds, HearsCommit(t) \/ FailsCommit(t) \/ Cancels(t)
      PROVE  First(v)'
  BY <1>4, <1>g
     DEF HearsCommit, FailsCommit, Cancels, Hears, CallRests, KeepTables, ObjectIs,
         ConfirmIs, StopsWaiting, CancelIs, vars, SettledFirst, Confirming, CommitAround
<1>5. ASSUME NEW t \in ReshareIds, NEW h \in Handlers, PostsCommit(t, h) \/ ArrivesLate(t, h)
      PROVE  First(v)'
  BY <1>5, <1>g
     DEF PostsCommit, ArrivesLate, Commits, CallRests, ConfirmIs, Aborts, RowGoes,
         worker, SettledFirst, Confirming, CommitAround
<1>6. CASE Forgets
  BY <1>6, <1>g
     DEF Forgets, vars, SettledFirst, Confirming, CommitAround
<1>7. ASSUME NEW t \in ReshareIds, StartsReshare(t) \/ Unlocks(t) \/ Authorizes(t)
               \/ Declines(t) \/ GoesOn(t) \/ GivesUp(t) \/ StagesInVain(t) \/ StartsCancel(t)
               \/ Approves(t)
      PROVE  First(v)'
  BY <1>7, <1>g
     DEF StartsReshare, Unlocks, Authorizes, Declines, GoesOn, GivesUp, StagesInVain,
         StartsCancel, Approves, RunIs, Reports, Hears, CallRests, KeepTables,
         StopsWaiting, Stages, CancelIs, vars, device, worker, SettledFirst, Confirming,
         CommitAround
<1>8. ASSUME NEW t \in ReshareIds, NEW h \in Handlers, PostsStart(t, h) \/ PostsRound(t, h)
               \/ PostsUndo(t, h) \/ PostsCancel(t, h)
      PROVE  First(v)'
  BY <1>8, <1>g
     DEF PostsStart, PostsRound, PostsUndo, PostsCancel, Posts, RunIs, CallRests,
         CallWorks, RowGoes, Aborts, CancelIs, SettledFirst, Confirming, CommitAround
<1>9. ASSUME NEW h \in Handlers, Reads(h) \/ Writes(h) \/ StagesShare(h) \/ DropsFailed(h)
               \/ DropsCall(h)
      PROVE  First(v)'
  BY <1>9, <1>g
     DEF Reads, Writes, StagesShare, DropsFailed, DropsCall, CallWorks, KeepTables,
         RowIs, CallRests, RowGoes, device, worker, SettledFirst, Confirming,
         CommitAround
<1>10. CASE Hides \/ Saves \/ CancelsRun \/ Lapsed
  BY <1>10, <1>g
     DEF Hides, Saves, CancelsRun, Lapsed, vars, worker, device, SettledFirst,
         Confirming, CommitAround
<1>11. QED
  BY <1>1, <1>2, <1>3, <1>4, <1>5, <1>6, <1>7, <1>8, <1>9, <1>10 DEF Effect

\* A commit is asked for only once the file is saved, and the file stays.
LEMMA SavedFirstStep ==
    ASSUME CallsWork, BasesGone, OldIsGone, SettledFirst, Offers, SavedFirst, Effect,
           DeviceTypeOK
    PROVE  SavedFirst'
<1> USE NoneIsNoReshare
<1> DEFINE Saved(t) == CommitAround(t) /\ staged.share = t => t \in files
<1> SUFFICES ASSUME NEW v \in ReshareIds PROVE Saved(v)'
  BY DEF SavedFirst
<1>1. ASSUME NEW t \in ReshareIds, Ends(t)
      PROVE  Saved(v)'
  BY <1>1
     DEF Ends, RunIs, StopsWaiting, Hears, CallRests, KeepTables, Reports, vars,
         SavedFirst, CommitAround
<1>2. ASSUME NEW t \in ReshareIds, StartsConfirm(t)
      PROVE  Saved(v)'
  <2>1. popup \in ReshareIds /\ popup = t
    BY <1>2 DEF StartsConfirm, DeviceTypeOK, Offers, Offered
  <2>2. QED
    BY <1>2, <2>1 DEF StartsConfirm, vars, ConfirmIs, SavedFirst, CommitAround
<1>3. ASSUME NEW t \in ReshareIds, Stores(t)
      PROVE  Saved(v)'
  BY <1>3, StagedIsNotGone
     DEF Stores, ConfirmIs, vars, OldIsGone, CommitDone, SavedFirst, CommitAround
<1>4. ASSUME NEW t \in ReshareIds, FailsStore(t)
      PROVE  Saved(v)'
  BY <1>4
     DEF FailsStore, ConfirmIs, vars, SavedFirst, CommitAround
<1>5. ASSUME NEW t \in ReshareIds, HearsCommit(t) \/ FailsCommit(t) \/ Cancels(t)
      PROVE  Saved(v)'
  BY <1>5
     DEF HearsCommit, FailsCommit, Cancels, Hears, CallRests, KeepTables, ObjectIs,
         ConfirmIs, StopsWaiting, CancelIs, vars, SavedFirst, CommitAround
<1>6. ASSUME NEW t \in ReshareIds, NEW h \in Handlers, PostsUndo(t, h) \/ PostsCancel(t, h)
      PROVE  Saved(v)'
  BY <1>6
     DEF PostsUndo, PostsCancel, Posts, RunIs, Aborts, CallRests, RowGoes, CancelIs,
         SavedFirst, CommitAround
<1>7. ASSUME NEW t \in ReshareIds, NEW h \in Handlers, PostsCommit(t, h) \/ ArrivesLate(t, h)
      PROVE  Saved(v)'
  BY <1>7
     DEF PostsCommit, ArrivesLate, Commits, CallRests, ConfirmIs, Aborts, RowGoes,
         worker, SavedFirst, CommitAround
<1>8. ASSUME NEW h \in Handlers, StagesShare(h) \/ DropsFailed(h)
      PROVE  Saved(v)'
  BY <1>8
     DEF StagesShare, DropsFailed, RowGoes, CallRests, device, worker, CallsWork, AtRest,
         SettledFirst, Settled, Confirming, SavedFirst, CommitAround
<1>9. CASE Saves
  BY <1>9
     DEF Saves, vars, worker, SavedFirst, CommitAround
<1>10. CASE Forgets \/ Lapsed
  BY <1>10
     DEF Forgets, Lapsed, vars, device, worker, SavedFirst, CommitAround
<1>11. ASSUME NEW t \in ReshareIds, StartsReshare(t) \/ Unlocks(t) \/ Authorizes(t)
                \/ Declines(t) \/ GoesOn(t) \/ GivesUp(t) \/ StagesPending(t)
                \/ StagesInVain(t) \/ StartsCancel(t) \/ Approves(t)
      PROVE  Saved(v)'
  BY <1>11
     DEF StartsReshare, Unlocks, Authorizes, Declines, GoesOn, GivesUp, StagesPending,
         StagesInVain, StartsCancel, Approves, RunIs, Reports, Hears, CallRests,
         KeepTables, StopsWaiting, Stages, CancelIs, vars, device, worker, SavedFirst,
         CommitAround
<1>12. ASSUME NEW t \in ReshareIds, NEW h \in Handlers, PostsStart(t, h) \/ PostsRound(t, h)
      PROVE  Saved(v)'
  BY <1>12
     DEF PostsStart, PostsRound, Posts, RunIs, CallRests, CallWorks, RowGoes, SavedFirst,
         CommitAround
<1>13. ASSUME NEW h \in Handlers, Reads(h) \/ Writes(h) \/ DropsCall(h)
      PROVE  Saved(v)'
  BY <1>13
     DEF Reads, Writes, DropsCall, CallWorks, KeepTables, RowIs, CallRests, device,
         worker, SavedFirst, CommitAround
<1>14. CASE Hides \/ CancelsRun
  BY <1>14
     DEF Hides, CancelsRun, vars, SavedFirst, CommitAround
<1>15. QED
  BY <1>1, <1>2, <1>3, <1>4, <1>5, <1>6, <1>7, <1>8, <1>9, <1>10, <1>11, <1>12, <1>13, <1>14
     DEF Effect

\* The file of a share that becomes live is saved, and no file in use is destroyed.
LEMMA RecoverableStep ==
    ASSUME OldIsGone, SavedFirst, Recoverable, Effect
    PROVE  Recoverable'
<1> USE NoneIsNoReshare
<1>1. ASSUME NEW t \in ReshareIds, Stores(t)
      PROVE  Recoverable'
  BY <1>1
     DEF Stores, ConfirmIs, vars, OldIsGone, CommitDone, Recoverable
<1>2. ASSUME NEW t \in ReshareIds, NEW h \in Handlers, PostsCommit(t, h) \/ ArrivesLate(t, h)
      PROVE  Recoverable'
  BY <1>2
     DEF PostsCommit, ArrivesLate, Commits, CallRests, ConfirmIs, Aborts, RowGoes,
         worker, SavedFirst, CommitAround, Recoverable
<1>3. CASE Saves
  BY <1>3
     DEF Saves, vars, worker, Recoverable
<1>4. ASSUME NEW t \in ReshareIds, StartsReshare(t) \/ Unlocks(t) \/ Authorizes(t)
               \/ Declines(t) \/ GoesOn(t) \/ GivesUp(t) \/ Ends(t) \/ StagesPending(t)
               \/ StagesInVain(t) \/ StartsConfirm(t) \/ HearsCommit(t) \/ FailsCommit(t)
               \/ FailsStore(t) \/ StartsCancel(t) \/ Cancels(t) \/ Approves(t)
      PROVE  Recoverable'
  BY SMTT(30), <1>4
     DEF StartsReshare, Unlocks, Authorizes, Declines, GoesOn, GivesUp, Ends,
         StagesPending, StagesInVain, StartsConfirm, HearsCommit, FailsCommit,
         FailsStore, StartsCancel, Cancels, Approves, RunIs, Reports, Hears, CallRests,
         KeepTables, StopsWaiting, Stages, ConfirmIs, ObjectIs, CancelIs, vars, device,
         worker, Recoverable
<1>5. ASSUME NEW t \in ReshareIds, NEW h \in Handlers, PostsStart(t, h) \/ PostsRound(t, h)
               \/ PostsUndo(t, h) \/ PostsCancel(t, h)
      PROVE  Recoverable'
  BY <1>5
     DEF PostsStart, PostsRound, PostsUndo, PostsCancel, Posts, RunIs, CallRests,
         CallWorks, RowGoes, Aborts, CancelIs, Recoverable
<1>6. ASSUME NEW h \in Handlers, Reads(h) \/ Writes(h) \/ StagesShare(h) \/ DropsFailed(h)
               \/ DropsCall(h)
      PROVE  Recoverable'
  BY <1>6
     DEF Reads, Writes, StagesShare, DropsFailed, DropsCall, CallWorks, KeepTables,
         RowIs, CallRests, RowGoes, device, worker, Recoverable
<1>7. CASE Hides \/ CancelsRun \/ Forgets \/ Lapsed
  BY <1>7
     DEF Hides, CancelsRun, Forgets, Lapsed, vars, device, worker, Recoverable
<1>8. QED
  BY <1>1, <1>2, <1>3, <1>4, <1>5, <1>6, <1>7 DEF Effect

\* One file at a time is offered, of the pending reshare.
LEMMA OffersStep ==
    ASSUME DeviceTypeOK, CallsHeld, CurrentRuns, Offers, Effect
    PROVE  Offers'
<1> USE NoneIsNoReshare
<1> DEFINE Single(t) == Offered(t) =>
      /\ NobodyChecked
      /\ pending # None => pending = t
      /\ current # None => run[current].pc = "over"
      /\ \A u \in ReshareIds : Offered(u) => u = t
<1> SUFFICES ASSUME NEW v \in ReshareIds PROVE Single(v)'
  BY DEF Offers
<1>c. current \in ReshareIds \union {None}
  BY DEF DeviceTypeOK
<1>1. ASSUME NEW t \in ReshareIds, StartsReshare(t)
      PROVE  Single(v)'
  BY <1>1, <1>c
     DEF StartsReshare, RunIs, vars, Offers, Offered, NobodyChecked
<1>2. ASSUME NEW t \in ReshareIds, Unlocks(t)
      PROVE  Single(v)'
  BY <1>2, <1>c
     DEF Unlocks, RunIs, vars, Offers, Offered, NobodyChecked
<1>3. ASSUME NEW t \in ReshareIds, Authorizes(t)
      PROVE  Single(v)'
  BY <1>3, <1>c
     DEF Authorizes, RunIs, vars, Offers, Offered, NobodyChecked
<1>4. ASSUME NEW t \in ReshareIds, Declines(t)
      PROVE  Single(v)'
  BY <1>4, <1>c
     DEF Declines, RunIs, Reports, vars, Offers, Offered, NobodyChecked
<1>5. ASSUME NEW t \in ReshareIds, GoesOn(t) \/ GivesUp(t)
      PROVE  Single(v)'
  BY <1>5, <1>c
     DEF GoesOn, GivesUp, RunIs, Hears, CallRests, KeepTables, StopsWaiting, vars,
         Offers, Offered, NobodyChecked
<1>6. ASSUME NEW t \in ReshareIds, Ends(t)
      PROVE  Single(v)'
  BY <1>6, <1>c
     DEF Ends, RunIs, StopsWaiting, Hears, CallRests, KeepTables, Reports, vars, Offers,
         Offered, NobodyChecked
<1>7. ASSUME NEW t \in ReshareIds, StagesInVain(t)
      PROVE  Single(v)'
  BY <1>7, <1>c
     DEF StagesInVain, Stages, RunIs, Hears, CallRests, KeepTables, Offers, Offered,
         NobodyChecked
<1>8. ASSUME NEW t \in ReshareIds, StagesPending(t)
      PROVE  Single(v)'
  BY <1>8, <1>c
     DEF StagesPending, Stages, RunIs, Hears, CallRests, KeepTables, CurrentRuns, Offers,
         Offered, NobodyChecked
<1>9. ASSUME NEW t \in ReshareIds, Stores(t) \/ Cancels(t)
      PROVE  Single(v)'
  BY <1>9, <1>c
     DEF Stores, Cancels, ConfirmIs, StopsWaiting, Hears, CallRests, KeepTables,
         CancelIs, ObjectIs, vars, Offers, Offered, NobodyChecked
<1>10. ASSUME NEW t \in ReshareIds, NEW h \in Handlers, PostsStart(t, h) \/ PostsUndo(t, h)
      PROVE  Single(v)'
  BY <1>10, <1>c
     DEF PostsStart, PostsUndo, Posts, RunIs, CallRests, CallWorks, Aborts, RowGoes,
         Offers, Offered, NobodyChecked
<1>11. ASSUME NEW t \in ReshareIds, NEW h \in Handlers, PostsRound(t, h)
      PROVE  Single(v)'
  BY <1>11, <1>c
     DEF PostsRound, Posts, RunIs, CallRests, CallWorks, RowGoes, Offers, Offered,
         NobodyChecked
<1>12. CASE Hides
  BY <1>12, <1>c
     DEF Hides, vars, Offers, Offered, NobodyChecked
<1>13. CASE Saves
  BY <1>13, <1>c
     DEF Saves, vars, worker, Offers, Offered, NobodyChecked
<1>14. CASE CancelsRun
  BY <1>14, <1>c
     DEF CancelsRun, vars, Offers, Offered, NobodyChecked
<1>15. CASE Forgets
  BY <1>15, <1>c
     DEF Forgets, vars, Offers, Offered, NobodyChecked
<1>16. ASSUME NEW t \in ReshareIds, StartsConfirm(t) \/ HearsCommit(t) \/ FailsCommit(t)
                \/ FailsStore(t) \/ StartsCancel(t) \/ Approves(t)
      PROVE  Single(v)'
  BY <1>16, <1>c
     DEF StartsConfirm, HearsCommit, FailsCommit, FailsStore, StartsCancel, Approves,
         ConfirmIs, Hears, CallRests, KeepTables, ObjectIs, StopsWaiting, CancelIs, vars,
         device, worker, Offers, Offered, NobodyChecked
<1>17. ASSUME NEW t \in ReshareIds, NEW h \in Handlers, PostsCommit(t, h) \/ PostsCancel(t, h)
                \/ ArrivesLate(t, h)
      PROVE  Single(v)'
  BY <1>17, <1>c
     DEF PostsCommit, PostsCancel, ArrivesLate, Commits, CallRests, ConfirmIs, Aborts,
         RowGoes, CancelIs, worker, Offers, Offered, NobodyChecked
<1>18. ASSUME NEW h \in Handlers, Reads(h) \/ Writes(h) \/ StagesShare(h) \/ DropsFailed(h)
                \/ DropsCall(h)
      PROVE  Single(v)'
  BY <1>18, <1>c
     DEF Reads, Writes, StagesShare, DropsFailed, DropsCall, CallWorks, KeepTables,
         RowIs, CallRests, RowGoes, device, worker, Offers, Offered, NobodyChecked
<1>19. CASE Lapsed
  BY <1>19, <1>c
     DEF Lapsed, device, worker, Offers, Offered, NobodyChecked
<1>20. QED
  BY <1>1, <1>2, <1>3, <1>4, <1>5, <1>6, <1>7, <1>8, <1>9, <1>10, <1>11, <1>12, <1>13,
     <1>14, <1>15, <1>16, <1>17, <1>18, <1>19 DEF Effect

\* The run that holds the token is told of, and approved alone.
LEMMA CurrentRunsStep ==
    ASSUME OwnCalls, CurrentRuns, Effect
    PROVE  CurrentRuns'
<1> USE NoneIsNoReshare
<1> DEFINE Rightful(t) == current = t =>
      /\ run[t].pc \in {"auth", "start", "round"} =>
           reshareRun.phase = "working" /\ reshareRun.id = t
      /\ run[t].pc \in {"start", "round"} \/ (run[t].pc = "auth" /\ grant[t] # "none") =>
           NobodyChecked
<1> SUFFICES ASSUME NEW v \in ReshareIds PROVE Rightful(v)'
  BY DEF CurrentRuns
<1>1. ASSUME NEW t \in ReshareIds, StartsReshare(t)
      PROVE  Rightful(v)'
  BY <1>1
     DEF StartsReshare, RunIs, vars, CurrentRuns, NobodyChecked
<1>2. ASSUME NEW t \in ReshareIds, Unlocks(t)
      PROVE  Rightful(v)'
  BY <1>2
     DEF Unlocks, RunIs, vars, OwnCalls, CurrentRuns, NobodyChecked
<1>3. ASSUME NEW t \in ReshareIds, Authorizes(t)
      PROVE  Rightful(v)'
  BY <1>3
     DEF Authorizes, RunIs, vars, CurrentRuns, NobodyChecked
<1>4. ASSUME NEW t \in ReshareIds, Declines(t)
      PROVE  Rightful(v)'
  BY <1>4
     DEF Declines, RunIs, Reports, vars, CurrentRuns, NobodyChecked
<1>5. ASSUME NEW t \in ReshareIds, GoesOn(t) \/ GivesUp(t)
      PROVE  Rightful(v)'
  BY <1>5
     DEF GoesOn, GivesUp, RunIs, Hears, CallRests, KeepTables, StopsWaiting, vars,
         CurrentRuns, NobodyChecked
<1>6. ASSUME NEW t \in ReshareIds, Ends(t)
      PROVE  Rightful(v)'
  BY <1>6
     DEF Ends, RunIs, StopsWaiting, Hears, CallRests, KeepTables, Reports, vars,
         CurrentRuns, NobodyChecked
<1>7. ASSUME NEW t \in ReshareIds, StagesInVain(t) \/ StagesPending(t)
      PROVE  Rightful(v)'
  BY <1>7
     DEF StagesInVain, StagesPending, Stages, RunIs, Hears, CallRests, KeepTables,
         CurrentRuns, NobodyChecked
<1>8. ASSUME NEW t \in ReshareIds, Approves(t)
      PROVE  Rightful(v)'
  BY <1>8
     DEF Approves, device, worker, CurrentRuns, NobodyChecked
<1>9. ASSUME NEW t \in ReshareIds, NEW h \in Handlers, PostsStart(t, h) \/ PostsUndo(t, h)
      PROVE  Rightful(v)'
  BY <1>9
     DEF PostsStart, PostsUndo, Posts, RunIs, CallRests, CallWorks, Aborts, RowGoes,
         CurrentRuns, NobodyChecked
<1>10. ASSUME NEW t \in ReshareIds, NEW h \in Handlers, PostsRound(t, h)
      PROVE  Rightful(v)'
  BY <1>10
     DEF PostsRound, Posts, RunIs, CallRests, CallWorks, RowGoes, CurrentRuns,
         NobodyChecked
<1>11. CASE Hides \/ CancelsRun
  BY <1>11
     DEF Hides, CancelsRun, vars, CurrentRuns, NobodyChecked
<1>12. CASE Forgets
  BY <1>12
     DEF Forgets, vars, CurrentRuns, NobodyChecked
<1>13. CASE Lapsed
  BY <1>13
     DEF Lapsed, device, worker, CurrentRuns, NobodyChecked
<1>14. ASSUME NEW t \in ReshareIds, StartsConfirm(t) \/ HearsCommit(t) \/ FailsCommit(t)
                \/ Stores(t) \/ FailsStore(t) \/ StartsCancel(t) \/ Cancels(t)
      PROVE  Rightful(v)'
  BY <1>14
     DEF StartsConfirm, HearsCommit, FailsCommit, Stores, FailsStore, StartsCancel,
         Cancels, ConfirmIs, Hears, CallRests, KeepTables, ObjectIs, StopsWaiting,
         CancelIs, vars, CurrentRuns, NobodyChecked
<1>15. ASSUME NEW t \in ReshareIds, NEW h \in Handlers, PostsCommit(t, h) \/ PostsCancel(t, h)
                \/ ArrivesLate(t, h)
      PROVE  Rightful(v)'
  BY <1>15
     DEF PostsCommit, PostsCancel, ArrivesLate, Commits, CallRests, ConfirmIs, Aborts,
         RowGoes, CancelIs, worker, CurrentRuns, NobodyChecked
<1>16. ASSUME NEW h \in Handlers, Reads(h) \/ Writes(h) \/ StagesShare(h) \/ DropsFailed(h)
                \/ DropsCall(h)
      PROVE  Rightful(v)'
  BY <1>16
     DEF Reads, Writes, StagesShare, DropsFailed, DropsCall, CallWorks, KeepTables,
         RowIs, CallRests, RowGoes, device, worker, CurrentRuns, NobodyChecked
<1>17. CASE Saves
  BY <1>17
     DEF Saves, vars, worker, CurrentRuns, NobodyChecked
<1>18. QED
  BY <1>1, <1>2, <1>3, <1>4, <1>5, <1>6, <1>7, <1>8, <1>9, <1>10, <1>11, <1>12, <1>13,
     <1>14, <1>15, <1>16, <1>17 DEF Effect

\* At most one reshare is pending, confirmed or cancelled.
LEMMA HoldersStep ==
    ASSUME CurrentRuns, Holders, Effect
    PROVE  Holders'
<1> USE NoneIsNoReshare
<1> DEFINE Holds(t) == Holder(t) =>
      /\ current = t
      /\ NobodyChecked
      /\ run[t].pc = "over"
      /\ pending = None => vault.party = "extension"
<1> SUFFICES ASSUME NEW v \in ReshareIds PROVE Holds(v)'
  BY DEF Holders
<1>1. ASSUME NEW t \in ReshareIds, StartsReshare(t)
      PROVE  Holds(v)'
  BY <1>1
     DEF StartsReshare, RunIs, vars, Holders, Holder, Cancelling, Confirming,
         NobodyChecked
<1>2. ASSUME NEW t \in ReshareIds, Unlocks(t)
      PROVE  Holds(v)'
  BY <1>2
     DEF Unlocks, RunIs, vars, Holders, Holder, Cancelling, Confirming, NobodyChecked
<1>3. ASSUME NEW t \in ReshareIds, Authorizes(t)
      PROVE  Holds(v)'
  BY <1>3
     DEF Authorizes, RunIs, vars, Holders, Holder, Cancelling, Confirming, NobodyChecked
<1>4. ASSUME NEW t \in ReshareIds, Declines(t)
      PROVE  Holds(v)'
  BY <1>4
     DEF Declines, RunIs, Reports, vars, Holders, Holder, Cancelling, Confirming,
         NobodyChecked
<1>5. ASSUME NEW t \in ReshareIds, GoesOn(t) \/ GivesUp(t)
      PROVE  Holds(v)'
  BY <1>5
     DEF GoesOn, GivesUp, RunIs, Hears, CallRests, KeepTables, StopsWaiting, vars,
         Holders, Holder, Cancelling, Confirming, NobodyChecked
<1>6. ASSUME NEW t \in ReshareIds, Ends(t)
      PROVE  Holds(v)'
  BY <1>6
     DEF Ends, RunIs, StopsWaiting, Hears, CallRests, KeepTables, Reports, vars, Holders,
         Holder, Cancelling, Confirming, NobodyChecked
<1>7. ASSUME NEW t \in ReshareIds, StagesInVain(t)
      PROVE  Holds(v)'
  BY <1>7
     DEF StagesInVain, Stages, RunIs, Hears, CallRests, KeepTables, Holders, Holder,
         Cancelling, Confirming, NobodyChecked
<1>8. ASSUME NEW t \in ReshareIds, StagesPending(t)
      PROVE  Holds(v)'
  BY <1>8
     DEF StagesPending, Stages, RunIs, Hears, CallRests, KeepTables, CurrentRuns,
         Holders, Holder, Cancelling, Confirming, NobodyChecked
<1>9. ASSUME NEW t \in ReshareIds, StartsConfirm(t)
      PROVE  Holds(v)'
  BY <1>9
     DEF StartsConfirm, ConfirmIs, vars, Holders, Holder, Cancelling, Confirming,
         NobodyChecked
<1>10. ASSUME NEW t \in ReshareIds, HearsCommit(t)
      PROVE  Holds(v)'
  BY <1>10
     DEF HearsCommit, Hears, CallRests, KeepTables, ObjectIs, ConfirmIs, Holders, Holder,
         Cancelling, Confirming, NobodyChecked
<1>11. ASSUME NEW t \in ReshareIds, FailsCommit(t)
      PROVE  Holds(v)'
  BY <1>11
     DEF FailsCommit, StopsWaiting, Hears, CallRests, KeepTables, ConfirmIs, vars,
         Holders, Holder, Cancelling, Confirming, NobodyChecked
<1>12. ASSUME NEW t \in ReshareIds, Stores(t)
      PROVE  Holds(v)'
  BY <1>12
     DEF Stores, ConfirmIs, vars, Holders, Holder, Cancelling, Confirming, NobodyChecked
<1>13. ASSUME NEW t \in ReshareIds, FailsStore(t)
      PROVE  Holds(v)'
  BY <1>13
     DEF FailsStore, ConfirmIs, vars, Holders, Holder, Cancelling, Confirming,
         NobodyChecked
<1>14. ASSUME NEW t \in ReshareIds, StartsCancel(t)
      PROVE  Holds(v)'
  BY <1>14
     DEF StartsCancel, CancelIs, vars, Holders, Holder, Cancelling, Confirming,
         NobodyChecked
<1>15. ASSUME NEW t \in ReshareIds, Cancels(t)
      PROVE  Holds(v)'
  BY <1>15
     DEF Cancels, StopsWaiting, Hears, CallRests, KeepTables, CancelIs, ObjectIs, vars,
         Holders, Holder, Cancelling, Confirming, NobodyChecked
<1>16. ASSUME NEW t \in ReshareIds, NEW h \in Handlers, PostsStart(t, h) \/ PostsUndo(t, h)
      PROVE  Holds(v)'
  BY <1>16
     DEF PostsStart, PostsUndo, Posts, RunIs, CallRests, CallWorks, Aborts, RowGoes,
         Holders, Holder, Cancelling, Confirming, NobodyChecked
<1>17. ASSUME NEW t \in ReshareIds, NEW h \in Handlers, PostsRound(t, h)
      PROVE  Holds(v)'
  BY <1>17
     DEF PostsRound, Posts, RunIs, CallRests, CallWorks, RowGoes, Holders, Holder,
         Cancelling, Confirming, NobodyChecked
<1>18. ASSUME NEW t \in ReshareIds, NEW h \in Handlers, PostsCommit(t, h)
      PROVE  Holds(v)'
  BY <1>18
     DEF PostsCommit, Commits, CallRests, ConfirmIs, Holders, Holder, Cancelling,
         Confirming, NobodyChecked
<1>19. ASSUME NEW t \in ReshareIds, NEW h \in Handlers, PostsCancel(t, h)
      PROVE  Holds(v)'
  BY <1>19
     DEF PostsCancel, Aborts, CallRests, RowGoes, CancelIs, Holders, Holder, Cancelling,
         Confirming, NobodyChecked
<1>20. CASE CancelsRun
  BY <1>20
     DEF CancelsRun, vars, Holders, Holder, Cancelling, Confirming, NobodyChecked
<1>21. CASE Forgets
  BY <1>21
     DEF Forgets, vars, Holders, Holder, Cancelling, Confirming, NobodyChecked
<1>22. ASSUME NEW t \in ReshareIds, Approves(t)
      PROVE  Holds(v)'
  BY <1>22
     DEF Approves, device, worker, Holders, Holder, Cancelling, Confirming,
         NobodyChecked
<1>23. ASSUME NEW t \in ReshareIds, NEW h \in Handlers, ArrivesLate(t, h)
      PROVE  Holds(v)'
  BY <1>23
     DEF ArrivesLate, Commits, Aborts, CallRests, RowGoes, worker, Holders, Holder,
         Cancelling, Confirming, NobodyChecked
<1>24. ASSUME NEW h \in Handlers, Reads(h) \/ Writes(h) \/ StagesShare(h) \/ DropsFailed(h)
                \/ DropsCall(h)
      PROVE  Holds(v)'
  BY <1>24
     DEF Reads, Writes, StagesShare, DropsFailed, DropsCall, CallWorks, KeepTables,
         RowIs, CallRests, RowGoes, device, worker, Holders, Holder, Cancelling,
         Confirming, NobodyChecked
<1>25. CASE Hides \/ Saves \/ Lapsed
  BY <1>25
     DEF Hides, Saves, Lapsed, vars, worker, device, Holders, Holder, Cancelling,
         Confirming, NobodyChecked
<1>26. QED
  BY <1>1, <1>2, <1>3, <1>4, <1>5, <1>6, <1>7, <1>8, <1>9, <1>10, <1>11, <1>12, <1>13,
     <1>14, <1>15, <1>16, <1>17, <1>18, <1>19, <1>20, <1>21, <1>22, <1>23, <1>24, <1>25
     DEF Effect
\* Nothing else is committed until the holder is stored or cancelled.
LEMMA TakenOverStep ==
    ASSUME DeviceTypeOK, CallsWork, CallsHeld, NotShared, BasesGone, OldIsGone, SettledFirst,
           Holders, TakenOver, Effect
    PROVE  TakenOver'
<1> USE NoneIsNoReshare
<1> DEFINE Taken(t) == Holder(t) /\ CommitDone(t) /\ ~ object[t].wiped =>
      /\ live = t
      /\ \A u \in ReshareIds : u # t => ~ (CommitAround(u) /\ staged.share = u)
<1> SUFFICES ASSUME NEW v \in ReshareIds PROVE Taken(v)'
  BY DEF TakenOver
<1> USE Waiters
<1>1. ASSUME NEW t \in ReshareIds, GoesOn(t) \/ GivesUp(t) \/ StagesInVain(t)
      PROVE  Taken(v)'
  BY SMTT(30), <1>1
     DEF GoesOn, GivesUp, StagesInVain, RunIs, Hears, CallRests, KeepTables,
         StopsWaiting, Stages, vars, NotShared, Callers, TakenOver, Holder, CommitDone,
         CommitAround, Cancelling, Confirming
<1>2. ASSUME NEW t \in ReshareIds, Ends(t)
      PROVE  Taken(v)'
  BY <1>2
     DEF Ends, RunIs, StopsWaiting, Hears, CallRests, KeepTables, Reports, vars,
         NotShared, Callers, TakenOver, Holder, CommitDone, CommitAround, Cancelling,
         Confirming
<1>3. ASSUME NEW t \in ReshareIds, StagesPending(t)
      PROVE  Taken(v)'
  BY <1>3
     DEF StagesPending, Stages, RunIs, Hears, CallRests, KeepTables, NotShared, Callers,
         OldIsGone, Settled, TakenOver, Holder, CommitDone, CommitAround, Cancelling,
         Confirming
<1>4. ASSUME NEW t \in ReshareIds, StartsConfirm(t)
      PROVE  Taken(v)'
  BY <1>4
     DEF StartsConfirm, ConfirmIs, vars, CallsHeld, Callers, Holders, TakenOver, Holder,
         CommitDone, CommitAround, Cancelling, Confirming
<1>5. ASSUME NEW t \in ReshareIds, HearsCommit(t) \/ FailsCommit(t)
      PROVE  Taken(v)'
  BY <1>5
     DEF HearsCommit, FailsCommit, Hears, CallRests, KeepTables, ObjectIs, ConfirmIs,
         StopsWaiting, vars, NotShared, Callers, TakenOver, Holder, CommitDone,
         CommitAround, Cancelling, Confirming
<1>6. ASSUME NEW t \in ReshareIds, Stores(t) \/ FailsStore(t)
      PROVE  Taken(v)'
  BY <1>6
     DEF Stores, FailsStore, ConfirmIs, vars, TakenOver, Holder, CommitDone,
         CommitAround, Cancelling, Confirming
<1>7. ASSUME NEW t \in ReshareIds, StartsCancel(t)
      PROVE  Taken(v)'
  BY <1>7
     DEF StartsCancel, CancelIs, vars, TakenOver, Holder, CommitDone, CommitAround,
         Cancelling, Confirming
<1>8. ASSUME NEW t \in ReshareIds, Cancels(t)
      PROVE  Taken(v)'
  BY <1>8
     DEF Cancels, StopsWaiting, Hears, CallRests, KeepTables, CancelIs, ObjectIs, vars,
         NotShared, Callers, TakenOver, Holder, CommitDone, CommitAround, Cancelling,
         Confirming
<1>9. ASSUME NEW t \in ReshareIds, NEW h \in Handlers, PostsStart(t, h) \/ PostsRound(t, h)
      PROVE  Taken(v)'
  BY <1>9
     DEF PostsStart, PostsRound, Posts, RunIs, CallRests, CallWorks, RowGoes, CallsHeld,
         Callers, TakenOver, Holder, CommitDone, CommitAround, Cancelling, Confirming
<1>10. ASSUME NEW t \in ReshareIds, NEW h \in Handlers, PostsUndo(t, h) \/ PostsCancel(t, h)
      PROVE  Taken(v)'
  BY <1>10
     DEF PostsUndo, PostsCancel, Posts, RunIs, Aborts, CallRests, RowGoes, CancelIs,
         CallsHeld, Callers, TakenOver, Holder, CommitDone, CommitAround, Cancelling,
         Confirming
<1>11. ASSUME NEW t \in ReshareIds, NEW h \in Handlers, PostsCommit(t, h)
      PROVE  Taken(v)'
  <2>1. /\ Holder(v)' => Holder(v)
        /\ CommitDone(v)' => CommitDone(v) \/ (v = t /\ staged.share = t)
    BY <1>11 DEF PostsCommit, Commits, CallRests, ConfirmIs, Holder, Confirming, Cancelling,
       CommitDone,
             CallsHeld, Callers
  <2>2. /\ \A u \in ReshareIds : CommitAround(u)' <=> CommitAround(u)
        /\ CommitAround(t)
        /\ UNCHANGED object
    BY <1>11 DEF PostsCommit, ConfirmIs, CommitAround
  <2>3. \/ staged.share = t /\ live' = t /\ staged'.share = None
        \/ UNCHANGED live /\ staged'.share = staged.share
    BY <1>11 DEF PostsCommit, Commits
  <2>4. CASE staged.share = t /\ live' = t /\ staged'.share = None
    BY <2>1, <2>2, <2>4 DEF TakenOver
  <2>5. CASE UNCHANGED live /\ staged'.share = staged.share
    <3>1. CommitDone(v)' => CommitDone(v)
      BY <1>11, <2>5, StagedIsNotGone DEF PostsCommit, Commits, CallRests, ConfirmIs,
         CommitDone,
         CallsHeld, Callers, BasesGone
    <3>2. QED
      BY <2>1, <2>2, <2>5, <3>1 DEF TakenOver
  <2>6. QED
    BY <2>3, <2>4, <2>5
<1>12. ASSUME NEW t \in ReshareIds, NEW h \in Handlers, ArrivesLate(t, h)
      PROVE  Taken(v)'
  BY <1>12
     DEF ArrivesLate, Commits, Aborts, CallRests, RowGoes, worker, CallsHeld, Callers,
         TakenOver, Holder, CommitDone, CommitAround, Cancelling, Confirming
<1>13. ASSUME NEW h \in Handlers, Reads(h) \/ Writes(h)
      PROVE  Taken(v)'
  BY <1>13
     DEF Reads, Writes, CallWorks, KeepTables, RowIs, CallRests, device, worker,
         CallsHeld, Callers, TakenOver, Holder, CommitDone, CommitAround, Cancelling,
         Confirming
<1>14. ASSUME NEW h \in Handlers, StagesShare(h) \/ DropsFailed(h)
      PROVE  Taken(v)'
  BY <1>14
     DEF StagesShare, DropsFailed, RowGoes, CallRests, device, worker, CallsWork, AtRest,
         CallsHeld, Callers, SettledFirst, Settled, TakenOver, Holder, CommitDone,
         CommitAround, Cancelling, Confirming
<1>15. ASSUME NEW h \in Handlers, DropsCall(h)
      PROVE  Taken(v)'
  BY <1>15
     DEF DropsCall, CallRests, KeepTables, device, worker, Callers, TakenOver, Holder,
         CommitDone, CommitAround, Cancelling, Confirming
<1>16. CASE Forgets \/ Lapsed
  BY <1>16
     DEF Forgets, Lapsed, vars, device, worker, TakenOver, Holder, CommitDone,
         CommitAround, Cancelling, Confirming
<1>17. ASSUME NEW t \in ReshareIds, StartsReshare(t) \/ Unlocks(t) \/ Authorizes(t)
                \/ Declines(t) \/ Approves(t)
      PROVE  Taken(v)'
  BY <1>17
     DEF StartsReshare, Unlocks, Authorizes, Declines, Approves, RunIs, Reports, vars,
         device, worker, TakenOver, Holder, CommitDone, CommitAround, Cancelling,
         Confirming
<1>18. CASE Hides \/ Saves \/ CancelsRun
  BY <1>18
     DEF Hides, Saves, CancelsRun, vars, worker, TakenOver, Holder, CommitDone,
         CommitAround, Cancelling, Confirming
<1>19. QED
  BY <1>1, <1>2, <1>3, <1>4, <1>5, <1>6, <1>7, <1>8, <1>9, <1>10, <1>11, <1>12, <1>13,
     <1>14, <1>15, <1>16, <1>17, <1>18 DEF Effect

-----------------------------------------------------------------------------
(* Every step is one of the server's                                        *)

\* A message from a worker without a share is as good as one with none.
LEMMA TakeIsTake ==
    ASSUME TypeOK, NEW h \in Handlers, NEW t \in ReshareIds, NEW n \in 1..LastRound,
           NEW b \in Shares \union {None, Wiped}, Take(h, t, n, b)
    PROVE  Arrive(h)
<1>0. t \in Ids
  BY DEF Ids
<1>1. CASE b \in Shares \union {None}
  BY <1>0, <1>1 DEF Arrive
<1>2. CASE b = Wiped
  <2>1. session[t] # NoSession => session[t].base # Wiped
    BY <1>0, TakenRow, WipedIsNoShare
  <2>2. session[t] # NoSession /\ Fits(session[t], n, Wiped) => Fits(session[t], n, None)
    BY <2>1 DEF Fits
  <2>3. session[t] # NoSession /\ Fits(session[t], n, Wiped) => session[t].round # LastRound
    BY <2>1 DEF Fits
  <2>4. Take(h, t, n, None)
    BY <1>2, <2>2, <2>3 DEF Take, TakeAndAdvance
  <2>5. QED
    BY <1>0, <2>4 DEF Arrive
<1>3. QED
  BY <1>1, <1>2

\* To hear an answer is the server's Answer.
LEMMA HearIsAnswer ==
    ASSUME NEW c, c.h \in Callers, Hear(c)
    PROVE  \E h \in Handlers : Answer(h)
BY DEF Hear, Answered, Served, Callers

\* A commit or an abort that arrives is a step of the server.
LEMMA FirstStatements ==
    ASSUME NEW h \in Handlers, NEW t \in ReshareIds, Commit(h, t) \/ Abort(h, t)
    PROVE  Next
BY DEF Next, Arrive

\* So is the call of a run: its round and its share are ones the server's module
\* allows.
LEMMA PostIsArrive ==
    ASSUME TypeOK, DeviceTypeOK, RoundsInStep, NEW t \in ReshareIds, Post(t)
    PROVE  Next
<1>1. PICK h \in NextFree :
        \/ run[t].pc = "start" /\ Start(h, t)
        \/ run[t].pc = "round" /\ Take(h, t, run[t].round, run[t].base)
        \/ run[t].pc = "undo" /\ Abort(h, t)
  BY DEF Post
<1>2. h \in Handlers
  BY FreeHandler
<1>3. CASE Start(h, t)
  BY <1>2, <1>3 DEF Next, Arrive, ApprovedIds
<1>4. CASE run[t].pc = "round" /\ Take(h, t, run[t].round, run[t].base)
  <2>1. run[t].round \in 1..LastRound /\ run[t].base \in Shares \union {None, Wiped}
    BY <1>4, LastRoundIsPositive DEF RoundsInStep, DeviceTypeOK, Runs
  <2>2. Arrive(h)
    BY <1>2, <1>4, <2>1, TakeIsTake
  <2>3. QED
    BY <1>2, <2>2 DEF Next
<1>5. CASE Abort(h, t)
  BY <1>2, <1>5, FirstStatements
<1>6. QED
  BY <1>1, <1>3, <1>4, <1>5

\* Every step of the system is a step of the server or leaves it alone.
LEMMA ServerKeepsRules ==
    ASSUME TypeOK, DeviceTypeOK, RoundsInStep, SystemNext
    PROVE  [Next]_vars
<1> SUFFICES Next \/ UNCHANGED vars
  OBVIOUS
<1>1. ASSUME NEW t \in ReshareIds, RunStep(t) PROVE Next \/ UNCHANGED vars
  <2>1. ASSUME Hear(run[t]) PROVE Next
    BY <2>1, Waiters, HearIsAnswer DEF Next
  <2>2. QED
    BY <1>1, <2>1, PostIsArrive
       DEF RunStep, Unlock, Authorize, NotAuthorized, NextRound, Undo, Undone, Staged, Lose
<1>2. ASSUME NEW t \in ReshareIds, Coroutines(t) PROVE Next \/ UNCHANGED vars
  <2>1. ASSUME Hear(confirm[t]) \/ Hear(cancel[t]) PROVE Next
    BY <2>1, Waiters, HearIsAnswer DEF Next
  <2>2. ASSUME ConfirmPost(t) \/ CancelPost(t) PROVE Next
    BY <2>2, FreeHandler, FirstStatements DEF ConfirmPost, CancelPost
  <2>3. QED
    BY <1>1, <1>2, <2>1, <2>2
       DEF Coroutines, Committed, NotCommitted, Store, NotStored, Cancelled, Lose
<1>3. ASSUME NEW t \in ReshareIds, ApproveInBrowser(t) PROVE Next
  BY <1>3 DEF ApproveInBrowser, Next, ApprovedIds
<1>4. ASSUME User PROVE UNCHANGED vars
  BY <1>4 DEF User, StartReshare, ReportFailure, TakeRecovery, SaveFile, ClosePopup,
     ConfirmStart, CancelRun, CancelStart
<1>5. ASSUME NEW h \in Handlers, ServerStep(h) PROVE Next
  BY <1>5 DEF ServerStep, Next
<1>6. ASSUME Environment PROVE Next \/ UNCHANGED vars
  <2>1. ASSUME ArriveLate PROVE Next
    BY <2>1, FreeHandler, FirstStatements DEF ArriveLate
  <2>2. QED
    BY <1>6, <2>1 DEF Environment, TimePasses, Next, WorkerStops, Restore
<1>7. QED
  BY <1>1, <1>2, <1>3, <1>4, <1>5, <1>6 DEF SystemNext

-----------------------------------------------------------------------------
(* The types of the device                                                  *)

\* Each assignment to a run makes a run.
LEMMA NewRuns ==
    ASSUME NEW r \in Runs
    PROVE  /\ \A pc \in {"checked", "start", "undo", "over"} :
                [r EXCEPT !.pc = pc, !.h = None] \in Runs
           /\ \A b \in Shares \union {None, Wiped} : [r EXCEPT !.pc = "auth", !.base = b] \in Runs
           /\ \A h \in Handlers : [r EXCEPT !.h = h] \in Runs
           /\ \A n \in 0..LastRound : [r EXCEPT !.pc = "round", !.round = n, !.h = None] \in Runs
           /\ [r EXCEPT !.pc = "over", !.round = 0, !.h = None] \in Runs
<1> USE LastRoundIsPositive DEF Runs, Callers
<1>1. ASSUME NEW pc \in {"checked", "start", "undo", "over"}
      PROVE  [r EXCEPT !.pc = pc, !.h = None] \in Runs
  OBVIOUS
<1>2. ASSUME NEW b \in Shares \union {None, Wiped}
      PROVE  [r EXCEPT !.pc = "auth", !.base = b] \in Runs
  OBVIOUS
<1>3. ASSUME NEW h \in Handlers PROVE [r EXCEPT !.h = h] \in Runs
  OBVIOUS
<1>4. ASSUME NEW n \in 0..LastRound
      PROVE  [r EXCEPT !.pc = "round", !.round = n, !.h = None] \in Runs
  OBVIOUS
<1>5. [r EXCEPT !.pc = "over", !.round = 0, !.h = None] \in Runs
  <2>1. \A n \in 0..LastRound : [r EXCEPT !.pc = "over", !.round = n, !.h = None] \in Runs
    OBVIOUS
  <2>2. 0 \in 0..LastRound
    OBVIOUS
  <2>3. QED
    BY <2>1, <2>2
<1> HIDE DEF Runs
<1>6. QED
  BY <1>1, <1>2, <1>3, <1>4, <1>5

\* One run is replaced by another.
LEMMA RunReplaced ==
    ASSUME DeviceTypeOK, NEW t \in ReshareIds, NEW r \in Runs, run' = [run EXCEPT ![t] = r]
    PROVE  run' \in [ReshareIds -> Runs]
BY DEF DeviceTypeOK

\* The runs stay well formed.
LEMMA RunsTyped ==
    ASSUME TypeOK, DeviceTypeOK, SystemNext
    PROVE  run' \in [ReshareIds -> Runs]
<1>0. ASSUME NEW t \in ReshareIds PROVE run[t] \in Runs
  BY DEF DeviceTypeOK
<1>1. ASSUME NEW t \in ReshareIds, NEW pc \in {"checked", "start", "undo", "over"},
             Advance(t, pc)
      PROVE  run' \in [ReshareIds -> Runs]
  <2>1. run' = [run EXCEPT ![t] = [run[t] EXCEPT !.pc = pc, !.h = None]]
    BY <1>1 DEF Advance, DeviceTypeOK
  <2>2. [run[t] EXCEPT !.pc = pc, !.h = None] \in Runs
    BY <1>0, NewRuns
  <2>3. QED
    BY <2>1, <2>2, RunReplaced
<1>2. ASSUME NEW t \in ReshareIds, Unlock(t) PROVE run' \in [ReshareIds -> Runs]
  <2>1. run' = [run EXCEPT ![t] = [run[t] EXCEPT !.pc = "auth", !.base = vault.share]]
    BY <1>2 DEF Unlock, DeviceTypeOK
  <2>2. vault.share \in Shares \union {None, Wiped}
    BY DEF DeviceTypeOK
  <2>3. [run[t] EXCEPT !.pc = "auth", !.base = vault.share] \in Runs
    BY <1>0, <2>2, NewRuns
  <2>4. QED
    BY <2>1, <2>3, RunReplaced
<1>3. ASSUME NEW t \in ReshareIds, Post(t) PROVE run' \in [ReshareIds -> Runs]
  <2>1. PICK h \in Handlers : run' = [run EXCEPT ![t].h = h]
    BY <1>3, FreeHandler DEF Post
  <2>2. [run[t] EXCEPT !.h = h] \in Runs
    BY <1>0, NewRuns
  <2>3. QED
    BY <2>1, <2>2, RunReplaced
<1>4. ASSUME NEW t \in ReshareIds, NextRound(t) PROVE run' \in [ReshareIds -> Runs]
  <2>1. run[t].round + 1 \in 0..LastRound
    BY <1>0, <1>4, LastRoundIsPositive DEF NextRound, RoundsLeft, Runs
  <2>2. run' = [run EXCEPT ![t] = [run[t] EXCEPT !.pc = "round", !.round = run[t].round + 1, !.h = None]]
    BY <1>4 DEF NextRound, DeviceTypeOK
  <2>3. [run[t] EXCEPT !.pc = "round", !.round = run[t].round + 1, !.h = None] \in Runs
    BY <1>0, <2>1, NewRuns
  <2>4. QED
    BY <2>2, <2>3, RunReplaced
<1>5. ASSUME Forget PROVE run' \in [ReshareIds -> Runs]
  <2>1. \A t \in ReshareIds : [run[t] EXCEPT !.pc = "over", !.round = 0, !.h = None] \in Runs
    BY <1>0, NewRuns
  <2>2. \A t \in ReshareIds :
          (IF run[t].pc = "none" THEN run[t]
           ELSE [run[t] EXCEPT !.pc = "over", !.round = 0, !.h = None]) \in Runs
    BY <1>0, <2>1
  <2>3. QED
    BY <1>5, <2>2 DEF Forget
<1>6. QED
  <2>1. ASSUME UNCHANGED run PROVE run' \in [ReshareIds -> Runs]
    BY <2>1 DEF DeviceTypeOK
  <2>2. ASSUME NEW t \in ReshareIds, RunStep(t) PROVE run' \in [ReshareIds -> Runs]
    BY <1>1, <1>2, <1>3, <1>4, <2>2
       DEF RunStep, Authorize, NotAuthorized, Failed, Undo, Undone, Staged
  <2>3. ASSUME NEW t \in ReshareIds, Coroutines(t) PROVE run' \in [ReshareIds -> Runs]
    BY <2>1, <2>2, <2>3
       DEF Coroutines, ConfirmPost, Committed, NotCommitted, Store, NotStored, CancelPost,
           Cancelled
  <2>4. ASSUME User PROVE run' \in [ReshareIds -> Runs]
    BY <1>1, <2>1, <2>4
       DEF User, StartReshare, ReportFailure, TakeRecovery, SaveFile, ClosePopup,
           ConfirmStart, CancelRun, CancelStart, worker
  <2>5. ASSUME Environment PROVE run' \in [ReshareIds -> Runs]
    BY <1>5, <2>1, <2>5
       DEF Environment, TimePasses, ArriveLate, WorkerStops, Restore, device, worker
  <2>6. QED
    BY <2>1, <2>3, <2>4, <2>5 DEF SystemNext, ApproveInBrowser, ServerStep, device, worker

\* The confirms, the cancels and the pending objects stay well formed.
LEMMA CoroutinesTyped ==
    ASSUME TypeOK, DeviceTypeOK, SystemNext
    PROVE  /\ confirm' \in [ReshareIds -> [pc : {"idle", "commit", "store"}, h : Callers]]
           /\ cancel' \in [ReshareIds -> [pc : {"idle", "abort"}, h : Callers]]
           /\ object' \in [ReshareIds -> [committed : BOOLEAN, wiped : BOOLEAN]]
<1> DEFINE Confirms == [ReshareIds -> [pc : {"idle", "commit", "store"}, h : Callers]]
           CancelsOf == [ReshareIds -> [pc : {"idle", "abort"}, h : Callers]]
           Objects == [ReshareIds -> [committed : BOOLEAN, wiped : BOOLEAN]]
<1> SUFFICES confirm' \in Confirms /\ cancel' \in CancelsOf /\ object' \in Objects
  OBVIOUS
<1>0. confirm \in Confirms /\ cancel \in CancelsOf /\ object \in Objects
  BY DEF DeviceTypeOK
<1>1. ASSUME NEW t \in ReshareIds, ConfirmPost(t) PROVE confirm' \in Confirms
  <2>1. PICK h \in Handlers : confirm' = [confirm EXCEPT ![t].h = h]
    BY <1>1, FreeHandler DEF ConfirmPost
  <2>2. QED
    BY <1>0, <2>1 DEF Callers
<1>2. ASSUME NEW t \in ReshareIds, Committed(t) \/ NotCommitted(t) \/ Store(t) \/ NotStored(t)
      PROVE  confirm' \in Confirms
  <2>1. PICK pc \in {"idle", "store"} : confirm' = [confirm EXCEPT ![t] = [pc |-> pc, h |-> None]]
    BY <1>2 DEF Committed, NotCommitted, Store, NotStored, Quiet
  <2>2. [pc |-> pc, h |-> None] \in [pc : {"idle", "commit", "store"}, h : Callers]
    BY DEF Callers
  <2>3. QED
    BY <1>0, <2>1, <2>2
<1>3. ASSUME ConfirmStart PROVE confirm' \in Confirms
  <2>1. PICK pc \in {"store", "commit"} : confirm' = [confirm EXCEPT ![pending].pc = pc]
    BY <1>3 DEF ConfirmStart, AfterChecks
  <2>2. pending \in ReshareIds
    BY <1>3 DEF ConfirmStart, DeviceTypeOK
  <2>3. QED
    BY <1>0, <2>1, <2>2
<1>4. ASSUME NEW t \in ReshareIds, CancelPost(t) PROVE cancel' \in CancelsOf
  <2>1. PICK h \in Handlers : cancel' = [cancel EXCEPT ![t].h = h]
    BY <1>4, FreeHandler DEF CancelPost
  <2>2. QED
    BY <1>0, <2>1 DEF Callers
<1>5. ASSUME NEW t \in ReshareIds, Cancelled(t) PROVE cancel' \in CancelsOf /\ object' \in Objects
  BY <1>0, <1>5 DEF Cancelled, Quiet, Callers
<1>6. ASSUME CancelStart PROVE cancel' \in CancelsOf
  BY <1>0, <1>6 DEF CancelStart
<1>7. ASSUME NEW t \in ReshareIds, Committed(t) PROVE object' \in Objects
  BY <1>0, <1>7 DEF Committed
<1>8. ASSUME Forget PROVE confirm' \in Confirms /\ cancel' \in CancelsOf /\ object' \in Objects
  BY <1>0, <1>8 DEF Forget, Quiet, Callers
<1> HIDE DEF Confirms, CancelsOf, Objects
<1>9. ASSUME NEW t \in ReshareIds, Coroutines(t)
      PROVE  confirm' \in Confirms /\ cancel' \in CancelsOf /\ object' \in Objects
  <2>1. CASE RunStep(t)
    BY <1>0, <2>1 DEF RunStep, Unlock, Authorize, NotAuthorized, Failed, Post, NextRound, Undo,
       Undone, Staged
  <2>2. CASE ConfirmPost(t) \/ Committed(t) \/ NotCommitted(t) \/ Store(t) \/ NotStored(t)
    BY <1>0, <1>1, <1>2, <1>7, <2>2 DEF ConfirmPost, Committed, NotCommitted, Store, NotStored
  <2>3. CASE CancelPost(t) \/ Cancelled(t)
    BY <1>0, <1>4, <1>5, <2>3 DEF CancelPost, Cancelled
  <2>4. QED
    BY <1>9, <2>1, <2>2, <2>3 DEF Coroutines
<1>10. ASSUME User PROVE confirm' \in Confirms /\ cancel' \in CancelsOf /\ object' \in Objects
  BY <1>0, <1>3, <1>6, <1>10
     DEF User, StartReshare, ReportFailure, TakeRecovery, SaveFile, ClosePopup, ConfirmStart,
         CancelRun, CancelStart, worker
<1>11. ASSUME Environment PROVE confirm' \in Confirms /\ cancel' \in CancelsOf /\ object' \in Objects
  BY <1>0, <1>8, <1>11 DEF Environment, TimePasses, ArriveLate, WorkerStops, Restore,
     device, worker
<1>12. QED
  BY <1>0, <1>9, <1>10, <1>11 DEF SystemNext, ApproveInBrowser, ServerStep, device, worker

\* The vault, the files and what the worker and the popup hold stay well formed.
LEMMA HeldTyped ==
    ASSUME DeviceTypeOK, SystemNext
    PROVE  /\ vault' \in [share : Shares \union {Wiped}, party : {"recovery", "extension"}]
           /\ files' \subseteq Shares
           /\ current' \in ReshareIds \union {None}
           /\ pending' \in ReshareIds \union {None}
           /\ reshareRun' \in [phase : {"idle", "working", "ready", "failed"},
                               id : ReshareIds \union {None}]
           /\ popup' \in ReshareIds \union {None}
           /\ late' \subseteq ReshareIds \X {"commit", "abort"}
<1> DEFINE Vaults == [share : Shares \union {Wiped}, party : {"recovery", "extension"}]
           Told == [phase : {"idle", "working", "ready", "failed"},
                    id : ReshareIds \union {None}]
           Typed == /\ vault' \in Vaults
                    /\ files' \subseteq Shares
                    /\ current' \in ReshareIds \union {None}
                    /\ pending' \in ReshareIds \union {None}
                    /\ reshareRun' \in Told
                    /\ popup' \in ReshareIds \union {None}
                    /\ late' \subseteq ReshareIds \X {"commit", "abort"}
<1> SUFFICES Typed
  OBVIOUS
<1>0. /\ vault \in Vaults
      /\ files \subseteq Shares
      /\ current \in ReshareIds \union {None}
      /\ pending \in ReshareIds \union {None}
      /\ reshareRun \in Told
      /\ popup \in ReshareIds \union {None}
      /\ late \subseteq ReshareIds \X {"commit", "abort"}
  BY DEF DeviceTypeOK
<1>1. NothingRuns \in Told
  BY DEF NothingRuns
<1>2. ASSUME NEW t \in ReshareIds, NEW phase \in {"working", "ready", "failed"}
      PROVE  [phase |-> phase, id |-> t] \in Told
  OBVIOUS
<1>3. ASSUME NEW b \in Shares \union {Wiped}, NEW p \in {"recovery", "extension"}
      PROVE  [share |-> b, party |-> p] \in Vaults
  OBVIOUS
<1>4. reshareRun.id \in ReshareIds \union {None}
  BY <1>0
<1>5. ASSUME NEW t \in ReshareIds, NEW what \in {"commit", "abort"}
      PROVE  late \union {<<t, what>>} \subseteq ReshareIds \X {"commit", "abort"}
  BY <1>0
<1>6. ReshareIds \subseteq Shares
  BY DEF Shares
<1> HIDE DEF Vaults, Told
<1>7. ASSUME NEW t \in ReshareIds, RunStep(t) PROVE Typed
  <2>1. ASSUME Failed(t), UNCHANGED late \/ Lose(t, "abort") PROVE Typed
    BY <1>0, <1>2, <1>5, <2>1 DEF Failed, Outcome, Lose
  <2>2. ASSUME Unlock(t) \/ Authorize(t) \/ Post(t) \/ NextRound(t) \/ Undo(t) PROVE Typed
    BY <1>0, <1>2, <2>2 DEF Unlock, Authorize, Post, NextRound, Undo
  <2>3. ASSUME Staged(t) PROVE Typed
    BY <1>0, <1>2, <2>3 DEF Staged
  <2>4. QED
    BY <1>7, <2>1, <2>2, <2>3 DEF RunStep, NotAuthorized, Undone
<1>8. ASSUME NEW t \in ReshareIds, Coroutines(t) PROVE Typed
  <2>1. ASSUME ConfirmPost(t) \/ Committed(t) \/ NotStored(t) \/ CancelPost(t) PROVE Typed
    BY <1>0, <2>1 DEF ConfirmPost, Committed, NotStored, CancelPost
  <2>2. ASSUME NotCommitted(t) \/ Cancelled(t) PROVE Typed
    BY <1>0, <1>5, <2>2 DEF NotCommitted, Cancelled, Lose
  <2>3. ASSUME Store(t) PROVE Typed
    <3>1. vault' \in Vaults
      BY <1>3, <1>6, <2>3 DEF Store
    <3>2. files' \subseteq Shares
      BY <1>0, <2>3 DEF Store
    <3>3. QED
      BY <1>0, <2>3, <3>1, <3>2 DEF Store
  <2>4. QED
    BY <1>7, <1>8, <2>1, <2>2, <2>3 DEF Coroutines
<1>9. ASSUME User PROVE Typed
  BY <1>0, <1>1, <1>4, <1>6, <1>9
     DEF User, StartReshare, ReportFailure, TakeRecovery, SaveFile, ClosePopup, ConfirmStart,
         CancelRun, CancelStart, worker
<1>10. ASSUME Environment PROVE Typed
  <2>1. ASSUME TimePasses \/ ArriveLate \/ WorkerStops PROVE Typed
    BY <1>0, <1>1, <2>1 DEF TimePasses, ArriveLate, WorkerStops, Forget, device, worker
  <2>2. ASSUME NEW f \in files, Restore(f) PROVE Typed
    BY <1>0, <1>1, <1>3, <2>2 DEF Restore, Forget
  <2>3. QED
    BY <1>10, <2>1, <2>2 DEF Environment
<1>11. QED
  BY <1>0, <1>8, <1>9, <1>10 DEF SystemNext, ApproveInBrowser, ServerStep, device, worker

\* The device stays well formed.
LEMMA DeviceStaysTyped ==
    ASSUME TypeOK, DeviceTypeOK, SystemNext
    PROVE  DeviceTypeOK'
BY RunsTyped, CoroutinesTyped, HeldTyped DEF DeviceTypeOK

-----------------------------------------------------------------------------
(* The invariant                                                            *)

\* The system starts with its invariant: one device, one share, nothing running.
LEMMA SystemStarts == SystemInit => SystemInv
<1> SUFFICES ASSUME SystemInit PROVE SystemInv
  OBVIOUS
<1> DEFINE Fresh == [committed |-> FALSE, wiped |-> FALSE]
<1>0. Original \in DkgIds /\ Original \in Shares /\ Original \notin ReshareIds
  BY OriginalIsADkg, IdsAreDisjoint DEF Shares
<1>1. /\ live = Original /\ files = {Original}
      /\ \A t \in ReshareIds : grant[t] = "none" /\ session[t] = NoSession
      /\ staged.share = None
      /\ \A h \in Handlers : task[h].pc = "idle" /\ task[h].id = None
      /\ \A t \in ReshareIds :
           /\ run[t].pc = "none" /\ run[t].h = None
           /\ confirm[t].pc = "idle" /\ confirm[t].h = None
           /\ cancel[t].pc = "idle" /\ cancel[t].h = None
           /\ ~ object[t].committed
      /\ reshareRun.phase = "idle" /\ current = None /\ pending = None
      /\ popup = None /\ late = {}
  BY DEF SystemInit, WorkerStart, NoRun, Quiet, NothingRuns, Idle, Resting, NoStaged, Ids,
     ApprovedIds
<1>2. TypeOK
  <2>1. session \in [Ids -> Sessions \union {NoSession}]
    BY DEF SystemInit
  <2>2. grant \in [ApprovedIds -> {"none", "granted", "lapsed", "consumed"}]
    BY DEF SystemInit
  <2>3. task \in [Handlers -> Tasks]
    BY LastRoundIsPositive DEF SystemInit, Idle, Resting, Tasks
  <2>4. live \in Shares \union {None} /\ staged \in StagedShares \union {NoStaged}
    BY <1>0 DEF SystemInit
  <2>5. QED
    BY <1>1, <2>1, <2>2, <2>3, <2>4 DEF TypeOK
<1>3. DeviceTypeOK
  <2>1. NoRun \in Runs
    BY LastRoundIsPositive DEF NoRun, Runs, Callers
  <2>2. run \in [ReshareIds -> Runs]
    BY <2>1 DEF SystemInit, WorkerStart
  <2>3. /\ confirm \in [ReshareIds -> [pc : {"idle", "commit", "store"}, h : Callers]]
        /\ cancel \in [ReshareIds -> [pc : {"idle", "abort"}, h : Callers]]
    BY DEF SystemInit, WorkerStart, Quiet, Callers
  <2>4. object \in [ReshareIds -> [committed : BOOLEAN, wiped : BOOLEAN]]
    <3>1. Fresh \in [committed : BOOLEAN, wiped : BOOLEAN]
      OBVIOUS
    <3>2. object = [t \in ReshareIds |-> Fresh]
      BY DEF SystemInit, WorkerStart
    <3> HIDE DEF Fresh
    <3>3. QED
      BY <3>1, <3>2
  <2>5. vault \in [share : Shares \union {Wiped}, party : {"recovery", "extension"}]
    BY <1>0 DEF SystemInit
  <2>6. reshareRun \in [phase : {"idle", "working", "ready", "failed"},
                        id : ReshareIds \union {None}]
    BY DEF SystemInit, WorkerStart, NothingRuns
  <2>7. QED
    BY <1>0, <1>1, <2>2, <2>3, <2>4, <2>5, <2>6 DEF DeviceTypeOK
<1>4. WorkIsApproved /\ ShareBeforeReshare
  <2>1. \A o \in ApprovedIds : session[o] = NoSession /\ o \in Ids
    BY DEF SystemInit, ApprovedIds, Ids
  <2>2. \A o \in ApprovedIds : o # None /\ o # Original
    BY <1>0, IdsAreDisjoint DEF ApprovedIds, Ids
  <2>3. WorkIsApproved
    BY <1>1, <2>1, <2>2 DEF WorkIsApproved
  <2>4. ShareBeforeReshare
    BY <1>0, <1>1, IdsAreDisjoint DEF ShareBeforeReshare, Ids
  <2>5. QED
    BY <2>3, <2>4
<1>5. CallsWork /\ CallsHeld /\ NotShared /\ OwnCalls /\ HeldWorks /\ RoundsInStep
  BY <1>1, NoneIsNoReshare
     DEF CallsWork, AtRest, CallsHeld, NotShared, OwnCalls, HeldWorks, RoundsInStep, Early
<1>6. BasesGone
  BY <1>0, <1>1, NoneIsNoReshare DEF BasesGone, Gone
<1>7. OldIsGone /\ SettledFirst /\ SavedFirst /\ Recoverable
  BY <1>1, NoneIsNoReshare
     DEF OldIsGone, CommitDone, SettledFirst, Confirming, CommitAround, SavedFirst, Recoverable
<1>8. Offers /\ CurrentRuns /\ Holders /\ TakenOver
  BY <1>1, NoneIsNoReshare
     DEF Offers, Offered, CurrentRuns, Holders, Holder, Cancelling, Confirming, TakenOver
<1>9. QED
  BY <1>2, <1>3, <1>4, <1>5, <1>6, <1>7, <1>8, SystemParts DEF SystemInv

\* Every step keeps it.
LEMMA SystemInvStep ==
    ASSUME SystemInv, SystemNext
    PROVE  SystemInv'
<1>1. TypeOK /\ DeviceTypeOK
  BY SystemParts DEF SystemInv
<1>2. Effect
  BY <1>1, Effects DEF SystemInv
<1>3. Inv'
  <2>1. Inv /\ [Next]_vars
    BY <1>1, ServerKeepsRules DEF SystemInv, Inv
  <2>2. QED
    BY <2>1, NextInv
<1>4. DeviceTypeOK'
  BY <1>1, DeviceStaysTyped
<1>5. SystemTypeOK' /\ WorkIsApproved' /\ ShareBeforeReshare'
  BY <1>3, <1>4 DEF SystemTypeOK, Inv
<1>6. CallsWork' /\ CallsHeld' /\ NotShared' /\ OwnCalls' /\ HeldWorks' /\ RoundsInStep'
  BY <1>1, <1>2, CallsWorkStep, CallsHeldStep, NotSharedStep, OwnCallsStep, HeldWorksStep,
     RoundsInStepStep
     DEF SystemInv
<1>7. BasesGone' /\ OldIsGone' /\ SettledFirst' /\ SavedFirst' /\ Recoverable'
  BY <1>1, <1>2, BasesGoneStep, OldIsGoneStep, SettledFirstStep, SavedFirstStep, RecoverableStep
     DEF SystemInv
<1>8. Offers' /\ CurrentRuns' /\ Holders' /\ TakenOver'
  BY <1>1, <1>2, OffersStep, CurrentRunsStep, HoldersStep, TakenOverStep
     DEF SystemInv
<1>9. QED
  BY <1>5, <1>6, <1>7, <1>8 DEF SystemInv

\* The invariant holds at every step of the device, the network and the server.
LEMMA SystemInvAlways == SystemSpec => []SystemInv
<1>1. SystemInit => SystemInv
  BY SystemStarts
<1>2. SystemInv /\ [SystemNext]_system => SystemInv'
  <2>1. ASSUME SystemInv, UNCHANGED system PROVE SystemInv'
    <3>1. UNCHANGED <<live, grant, session, staged, task, vault, files, run, reshareRun, current,
                      pending, object, confirm, cancel, popup, late>>
      BY <2>1 DEF system, vars, device, worker
    <3>2. SystemTypeOK' /\ WorkIsApproved' /\ ShareBeforeReshare'
      BY <2>1, <3>1 DEF SystemInv, SystemTypeOK, DeviceTypeOK, TypeOK, WorkIsApproved, ShareBeforeReshare
    <3>3. Settled' = Settled /\ Gone' = Gone
      BY <3>1 DEF Settled, Gone
    <3>4. CallsWork' /\ CallsHeld' /\ NotShared' /\ OwnCalls' /\ HeldWorks' /\ RoundsInStep'
      BY <2>1, <3>1
         DEF SystemInv, CallsWork, AtRest, CallsHeld, NotShared, OwnCalls, Early, HeldWorks,
             RoundsInStep
    <3>5. BasesGone' /\ OldIsGone' /\ SettledFirst' /\ SavedFirst' /\ Recoverable'
      BY <2>1, <3>1, <3>3
         DEF SystemInv, BasesGone, OldIsGone, CommitDone, SettledFirst, Confirming,
             CommitAround,
             SavedFirst, Recoverable
    <3>6. Offers' /\ CurrentRuns' /\ Holders' /\ TakenOver'
      BY <2>1, <3>1
         DEF SystemInv, Offers, Offered, NobodyChecked, CurrentRuns, Holders, Holder,
             Cancelling,
             Confirming, TakenOver, CommitDone, CommitAround
    <3>7. QED
      BY <3>2, <3>4, <3>5, <3>6 DEF SystemInv
  <2>2. QED
    BY <2>1, SystemInvStep
<1>3. QED
  BY <1>1, <1>2, PTL DEF SystemSpec

-----------------------------------------------------------------------------
(* What the system promises                                                 *)

\* Every variable of the device and of the server stays well formed.
THEOREM SystemTypeCorrect == SystemSpec => []SystemTypeOK
<1>1. SystemInv => SystemTypeOK
  BY DEF SystemInv
<1>2. QED
  BY <1>1, SystemInvAlways, PTL

\* The user always has a file that fits the server's share, whatever is lost,
\* cancelled, started again or destroyed, and in whatever order.
THEOREM AlwaysRecoverable == SystemSpec => []Recoverable
<1>1. SystemInv => Recoverable
  BY DEF SystemInv
<1>2. QED
  BY <1>1, SystemInvAlways, PTL

\* Only Store makes the vault the extension's, and what it stores is live.
LEMMA StoreStep ==
    ASSUME SystemInv, SystemNext, vault' # vault, vault'.party = "extension",
           vault'.share # Wiped
    PROVE  vault'.share = live
<1>1. PICK t \in ReshareIds : Store(t)
  <2>1. ASSUME NEW t \in ReshareIds, Coroutines(t), ~ Store(t) PROVE UNCHANGED vault
    BY <2>1
       DEF Coroutines, RunStep, Unlock, Authorize, NotAuthorized, Failed, Post, NextRound, Undo,
           Undone, Staged, ConfirmPost, Committed, NotCommitted, NotStored, CancelPost, Cancelled
  <2>2. ASSUME User PROVE UNCHANGED vault
    BY <2>2
       DEF User, StartReshare, ReportFailure, TakeRecovery, SaveFile, ClosePopup, ConfirmStart,
           CancelRun, CancelStart
  <2>3. ASSUME Environment PROVE UNCHANGED vault \/ vault'.party = "recovery"
    BY <2>3 DEF Environment, TimePasses, ArriveLate, WorkerStops, Restore, device
  <2>4. QED
    BY <2>1, <2>2, <2>3 DEF SystemNext, ApproveInBrowser, ServerStep, device
<1>2. confirm[t].pc = "store" /\ vault'.share = t /\ ~ object[t].wiped
  BY <1>1 DEF Store
<1>3. Holder(t) /\ CommitDone(t)
  BY <1>2 DEF Holder, Confirming, CommitDone
<1>4. QED
  BY <1>2, <1>3 DEF SystemInv, TakenOver

\* The vault takes a reshare's share over only once the server's is live.
THEOREM VaultFollows == SystemSpec => VaultFollowsServer
<1>1. SystemInv /\ [SystemNext]_system =>
        [vault' # vault /\ vault'.party = "extension" /\ vault'.share # Wiped =>
           vault'.share = live]_system
  BY StoreStep
<1>2. QED
  BY <1>1, SystemInvAlways, PTL DEF SystemSpec, VaultFollowsServer

\* Whatever the worker does is one of the calls that the server's module
\* allows, or none: a wiped share, a message of a cancelled run and a late
\* commit included.
LEMMA SystemStep == SystemInv /\ [SystemNext]_system => Inv /\ [Next]_vars
<1>1. SystemInv => Inv
  BY DEF SystemInv, SystemTypeOK, Inv
<1>2. ASSUME SystemInv, SystemNext PROVE [Next]_vars
  BY <1>2, SystemParts, ServerKeepsRules DEF SystemInv
<1>3. UNCHANGED system => UNCHANGED vars
  BY DEF system
<1>4. QED
  BY <1>1, <1>2, <1>3

\* The system follows the rules that ServerShare gives the server.
THEOREM ServerRulesKept == SystemSpec => [][Next]_vars
<1>1. QED
  BY SystemStep, SystemInvAlways, PTL DEF SystemSpec

\* So what is proved of the server holds in the system, though its wallet
\* begins with a share.
THEOREM SystemWorkApproved == SystemSpec => []WorkIsApproved
<1>1. SystemInv => WorkIsApproved
  BY DEF SystemInv
<1>2. QED
  BY <1>1, SystemInvAlways, PTL

\* A reshare that is winding down never takes another one's share with it, with
\* the worker's late aborts too.
THEOREM SystemDropsAreOwn == SystemSpec => DroppedByItsOwn
<1>1. Inv /\ [Next]_vars =>
        [staged # NoStaged /\ staged' = NoStaged =>
           \/ live' = staged.share
           \/ \E h \in Handlers :
                \/ task[h].id = staged.share /\ task[h].pc = "fail"
                \/ Abort(h, staged.share)]_vars
  BY DropStep DEF vars
<1>2. QED
  BY <1>1, SystemStep, SystemInvAlways, PTL DEF SystemSpec, DroppedByItsOwn

\* The system implements the steps of ShareCustody.
THEOREM SystemKeepsCustody == SystemSpec => [][Custody!Next]_(Custody!vars)
<1>1. SystemInv /\ [SystemNext]_system => [Custody!Next]_(Custody!vars)
  BY SystemStep, CustodyStep
<1>2. QED
  BY <1>1, SystemInvAlways, PTL DEF SystemSpec
=============================================================================
