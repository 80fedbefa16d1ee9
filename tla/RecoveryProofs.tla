--------------------------- MODULE RecoveryProofs ---------------------------
(***************************************************************************)
(* Proofs about Recovery for every number of requests, keys and handlers   *)
(* and every length of the waits.  All of them come from one inductive     *)
(* invariant, Inv, the conjunction of the named parts below.               *)
(***************************************************************************)
EXTENDS Recovery, FiniteSetTheorems, TLAPS

\* A request can only be made, and a cancel only be signed, in a wallet whose
\* device key is registered.
KeyBeforeRequests ==
    /\ passkey = "registered" => deviceKey # None
    /\ \A r \in Requests : status[r] # "absent" => passkey = "registered"

\* Rows, ceremonies and grants appear in this order.
RowFirst ==
    /\ \A h \in Handlers : task[h].pc # "idle" => status[task[h].req] # "absent"
    /\ \A r \in Requests :
         /\ r \in ceremonies => status[r] # "absent"
         /\ grant[r].state # "none" => status[r] # "absent"
         /\ status[r] \in {"absent", "awaiting_assertion"} => ready[r] = Never

\* A wait is started only with the request's own authorization consumed, and
\* counts from a moment after that authorization was granted.
WaitIsApproved ==
    /\ \A h \in Handlers : task[h].pc = "cool" => grant[task[h].req].state = "consumed"
    /\ \A r \in Requests :
         /\ grant[r].state # "none" => grant[r].expires - AuthTtl <= now
         /\ status[r] \in {"cooling", "completed"} =>
              /\ grant[r].state = "consumed"
              /\ ready[r] >= (grant[r].expires - AuthTtl) + Cooling
         /\ status[r] = "completed" => completedAt[r] >= ready[r]

\* What is open now was made after every takeover so far.
OpenIsNewer ==
    \A r, s \in Requests :
        /\ status[r] = "completed" => completedAt[r] <= now
        /\ status[r] = "completed" /\ Open(s) => completedAt[r] <= created[s]

Inv ==
    /\ TypeOK
    /\ KeyBeforeRequests
    /\ RowFirst
    /\ WaitIsApproved
    /\ AtMostOneCooling
    /\ OpenIsNewer
    /\ TakeoversDoNotOverlap
    /\ NoStaleCancel

-----------------------------------------------------------------------------

\* The initial state satisfies the invariant.
LEMMA InitInv == Init => Inv
<1> SUFFICES ASSUME Init PROVE Inv
  OBVIOUS
<1> USE NoneIsNoValue, DurationsAreNaturals DEF Init, Never, NoGrant, Idle
<1>1. TypeOK
  <2>1. NoGrant \in Grants /\ Idle \in Tasks
    BY DEF Grants, Tasks
  <2>2. now \in Time /\ deviceKey \in Keys \union {None} /\ passkey \in {"none", "registered"}
    BY DEF Time
  <2>3. /\ status \in [Requests -> Statuses]
        /\ newKey \in [Requests -> Keys \union {None}]
        /\ created \in [Requests -> Int]
        /\ expires \in [Requests -> Int]
        /\ ready \in [Requests -> Int]
        /\ completedAt \in [Requests -> Int]
        /\ ceremonies \in SUBSET Requests
    BY DEF Statuses
  <2>4. grant \in [Requests -> Grants] /\ task \in [Handlers -> Tasks]
    BY <2>1
  <2>5. QED
    BY <2>2, <2>3, <2>4 DEF TypeOK
<1>2. KeyBeforeRequests /\ RowFirst /\ WaitIsApproved
  BY DEF KeyBeforeRequests, RowFirst, WaitIsApproved
<1>3. AtMostOneCooling /\ OpenIsNewer /\ TakeoversDoNotOverlap /\ NoStaleCancel
  BY DEF AtMostOneCooling, OpenIsNewer, TakeoversDoNotOverlap, NoStaleCancel
<1>4. QED
  BY <1>1, <1>2, <1>3 DEF Inv

-----------------------------------------------------------------------------

\* TypeOK holds after every step, given the other parts before it.
LEMMA TypeStep == Inv /\ [Next]_vars => TypeOK'
<1> SUFFICES ASSUME Inv, [Next]_vars PROVE TypeOK'
  OBVIOUS
<1> USE NoneIsNoValue, DurationsAreNaturals DEF Inv, TypeOK, RowFirst, Never
<1>0. Idle \in Tasks
  BY DEF Idle, Tasks
<1>1. CASE Tick
  BY <1>1 DEF Tick, rows, Time
<1>2. ASSUME NEW k \in Keys, RegisterDeviceKey(k) PROVE TypeOK'
  BY <1>2 DEF RegisterDeviceKey, rows
<1>3. CASE RegisterPasskey
  BY <1>3 DEF RegisterPasskey, rows
<1>4. ASSUME NEW h \in Handlers, NEW r \in Requests, NEW k \in Keys,
             RequestCreate(h, r, k)
      PROVE  TypeOK'
  <2>1. task' \in [Handlers -> Tasks]
    BY <1>4 DEF RequestCreate, Begin, Tasks
  <2>2. QED
    BY <1>4, <2>1 DEF RequestCreate, InsertRequest, Begin, Statuses, Time
<1>5. ASSUME NEW h \in Handlers, RequestCeremony(h) PROVE TypeOK'
  BY <1>0, <1>5 DEF RequestCeremony, Finish, Idle, rows, Time
<1>6. ASSUME NEW h \in Handlers, NEW r \in Requests, StatusRead(h, r) PROVE TypeOK'
  <2>1. task' \in [Handlers -> Tasks]
    BY <1>6 DEF StatusRead, Begin, Tasks
  <2>2. QED
    BY <1>6, <2>1 DEF StatusRead, Begin, rows
<1>7. ASSUME NEW h \in Handlers, StatusConsume(h) PROVE TypeOK'
  <2>1. task' \in [Handlers -> Tasks]
    <3>1. task[h] \in Tasks /\ Idle \in Tasks
      BY <1>0 DEF Idle, Tasks
    <3>2. task' = [task EXCEPT ![h].pc = "cool"] \/ task' = [task EXCEPT ![h] = Idle]
      BY <1>7 DEF StatusConsume, Continue, Finish
    <3>3. [task[h] EXCEPT !.pc = "cool"] \in Tasks
      BY <3>1 DEF Tasks
    <3> QED
      BY <1>0, <3>1, <3>2, <3>3
  <2>2. grant' \in [Requests -> Grants]
    BY <1>7 DEF StatusConsume, Grants
  <2>3. \A s \in Handlers : task'[s].pc # "idle" => task'[s].req \in Requests
    BY <1>7 DEF StatusConsume, Continue, Finish, Idle, Tasks
  <2>4. QED
    BY <1>7, <2>1, <2>2, <2>3 DEF StatusConsume, rows
<1>8. ASSUME NEW h \in Handlers, StatusCool(h) PROVE TypeOK'
  <2>1. task' \in [Handlers -> Tasks]
    BY <1>0, <1>8 DEF StatusCool, Finish
  <2>2. QED
    BY <1>8, <2>1 DEF StatusCool, Finish, Idle, rows, Statuses, Time, Awaiting, Lapsed
<1>9. ASSUME NEW h \in Handlers, NEW r \in Requests, CancelProve(h, r) PROVE TypeOK'
  <2>1. task' \in [Handlers -> Tasks]
    BY <1>9 DEF CancelProve, CancelSigners, Begin, Tasks
  <2>2. QED
    BY <1>9, <2>1 DEF CancelProve, Begin, rows
<1>10. ASSUME NEW h \in Handlers, CancelUpdate(h) PROVE TypeOK'
  <2>1. task' \in [Handlers -> Tasks]
    BY <1>0, <1>10 DEF CancelUpdate, Finish
  <2>2. QED
    BY <1>10, <2>1 DEF CancelUpdate, CancelRecovery, Finish, Idle, Statuses, Open
<1>11. ASSUME NEW h \in Handlers, Abandon(h) PROVE TypeOK'
  BY <1>0, <1>11 DEF Abandon, Finish, Idle, rows
<1>12. ASSUME NEW r \in Requests, Approve(r) PROVE TypeOK'
  <2>1. grant' \in [Requests -> Grants]
    BY <1>12 DEF Approve, Grants, Time
  <2>2. QED
    BY <1>12, <2>1 DEF Approve, rows
<1>13. ASSUME NEW r \in Requests, Complete(r) PROVE TypeOK'
  BY <1>13 DEF Complete, Completable, EndedBy, Open, Statuses, Time
<1>14. ASSUME NEW r \in Requests, ManageCancel(r) PROVE TypeOK'
  BY <1>14 DEF ManageCancel, CancelRecovery, Open, Statuses
<1>15. CASE UNCHANGED vars
  BY <1>15 DEF vars, rows
<1>16. QED
  BY <1>1, <1>2, <1>3, <1>4, <1>5, <1>6, <1>7, <1>8, <1>9, <1>10, <1>11, <1>12,
     <1>13, <1>14, <1>15 DEF Next, Steps

-----------------------------------------------------------------------------

\* The steps that change a row's status, and how each of them does.
LEMMA StatusSteps ==
    ASSUME Inv, [Next]_vars
    PROVE  \/ UNCHANGED rows
           \/ \E r \in Requests, k \in Keys :
                /\ status[r] = "absent"
                /\ passkey = "registered"
                /\ InsertRequest(r, k)
                /\ UNCHANGED <<now, deviceKey, passkey, ceremonies, grant>>
           \/ \E h \in Handlers : StatusCool(h)
           \/ \E r \in Requests : Complete(r)
           \/ \E r \in Requests :
                /\ CancelRecovery(r)
                /\ UNCHANGED <<now, deviceKey, passkey, ceremonies, grant>>
<1>1. CASE \E h \in Handlers, r \in Requests, k \in Keys : RequestCreate(h, r, k)
  BY <1>1 DEF RequestCreate
<1>2. CASE \E h \in Handlers : CancelUpdate(h)
  BY <1>2 DEF CancelUpdate, Inv, TypeOK
<1>3. CASE \E r \in Requests : ManageCancel(r)
  BY <1>3 DEF ManageCancel
<1>4. CASE UNCHANGED vars
  BY <1>4 DEF vars
<1>5. QED
  BY <1>1, <1>2, <1>3, <1>4
     DEF Next, Steps, Tick, RegisterDeviceKey, RegisterPasskey, RequestCeremony,
         StatusRead, StatusConsume, CancelProve, Abandon, Approve

\* At most one cooling row: the unique index holds after every step.
LEMMA CoolingStep == Inv /\ [Next]_vars => AtMostOneCooling'
<1> SUFFICES ASSUME Inv, [Next]_vars PROVE AtMostOneCooling'
  OBVIOUS
<1> USE DEF Inv, TypeOK, AtMostOneCooling
<1>1. CASE UNCHANGED rows
  BY <1>1 DEF rows
<1>2. ASSUME NEW r \in Requests, NEW k \in Keys, InsertRequest(r, k)
      PROVE  AtMostOneCooling'
  BY <1>2 DEF InsertRequest
<1>3. ASSUME NEW h \in Handlers, StatusCool(h) PROVE AtMostOneCooling'
  BY <1>3 DEF StatusCool, rows, AnotherCooling, Lapsed
<1>4. ASSUME NEW r \in Requests, Complete(r) PROVE AtMostOneCooling'
  BY <1>4 DEF Complete
<1>5. ASSUME NEW r \in Requests, CancelRecovery(r) PROVE AtMostOneCooling'
  BY <1>5 DEF CancelRecovery
<1>6. QED
  BY <1>1, <1>2, <1>3, <1>4, <1>5, StatusSteps

\* A wallet with requests has a passkey, and one with a passkey a device key.
LEMMA KeyStep == Inv /\ [Next]_vars => KeyBeforeRequests'
<1> SUFFICES ASSUME Inv, [Next]_vars PROVE KeyBeforeRequests'
  OBVIOUS
<1> USE NoneIsNoValue DEF Inv, TypeOK, KeyBeforeRequests
<1>1. /\ passkey = "registered" => passkey' = "registered"
      /\ passkey' = "registered" => deviceKey' # None
  <2>1. CASE \E r \in Requests : Complete(r)
    BY <2>1 DEF Complete, Completable
  <2>2. CASE UNCHANGED vars
    BY <2>2 DEF vars
  <2>3. QED
    BY <2>1, <2>2
       DEF Next, Steps, Tick, RegisterDeviceKey, RegisterPasskey, RequestCreate,
           RequestCeremony, StatusRead, StatusConsume, StatusCool, CancelProve,
           CancelUpdate, Abandon, Approve, ManageCancel
<1>2. ASSUME NEW s \in Requests, status'[s] # "absent" PROVE passkey = "registered"
  <2>1. CASE UNCHANGED rows
    BY <1>2, <2>1 DEF rows
  <2>2. ASSUME NEW r \in Requests, Complete(r) PROVE status[s] # "absent"
    BY <1>2, <2>2 DEF Complete, Completable, EndedBy, Open
  <2>3. ASSUME NEW h \in Handlers, StatusCool(h) PROVE status[s] # "absent"
    BY <1>2, <2>3 DEF StatusCool, rows, Awaiting, Lapsed
  <2>4. ASSUME NEW r \in Requests, CancelRecovery(r) PROVE status[s] # "absent"
    BY <1>2, <2>4 DEF CancelRecovery, Open
  <2>5. QED
    BY <2>1, <2>2, <2>3, <2>4, StatusSteps
<1>3. QED
  BY <1>1, <1>2

\* A row is never deleted.
LEMMA RowsStay ==
    ASSUME Inv, [Next]_vars, NEW s \in Requests, status[s] # "absent"
    PROVE  status'[s] # "absent"
<1> USE DEF Inv, TypeOK
<1>1. CASE UNCHANGED rows
  BY <1>1 DEF rows
<1>2. ASSUME NEW r \in Requests, NEW k \in Keys, InsertRequest(r, k)
      PROVE  status'[s] # "absent"
  BY <1>2 DEF InsertRequest
<1>3. ASSUME NEW h \in Handlers, StatusCool(h) PROVE status'[s] # "absent"
  BY <1>3 DEF StatusCool, rows
<1>4. ASSUME NEW r \in Requests, Complete(r) PROVE status'[s] # "absent"
  BY <1>4 DEF Complete
<1>5. ASSUME NEW r \in Requests, CancelRecovery(r) PROVE status'[s] # "absent"
  BY <1>5 DEF CancelRecovery
<1>6. QED
  BY <1>1, <1>2, <1>3, <1>4, <1>5, StatusSteps

\* Where a handler's local state comes from: it is kept or moved on, or it is
\* set up for a request that has a row.
LEMMA TaskSteps ==
    ASSUME Inv, [Next]_vars, NEW h \in Handlers
    PROVE  \/ task'[h] = task[h]
           \/ task'[h] = Idle
           \/ /\ task[h].pc = "consume" /\ task'[h] = [task[h] EXCEPT !.pc = "cool"]
              /\ StatusConsume(h) /\ Usable(task[h].req)
           \/ \E r \in Requests, k \in Keys : RequestCreate(h, r, k)
                /\ task'[h] = [pc |-> "ceremony", req |-> r, by |-> None]
           \/ \E r \in Requests : StatusRead(h, r)
                /\ task'[h] = [pc |-> "consume", req |-> r, by |-> None]
           \/ \E r \in Requests : CancelProve(h, r)
                /\ \E k \in CancelSigners(r) :
                     task'[h] = [pc |-> "cancel", req |-> r, by |-> k]
<1> USE DEF Inv, TypeOK
<1>1. ASSUME NEW g \in Handlers, NEW r \in Requests, NEW k \in Keys, RequestCreate(g, r, k)
      PROVE  \/ task'[h] = task[h]
             \/ /\ RequestCreate(h, r, k)
                /\ task'[h] = [pc |-> "ceremony", req |-> r, by |-> None]
  BY <1>1 DEF RequestCreate, Begin
<1>2. ASSUME NEW g \in Handlers, NEW r \in Requests, StatusRead(g, r)
      PROVE  \/ task'[h] = task[h]
             \/ /\ StatusRead(h, r)
                /\ task'[h] = [pc |-> "consume", req |-> r, by |-> None]
  BY <1>2 DEF StatusRead, Begin
<1>3. ASSUME NEW g \in Handlers, NEW r \in Requests, CancelProve(g, r)
      PROVE  \/ task'[h] = task[h]
             \/ /\ CancelProve(h, r)
                /\ \E k \in CancelSigners(r) :
                     task'[h] = [pc |-> "cancel", req |-> r, by |-> k]
  BY <1>3 DEF CancelProve, Begin
<1>4. ASSUME NEW g \in Handlers, StatusConsume(g)
      PROVE  \/ task'[h] = task[h]
             \/ task'[h] = Idle
             \/ /\ task[h].pc = "consume" /\ task'[h] = [task[h] EXCEPT !.pc = "cool"]
                /\ StatusConsume(h) /\ Usable(task[h].req)
  BY <1>4 DEF StatusConsume, Continue, Finish
<1>5. ASSUME NEW g \in Handlers,
             RequestCeremony(g) \/ StatusCool(g) \/ CancelUpdate(g) \/ Abandon(g)
      PROVE  task'[h] = task[h] \/ task'[h] = Idle
  BY <1>5 DEF RequestCeremony, StatusCool, CancelUpdate, Abandon, Finish
<1>6. ASSUME UNCHANGED task PROVE task'[h] = task[h]
  BY <1>6
<1>7. QED
  BY <1>1, <1>2, <1>3, <1>4, <1>5, <1>6
     DEF Next, Steps, vars, Tick, RegisterDeviceKey, RegisterPasskey, Approve,
         Complete, ManageCancel

\* Rows, ceremonies and grants keep their order.
LEMMA RowFirstStep == Inv /\ [Next]_vars => RowFirst'
<1> SUFFICES ASSUME Inv, [Next]_vars PROVE RowFirst'
  OBVIOUS
<1> USE NoneIsNoValue, DurationsAreNaturals DEF Inv, TypeOK, RowFirst
<1>1. ASSUME NEW h \in Handlers, task'[h].pc # "idle"
      PROVE  status'[task'[h].req] # "absent"
  <2>1. CASE task'[h] = task[h]
    BY <1>1, <2>1, RowsStay
  <2>2. CASE task[h].pc = "consume" /\ task'[h] = [task[h] EXCEPT !.pc = "cool"]
    <3>1. task'[h].req = task[h].req
      BY <2>2 DEF Tasks
    <3>2. QED
      BY <2>2, <3>1, RowsStay
  <2>3. ASSUME NEW r \in Requests, NEW k \in Keys, RequestCreate(h, r, k),
               task'[h] = [pc |-> "ceremony", req |-> r, by |-> None]
        PROVE  status'[task'[h].req] # "absent"
    <3>1. task'[h].req = r
      BY <2>3
    <3>2. QED
      BY <2>3, <3>1 DEF RequestCreate, InsertRequest
  <2>4. ASSUME NEW r \in Requests, StatusRead(h, r),
               task'[h] = [pc |-> "consume", req |-> r, by |-> None]
        PROVE  status'[task'[h].req] # "absent"
    <3>1. task'[h].req = r
      BY <2>4
    <3>2. QED
      BY <2>4, <3>1, RowsStay DEF StatusRead, Awaiting
  <2>5. ASSUME NEW r \in Requests, CancelProve(h, r), NEW k \in CancelSigners(r),
               task'[h] = [pc |-> "cancel", req |-> r, by |-> k]
        PROVE  status'[task'[h].req] # "absent"
    <3>1. task'[h].req = r
      BY <2>5
    <3>2. QED
      BY <2>5, <3>1, RowsStay DEF CancelProve, Open
  <2>6. CASE task'[h] = Idle
    BY <1>1, <2>6 DEF Idle
  <2>7. QED
    BY <2>1, <2>2, <2>3, <2>4, <2>5, <2>6, TaskSteps
<1>2. ASSUME NEW r \in Requests, r \in ceremonies' PROVE status'[r] # "absent"
  <2>1. CASE r \in ceremonies
    BY <1>2, <2>1, RowsStay
  <2>2. ASSUME NEW h \in Handlers, RequestCeremony(h), r \notin ceremonies
        PROVE  status'[r] # "absent"
    BY <1>2, <2>2, RowsStay DEF RequestCeremony
  <2>3. QED
    BY <1>2, <2>1, <2>2
       DEF Next, Steps, vars, Tick, RegisterDeviceKey, RegisterPasskey, RequestCreate,
           StatusRead, StatusConsume, StatusCool, CancelProve, CancelUpdate, Abandon,
           Approve, Complete, ManageCancel
<1>3. ASSUME NEW r \in Requests, grant'[r].state # "none" PROVE status'[r] # "absent"
  <2>1. CASE grant[r].state # "none"
    BY <2>1, RowsStay
  <2>2. ASSUME Approve(r) PROVE status'[r] # "absent"
    BY <2>2, RowsStay DEF Approve, Time, Never
  <2>3. ASSUME NEW s \in Requests, Approve(s), s # r PROVE grant'[r] = grant[r]
    BY <2>3 DEF Approve
  <2>4. ASSUME NEW h \in Handlers, StatusConsume(h)
        PROVE  grant[r].state # "none"
    BY <1>3, <2>4 DEF StatusConsume, Usable, Grants
  <2>5. ASSUME UNCHANGED grant PROVE grant'[r] = grant[r]
    BY <2>5
  <2>6. QED
    BY <1>3, <2>1, <2>2, <2>3, <2>4, <2>5
       DEF Next, Steps, vars, Tick, RegisterDeviceKey, RegisterPasskey, RequestCreate,
           RequestCeremony, StatusRead, StatusCool, CancelProve, CancelUpdate, Abandon,
           Complete, ManageCancel
<1>4. ASSUME NEW s \in Requests, status'[s] \in {"absent", "awaiting_assertion"}
      PROVE  ready'[s] = Never
  <2>1. CASE UNCHANGED rows
    BY <1>4, <2>1 DEF rows
  <2>2. ASSUME NEW r \in Requests, NEW k \in Keys, status[r] = "absent", InsertRequest(r, k)
        PROVE  ready'[s] = Never
    BY <1>4, <2>2 DEF InsertRequest
  <2>3. ASSUME NEW h \in Handlers, StatusCool(h) PROVE ready'[s] = Never
    BY <1>4, <2>3 DEF StatusCool, rows
  <2>4. ASSUME NEW r \in Requests, Complete(r) PROVE ready'[s] = Never
    BY <1>4, <2>4 DEF Complete
  <2>5. ASSUME NEW r \in Requests, CancelRecovery(r) PROVE ready'[s] = Never
    BY <1>4, <2>5 DEF CancelRecovery
  <2>6. QED
    BY <2>1, <2>2, <2>3, <2>4, <2>5, StatusSteps
<1>5. QED
  BY <1>1, <1>2, <1>3, <1>4

-----------------------------------------------------------------------------

\* The clock only moves forward.
LEMMA ClockStep == Inv /\ [Next]_vars => now' >= now
<1> SUFFICES ASSUME Inv, [Next]_vars PROVE now' >= now
  OBVIOUS
<1> USE DurationsAreNaturals DEF Inv, TypeOK, Time
<1>1. CASE Tick
  BY <1>1 DEF Tick
<1>2. CASE UNCHANGED now
  BY <1>2
<1>3. QED
  BY <1>1, <1>2
     DEF Next, Steps, vars, RegisterDeviceKey, RegisterPasskey, RequestCreate,
         RequestCeremony, StatusRead, StatusConsume, StatusCool, CancelProve,
         CancelUpdate, Abandon, Approve, Complete, ManageCancel

\* An authorization is granted once, from now, and then consumed once.
LEMMA GrantSteps ==
    ASSUME Inv, [Next]_vars, NEW r \in Requests
    PROVE  \/ grant'[r] = grant[r]
           \/ /\ grant[r].state = "none"
              /\ grant'[r].state = "granted"
              /\ grant'[r].expires = now + AuthTtl
              /\ UNCHANGED <<now, rows>>
           \/ /\ grant[r].state = "granted"
              /\ grant'[r].state = "consumed"
              /\ grant'[r].expires = grant[r].expires
              /\ UNCHANGED <<now, rows>>
<1> USE DEF Inv, TypeOK
<1>1. ASSUME NEW s \in Requests, Approve(s)
      PROVE  \/ grant'[r] = grant[r]
             \/ /\ grant[r].state = "none"
                /\ grant'[r].state = "granted"
                /\ grant'[r].expires = now + AuthTtl
  BY <1>1 DEF Approve
<1>2. ASSUME NEW h \in Handlers, StatusConsume(h)
      PROVE  \/ grant'[r] = grant[r]
             \/ /\ grant[r].state = "granted"
                /\ grant'[r].state = "consumed"
                /\ grant'[r].expires = grant[r].expires
  BY <1>2 DEF StatusConsume, Usable, Grants
<1>3. CASE UNCHANGED grant
  BY <1>3
<1>4. CASE \E s \in Requests : Approve(s)
  BY <1>1, <1>4 DEF Approve
<1>5. CASE \E h \in Handlers : StatusConsume(h)
  BY <1>2, <1>5 DEF StatusConsume
<1>6. QED
  BY <1>3, <1>4, <1>5
     DEF Next, Steps, vars, Tick, RegisterDeviceKey, RegisterPasskey, RequestCreate,
         RequestCeremony, StatusRead, StatusCool, CancelProve, CancelUpdate, Abandon,
         Complete, ManageCancel

\* A consumed authorization is never touched again.
LEMMA ConsumedStays ==
    ASSUME Inv, [Next]_vars, NEW r \in Requests, grant[r].state = "consumed"
    PROVE  grant'[r] = grant[r]
BY GrantSteps

\* Every wait is approved and full, after every step.
LEMMA WaitStep == Inv /\ [Next]_vars => WaitIsApproved'
<1> SUFFICES ASSUME Inv, [Next]_vars PROVE WaitIsApproved'
  OBVIOUS
<1> USE NoneIsNoValue, DurationsAreNaturals DEF Inv, TypeOK, WaitIsApproved
<1>1. ASSUME NEW h \in Handlers, task'[h].pc = "cool"
      PROVE  grant'[task'[h].req].state = "consumed"
  <2>1. CASE task'[h] = task[h]
    BY <1>1, <2>1, ConsumedStays
  <2>2. CASE StatusConsume(h) /\ Usable(task[h].req) /\ task[h].pc = "consume"
             /\ task'[h] = [task[h] EXCEPT !.pc = "cool"]
    <3>1. task'[h].req = task[h].req
      BY <2>2 DEF Tasks
    <3>2. grant'[task[h].req].state = "consumed"
      BY <2>2 DEF StatusConsume, Grants
    <3>3. QED
      BY <3>1, <3>2
  <2>3. ASSUME NEW r \in Requests, NEW k, NEW pc \in {"ceremony", "consume", "cancel"},
               task'[h] = [pc |-> pc, req |-> r, by |-> k]
        PROVE  FALSE
    <3>1. task'[h].pc = pc
      BY <2>3
    <3>2. QED
      BY <1>1, <2>3, <3>1
  <2>4. CASE task'[h] = Idle
    BY <1>1, <2>4 DEF Idle
  <2>5. QED
    BY <2>1, <2>2, <2>3, <2>4, TaskSteps
<1>2. ASSUME NEW r \in Requests, grant'[r].state # "none"
      PROVE  grant'[r].expires - AuthTtl <= now'
  <2>1. now' \in Int /\ grant[r].expires \in Int /\ now \in Int /\ now <= now'
    BY ClockStep, TypeStep DEF Time, Grants
  <2>2. QED
    BY <1>2, <2>1, GrantSteps
<1>3. ASSUME NEW s \in Requests, status'[s] \in {"cooling", "completed"}
      PROVE  /\ grant'[s].state = "consumed"
             /\ ready'[s] >= (grant'[s].expires - AuthTtl) + Cooling
  <2>1. ASSUME status[s] \in {"cooling", "completed"}, ready'[s] = ready[s]
        PROVE  /\ grant'[s].state = "consumed"
               /\ ready'[s] >= (grant'[s].expires - AuthTtl) + Cooling
    BY <2>1, ConsumedStays
  <2>2. CASE UNCHANGED rows
    BY <1>3, <2>1, <2>2 DEF rows
  <2>3. ASSUME NEW r \in Requests, NEW k \in Keys, InsertRequest(r, k)
        PROVE  status[s] \in {"cooling", "completed"} /\ ready'[s] = ready[s]
    BY <1>3, <2>3 DEF InsertRequest
  <2>4. ASSUME NEW h \in Handlers, StatusCool(h)
        PROVE  \/ status[s] \in {"cooling", "completed"} /\ ready'[s] = ready[s]
               \/ /\ grant'[s].state = "consumed"
                  /\ ready'[s] >= (grant'[s].expires - AuthTtl) + Cooling
    <3>1. CASE UNCHANGED rows
      BY <1>3, <3>1 DEF rows
    <3>2. CASE s # task[h].req /\ ~ UNCHANGED rows
      BY <1>3, <2>4, <3>2 DEF StatusCool
    <3>3. CASE s = task[h].req /\ ~ UNCHANGED rows
      <4>1. ready'[s] = now + Cooling /\ grant'[s] = grant[s]
        BY <2>4, <3>3 DEF StatusCool
      <4>2. grant[s].state = "consumed" /\ grant[s].expires - AuthTtl <= now
        BY <2>4, <3>3 DEF StatusCool
      <4>3. grant[s].expires \in Int /\ now \in Int
        BY DEF Grants, Time
      <4>4. QED
        BY <4>1, <4>2, <4>3
    <3>4. QED
      BY <3>1, <3>2, <3>3
  <2>5. ASSUME NEW r \in Requests, Complete(r)
        PROVE  status[s] \in {"cooling", "completed"} /\ ready'[s] = ready[s]
    BY <1>3, <2>5 DEF Complete, Completable
  <2>6. ASSUME NEW r \in Requests, CancelRecovery(r)
        PROVE  status[s] \in {"cooling", "completed"} /\ ready'[s] = ready[s]
    BY <1>3, <2>6 DEF CancelRecovery
  <2>7. QED
    BY <2>1, <2>2, <2>3, <2>4, <2>5, <2>6, StatusSteps
<1>4. ASSUME NEW s \in Requests, status'[s] = "completed"
      PROVE  completedAt'[s] >= ready'[s]
  <2>1. ASSUME status[s] = "completed", UNCHANGED <<completedAt[s], ready[s]>>
        PROVE  completedAt'[s] >= ready'[s]
    BY <2>1
  <2>2. CASE UNCHANGED rows
    BY <1>4, <2>1, <2>2 DEF rows
  <2>3. ASSUME NEW r \in Requests, NEW k \in Keys, InsertRequest(r, k)
        PROVE  completedAt'[s] >= ready'[s]
    BY <1>4, <2>1, <2>3 DEF InsertRequest
  <2>4. ASSUME NEW h \in Handlers, StatusCool(h) PROVE completedAt'[s] >= ready'[s]
    BY <1>4, <2>1, <2>4 DEF StatusCool, Awaiting, rows
  <2>5. ASSUME NEW r \in Requests, Complete(r) PROVE completedAt'[s] >= ready'[s]
    <3>1. CASE s = r
      BY <2>5, <3>1 DEF Complete, Completable, Time
    <3>2. CASE s # r
      BY <1>4, <2>1, <2>5, <3>2 DEF Complete
    <3>3. QED
      BY <3>1, <3>2
  <2>6. ASSUME NEW r \in Requests, CancelRecovery(r) PROVE completedAt'[s] >= ready'[s]
    BY <1>4, <2>1, <2>6 DEF CancelRecovery
  <2>7. QED
    BY <2>2, <2>3, <2>4, <2>5, <2>6, StatusSteps
<1>5. QED
  BY <1>1, <1>2, <1>3, <1>4

-----------------------------------------------------------------------------

\* A request that is open after a step was just made, or was open before it;
\* and the step is no takeover, for a takeover ends every open request.
LEMMA OpenSteps ==
    ASSUME Inv, [Next]_vars, NEW s \in Requests, Open(s)'
    PROVE  /\ deviceKey # None => deviceKey' = deviceKey
           /\ \/ status[s] = "absent" /\ created'[s] = now /\ now' = now
              \/ Open(s) /\ created'[s] = created[s] /\ newKey'[s] = newKey[s]
           /\ \A r \in Requests : status'[r] = "completed" =>
                status[r] = "completed" /\ completedAt'[r] = completedAt[r]
<1> USE DEF Inv, TypeOK, Open
<1>1. ASSUME NEW r \in Requests, Complete(r) PROVE FALSE
  BY <1>1 DEF Complete, EndedBy
<1>2. deviceKey # None => deviceKey' = deviceKey
  BY <1>1
     DEF Next, Steps, vars, Tick, RegisterDeviceKey, RegisterPasskey, RequestCreate,
         RequestCeremony, StatusRead, StatusConsume, StatusCool, CancelProve,
         CancelUpdate, Abandon, Approve, ManageCancel
<1>3. CASE UNCHANGED rows
  BY <1>2, <1>3 DEF rows
<1>4. ASSUME NEW r \in Requests, NEW k \in Keys, status[r] = "absent",
             InsertRequest(r, k), now' = now
      PROVE  /\ \/ status[s] = "absent" /\ created'[s] = now
                \/ Open(s) /\ created'[s] = created[s] /\ newKey'[s] = newKey[s]
             /\ \A q \in Requests : status'[q] = "completed" =>
                  status[q] = "completed" /\ completedAt'[q] = completedAt[q]
  BY <1>4 DEF InsertRequest
<1>5. ASSUME NEW h \in Handlers, StatusCool(h)
      PROVE  /\ Open(s) /\ created'[s] = created[s] /\ newKey'[s] = newKey[s]
             /\ \A q \in Requests : status'[q] = "completed" =>
                  status[q] = "completed" /\ completedAt'[q] = completedAt[q]
  <2>1. CASE UNCHANGED rows
    BY <2>1 DEF rows
  <2>2. CASE ~ UNCHANGED rows
    BY <1>5, <2>2 DEF StatusCool, Awaiting
  <2>3. QED
    BY <2>1, <2>2
<1>6. ASSUME NEW r \in Requests, CancelRecovery(r)
      PROVE  /\ Open(s) /\ created'[s] = created[s] /\ newKey'[s] = newKey[s]
             /\ \A q \in Requests : status'[q] = "completed" =>
                  status[q] = "completed" /\ completedAt'[q] = completedAt[q]
  BY <1>6 DEF CancelRecovery
<1>7. QED
  BY <1>1, <1>2, <1>3, <1>4, <1>5, <1>6, StatusSteps

\* A step leaves a completed row alone, or it is the takeover of that row.
LEMMA CompletedSteps ==
    ASSUME Inv, [Next]_vars, NEW r \in Requests, status'[r] = "completed"
    PROVE  \/ /\ status[r] = "completed"
              /\ completedAt'[r] = completedAt[r]
              /\ created'[r] = created[r]
           \/ Complete(r)
<1> USE DEF Inv, TypeOK
<1>1. CASE UNCHANGED rows
  BY <1>1 DEF rows
<1>2. ASSUME NEW s \in Requests, NEW k \in Keys, status[s] = "absent", InsertRequest(s, k)
      PROVE  /\ status[r] = "completed"
             /\ completedAt'[r] = completedAt[r]
             /\ created'[r] = created[r]
  BY <1>2 DEF InsertRequest
<1>3. ASSUME NEW h \in Handlers, StatusCool(h)
      PROVE  /\ status[r] = "completed"
             /\ completedAt'[r] = completedAt[r]
             /\ created'[r] = created[r]
  BY <1>3 DEF StatusCool, rows
<1>4. ASSUME NEW s \in Requests, Complete(s), s # r
      PROVE  /\ status[r] = "completed"
             /\ completedAt'[r] = completedAt[r]
             /\ created'[r] = created[r]
  BY <1>4 DEF Complete
<1>5. ASSUME NEW s \in Requests, CancelRecovery(s)
      PROVE  /\ status[r] = "completed"
             /\ completedAt'[r] = completedAt[r]
             /\ created'[r] = created[r]
  BY <1>5 DEF CancelRecovery
<1>6. QED
  BY <1>1, <1>2, <1>3, <1>4, <1>5, StatusSteps

\* Open requests stay newer than every takeover.
LEMMA NewerStep == Inv /\ [Next]_vars => OpenIsNewer'
<1> SUFFICES ASSUME Inv, [Next]_vars PROVE OpenIsNewer'
  OBVIOUS
<1> USE DEF Inv, TypeOK, OpenIsNewer
<1>1. ASSUME NEW r \in Requests, status'[r] = "completed" PROVE completedAt'[r] <= now'
  <2>1. now \in Int /\ now' \in Int /\ now <= now'
    BY ClockStep, TypeStep DEF Time
  <2>2. CASE Complete(r)
    BY <2>1, <2>2 DEF Complete
  <2>3. QED
    BY <1>1, <2>1, <2>2, CompletedSteps
<1>2. ASSUME NEW r \in Requests, NEW s \in Requests, status'[r] = "completed", Open(s)'
      PROVE  completedAt'[r] <= created'[s]
  BY <1>2, OpenSteps
<1>3. QED
  BY <1>1, <1>2 DEF Open

\* A takeover does not overlap an earlier one.
LEMMA OverlapStep == Inv /\ [Next]_vars => TakeoversDoNotOverlap'
<1> SUFFICES ASSUME Inv, [Next]_vars,
                    NEW r \in Requests, NEW s \in Requests, r # s,
                    status'[r] = "completed", status'[s] = "completed"
             PROVE  completedAt'[r] <= created'[s] \/ completedAt'[s] <= created'[r]
  BY DEF TakeoversDoNotOverlap
<1> USE DEF Inv, TypeOK
<1>1. ASSUME NEW p \in Requests, NEW q \in Requests, p # q,
             status'[q] = "completed", Complete(p)
      PROVE  completedAt'[q] <= created'[p]
  <2>1. status[q] = "completed" /\ completedAt'[q] = completedAt[q]
    BY <1>1 DEF Complete
  <2>2. Open(p) /\ created'[p] = created[p]
    BY <1>1 DEF Complete, Completable, Open
  <2>3. QED
    BY <2>1, <2>2 DEF OpenIsNewer
<1>2. CASE Complete(r) \/ Complete(s)
  BY <1>1, <1>2
<1>3. CASE ~ (Complete(r) \/ Complete(s))
  BY <1>3, CompletedSteps DEF TakeoversDoNotOverlap
<1>4. QED
  BY <1>2, <1>3

\* A cancel in flight never outlives the key that signed it.
LEMMA CancelStep == Inv /\ [Next]_vars => NoStaleCancel'
<1> SUFFICES ASSUME Inv, [Next]_vars, NEW h \in Handlers,
                    task'[h].pc = "cancel", Open(task[h].req)'
             PROVE  task'[h].by \in CancelSigners(task[h].req)'
  BY DEF NoStaleCancel
<1> USE DEF Inv, TypeOK
<1>1. CASE task'[h] = task[h]
  <2>1. PICK r \in Requests : r = task[h].req /\ r = task'[h].req
    BY <1>1
  <2>2. status[r] # "absent" /\ Open(r)' /\ deviceKey # None
    BY <1>1, <2>1 DEF RowFirst, KeyBeforeRequests, Open
  <2>3. deviceKey' = deviceKey /\ newKey'[r] = newKey[r] /\ Open(r)
    BY <2>2, OpenSteps
  <2>4. task[h].by \in CancelSigners(r)
    BY <1>1, <2>1, <2>3 DEF NoStaleCancel
  <2>5. QED
    BY <1>1, <2>1, <2>3, <2>4 DEF CancelSigners
<1>2. ASSUME NEW r \in Requests, CancelProve(h, r), NEW k \in CancelSigners(r),
             task'[h] = [pc |-> "cancel", req |-> r, by |-> k]
      PROVE  task'[h].by \in CancelSigners(task[h].req)'
  <2>1. task'[h].req = r /\ task'[h].by = k
    BY <1>2
  <2>2. QED
    BY <1>2, <2>1 DEF CancelProve, CancelSigners, rows
<1>3. ASSUME NEW r \in Requests, NEW pc \in {"ceremony", "consume"},
             task'[h] = [pc |-> pc, req |-> r, by |-> None]
      PROVE  FALSE
  <2>1. task'[h].pc = pc
    BY <1>3
  <2>2. QED
    BY <1>3, <2>1
<1>4. CASE task'[h] = Idle
  BY <1>4 DEF Idle
<1>5. CASE task'[h] = [task[h] EXCEPT !.pc = "cool"]
  BY <1>5 DEF Tasks
<1>6. QED
  BY <1>1, <1>2, <1>3, <1>4, <1>5, TaskSteps

-----------------------------------------------------------------------------

\* Inv is inductive.
LEMMA InvStep == Inv /\ [Next]_vars => Inv'
BY TypeStep, KeyStep, RowFirstStep, WaitStep, CoolingStep, NewerStep, OverlapStep,
   CancelStep DEF Inv

\* Inv holds in every reachable state of the server.
LEMMA InvAlways == Spec => []Inv
BY InitInv, InvStep, PTL DEF Spec

\* The tables and handlers keep their types, rows always carry a key, and a
\* handler in flight always has its request: for any number of each.
THEOREM TypeCorrect == Spec => []TypeOK
BY InvAlways, PTL DEF Inv

\* The unique index recovery_one_cooling never has to refuse a second row
\* that start_recovery_cooling() let through: at most one request waits.
THEOREM OneCooling == Spec => []AtMostOneCooling
BY InvAlways, PTL DEF Inv

\* recovery.rs: a key takes over only after its own request's assertion was
\* verified and the full cooling-off period has passed since.
THEOREM FullWait == Spec => []FullWaitAfterApproval
<1>1. Inv => FullWaitAfterApproval
  <2> SUFFICES ASSUME Inv, NEW r \in Requests, status[r] = "completed"
               PROVE  /\ grant[r].state = "consumed"
                      /\ completedAt[r] >= (grant[r].expires - AuthTtl) + Cooling
    BY DEF FullWaitAfterApproval
  <2>1. grant[r].expires \in Int /\ ready[r] \in Int /\ completedAt[r] \in Int
    BY DEF Inv, TypeOK, Grants
  <2>2. QED
    BY <2>1, DurationsAreNaturals DEF Inv, WaitIsApproved
<1>2. QED
  BY <1>1, InvAlways, PTL

\* complete_recovery() ends every other open request, so the requests that
\* took over follow one another in time.
THEOREM NoOverlap == Spec => []TakeoversDoNotOverlap
BY InvAlways, PTL DEF Inv

\* cancel() checks its proof and updates the row in two transactions; no
\* takeover in between leaves the row open for the update.
THEOREM CancelsAreCurrent == Spec => []NoStaleCancel
BY InvAlways, PTL DEF Inv

-----------------------------------------------------------------------------
(* The hourly limit, and what is listed at a takeover                       *)

\* The requests ever made, and those of the hour that begins at t.
Made == {r \in Requests : status[r] # "absent"}
MadeIn(t) == {r \in Requests : created[r] \in t..(t + Hour)}

\* Requests are made one by one, so there are finitely many, each with its
\* time, and every stretch of an hour keeps to the limit.
Counted ==
    /\ IsFiniteSet(Made)
    /\ \A r \in Requests : created[r] # Never => r \in Made
    /\ HourlyLimit

\* Nothing has been made.
LEMMA CountedInit == Init => Counted
<1> SUFFICES ASSUME Init PROVE Counted
  OBVIOUS
<1>1. Made = {}
  BY DEF Init, Made
<1>2. ASSUME NEW t \in Time PROVE MadeIn(t) = {}
  BY DurationsAreNaturals DEF Init, MadeIn, Never, Time
<1>3. HourlyLimit
  BY <1>2, FS_EmptySet, DurationsAreNaturals DEF HourlyLimit, MadeIn
<1>4. QED
  BY <1>1, <1>3, FS_EmptySet DEF Init, Counted

\* No row comes into being and no time of creation changes but with a request.
LEMMA MadeSteps ==
    ASSUME Inv, [Next]_vars
    PROVE  \/ Made' = Made /\ UNCHANGED created
           \/ \E h \in Handlers, r \in Requests, k \in Keys : RequestCreate(h, r, k)
<1> USE DEF Inv, TypeOK, Made
<1>1. CASE UNCHANGED rows
  BY <1>1 DEF rows
<1>2. ASSUME NEW h \in Handlers, StatusCool(h) PROVE Made' = Made /\ UNCHANGED created
  BY <1>2 DEF StatusCool, rows, Awaiting, Lapsed
<1>3. ASSUME NEW r \in Requests, Complete(r) PROVE Made' = Made /\ UNCHANGED created
  BY <1>3 DEF Complete, Completable, EndedBy, Open
<1>4. ASSUME NEW r \in Requests, CancelRecovery(r) PROVE Made' = Made /\ UNCHANGED created
  BY <1>4 DEF CancelRecovery, Open
<1>5. QED
  BY <1>1, <1>2, <1>3, <1>4
     DEF Next, Steps, vars, Tick, RegisterDeviceKey, RegisterPasskey, RequestCeremony,
         StatusRead, StatusConsume, CancelProve, CancelUpdate, Abandon, Approve, ManageCancel

\* A set with room left has room for one more element of a part of it.
LEMMA OneMore ==
    ASSUME NEW R, IsFiniteSet(R), NEW S \in SUBSET R, NEW x, NEW n \in Nat, Cardinality(R) < n
    PROVE  Cardinality(S \union {x}) <= n
<1>1. Cardinality(R) \in Nat
  BY FS_CardinalityType
<1>2. IsFiniteSet(S) /\ Cardinality(S) <= Cardinality(R)
  BY FS_Subset
<1>3. Cardinality(S) \in Nat
  BY <1>2, FS_CardinalityType
<1>4. Cardinality(S \union {x}) \in {Cardinality(S), Cardinality(S) + 1}
  BY <1>2, FS_AddElement
<1>5. QED
  BY <1>1, <1>2, <1>3, <1>4

\* A new request joins the hours that contain this moment.  The others in
\* such an hour are no older than an hour, so the statement counted them.
LEMMA CreateCounts ==
    ASSUME Inv, Counted, NEW h \in Handlers, NEW r \in Requests, NEW k \in Keys,
           RequestCreate(h, r, k)
    PROVE  Counted'
<1>1. /\ created'[r] = now /\ created[r] = Never /\ r \in Made'
      /\ \A s \in Requests : s # r => created'[s] = created[s]
      /\ Made' = Made \union {r}
  BY DEF RequestCreate, InsertRequest, Inv, TypeOK, Counted, Made
<1>2. now \in Nat /\ Hour \in Nat /\ MaxPerHour \in Nat /\ \A s \in Requests : created[s] \in Int
  BY DurationsAreNaturals DEF Inv, TypeOK, Time
<1>3. IsFiniteSet(RecentRequests) /\ Cardinality(RecentRequests) < MaxPerHour
  <2>1. RecentRequests \in SUBSET Made
    BY DEF RecentRequests, Made
  <2>2. QED
    BY <2>1, FS_Subset DEF Counted, RequestCreate
<1>4. ASSUME NEW t \in Time PROVE Cardinality(MadeIn(t)') <= MaxPerHour
  <2>0. t \in Nat
    BY DurationsAreNaturals DEF Time
  <2>1. CASE now \notin t..(t + Hour)
    <3>1. MadeIn(t)' = MadeIn(t)
      BY <1>1, <1>2, <2>0, <2>1 DEF MadeIn, Never
    <3>2. QED
      BY <3>1 DEF Counted, HourlyLimit, MadeIn
  <2>2. CASE now \in t..(t + Hour)
    <3>1. MadeIn(t) \in SUBSET RecentRequests
      BY <1>2, <2>0, <2>2 DEF MadeIn, RecentRequests, Counted, Made, Never
    <3>2. MadeIn(t)' = MadeIn(t) \union {r}
      BY <1>1, <2>2 DEF MadeIn
    <3>3. QED
      BY <1>2, <1>3, <3>1, <3>2, OneMore
  <2>3. QED
    BY <2>1, <2>2
<1>5. HourlyLimit'
  BY <1>4 DEF HourlyLimit, MadeIn
<1>6. IsFiniteSet(Made')
  BY <1>1, FS_AddElement DEF Counted
<1>7. \A s \in Requests : created'[s] # Never => s \in Made'
  BY <1>1 DEF Counted
<1>8. QED
  BY <1>5, <1>6, <1>7 DEF Counted

\* recovery.rs: the rate limit counts every request of the hour, so that
\* cancelling or finishing some does not make room for more.
THEOREM LimitHolds == Spec => []HourlyLimit
<1>1. Inv /\ Counted /\ [Next]_vars => Counted'
  <2>1. ASSUME Counted, Made' = Made, UNCHANGED created PROVE Counted'
    BY <2>1 DEF Counted, HourlyLimit
  <2>2. QED
    BY <2>1, MadeSteps, CreateCounts
<1>2. Counted => HourlyLimit
  BY DEF Counted
<1>3. QED
  BY <1>1, <1>2, CountedInit, InvAlways, PTL DEF Spec

\* live_recoveries() is what pending() and the management page show, and
\* complete_recovery() takes a row only while it is on that list.
THEOREM TakeoversAreListed == Spec => TakeoverWasListed
<1>1. Inv /\ [Next]_vars =>
        [deviceKey # None /\ deviceKey' # deviceKey =>
           \E r \in LiveRecoveries : deviceKey' = newKey[r]]_vars
  <2> SUFFICES ASSUME Inv, Next, deviceKey # None, deviceKey' # deviceKey
               PROVE  \E r \in LiveRecoveries : deviceKey' = newKey[r]
    OBVIOUS
  <2>1. PICK r \in Requests : Complete(r)
    BY DEF Next, Steps, Tick, RegisterDeviceKey, RegisterPasskey, RequestCreate,
       RequestCeremony, StatusRead, StatusConsume, StatusCool, CancelProve, CancelUpdate,
       Approve, ManageCancel, Abandon
  <2>2. r \in LiveRecoveries
    BY <2>1, DurationsAreNaturals DEF Complete, Completable, LiveRecoveries, Inv, TypeOK, Time
  <2>3. QED
    BY <2>1, <2>2 DEF Complete
<1>2. QED
  BY <1>1, InvAlways, PTL DEF Spec, TakeoverWasListed

-----------------------------------------------------------------------------
(* Recovery implements DeviceKeyCustody                                     *)

Approved == {r \in Requests : grant[r].state # "none"}
ClaimOf == [r \in Requests |-> Claim(r)]

\* A row whose columns stay is the same claim.
LEMMA SameClaim ==
    ASSUME NEW r \in Requests,
           UNCHANGED <<status[r], newKey[r], expires[r], ready[r]>>
    PROVE  Claim(r)' = Claim(r)
BY DEF Claim, Phase, Waited

\* Rows that stay make up the same claims.
LEMMA SameClaims == ASSUME UNCHANGED rows PROVE ClaimOf' = ClaimOf
BY DEF ClaimOf, rows, Claim, Phase, Waited

\* Only Approve adds to the approved claims, and nothing takes from them.
LEMMA ApprovedSteps ==
    ASSUME Inv, [Next]_vars
    PROVE  \/ Approved' = Approved
           \/ \E r \in Requests : Approve(r) /\ Approved' = Approved \union {r}
<1> USE DEF Inv, TypeOK, Approved
<1>1. ASSUME NEW r \in Requests, Approve(r) PROVE Approved' = Approved \union {r}
  BY <1>1 DEF Approve
<1>2. CASE UNCHANGED grant
  BY <1>2
<1>3. ASSUME NEW h \in Handlers, StatusConsume(h) PROVE Approved' = Approved
  BY <1>3 DEF StatusConsume, Usable, Grants
<1>4. QED
  BY <1>1, <1>2, <1>3
     DEF Next, Steps, vars, Tick, RegisterDeviceKey, RegisterPasskey, RequestCreate,
         RequestCeremony, StatusRead, StatusCool, CancelProve, CancelUpdate, Abandon,
         Complete, ManageCancel

\* An inserted row is a claim asked for.
LEMMA AskStep ==
    ASSUME Inv, NEW r \in Requests, NEW k \in Keys, status[r] = "absent",
           InsertRequest(r, k), UNCHANGED <<now, deviceKey>>, Approved' = Approved
    PROVE  Custody!Ask(r, k)
<1> USE DEF Inv, TypeOK, RowFirst, InsertRequest
<1>1. ready[r] = Never /\ ready'[r] = Never
  OBVIOUS
<1>2. Claim(r).phase = "absent"
  BY DEF Claim, Phase
<1>3. Claim(r)' = [phase |-> "asked", key |-> k, ready |-> 0, until |-> 0]
  BY <1>1 DEF Claim, Phase, Waited
<1>4. ASSUME NEW s \in Requests, s # r PROVE Claim(s)' = Claim(s)
  BY <1>4, SameClaim
<1>5. ClaimOf' = [ClaimOf EXCEPT ![r] = [phase |-> "asked", key |-> k, ready |-> 0, until |-> 0]]
  BY <1>3, <1>4 DEF ClaimOf
<1>6. QED
  BY <1>2, <1>5 DEF Custody!Ask, ClaimOf, Approved

\* Starting the cooling-off period is a claim beginning its wait, or nothing.
LEMMA BeginStep ==
    ASSUME Inv, NEW h \in Handlers, StatusCool(h)
    PROVE  Custody!Begin(task[h].req) \/ UNCHANGED Custody!vars
<1> USE NoneIsNoValue, DurationsAreNaturals DEF Inv, TypeOK
<1>0. PICK r \in Requests : r = task[h].req
  BY DEF StatusCool
<1>1. CASE UNCHANGED rows
  <2>1. ClaimOf' = ClaimOf
    BY <1>1, SameClaims
  <2>2. QED
    BY <2>1 DEF StatusCool, Custody!vars, ClaimOf
<1>2. CASE ~ UNCHANGED rows
  <2>1. /\ status[r] = "awaiting_assertion" /\ ~ AnotherCooling(r)
        /\ status' = [s \in Requests |->
                        IF s = r THEN "cooling"
                        ELSE IF Lapsed(s) THEN "expired" ELSE status[s]]
        /\ ready' = [ready EXCEPT ![r] = now + Cooling]
        /\ expires' = [expires EXCEPT ![r] = now + Cooling + Window]
        /\ UNCHANGED <<newKey, now, deviceKey, grant>>
    BY <1>0, <1>2 DEF StatusCool, Awaiting
  <2>2. Claim(r).phase = "asked" /\ Claim(r).key = newKey[r]
    BY <2>1 DEF Claim, Phase
  <2>3. r \in Approved
    BY <1>0 DEF Approved, WaitIsApproved, StatusCool
  <2>4. ASSUME NEW s \in Requests, Claim(s).phase = "waiting" PROVE ~ (now <= Claim(s).until)
    <3>1. status[s] = "cooling"
      BY <2>4 DEF Claim, Phase, Statuses
    <3>2. s # r /\ Lapsed(s)
      BY <2>1, <3>1 DEF AnotherCooling
    <3>3. Claim(s).until = expires[s]
      BY <3>1 DEF Claim, Waited
    <3>4. QED
      BY <3>2, <3>3 DEF Lapsed, Time
  <2>5. Claim(r)' = [phase |-> "waiting", key |-> Claim(r).key,
                     ready |-> now + Cooling, until |-> now + Cooling + Window]
    <3>1. ready'[r] # Never
      BY <2>1 DEF Never, Time
    <3>2. QED
      BY <2>1, <2>2, <3>1 DEF Claim, Phase, Waited
  <2>6. ASSUME NEW s \in Requests, s # r
        PROVE  Claim(s)' = IF Claim(s).phase = "waiting"
                           THEN [Claim(s) EXCEPT !.phase = "over"] ELSE Claim(s)
    <3>1. UNCHANGED <<newKey[s], ready[s], expires[s]>>
      BY <2>1, <2>6
    <3>2. CASE status[s] = "cooling"
      <4>1. status'[s] = "expired"
        BY <2>1, <2>6, <3>2 DEF AnotherCooling
      <4>2. Claim(s)' = [Claim(s) EXCEPT !.phase = "over"] /\ Claim(s).phase = "waiting"
        BY <3>1, <3>2, <4>1 DEF Claim, Phase, Waited
      <4>3. QED
        BY <4>2
    <3>3. CASE status[s] # "cooling"
      <4>1. status'[s] = status[s]
        BY <2>1, <2>6, <3>3 DEF Lapsed
      <4>2. Claim(s)' = Claim(s)
        BY <3>1, <4>1, SameClaim
      <4>3. Claim(s).phase # "waiting"
        BY <3>3 DEF Claim, Phase, Statuses
      <4>4. QED
        BY <4>2, <4>3
    <3>4. QED
      BY <3>2, <3>3
  <2>7. QED
    BY <1>0, <2>1, <2>2, <2>3, <2>4, <2>5, <2>6
       DEF Custody!Begin, Custody!Alive, Approved
<1>3. QED
  BY <1>1, <1>2

\* A completion is a claim taking the key over.
LEMMA TakeOverStep ==
    ASSUME Inv, NEW r \in Requests, Complete(r)
    PROVE  Custody!TakeOver(r)
<1> USE DEF Inv, TypeOK
<1>1. /\ status[r] = "cooling" /\ ready[r] <= now /\ now <= expires[r]
      /\ UNCHANGED <<newKey, ready, expires, now, grant>>
      /\ status' = [s \in Requests |->
                      IF s = r THEN "completed"
                      ELSE IF s \in EndedBy(r) THEN "cancelled" ELSE status[s]]
      /\ deviceKey' = newKey[r]
  BY DEF Complete, Completable, Time
<1>2. /\ Claim(r).phase = "waiting" /\ Claim(r).key = newKey[r]
      /\ Claim(r).ready = ready[r] /\ Claim(r).until = expires[r]
  BY <1>1 DEF Claim, Phase, Waited
<1>3. Claim(r)' = [Claim(r) EXCEPT !.phase = "taken"]
  BY <1>1 DEF Claim, Phase, Waited
<1>4. ASSUME NEW s \in Requests, s # r
      PROVE  Claim(s)' = IF Claim(s).phase \in {"asked", "waiting"}
                         THEN [Claim(s) EXCEPT !.phase = "over"] ELSE Claim(s)
  <2>1. CASE Open(s)
    <3>1. status'[s] = "cancelled"
      BY <1>1, <1>4, <2>1 DEF EndedBy
    <3>2. Claim(s)' = [Claim(s) EXCEPT !.phase = "over"]
      BY <1>1, <3>1 DEF Claim, Phase, Waited
    <3>3. Claim(s).phase \in {"asked", "waiting"}
      BY <2>1 DEF Open, Claim, Phase
    <3>4. QED
      BY <3>2, <3>3
  <2>2. CASE ~ Open(s)
    <3>1. Claim(s)' = Claim(s)
      BY <1>1, <1>4, <2>2, SameClaim DEF EndedBy
    <3>2. Claim(s).phase \notin {"asked", "waiting"}
      BY <2>2 DEF Open, Claim, Phase, Statuses
    <3>3. QED
      BY <3>1, <3>2
  <2>3. QED
    BY <2>1, <2>2
<1>5. QED
  BY <1>1, <1>2, <1>3, <1>4 DEF Custody!TakeOver, Custody!Alive

\* A cancel is an objection, or came too late and changes nothing.
LEMMA ObjectStep ==
    ASSUME Inv, NEW r \in Requests, CancelRecovery(r),
           UNCHANGED <<now, deviceKey>>, Approved' = Approved
    PROVE  Custody!Object(r) \/ UNCHANGED Custody!vars
<1> USE DEF Inv, TypeOK, CancelRecovery
<1>1. CASE ~ Open(r)
  <2>1. ClaimOf' = ClaimOf
    BY <1>1, SameClaims DEF rows
  <2>2. QED
    BY <2>1 DEF Custody!vars, ClaimOf, Approved
<1>2. CASE Open(r)
  <2>1. Claim(r).phase \in {"asked", "waiting"}
    BY <1>2 DEF Open, Claim, Phase
  <2>2. Claim(r)' = [Claim(r) EXCEPT !.phase = "over"]
    BY <1>2 DEF Claim, Phase, Waited
  <2>3. ASSUME NEW s \in Requests, s # r PROVE Claim(s)' = Claim(s)
    BY <1>2, <2>3, SameClaim
  <2>4. ClaimOf' = [ClaimOf EXCEPT ![r].phase = "over"]
    BY <2>2, <2>3 DEF ClaimOf
  <2>5. QED
    BY <2>1, <2>4 DEF Custody!Object, ClaimOf, Approved
<1>3. QED
  BY <1>1, <1>2

\* The empty tables are a wallet nobody has claimed.
LEMMA CustodyInit == Init => Custody!Init
<1> SUFFICES ASSUME Init PROVE Custody!Init
  OBVIOUS
<1>1. now = 0 /\ deviceKey = None /\ Approved = {}
  BY DEF Init, NoGrant, Approved
<1>2. ASSUME NEW r \in Requests PROVE Claim(r) = Custody!NoClaim
  BY DEF Init, Claim, Phase, Waited, Never, Custody!NoClaim
<1>3. QED
  BY <1>1, <1>2 DEF Custody!Init, Approved

\* Every step of every handler is a step of DeviceKeyCustody or none.
LEMMA CustodyStep == Inv /\ [Next]_vars => [Custody!Next]_(Custody!vars)
<1> SUFFICES ASSUME Inv, [Next]_vars PROVE Custody!Next \/ UNCHANGED Custody!vars
  OBVIOUS
<1> USE DEF Inv, TypeOK
<1>1. CASE Tick
  <2>1. ClaimOf' = ClaimOf /\ Approved' = Approved
    BY <1>1, SameClaims DEF Tick, Approved
  <2>2. Custody!Advance
    BY <1>1, <2>1 DEF Custody!Advance, Tick, Time, ClaimOf, Approved
  <2>3. QED
    BY <2>2 DEF Custody!Next
<1>2. ASSUME NEW k \in Keys, RegisterDeviceKey(k) PROVE Custody!Next
  <2>1. ClaimOf' = ClaimOf /\ Approved' = Approved
    BY <1>2, SameClaims DEF RegisterDeviceKey, Approved
  <2>2. Custody!Register(k)
    BY <1>2, <2>1 DEF Custody!Register, RegisterDeviceKey, ClaimOf, Approved
  <2>3. QED
    BY <2>2 DEF Custody!Next
<1>3. ASSUME NEW r \in Requests, Approve(r) PROVE Custody!Next
  <2>1. ClaimOf' = ClaimOf
    BY <1>3, SameClaims DEF Approve
  <2>2. Approved' = Approved \union {r}
    BY <1>3 DEF Approve, Approved
  <2>3. status[r] # "absent"
    BY <1>3 DEF Approve, RowFirst, Time, Never
  <2>4. Claim(r).phase # "absent"
    BY <2>3 DEF Claim, Phase, Statuses
  <2>5. Custody!Approve(r)
    BY <1>3, <2>1, <2>2, <2>4 DEF Custody!Approve, Approve, ClaimOf, Approved
  <2>6. QED
    BY <2>5 DEF Custody!Next
<1>4. ASSUME NEW h \in Handlers, StatusCool(h) PROVE Custody!Next \/ UNCHANGED Custody!vars
  <2>1. task[h].req \in Requests
    BY <1>4 DEF StatusCool
  <2>2. QED
    BY <1>4, <2>1, BeginStep DEF Custody!Next
<1>5. ASSUME NEW r \in Requests, Complete(r) PROVE Custody!Next
  BY <1>5, TakeOverStep DEF Custody!Next
<1>6. ASSUME NEW r \in Requests, NEW k \in Keys, status[r] = "absent", InsertRequest(r, k),
             UNCHANGED <<now, deviceKey, grant>>
      PROVE  Custody!Next
  <2>1. Approved' = Approved
    BY <1>6 DEF Approved
  <2>2. QED
    BY <1>6, <2>1, AskStep DEF Custody!Next
<1>7. ASSUME NEW r \in Requests, CancelRecovery(r), UNCHANGED <<now, deviceKey, grant>>
      PROVE  Custody!Next \/ UNCHANGED Custody!vars
  <2>1. Approved' = Approved
    BY <1>7 DEF Approved
  <2>2. QED
    BY <1>7, <2>1, ObjectStep DEF Custody!Next
<1>8. ASSUME UNCHANGED rows, UNCHANGED <<now, deviceKey>>, Approved' = Approved
      PROVE  UNCHANGED Custody!vars
  <2>1. ClaimOf' = ClaimOf
    BY <1>8, SameClaims
  <2>2. QED
    BY <1>8, <2>1 DEF Custody!vars, ClaimOf, Approved
<1>9. CASE UNCHANGED rows /\ ~ (\E r \in Requests : Approve(r)) /\ UNCHANGED <<now, deviceKey>>
  BY <1>8, <1>9, ApprovedSteps
<1>10. \/ Tick
       \/ \E k \in Keys : RegisterDeviceKey(k)
       \/ \E r \in Requests : Complete(r)
       \/ UNCHANGED <<now, deviceKey>>
  BY DEF Next, Steps, vars, RegisterPasskey, RequestCreate, RequestCeremony, StatusRead,
         StatusConsume, StatusCool, CancelProve, CancelUpdate, Abandon, Approve,
         ManageCancel
<1>11. QED
  BY <1>1, <1>2, <1>3, <1>4, <1>5, <1>6, <1>7, <1>9, <1>10, StatusSteps

\* The server keeps the promise of docs/adr/0008, for any number of requests,
\* keys and handlers, with handlers interleaved and dropped anywhere.
THEOREM Implements == Spec => CustodySpec
<1>1. Init => Custody!Init
  BY CustodyInit
<1>2. Inv /\ [Next]_vars => [Custody!Next]_(Custody!vars)
  BY CustodyStep
<1>3. QED
  BY <1>1, <1>2, InvAlways, PTL DEF Spec, CustodySpec, Custody!Spec
=============================================================================
