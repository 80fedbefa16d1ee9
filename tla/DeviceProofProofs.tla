-------------------------- MODULE DeviceProofProofs --------------------------
(***************************************************************************)
(* Theorems about DeviceProof, for any number of requests and handlers and *)
(* any limits that satisfy NonceOutlivesProof.                             *)
(***************************************************************************)
EXTENDS DeviceProof, TLAPS

Inv == TypeOK /\ InReach /\ Remembered

LEMMA Initially == Init => Inv
BY NoneIsNoProof, TimesAreNaturals
DEF Init, Inv, TypeOK, InReach, Remembered, Time, Tasks, Idle

\* A row lasts as long as the check accepts its request, and the transaction
\* deletes it by a time that is past it and was read no later than now.
LEMMA Inductive == Inv /\ [Next]_vars => Inv'
<1> SUFFICES ASSUME Inv, [Next]_vars PROVE Inv'
  OBVIOUS
<1> USE NoneIsNoProof, TimesAreNaturals DEF Inv, TypeOK
<1>1. CASE Tick
  <2>1. TypeOK'
    BY <1>1 DEF Tick, Time
  <2>2. InReach'
    BY <1>1 DEF InReach, Tick, Tasks, Time
  <2>3. Remembered'
    BY <1>1 DEF Remembered, Tick, Time
  <2> QED
    BY <2>1, <2>2, <2>3
<1>2. ASSUME NEW h \in Handlers, NEW p \in Proofs, Check(h, p) PROVE Inv'
  <2>1. TypeOK'
    BY <1>2 DEF Check, Tasks
  <2>2. InReach'
    BY <1>2 DEF InReach, Check, Fresh, Tasks, Time, Idle
  <2>3. Remembered'
    BY <1>2 DEF Remembered, Check
  <2> QED
    BY <2>1, <2>2, <2>3
<1>3. ASSUME NEW h \in Handlers, ReadTimes(h) PROVE Inv'
  <2>1. TypeOK'
    BY <1>3 DEF ReadTimes, Tasks
  <2>2. InReach'
    BY <1>3 DEF InReach, ReadTimes, Tasks, Time
  <2>3. Remembered'
    BY <1>3 DEF Remembered, ReadTimes
  <2> QED
    BY <2>1, <2>2, <2>3
<1>4. ASSUME NEW h \in Handlers, Reserve(h) PROVE Inv'
  <2> DEFINE p == task[h].proof
             read == task[h].read
  <2>1. task[h] \in Tasks /\ p \in Proofs /\ read \in Nat /\ read <= now
    BY <1>4 DEF Reserve, InReach, Tasks, Time, Idle
  <2>2. read + Ttl >= stamp[p] + Skew
    BY <1>4, <2>1, NonceOutlivesProof DEF Reserve, InReach, Idle, Tasks, Time
  <2>3. TypeOK'
    BY <1>4, <2>1 DEF Reserve, Tasks, Idle, Time, Kept
  <2>4. InReach'
    BY <1>4 DEF InReach, Reserve
  <2>5. Remembered'
    <3> SUFFICES ASSUME NEW q \in Proofs
                 PROVE  /\ reserved'[q] # None => reserved'[q] >= stamp[q] + Skew
                        /\ accepted'[q] > 0 => reserved'[q] # None \/ now > stamp[q] + Skew
      BY <1>4 DEF Remembered, Reserve
    <3>1. CASE q = p
      BY <1>4, <2>1, <2>2, <3>1 DEF Reserve, Remembered, Kept, Time
    <3>2. CASE q # p
      BY <1>4, <2>1, <3>2 DEF Reserve, Remembered, Kept, Time
    <3> QED
      BY <3>1, <3>2
  <2> QED
    BY <2>3, <2>4, <2>5
<1>5. ASSUME NEW h \in Handlers, Abandon(h) PROVE Inv'
  BY <1>5 DEF Abandon, InReach, Remembered, Tasks, Idle
<1>6. CASE UNCHANGED vars
  BY <1>6 DEF vars, InReach, Remembered
<1> QED
  BY <1>1, <1>2, <1>3, <1>4, <1>5, <1>6 DEF Next

LEMMA Invariant == Spec => []Inv
BY Initially, Inductive, PTL DEF Spec

\* The clock, the reserved nonces and the requests in flight have their types.
THEOREM TypeCorrect == Spec => []TypeOK
<1>1. Inv => TypeOK
  BY DEF Inv
<1> QED
  BY Invariant, <1>1, PTL

\* Only a request whose timestamp the check no longer accepts is ever
\* authenticated again, for every skew and time to live that satisfy
\* NonceOutlivesProof and however long a reservation waits.
THEOREM ReplaysAreRefused == Spec => ReplayRefused
<1> DEFINE Refused == \A p \in Proofs :
                        accepted[p] > 0 /\ accepted'[p] > accepted[p] => now > stamp[p] + Skew
<1>1. Inv /\ [Next]_vars => [Refused]_vars
  <2> SUFFICES ASSUME Inv, Next, NEW q \in Proofs, accepted[q] > 0, accepted'[q] > accepted[q]
               PROVE  now > stamp[q] + Skew
    OBVIOUS
  <2> USE NoneIsNoProof, TimesAreNaturals DEF Inv, TypeOK
  <2>1. PICK h \in Handlers : Reserve(h)
    BY DEF Next, Tick, Check, ReadTimes, Abandon
  <2> DEFINE read == task[h].read
  <2>2. read \in Nat /\ read <= now /\ task[h].proof = q
    BY <2>1 DEF Reserve, InReach, Tasks, Time, Idle
  <2>3. ~ Kept(q, read)
    BY <2>1, <2>2 DEF Reserve
  <2> QED
    BY <2>2, <2>3 DEF Kept, Remembered, Time
<1> QED
  BY Invariant, <1>1, PTL DEF Spec, ReplayRefused
=============================================================================
