---------------------------- MODULE PasskeyProofs ----------------------------
(***************************************************************************)
(* Theorems about Passkey, for any number of ceremonies, challenges,       *)
(* operations and handlers.  The inductive invariant Inv adds to the        *)
(* properties what a handler between two statements may rely on             *)
(* (InFlight): what it read can only have grown since (Stay), and the       *)
(* challenge it took is its own (Distinct).                                 *)
(***************************************************************************)
EXTENDS Passkey, FiniteSetTheorems, TLAPS

\* Rows are made in one piece, pages are served rows, and an answer is an
\* answer to one of them by a key that was offered.
Rows ==
    /\ \A s \in Ceremonies :
         /\ ceremony[s].binding # "manage"
         /\ ceremony[s].phase = "completed" => ceremony[s].challenge \in Challenges
         /\ ceremony[s].challenge # None =>
              ceremony[s].phase # "absent" /\ challenge[ceremony[s].challenge].state # "absent"
    /\ \A c \in Challenges :
         challenge[c].state # "absent" => challenge[c].purpose = KindOf(challenge[c].binding)
    /\ \A s \in Ceremonies \union {None}, c \in Challenges :
         c \in served[s] => challenge[c].state # "absent"
    /\ \A c \in Challenges : answer[c] # None =>
         /\ challenge[c].state # "absent"
         /\ answer[c].key = "P256"
         /\ challenge[c].purpose = "register" => answer[c].by = c

\* What "completed" promises of a ceremony for b whose challenge is c.
Verified(b, c) ==
    IF b = "register" THEN Registered /\ credential.by = c ELSE grant[b] = c

Taken == {"insert", "read", "advance", "authorize", "session"}
Accepted == {"advance", "authorize", "session"}
Finishers == Taken \union {"check", "take", "complete"}

InFlight(h) ==
    LET t == task[h] IN
    /\ t.pc = "handoff" => t.binding # "manage"
    /\ t.pc \in {"store", "reread"} =>
         /\ t.ceremony \in Ceremonies
         /\ t.challenge \in Challenges
         /\ challenge[t.challenge].state # "absent"
         /\ ceremony[t.ceremony].phase # "absent"
    /\ t.pc \in {"offer", "start"} /\ t.ceremony # None =>
         ceremony[t.ceremony].phase # "absent"
    /\ t.pc \in Finishers =>
         /\ t.challenge \in Challenges
         /\ t.genuine => answer[t.challenge] # None
         /\ t.ceremony # None =>
              /\ ceremony[t.ceremony].phase # "absent"
              /\ ceremony[t.ceremony].binding = t.binding
              /\ ceremony[t.ceremony].challenge = t.challenge
    /\ t.pc \in Taken =>
         /\ challenge[t.challenge].state = "used"
         /\ challenge[t.challenge].binding = t.binding
         /\ outcomes[t.challenge] = 0
    /\ t.pc = "insert" => t.binding = "register"
    /\ t.pc \in {"read", "advance"} => t.binding # "register"
    /\ t.pc = "authorize" => t.binding \in Operations
    /\ t.pc = "session" => t.binding = "manage"
    /\ t.pc \in Accepted =>
         /\ answer[t.challenge] # None
         /\ Registered
         /\ answer[t.challenge].by = credential.by
    /\ t.pc = "complete" => t.ceremony \in Ceremonies /\ Verified(t.binding, t.challenge)

AllInFlight == \A h \in Handlers : InFlight(h)

\* A challenge is taken by one handler.
Distinct ==
    \A g, h \in Handlers :
        g # h /\ task[g].pc \in Taken /\ task[h].pc \in Taken =>
            task[g].challenge # task[h].challenge

\* Nothing comes of a challenge before it is taken.
TakenFirst == \A c \in Challenges : challenge[c].state # "used" => outcomes[c] = 0

Inv ==
    /\ TypeOK
    /\ Rows
    /\ AllInFlight
    /\ Distinct
    /\ TakenFirst
    /\ OneOutcome
    /\ OutcomesAreBound
    /\ CompletedIsVerified
    /\ PagesAgree
    /\ StoredKeyIsUsable

-----------------------------------------------------------------------------

LEMMA Initially == Init => Inv
<1> SUFFICES ASSUME Init PROVE Inv
  OBVIOUS
<1> USE NoneIsNew DEF Init, Idle
<1>1. TypeOK
  BY DEF TypeOK, CeremonyRows, ChallengeRows, Credentials, Tasks, Bindings
<1>2. Rows /\ TakenFirst
  BY DEF Rows, TakenFirst
<1>4. AllInFlight /\ Distinct
  BY DEF AllInFlight, InFlight, Distinct, Taken, Accepted, Finishers
<1>3. OneOutcome /\ OutcomesAreBound /\ CompletedIsVerified /\ PagesAgree /\ StoredKeyIsUsable
  BY DEF OneOutcome, OutcomesAreBound, CompletedIsVerified, PagesAgree, StoredKeyIsUsable,
         Registered
<1> QED
  BY <1>1, <1>2, <1>3, <1>4 DEF Inv

-----------------------------------------------------------------------------
\* Rows, answers and bindings only grow: what a handler has read stays true.
Stay ==
    /\ \A s \in Ceremonies : ceremony[s].phase # "absent" =>
         /\ ceremony'[s].phase # "absent"
         /\ ceremony'[s].binding = ceremony[s].binding
         /\ ceremony[s].challenge # None => ceremony'[s].challenge = ceremony[s].challenge
    /\ \A c \in Challenges : challenge[c].state # "absent" =>
         /\ challenge'[c].state # "absent"
         /\ challenge'[c].purpose = challenge[c].purpose
         /\ challenge'[c].binding = challenge[c].binding
         /\ challenge[c].state = "used" => challenge'[c].state = "used"
    /\ \A c \in Challenges : answer[c] # None => answer'[c] = answer[c]
    /\ Registered => Registered' /\ credential'.by = credential.by
    /\ \A o \in Operations : grant[o] # None => grant'[o] = grant[o]

LEMMA Stays == Inv /\ [Next]_vars => Stay
<1> SUFFICES ASSUME Inv, [Next]_vars PROVE Stay
  OBVIOUS
<1> USE DEF Inv, Stay, TypeOK, tables, client
<1>0. ASSUME UNCHANGED <<tables, client>> PROVE Stay
  BY <1>0 DEF Registered
<1>1. ASSUME NEW h \in Handlers, Making(h) PROVE Stay
  <2>1. ASSUME NEW s \in Ceremonies, PutCeremony(h, s) PROVE Stay
    BY <2>1 DEF PutCeremony, CeremonyRows, Registered
  <2>2. ASSUME NEW c \in Challenges, PutChallenge(h, c) PROVE Stay
    BY <2>2 DEF PutChallenge, NewChallenge, Serve, ChallengeRows, Registered
  <2>3. ASSUME StoreChallenge(h) PROVE Stay
    <3>1. InFlight(h)
      BY DEF AllInFlight
    <3>2. task[h].ceremony \in Ceremonies /\ task[h].challenge \in Challenges
      BY <2>3, <3>1 DEF StoreChallenge, InFlight
    <3> QED
      BY <2>3, <3>2 DEF StoreChallenge, StoresChallenge, Serve, CeremonyRows, Registered
  <2>4. ASSUME Reread(h) PROVE Stay
    BY <2>4 DEF Reread, Serve, Registered
  <2>5. ASSUME NEW b \in Bindings, Handoff(h, b) \/ DirectOptions(h, b) PROVE Stay
    BY <2>5, <1>0 DEF Handoff, DirectOptions
  <2>6. ASSUME NEW s \in Ceremonies, OptionsRead(h, s) PROVE Stay
    BY <2>6, <1>0 DEF OptionsRead
  <2>7. ASSUME CheckWelcome(h) \/ ManageChallenge(h) PROVE Stay
    BY <2>7, <1>0 DEF CheckWelcome, ManageChallenge
  <2> HIDE DEF Inv, Stay, TypeOK
  <2> QED
    BY <1>1, <2>1, <2>2, <2>3, <2>4, <2>5, <2>6, <2>7 DEF Making
<1>2. ASSUME NEW h \in Handlers, Finishing(h) PROVE Stay
  <2>1. ASSUME InsertCredential(h) PROVE Stay
    BY <2>1 DEF InsertCredential, Inserts, Registered
  <2>2. ASSUME Advance(h) PROVE Stay
    <3>0. InFlight(h) /\ task[h].pc = "advance"
      BY <2>2 DEF Advance, AllInFlight
    <3>1. credential \in Credentials /\ answer[task[h].challenge] \in Credentials
      BY <3>0 DEF InFlight, Accepted, Finishers, Taken, Registered
    <3>2. credential' \in Credentials /\ credential'.by = credential.by
      BY <2>2, <3>1 DEF Advance, Credentials
    <3> QED
      BY <2>2, <3>2, NoneIsNoCredential DEF Advance, Registered
  <2>3. ASSUME Take(h) PROVE Stay
    <3>1. InFlight(h)
      BY DEF AllInFlight
    <3>2. task[h].challenge \in Challenges
      BY <2>3, <3>1 DEF Take, InFlight, Finishers
    <3> DEFINE c == task[h].challenge
    <3>3. UNCHANGED <<ceremony, credential, grant, client>>
      BY <2>3 DEF Take
    <3>4. CASE challenge' = [challenge EXCEPT ![c].state = "used"]
      BY <3>2, <3>3, <3>4 DEF ChallengeRows, Registered
    <3>5. CASE UNCHANGED challenge
      BY <3>5, <3>3 DEF Registered
    <3> QED
      BY <2>3, <3>4, <3>5 DEF Take, MarkUsed
  <2>4. ASSUME Authorize(h) PROVE Stay
    BY <2>4 DEF Authorize, Registered
  <2>5. ASSUME Complete(h) PROVE Stay
    <3>1. InFlight(h)
      BY DEF AllInFlight
    <3>2. task[h].ceremony \in Ceremonies
      BY <2>5, <3>1 DEF Complete, InFlight
    <3> QED
      BY <2>5, <3>2 DEF Complete, Registered, CeremonyRows
  <2>6. ASSUME OpenSession(h) PROVE Stay
    BY <2>6 DEF OpenSession, Registered
  <2>7. ASSUME NEW s \in Ceremonies, NEW genuine \in BOOLEAN, FinishRead(h, s, genuine)
        PROVE  Stay
    BY <2>7, <1>0 DEF FinishRead
  <2>8. ASSUME NEW c \in Challenges, NEW b \in Bindings, NEW genuine \in BOOLEAN,
               DirectFinish(h, c, b, genuine)
        PROVE  Stay
    BY <2>8, <1>0 DEF DirectFinish
  <2>9. ASSUME CheckNone(h) \/ ReadCredential(h) PROVE Stay
    BY <2>9, <1>0 DEF CheckNone, ReadCredential
  <2> HIDE DEF Inv, Stay, TypeOK
  <2> QED
    BY <1>2, <2>1, <2>2, <2>3, <2>4, <2>5, <2>6, <2>7, <2>8, <2>9 DEF Finishing
<1>3. ASSUME NEW h \in Handlers, Abandon(h) PROVE Stay
  BY <1>3 DEF Abandon, Registered
<1>4. ASSUME NEW s \in Ceremonies, Claim(s) \/ OptionsAgain(s) \/ CeremonyLapses(s) PROVE Stay
  BY <1>4 DEF Claim, OptionsAgain, CeremonyLapses, Serve, Registered, CeremonyRows
<1>5. ASSUME NEW c \in Challenges, Answer(c) PROVE Stay
  BY <1>5 DEF Answer, Registered
<1>6. ASSUME NEW c \in Challenges, ChallengeLapses(c) PROVE Stay
  BY <1>6 DEF ChallengeLapses, ChallengeRows, Registered
<1>7. CASE UNCHANGED vars
  BY <1>7 DEF vars, Registered
<1> QED
  BY <1>1, <1>2, <1>3, <1>4, <1>5, <1>6, <1>7 DEF Next

-----------------------------------------------------------------------------
Pcs == {"idle", "handoff", "offer", "start", "store", "reread", "check", "take", "insert",
        "read", "advance", "authorize", "session", "complete"}

\* A handler that is done, or goes on to its next statement.
LEMMA MovesOn ==
    ASSUME TypeOK, NEW h \in Handlers, task[h].pc # "idle",
           NEW pc \in Pcs, Finish(h) \/ Continue(h, pc)
    PROVE  /\ task' \in [Handlers -> Tasks]
           /\ \A g \in Handlers : task'[g].pc # "idle" => task'[g].binding \in Bindings
<1>1. Idle \in Tasks /\ Idle.pc = "idle"
  BY DEF Idle, Tasks
<1>2. task[h] \in Tasks /\ task[h].binding \in Bindings
  BY DEF TypeOK
<1>3. CASE Finish(h)
  BY <1>1, <1>3 DEF Finish, TypeOK
<1>4. CASE Continue(h, pc)
  <2>1. [task[h] EXCEPT !.pc = pc] \in Tasks
    BY <1>2 DEF Tasks, Pcs
  <2>2. task' = [task EXCEPT ![h] = [task[h] EXCEPT !.pc = pc]]
    BY <1>4 DEF Continue
  <2>3. \A g \in Handlers : task'[g] = IF g = h THEN [task[h] EXCEPT !.pc = pc] ELSE task[g]
    BY <2>2 DEF TypeOK
  <2>4. [task[h] EXCEPT !.pc = pc].binding = task[h].binding
    BY <1>2 DEF Tasks
  <2> QED
    BY <1>2, <2>1, <2>2, <2>3, <2>4 DEF TypeOK
<1> QED
  BY <1>3, <1>4

LEMMA PhaseMoves ==
    ASSUME TypeOK, NEW s \in Ceremonies, ceremony[s].phase # "absent",
           NEW phase \in {"waiting", "claimed", "completed", "lapsed"},
           ceremony' = [ceremony EXCEPT ![s].phase = phase]
    PROVE  /\ ceremony' \in [Ceremonies -> CeremonyRows]
           /\ \A r \in Ceremonies :
                ceremony'[r].phase # "absent" => ceremony'[r].binding \in Bindings
<1>1. ceremony[s] \in CeremonyRows /\ ceremony[s].binding \in Bindings
  BY DEF TypeOK
<1>2. [ceremony[s] EXCEPT !.phase = phase] \in CeremonyRows
  BY <1>1 DEF CeremonyRows
<1>3. [ceremony[s] EXCEPT !.phase = phase].binding \in Bindings
  BY <1>1 DEF CeremonyRows
<1>4. \A r \in Ceremonies :
        ceremony'[r] = IF r = s THEN [ceremony[s] EXCEPT !.phase = phase] ELSE ceremony[r]
  BY DEF TypeOK
<1> QED
  BY <1>1, <1>2, <1>3, <1>4 DEF TypeOK

LEMMA StateMoves ==
    ASSUME TypeOK, NEW c \in Challenges, challenge[c].state # "absent",
           NEW state \in {"used", "lapsed"},
           challenge' = [challenge EXCEPT ![c].state = state]
    PROVE  /\ challenge' \in [Challenges -> ChallengeRows]
           /\ \A d \in Challenges :
                challenge'[d].state # "absent" => challenge'[d].binding \in Bindings
<1>1. challenge[c] \in ChallengeRows /\ challenge[c].binding \in Bindings
  BY DEF TypeOK
<1>2. [challenge[c] EXCEPT !.state = state] \in ChallengeRows
  BY <1>1 DEF ChallengeRows
<1>3. [challenge[c] EXCEPT !.state = state].binding \in Bindings
  BY <1>1 DEF ChallengeRows
<1>4. \A d \in Challenges :
        challenge'[d] = IF d = c THEN [challenge[c] EXCEPT !.state = state] ELSE challenge[d]
  BY DEF TypeOK
<1> QED
  BY <1>1, <1>2, <1>3, <1>4 DEF TypeOK

LEMMA TypeStep == Inv /\ [Next]_vars => TypeOK'
<1> SUFFICES ASSUME Inv, [Next]_vars PROVE TypeOK'
  OBVIOUS
<1> USE NoneIsNew DEF Inv, TypeOK, tables, client
<1>1. Idle \in Tasks /\ Idle.pc = "idle"
  BY DEF Idle, Tasks
<1>2. ASSUME NEW h \in Handlers, Making(h) PROVE TypeOK'
  <2>1. ASSUME NEW b \in Bindings, Handoff(h, b) \/ DirectOptions(h, b) PROVE TypeOK'
    <3>1. PICK pc \in {"handoff", "offer"} :
            task' = [task EXCEPT ![h] = [pc |-> pc, ceremony |-> None, challenge |-> None,
                                         binding |-> b, genuine |-> FALSE]]
      BY <2>1 DEF Handoff, DirectOptions, Begin
    <3>2. UNCHANGED <<tables, client, outcomes>>
      BY <2>1 DEF Handoff, DirectOptions
    <3>3. task' \in [Handlers -> Tasks]
      BY <3>1 DEF Tasks
    <3> QED
      BY <3>1, <3>2, <3>3
  <2>2. ASSUME NEW s \in Ceremonies, PutCeremony(h, s) PROVE TypeOK'
    <3>t. /\ task' \in [Handlers -> Tasks]
          /\ \A g \in Handlers : task'[g].pc # "idle" => task'[g].binding \in Bindings
      <4>1. PICK pc \in Pcs : Finish(h) \/ Continue(h, pc)
        BY <2>2 DEF PutCeremony, Pcs
      <4>2. task[h].pc # "idle"
        BY <2>2 DEF PutCeremony
      <4> QED
        BY <4>1, <4>2, MovesOn
    <3> DEFINE row == [ceremony[s] EXCEPT !.phase = "waiting", !.binding = task[h].binding]
    <3>1. task[h].binding \in Bindings /\ ceremony[s] \in CeremonyRows
      BY <2>2 DEF PutCeremony
    <3>2. row \in CeremonyRows /\ row.binding \in Bindings
      BY <3>1 DEF CeremonyRows
    <3>3. /\ ceremony' = [ceremony EXCEPT ![s] = row]
          /\ \A r \in Ceremonies : ceremony'[r] = IF r = s THEN row ELSE ceremony[r]
      BY <2>2 DEF PutCeremony
    <3>4. ceremony' \in [Ceremonies -> CeremonyRows]
      BY <3>2, <3>3
    <3>5. \A r \in Ceremonies : ceremony'[r].phase # "absent" => ceremony'[r].binding \in Bindings
      BY <3>2, <3>3
    <3> HIDE DEF row
    <3> QED
      BY <2>2, <3>t, <3>4, <3>5 DEF PutCeremony
  <2>3. ASSUME NEW s \in Ceremonies, OptionsRead(h, s) PROVE TypeOK'
    <3>1. task' = [task EXCEPT ![h] = [pc |-> "offer", ceremony |-> s, challenge |-> None,
                                       binding |-> ceremony[s].binding, genuine |-> FALSE]]
      BY <2>3 DEF OptionsRead, Begin
    <3>2. ceremony[s].binding \in Bindings
      BY <2>3 DEF OptionsRead
    <3>3. task' \in [Handlers -> Tasks]
      BY <3>1, <3>2 DEF Tasks
    <3> QED
      BY <2>3, <3>1, <3>2, <3>3 DEF OptionsRead
  <2>4. ASSUME CheckWelcome(h) PROVE TypeOK'
    <3>t. /\ task' \in [Handlers -> Tasks]
          /\ \A g \in Handlers : task'[g].pc # "idle" => task'[g].binding \in Bindings
      <4>1. PICK pc \in Pcs : Finish(h) \/ Continue(h, pc)
        BY <2>4 DEF CheckWelcome, Pcs
      <4>2. task[h].pc # "idle"
        BY <2>4 DEF CheckWelcome
      <4> QED
        BY <4>1, <4>2, MovesOn
    <3> QED
      BY <2>4, <3>t DEF CheckWelcome
  <2>5. ASSUME ManageChallenge(h) PROVE TypeOK'
    <3>1. task' = [task EXCEPT ![h] = [pc |-> "start", ceremony |-> None, challenge |-> None,
                                       binding |-> "manage", genuine |-> FALSE]]
      BY <2>5 DEF ManageChallenge, Begin
    <3>2. task' \in [Handlers -> Tasks] /\ "manage" \in Bindings
      BY <3>1 DEF Tasks, Bindings
    <3> QED
      BY <2>5, <3>1, <3>2 DEF ManageChallenge
  <2>6. ASSUME NEW c \in Challenges, PutChallenge(h, c) PROVE TypeOK'
    <3>0. task[h].binding \in Bindings
      BY <2>6 DEF PutChallenge
    <3>1. NewChallenge(task[h].binding) \in ChallengeRows
      BY <3>0 DEF NewChallenge, WalletOf, KindOf, ChallengeRows
    <3>2. task' \in [Handlers -> Tasks]
      <4>0. task[h] \in Tasks
        OBVIOUS
      <4>1. [task[h] EXCEPT !.pc = "store", !.challenge = c] \in Tasks
        BY <4>0 DEF Tasks
      <4>2. \/ task' = [task EXCEPT ![h] = Idle]
            \/ task' = [task EXCEPT ![h] = [task[h] EXCEPT !.pc = "store", !.challenge = c]]
        BY <2>6 DEF PutChallenge, Finish
      <4> QED
        BY <1>1, <4>1, <4>2
    <3>3. \A g \in Handlers : task'[g].pc # "idle" => task'[g].binding \in Bindings
      BY <1>1, <2>6, <3>0 DEF PutChallenge, Finish, Tasks
    <3>4. /\ challenge' \in [Challenges -> ChallengeRows]
          /\ \A d \in Challenges : challenge'[d].state # "absent" => challenge'[d].binding \in Bindings
      BY <2>6, <3>0, <3>1 DEF PutChallenge, NewChallenge
    <3>5. served' \in [Ceremonies \union {None} -> SUBSET Challenges]
      BY <2>6 DEF PutChallenge, Serve
    <3> QED
      BY <2>6, <3>2, <3>3, <3>4, <3>5 DEF PutChallenge, Serve
  <2>7. ASSUME StoreChallenge(h) PROVE TypeOK'
    <3>t. /\ task' \in [Handlers -> Tasks]
          /\ \A g \in Handlers : task'[g].pc # "idle" => task'[g].binding \in Bindings
      <4>1. PICK pc \in Pcs : Finish(h) \/ Continue(h, pc)
        BY <2>7 DEF StoreChallenge, Pcs
      <4>2. task[h].pc # "idle"
        BY <2>7 DEF StoreChallenge
      <4> QED
        BY <4>1, <4>2, MovesOn
    <3>2. InFlight(h)
      BY DEF AllInFlight
    <3>3. task[h].ceremony \in Ceremonies /\ task[h].challenge \in Challenges
      BY <2>7, <3>2 DEF StoreChallenge, InFlight
    <3>4. /\ ceremony' \in [Ceremonies -> CeremonyRows]
          /\ \A r \in Ceremonies : ceremony'[r].phase # "absent" => ceremony'[r].binding \in Bindings
      BY <2>7, <3>3 DEF StoreChallenge, CeremonyRows
    <3>5. served' \in [Ceremonies \union {None} -> SUBSET Challenges]
      BY <2>7, <3>3 DEF StoreChallenge, Serve
    <3> QED
      BY <2>7, <3>t, <3>4, <3>5 DEF StoreChallenge, Serve
  <2>8. ASSUME Reread(h) PROVE TypeOK'
    <3>t. /\ task' \in [Handlers -> Tasks]
          /\ \A g \in Handlers : task'[g].pc # "idle" => task'[g].binding \in Bindings
      <4>1. PICK pc \in Pcs : Finish(h) \/ Continue(h, pc)
        BY <2>8 DEF Reread, Pcs
      <4>2. task[h].pc # "idle"
        BY <2>8 DEF Reread
      <4> QED
        BY <4>1, <4>2, MovesOn
    <3>1. InFlight(h)
      BY DEF AllInFlight
    <3>2. task[h].ceremony \in Ceremonies
      BY <2>8, <3>1 DEF Reread, InFlight
    <3>3. served' \in [Ceremonies \union {None} -> SUBSET Challenges]
      BY <2>8, <3>2 DEF Reread, Serve, CeremonyRows
    <3> QED
      BY <1>1, <2>8, <3>t, <3>3 DEF Reread, Finish, Serve
  <2> HIDE DEF Inv, TypeOK
  <2> QED
    BY <1>2, <2>1, <2>2, <2>3, <2>4, <2>5, <2>6, <2>7, <2>8 DEF Making
<1>3. ASSUME NEW h \in Handlers, Finishing(h) PROVE TypeOK'
  <2>0. InFlight(h)
    BY DEF AllInFlight
  <2>1. ASSUME NEW s \in Ceremonies, NEW genuine \in BOOLEAN, FinishRead(h, s, genuine)
        PROVE  TypeOK'
    <3>1. task' = [task EXCEPT ![h] =
                     [pc |-> FirstPc(ceremony[s].binding), ceremony |-> s,
                      challenge |-> ceremony[s].challenge, binding |-> ceremony[s].binding,
                      genuine |-> genuine]]
      BY <2>1 DEF FinishRead, Begin
    <3>2. ceremony[s].binding \in Bindings /\ ceremony[s].challenge \in Challenges
      BY <2>1 DEF FinishRead, CeremonyRows
    <3>3. task' \in [Handlers -> Tasks]
      BY <3>1, <3>2 DEF Tasks, FirstPc
    <3> QED
      BY <2>1, <3>1, <3>2, <3>3 DEF FinishRead
  <2>2. ASSUME NEW c \in Challenges, NEW b \in Bindings, NEW genuine \in BOOLEAN,
               DirectFinish(h, c, b, genuine)
        PROVE  TypeOK'
    <3>1. task' = [task EXCEPT ![h] = [pc |-> FirstPc(b), ceremony |-> None, challenge |-> c,
                                       binding |-> b, genuine |-> genuine]]
      BY <2>2 DEF DirectFinish, Begin
    <3>2. task' \in [Handlers -> Tasks]
      BY <3>1 DEF Tasks, FirstPc
    <3> QED
      BY <2>2, <3>1, <3>2 DEF DirectFinish
  <2>3. ASSUME CheckNone(h) PROVE TypeOK'
    <3>t. /\ task' \in [Handlers -> Tasks]
          /\ \A g \in Handlers : task'[g].pc # "idle" => task'[g].binding \in Bindings
      <4>1. PICK pc \in Pcs : Finish(h) \/ Continue(h, pc)
        BY <2>3 DEF CheckNone, Pcs
      <4>2. task[h].pc # "idle"
        BY <2>3 DEF CheckNone
      <4> QED
        BY <4>1, <4>2, MovesOn
    <3> QED
      BY <2>3, <3>t DEF CheckNone
  <2>4. ASSUME Take(h) PROVE TypeOK'
    <3>1. /\ task' \in [Handlers -> Tasks]
          /\ \A g \in Handlers : task'[g].pc # "idle" => task'[g].binding \in Bindings
      <4>1. PICK pc \in Pcs : Finish(h) \/ Continue(h, pc)
        BY <2>4 DEF Take, Pcs
      <4>2. task[h].pc # "idle"
        BY <2>4 DEF Take
      <4> QED
        BY <4>1, <4>2, MovesOn
    <3> DEFINE c == task[h].challenge
    <3>3. UNCHANGED <<ceremony, credential, grant, sessions, client, outcomes>>
      BY <2>4 DEF Take
    <3>4. CASE challenge' = [challenge EXCEPT ![c].state = "used"] /\ challenge[c].state = "live"
      <4>1. c \in Challenges
        BY <2>0, <2>4 DEF Take, InFlight, Finishers
      <4>2. /\ challenge' \in [Challenges -> ChallengeRows]
            /\ \A d \in Challenges :
                 challenge'[d].state # "absent" => challenge'[d].binding \in Bindings
        BY <3>4, <4>1, StateMoves
      <4> QED
        BY <3>1, <3>3, <4>2
    <3>5. CASE UNCHANGED challenge
      BY <3>1, <3>3, <3>5
    <3> QED
      BY <2>4, <3>4, <3>5 DEF Take, Takes, MarkUsed
  <2>5. ASSUME InsertCredential(h) PROVE TypeOK'
    <3>t. /\ task' \in [Handlers -> Tasks]
          /\ \A g \in Handlers : task'[g].pc # "idle" => task'[g].binding \in Bindings
      <4>1. PICK pc \in Pcs : Finish(h) \/ Continue(h, pc)
        BY <2>5 DEF InsertCredential, Pcs
      <4>2. task[h].pc # "idle"
        BY <2>5 DEF InsertCredential
      <4> QED
        BY <4>1, <4>2, MovesOn
    <3>2. task[h].challenge \in Challenges
      BY <2>0, <2>5 DEF InsertCredential, InFlight, Finishers, Taken
    <3>4. credential' \in Credentials \union {None}
      BY <2>5, <3>2 DEF InsertCredential
    <3>5. outcomes' \in [Challenges -> Nat]
      BY <2>5, <3>2 DEF InsertCredential, Yields
    <3> QED
      BY <2>5, <3>t, <3>4, <3>5 DEF InsertCredential
  <2>6. ASSUME ReadCredential(h) PROVE TypeOK'
    <3>t. /\ task' \in [Handlers -> Tasks]
          /\ \A g \in Handlers : task'[g].pc # "idle" => task'[g].binding \in Bindings
      <4>1. PICK pc \in Pcs : Finish(h) \/ Continue(h, pc)
        BY <2>6 DEF ReadCredential, Pcs
      <4>2. task[h].pc # "idle"
        BY <2>6 DEF ReadCredential
      <4> QED
        BY <4>1, <4>2, MovesOn
    <3> QED
      BY <2>6, <3>t DEF ReadCredential
  <2>7. ASSUME Advance(h) PROVE TypeOK'
    <3>t. /\ task' \in [Handlers -> Tasks]
          /\ \A g \in Handlers : task'[g].pc # "idle" => task'[g].binding \in Bindings
      <4>1. PICK pc \in Pcs : Finish(h) \/ Continue(h, pc)
        BY <2>7 DEF Advance, Pcs
      <4>2. task[h].pc # "idle"
        BY <2>7 DEF Advance
      <4> QED
        BY <4>1, <4>2, MovesOn
    <3>2. credential \in Credentials /\ answer[task[h].challenge] \in Credentials
      BY <2>0, <2>7 DEF Advance, InFlight, Finishers, Taken, Accepted, Registered
    <3>3. credential' \in Credentials
      BY <2>7, <3>2 DEF Advance, Credentials
    <3> QED
      BY <2>7, <3>t, <3>3 DEF Advance
  <2>8. ASSUME Authorize(h) PROVE TypeOK'
    <3>t. /\ task' \in [Handlers -> Tasks]
          /\ \A g \in Handlers : task'[g].pc # "idle" => task'[g].binding \in Bindings
      <4>1. PICK pc \in Pcs : Finish(h) \/ Continue(h, pc)
        BY <2>8 DEF Authorize, OnConflict, Pcs
      <4>2. task[h].pc # "idle"
        BY <2>8 DEF Authorize
      <4> QED
        BY <4>1, <4>2, MovesOn
    <3>2. task[h].challenge \in Challenges /\ task[h].binding \in Operations
      BY <2>0, <2>8 DEF Authorize, InFlight, Finishers, Taken
    <3>4. grant' \in [Operations -> Challenges \union {None}] /\ outcomes' \in [Challenges -> Nat]
      BY <2>8, <3>2 DEF Authorize, Yields
    <3> QED
      BY <2>8, <3>t, <3>4 DEF Authorize
  <2>9. ASSUME OpenSession(h) PROVE TypeOK'
    <3>t. /\ task' \in [Handlers -> Tasks]
          /\ \A g \in Handlers : task'[g].pc # "idle" => task'[g].binding \in Bindings
      <4>1. PICK pc \in Pcs : Finish(h) \/ Continue(h, pc)
        BY <2>9 DEF OpenSession, Pcs
      <4>2. task[h].pc # "idle"
        BY <2>9 DEF OpenSession
      <4> QED
        BY <4>1, <4>2, MovesOn
    <3>1. task[h].challenge \in Challenges
      BY <2>0, <2>9 DEF OpenSession, InFlight, Finishers, Taken
    <3>3. sessions' \subseteq Challenges /\ outcomes' \in [Challenges -> Nat]
      BY <2>9, <3>1 DEF OpenSession, Yields
    <3> QED
      BY <1>1, <2>9, <3>t, <3>3 DEF OpenSession, Finish
  <2>10. ASSUME Complete(h) PROVE TypeOK'
    <3>t. /\ task' \in [Handlers -> Tasks]
          /\ \A g \in Handlers : task'[g].pc # "idle" => task'[g].binding \in Bindings
      <4>1. PICK pc \in Pcs : Finish(h) \/ Continue(h, pc)
        BY <2>10 DEF Complete, Pcs
      <4>2. task[h].pc # "idle"
        BY <2>10 DEF Complete
      <4> QED
        BY <4>1, <4>2, MovesOn
    <3>1. task[h].ceremony \in Ceremonies
      BY <2>0, <2>10 DEF Complete, InFlight
    <3>3. /\ ceremony' \in [Ceremonies -> CeremonyRows]
          /\ \A r \in Ceremonies : ceremony'[r].phase # "absent" => ceremony'[r].binding \in Bindings
      BY <2>10, <3>1, PhaseMoves DEF Complete
    <3> QED
      BY <1>1, <2>10, <3>t, <3>3 DEF Complete, Finish
  <2> HIDE DEF Inv, TypeOK
  <2> QED
    BY <1>3, <2>1, <2>2, <2>3, <2>4, <2>5, <2>6, <2>7, <2>8, <2>9, <2>10 DEF Finishing
<1>4. ASSUME NEW h \in Handlers, Abandon(h) PROVE TypeOK'
  <2>1. task' \in [Handlers -> Tasks]
    BY <1>1, <1>4 DEF Abandon, Finish
  <2> QED
    BY <1>1, <1>4, <2>1 DEF Abandon, Finish
<1>5. ASSUME NEW s \in Ceremonies, Claim(s) \/ OptionsAgain(s) \/ CeremonyLapses(s) PROVE TypeOK'
  <2>1. /\ ceremony' \in [Ceremonies -> CeremonyRows]
        /\ \A r \in Ceremonies : ceremony'[r].phase # "absent" => ceremony'[r].binding \in Bindings
    BY <1>5, PhaseMoves DEF Claim, OptionsAgain, CeremonyLapses
  <2>2. served' \in [Ceremonies \union {None} -> SUBSET Challenges]
    BY <1>5 DEF Claim, OptionsAgain, CeremonyLapses, Serve, CeremonyRows
  <2> QED
    BY <1>5, <2>1, <2>2 DEF Claim, OptionsAgain, CeremonyLapses, Serve
<1>6. ASSUME NEW c \in Challenges, Answer(c) PROVE TypeOK'
  <2>1. Ticks \in Nat
    BY DEF Ticks
  <2>2. \A p \in Passkeys : p \in Challenges \union {None}
    BY DEF Passkeys, Created, Credentials
  <2>3. answer' \in [Challenges -> Credentials \union {None}] /\ hardware' \in Nat
    BY <1>6, <2>1, <2>2 DEF Answer, Offered, Credentials
  <2> QED
    BY <1>6, <2>3 DEF Answer
<1>7. ASSUME NEW c \in Challenges, ChallengeLapses(c) PROVE TypeOK'
  <2>1. /\ challenge' \in [Challenges -> ChallengeRows]
        /\ \A d \in Challenges : challenge'[d].state # "absent" => challenge'[d].binding \in Bindings
    BY <1>7, StateMoves DEF ChallengeLapses
  <2> QED
    BY <1>7, <2>1 DEF ChallengeLapses
<1>8. CASE UNCHANGED vars
  BY <1>8 DEF vars
<1> QED
  BY <1>2, <1>3, <1>4, <1>5, <1>6, <1>7, <1>8 DEF Next

-----------------------------------------------------------------------------
\* A step of one handler leaves the others where they are.
LEMMA OneMoves ==
    ASSUME TypeOK, NEW h \in Handlers, Making(h) \/ Finishing(h) \/ Abandon(h),
           NEW g \in Handlers, g # h
    PROVE  task'[g] = task[g]
<1> USE DEF TypeOK
<1>1. CASE Making(h)
  BY <1>1 DEF Making, Handoff, DirectOptions, PutCeremony, OptionsRead, CheckWelcome,
     ManageChallenge, PutChallenge, StoreChallenge, Reread, Begin, Continue, Finish
<1>2. CASE Finishing(h)
  <2>1. CASE \/ \E s \in Ceremonies, genuine \in BOOLEAN : FinishRead(h, s, genuine)
             \/ \E c \in Challenges, b \in Bindings, genuine \in BOOLEAN :
                  DirectFinish(h, c, b, genuine)
    BY <2>1 DEF FinishRead, DirectFinish, Begin
  <2>2. CASE CheckNone(h) \/ Take(h) \/ InsertCredential(h) \/ ReadCredential(h)
    BY <2>2 DEF CheckNone, Take, InsertCredential, ReadCredential, Continue, Finish
  <2>3. CASE Advance(h) \/ Authorize(h) \/ OpenSession(h) \/ Complete(h)
    BY <2>3 DEF Advance, Authorize, OnConflict, OpenSession, Complete, Continue, Finish
  <2> QED
    BY <1>2, <2>1, <2>2, <2>3 DEF Finishing
<1>3. CASE Abandon(h)
  BY <1>3 DEF Abandon, Finish
<1> QED
  BY <1>1, <1>2, <1>3

\* A step that is not a handler's leaves them all, and what came of answers.
LEMMA NoneMoves ==
    ASSUME [Next]_vars, ~ \E h \in Handlers : Making(h) \/ Finishing(h) \/ Abandon(h)
    PROVE  UNCHANGED <<task, outcomes, grant, sessions>>
<1>1. CASE UNCHANGED vars
  BY <1>1 DEF vars, tables
<1>2. ASSUME NEW s \in Ceremonies, Claim(s) \/ OptionsAgain(s) \/ CeremonyLapses(s)
      PROVE  UNCHANGED <<task, outcomes, grant, sessions>>
  BY <1>2 DEF Claim, OptionsAgain, CeremonyLapses, tables
<1>3. ASSUME NEW c \in Challenges, Answer(c) \/ ChallengeLapses(c)
      PROVE  UNCHANGED <<task, outcomes, grant, sessions>>
  BY <1>3 DEF Answer, ChallengeLapses, tables
<1> QED
  BY <1>1, <1>2, <1>3 DEF Next

\* An outcome is the last statement of a handler for the challenge it took.
Yielding(h, c) ==
    /\ task[h].pc \in {"insert", "authorize", "session"}
    /\ task[h].challenge = c
    /\ task'[h].pc \notin Taken

LEMMA OutcomesGrow ==
    ASSUME Inv, [Next]_vars, NEW c \in Challenges, outcomes'[c] # outcomes[c]
    PROVE  \E h \in Handlers : Yielding(h, c) /\ outcomes'[c] = outcomes[c] + 1
<1>0. TypeOK
  BY DEF Inv
<1>1. PICK h \in Handlers : Making(h) \/ Finishing(h) \/ Abandon(h)
  BY NoneMoves
<1>2. ~ Making(h)
  BY DEF Making, Handoff, DirectOptions, PutCeremony, OptionsRead, CheckWelcome,
     ManageChallenge, PutChallenge, StoreChallenge, Reread
<1>3. ~ Abandon(h)
  BY DEF Abandon
<1>4. InsertCredential(h) \/ Authorize(h) \/ OpenSession(h)
  BY <1>1, <1>2, <1>3
  DEF Finishing, FinishRead, DirectFinish, CheckNone, Take, ReadCredential, Advance, Complete
<1>5. task[h].pc \in {"insert", "authorize", "session"} /\ Yields(task[h].challenge)
  BY <1>4 DEF InsertCredential, Authorize, OpenSession
<1>6. task[h].challenge = c /\ outcomes'[c] = outcomes[c] + 1
  BY <1>0, <1>5 DEF Yields, TypeOK
<1>7. task'[h].pc \in {"idle", "complete"}
  <2>1. Finish(h) \/ Continue(h, "complete")
    BY <1>4 DEF InsertCredential, Authorize, OnConflict, OpenSession
  <2>2. task'[h] = Idle \/ task'[h] = [task[h] EXCEPT !.pc = "complete"]
    BY <1>0, <2>1 DEF Finish, Continue, TypeOK
  <2>3. task[h] \in Tasks
    BY <1>0 DEF TypeOK
  <2> QED
    BY <2>2, <2>3 DEF Idle, Tasks
<1> QED
  BY <1>5, <1>6, <1>7 DEF Yielding, Taken

LEMMA OutcomeSteps ==
    Inv /\ [Next]_vars => TakenFirst' /\ OneOutcome'
<1> SUFFICES ASSUME Inv, [Next]_vars, NEW c \in Challenges
             PROVE  /\ challenge'[c].state # "used" => outcomes'[c] = 0
                    /\ outcomes'[c] <= 1
  BY DEF TakenFirst, OneOutcome
<1>1. TypeOK /\ AllInFlight /\ TakenFirst /\ OneOutcome /\ Stay
  BY Stays DEF Inv
<1>2. challenge[c].state = "used" => challenge'[c].state = "used"
  BY <1>1 DEF Stay
<1>3. CASE outcomes'[c] = outcomes[c]
  BY <1>1, <1>2, <1>3 DEF TakenFirst, OneOutcome
<1>4. CASE outcomes'[c] # outcomes[c]
  <2>1. PICK h \in Handlers : Yielding(h, c) /\ outcomes'[c] = outcomes[c] + 1
    BY <1>4, OutcomesGrow
  <2>2. challenge[c].state = "used" /\ outcomes[c] = 0
    BY <1>1, <2>1 DEF AllInFlight, InFlight, Yielding, Taken
  <2> QED
    BY <1>2, <2>1, <2>2
<1> QED
  BY <1>3, <1>4

-----------------------------------------------------------------------------
\* What a handler relies on survives the steps of others.
LEMMA FlightStays ==
    ASSUME Inv, Stay, NEW g \in Handlers, task'[g] = task[g],
           task[g].pc \in Taken => outcomes'[task[g].challenge] = outcomes[task[g].challenge]
    PROVE  InFlight(g)'
<1> DEFINE t == task[g]
<1>1. InFlight(g) /\ t \in Tasks /\ (t.pc # "idle" => t.binding \in Bindings)
  BY DEF Inv, AllInFlight, TypeOK
<1>2. t.ceremony # None => t.ceremony \in Ceremonies
  BY <1>1 DEF Tasks
<1>3. t.pc \in {"store", "reread"} =>
         /\ t.ceremony \in Ceremonies
         /\ t.challenge \in Challenges
         /\ challenge'[t.challenge].state # "absent"
         /\ ceremony'[t.ceremony].phase # "absent"
  BY <1>1 DEF InFlight, Stay
<1>4. t.pc \in {"offer", "start"} /\ t.ceremony # None => ceremony'[t.ceremony].phase # "absent"
  BY <1>1, <1>2 DEF InFlight, Stay
<1>5. t.pc \in Finishers =>
         /\ t.challenge \in Challenges
         /\ t.genuine => answer'[t.challenge] # None
         /\ t.ceremony # None =>
              /\ ceremony'[t.ceremony].phase # "absent"
              /\ ceremony'[t.ceremony].binding = t.binding
              /\ ceremony'[t.ceremony].challenge = t.challenge
  BY <1>1, <1>2, NoneIsNew DEF InFlight, Stay
<1>6. t.pc \in Taken =>
         /\ challenge'[t.challenge].state = "used"
         /\ challenge'[t.challenge].binding = t.binding
         /\ outcomes'[t.challenge] = 0
  BY <1>1 DEF InFlight, Stay, Finishers
<1>7. t.pc \in Accepted =>
         /\ answer'[t.challenge] # None
         /\ Registered'
         /\ answer'[t.challenge].by = credential'.by
  BY <1>1 DEF InFlight, Stay, Finishers, Accepted, Taken
<1>8. t.pc = "complete" => t.ceremony \in Ceremonies /\ Verified(t.binding, t.challenge)'
  <2>1. ASSUME t.pc = "complete" PROVE t.challenge \in Challenges /\ t.binding # "manage"
    BY <1>1, <2>1, NoneIsNew DEF InFlight, Finishers, Inv, Rows
  <2> QED
    BY <1>1, <2>1, NoneIsNew DEF InFlight, Stay, Verified, Bindings
<1>9. task'[g] = t
  OBVIOUS
<1> QED
  BY <1>1, <1>3, <1>4, <1>5, <1>6, <1>7, <1>8, <1>9 DEF InFlight

LEMMA FlightIdle ==
    ASSUME NEW h, task'[h].pc = "idle" PROVE InFlight(h)'
BY DEF InFlight, Finishers, Taken, Accepted

LEMMA OthersInFlight ==
    ASSUME Inv, [Next]_vars, Stay, NEW h \in Handlers,
           Making(h) \/ Finishing(h) \/ Abandon(h), InFlight(h)'
    PROVE  AllInFlight'
<1> SUFFICES ASSUME NEW g \in Handlers, g # h PROVE InFlight(g)'
  BY DEF AllInFlight
<1>1. TypeOK /\ Distinct /\ AllInFlight
  BY DEF Inv
<1>2. task'[g] = task[g]
  BY <1>1, OneMoves
<1>3. ASSUME task[g].pc \in Taken, outcomes'[task[g].challenge] # outcomes[task[g].challenge]
      PROVE  FALSE
  <2>1. task[g].challenge \in Challenges
    BY <1>1, <1>3 DEF AllInFlight, InFlight, Finishers
  <2>2. PICK f \in Handlers : Yielding(f, task[g].challenge)
    BY <1>3, <2>1, OutcomesGrow
  <2>3. f # g
    BY <1>2, <1>3, <2>2 DEF Yielding
  <2> QED
    BY <1>1, <1>3, <2>2, <2>3 DEF Distinct, Yielding, Taken
<1> QED
  BY <1>2, <1>3, FlightStays

LEMMA Continued ==
    ASSUME TypeOK, NEW h \in Handlers, NEW pc, Continue(h, pc)
    PROVE  /\ task'[h].pc = pc
           /\ task'[h].ceremony = task[h].ceremony
           /\ task'[h].challenge = task[h].challenge
           /\ task'[h].binding = task[h].binding
           /\ task'[h].genuine = task[h].genuine
<1>1. task[h] \in Tasks /\ task'[h] = [task[h] EXCEPT !.pc = pc]
  BY DEF TypeOK, Continue
<1> QED
  BY <1>1 DEF Tasks

LEMMA Finished ==
    ASSUME TypeOK, NEW h \in Handlers, Finish(h) PROVE InFlight(h)'
<1>1. task'[h].pc = "idle"
  BY DEF Finish, TypeOK, Idle
<1> QED
  BY <1>1, FlightIdle

LEMMA MakingFlight ==
    ASSUME Inv, Stay, NEW h \in Handlers, Making(h) PROVE InFlight(h)'
<1> USE NoneIsNew
<1>0. TypeOK /\ Rows /\ InFlight(h)
  BY DEF Inv, AllInFlight
<1>1. ASSUME NEW b \in Bindings, Handoff(h, b) PROVE InFlight(h)'
  <2>1. task'[h].pc = "handoff" /\ task'[h].binding = b
    BY <1>0, <1>1 DEF Handoff, Begin, TypeOK
  <2> QED
    BY <1>1, <2>1 DEF Handoff, InFlight, Finishers, Taken, Accepted
<1>2. ASSUME NEW b \in Bindings, DirectOptions(h, b) PROVE InFlight(h)'
  <2>1. task'[h].pc = "offer" /\ task'[h].ceremony = None
    BY <1>0, <1>2 DEF DirectOptions, Begin, TypeOK
  <2> QED
    BY <2>1 DEF InFlight, Finishers, Taken, Accepted
<1>3. ASSUME NEW s \in Ceremonies, PutCeremony(h, s) PROVE InFlight(h)'
  BY <1>0, <1>3, Finished DEF PutCeremony
<1>4. ASSUME NEW s \in Ceremonies, OptionsRead(h, s) PROVE InFlight(h)'
  <2>1. task'[h].pc = "offer" /\ task'[h].ceremony = s
    BY <1>0, <1>4 DEF OptionsRead, Begin, TypeOK
  <2>2. ceremony'[s].phase # "absent"
    BY <1>4 DEF OptionsRead, Stay
  <2> QED
    BY <2>1, <2>2 DEF InFlight, Finishers, Taken, Accepted
<1>5. CASE CheckWelcome(h)
  <2>1. CASE Continue(h, "start") /\ task[h].pc = "offer"
    <3>1. task'[h].pc = "start" /\ task'[h].ceremony = task[h].ceremony
      BY <1>0, <2>1, Continued
    <3>2. task[h].ceremony # None =>
            task[h].ceremony \in Ceremonies /\ ceremony'[task[h].ceremony].phase # "absent"
      BY <1>0, <2>1 DEF InFlight, Stay, TypeOK, Tasks
    <3> QED
      BY <3>1, <3>2 DEF InFlight, Finishers, Taken, Accepted
  <2> QED
    BY <1>0, <1>5, <2>1, Finished DEF CheckWelcome
<1>6. CASE ManageChallenge(h)
  <2>1. task'[h].pc = "start" /\ task'[h].ceremony = None
    BY <1>0, <1>6 DEF ManageChallenge, Begin, TypeOK
  <2> QED
    BY <2>1 DEF InFlight, Finishers, Taken, Accepted
<1>7. ASSUME NEW c \in Challenges, PutChallenge(h, c) PROVE InFlight(h)'
  <2>1. CASE task[h].ceremony # None
    <3>1. task'[h] = [task[h] EXCEPT !.pc = "store", !.challenge = c] /\ task[h] \in Tasks
      BY <1>0, <1>7, <2>1 DEF PutChallenge, TypeOK
    <3>2. /\ task'[h].pc = "store"
          /\ task'[h].challenge = c
          /\ task'[h].ceremony = task[h].ceremony
          /\ task[h].ceremony \in Ceremonies
      BY <2>1, <3>1 DEF Tasks
    <3>3. challenge'[c].state # "absent"
      BY <1>0, <1>7 DEF PutChallenge, NewChallenge, TypeOK
    <3>4. ceremony'[task[h].ceremony].phase # "absent"
      BY <1>0, <1>7, <2>1, <3>2 DEF PutChallenge, InFlight, Stay
    <3> QED
      BY <3>2, <3>3, <3>4 DEF InFlight, Finishers, Taken, Accepted
  <2> QED
    BY <1>0, <1>7, <2>1, Finished DEF PutChallenge
<1>8. CASE StoreChallenge(h)
  <2>1. CASE Continue(h, "reread") /\ task[h].pc = "store"
    <3>1. /\ task'[h].pc = "reread"
          /\ task'[h].ceremony = task[h].ceremony
          /\ task'[h].challenge = task[h].challenge
      BY <1>0, <2>1, Continued
    <3>2. /\ task[h].ceremony \in Ceremonies /\ ceremony'[task[h].ceremony].phase # "absent"
          /\ task[h].challenge \in Challenges /\ challenge'[task[h].challenge].state # "absent"
      BY <1>0, <2>1 DEF InFlight, Stay
    <3> QED
      BY <3>1, <3>2 DEF InFlight, Finishers, Taken, Accepted
  <2> QED
    BY <1>0, <1>8, <2>1, Finished DEF StoreChallenge
<1>9. CASE Reread(h)
  BY <1>0, <1>9, Finished DEF Reread
<1> QED
  BY <1>1, <1>2, <1>3, <1>4, <1>5, <1>6, <1>7, <1>8, <1>9 DEF Making

\* What is true of a finish whichever statement it is at, and stays true.
LEMMA FinishGoesOn ==
    ASSUME TypeOK, Stay, NEW h \in Handlers, NEW pc, Continue(h, pc),
           InFlight(h), task[h].pc \in Finishers
    PROVE  /\ task'[h].challenge \in Challenges
           /\ task'[h].genuine => answer'[task'[h].challenge] # None
           /\ task'[h].ceremony # None =>
                /\ ceremony'[task'[h].ceremony].phase # "absent"
                /\ ceremony'[task'[h].ceremony].binding = task'[h].binding
                /\ ceremony'[task'[h].ceremony].challenge = task'[h].challenge
<1> DEFINE t == task[h]
<1>1. t \in Tasks
  BY DEF TypeOK
<1>2. t.ceremony # None => t.ceremony \in Ceremonies
  BY <1>1 DEF Tasks
<1>3. /\ t.challenge \in Challenges
      /\ t.genuine => answer'[t.challenge] # None
      /\ t.ceremony # None =>
           /\ ceremony'[t.ceremony].phase # "absent"
           /\ ceremony'[t.ceremony].binding = t.binding
           /\ ceremony'[t.ceremony].challenge = t.challenge
  BY <1>2, NoneIsNew DEF InFlight, Stay
<1> QED
  BY <1>3, Continued

LEMMA FinishingFlight ==
    ASSUME Inv, [Next]_vars, Stay, NEW h \in Handlers, Finishing(h) PROVE InFlight(h)'
<1> USE NoneIsNew
<1> DEFINE t == task[h]
<1>0. TypeOK /\ Rows /\ TakenFirst /\ InFlight(h) /\ t \in Tasks
  BY DEF Inv, AllInFlight, TypeOK
<1>1. ASSUME NEW s \in Ceremonies, NEW genuine \in BOOLEAN, FinishRead(h, s, genuine)
      PROVE  InFlight(h)'
  <2>1. task'[h] = [pc |-> FirstPc(ceremony[s].binding), ceremony |-> s,
                    challenge |-> ceremony[s].challenge, binding |-> ceremony[s].binding,
                    genuine |-> genuine]
    BY <1>0, <1>1 DEF FinishRead, Begin, TypeOK
  <2>2. task'[h].pc \in {"check", "take"}
    BY <2>1 DEF FirstPc
  <2>3. UNCHANGED <<ceremony, answer>> /\ ceremony[s].challenge \in Challenges
    BY <1>0, <1>1 DEF FinishRead, tables, client, TypeOK, CeremonyRows
  <2>4. /\ ceremony'[s].phase # "absent"
        /\ genuine => answer'[ceremony[s].challenge] # None
    BY <1>1, <2>3 DEF FinishRead
  <2> QED
    BY <2>1, <2>2, <2>3, <2>4 DEF InFlight, Finishers, Taken, Accepted
<1>2. ASSUME NEW c \in Challenges, NEW b \in Bindings, NEW genuine \in BOOLEAN,
             DirectFinish(h, c, b, genuine)
      PROVE  InFlight(h)'
  <2>1. task'[h] = [pc |-> FirstPc(b), ceremony |-> None, challenge |-> c, binding |-> b,
                    genuine |-> genuine]
    BY <1>0, <1>2 DEF DirectFinish, Begin, TypeOK
  <2>2. task'[h].pc \in {"check", "take"}
    BY <2>1 DEF FirstPc
  <2>3. UNCHANGED answer
    BY <1>2 DEF DirectFinish, client
  <2>4. genuine => answer'[c] # None
    BY <1>2, <2>3 DEF DirectFinish
  <2> QED
    BY <2>1, <2>2, <2>4 DEF InFlight, Finishers, Taken, Accepted
<1>3. CASE CheckNone(h)
  <2>1. CASE Continue(h, "take") /\ t.pc = "check"
    BY <1>0, <2>1, Continued, FinishGoesOn DEF InFlight, Finishers, Taken, Accepted
  <2> QED
    BY <1>0, <1>3, <2>1, Finished DEF CheckNone
<1>4. CASE Take(h)
  <2>0. t.challenge \in Challenges /\ t.pc = "take"
    BY <1>0, <1>4 DEF Take, InFlight, Finishers
  <2>1. ASSUME NEW pc \in {"insert", "read"}, pc = "insert" <=> t.binding = "register",
               Continue(h, pc), Takes(t.challenge, t.binding), Bound(t.challenge, t.binding),
               challenge' = MarkUsed(t.challenge), UNCHANGED outcomes
        PROVE  InFlight(h)'
    <3>1. challenge'[t.challenge].state = "used" /\ challenge'[t.challenge].binding = t.binding
      <4>1. challenge[t.challenge] \in ChallengeRows
        BY <1>0, <2>0 DEF TypeOK
      <4>2. challenge'[t.challenge] = [challenge[t.challenge] EXCEPT !.state = "used"]
        BY <1>0, <2>0, <2>1 DEF MarkUsed, TypeOK
      <4>3. challenge[t.challenge].binding = t.binding
        BY <2>1 DEF Bound
      <4> QED
        BY <4>1, <4>2, <4>3 DEF ChallengeRows
    <3>2. outcomes'[t.challenge] = 0
      BY <1>0, <2>0, <2>1 DEF Takes, TakenFirst
    <3> QED
      BY <1>0, <2>0, <2>1, <3>1, <3>2, Continued, FinishGoesOn
      DEF InFlight, Finishers, Taken, Accepted
  <2>2. \/ Finish(h)
        \/ /\ Takes(t.challenge, t.binding) /\ Bound(t.challenge, t.binding)
           /\ challenge' = MarkUsed(t.challenge) /\ UNCHANGED outcomes
           /\ Continue(h, IF t.binding = "register" THEN "insert" ELSE "read")
    BY <1>4 DEF Take
  <2> QED
    BY <1>0, <2>1, <2>2, Finished
<1>5. CASE InsertCredential(h)
  <2>0. t.challenge \in Challenges /\ t.pc = "insert" /\ t.binding = "register"
    BY <1>0, <1>5 DEF InsertCredential, InFlight, Finishers, Taken
  <2>1. CASE /\ Continue(h, "complete") /\ t.ceremony # None /\ t.genuine
             /\ credential' = answer[t.challenge]
    <3>1. Registered' /\ credential'.by = t.challenge
      <4>1. challenge[t.challenge].state # "absent" /\ answer[t.challenge] # None
        BY <1>0, <2>0, <2>1 DEF InFlight, Taken, Finishers
      <4>2. challenge[t.challenge].purpose = "register"
        BY <1>0, <2>0, <4>1 DEF Rows, InFlight, Taken, KindOf
      <4> QED
        BY <1>0, <2>0, <2>1, <4>1, <4>2 DEF Rows, Registered
    <3>2. t.ceremony \in Ceremonies
      BY <1>0, <2>1 DEF Tasks
    <3> QED
      BY <1>0, <2>0, <2>1, <3>1, <3>2, Continued, FinishGoesOn
      DEF InFlight, Finishers, Taken, Accepted, Verified
  <2> QED
    BY <1>0, <1>5, <2>1, Finished DEF InsertCredential
<1>6. CASE ReadCredential(h)
  <2>0. t.challenge \in Challenges /\ t.pc = "read"
    BY <1>0, <1>6 DEF ReadCredential, InFlight, Finishers, Taken
  <2>1. CASE Continue(h, "advance") /\ t.genuine /\ Verifies(t.challenge)
    <3>1. UNCHANGED <<challenge, credential, answer, outcomes>>
      BY <1>6 DEF ReadCredential, tables, client
    <3>2. answer[t.challenge] # None /\ Registered /\ answer[t.challenge].by = credential.by
      BY <1>0, <2>0, <2>1 DEF Verifies, InFlight, Taken, Finishers
    <3> QED
      BY <1>0, <2>0, <2>1, <3>1, <3>2, Continued, FinishGoesOn
      DEF InFlight, Finishers, Taken, Accepted, Registered
  <2> QED
    BY <1>0, <1>6, <2>1, Finished DEF ReadCredential
<1>7. CASE Advance(h)
  <2>0. /\ t.challenge \in Challenges /\ t.pc = "advance" /\ t.binding # "register"
        /\ t.binding \in Bindings
    BY <1>0, <1>7 DEF Advance, InFlight, Finishers, Taken, TypeOK
  <2>1. PICK pc \in {"authorize", "session"} :
          /\ Continue(h, pc)
          /\ pc = "session" <=> t.binding = "manage"
    BY <1>7 DEF Advance
  <2>2. UNCHANGED <<challenge, outcomes>>
    BY <1>7 DEF Advance
  <2>3. answer'[t.challenge] # None /\ Registered' /\ answer'[t.challenge].by = credential'.by
    BY <1>0, <2>0 DEF InFlight, Stay, Accepted
  <2> QED
    BY <1>0, <2>0, <2>1, <2>2, <2>3, Continued, FinishGoesOn
    DEF InFlight, Finishers, Taken, Accepted, Bindings
<1>8. CASE Authorize(h)
  <2>0. t.challenge \in Challenges /\ t.pc = "authorize" /\ t.binding \in Operations
    BY <1>0, <1>8 DEF Authorize, InFlight, Finishers, Taken
  <2>1. CASE /\ Continue(h, "complete") /\ t.ceremony # None
             /\ grant' = [grant EXCEPT ![t.binding] = t.challenge]
    <3>1. grant'[t.binding] = t.challenge /\ t.binding # "register"
      BY <1>0, <2>0, <2>1, BindingsDiffer DEF TypeOK
    <3>2. t.ceremony \in Ceremonies
      BY <1>0, <2>1 DEF Tasks
    <3> QED
      BY <1>0, <2>0, <2>1, <3>1, <3>2, Continued, FinishGoesOn
      DEF InFlight, Finishers, Taken, Accepted, Verified
  <2> QED
    BY <1>0, <1>8, <2>1, Finished DEF Authorize, OnConflict
<1>9. CASE OpenSession(h) \/ Complete(h)
  BY <1>0, <1>9, Finished DEF OpenSession, Complete
<1> QED
  BY <1>1, <1>2, <1>3, <1>4, <1>5, <1>6, <1>7, <1>8, <1>9 DEF Finishing

LEMMA FlightStep == Inv /\ [Next]_vars => AllInFlight'
<1> SUFFICES ASSUME Inv, [Next]_vars PROVE AllInFlight'
  OBVIOUS
<1>1. Stay
  BY Stays
<1>2. CASE \E h \in Handlers : Making(h) \/ Finishing(h) \/ Abandon(h)
  <2>1. PICK h \in Handlers : Making(h) \/ Finishing(h) \/ Abandon(h)
    BY <1>2
  <2>2. InFlight(h)'
    BY <1>1, <2>1, MakingFlight, FinishingFlight, Finished DEF Abandon, Inv
  <2> QED
    BY <1>1, <2>1, <2>2, OthersInFlight
<1>3. CASE ~ \E h \in Handlers : Making(h) \/ Finishing(h) \/ Abandon(h)
  <2>1. UNCHANGED <<task, outcomes>>
    BY <1>3, NoneMoves
  <2>2. ASSUME NEW g \in Handlers PROVE InFlight(g)'
    BY <1>1, <2>1, FlightStays
  <2> QED
    BY <2>2 DEF AllInFlight
<1> QED
  BY <1>2, <1>3

-----------------------------------------------------------------------------
\* Which actions write what.
Written ==
    /\ ceremony' # ceremony =>
         \/ \E h \in Handlers : \/ \E s \in Ceremonies : PutCeremony(h, s)
                                \/ StoreChallenge(h)
                                \/ Complete(h)
         \/ \E s \in Ceremonies : Claim(s) \/ CeremonyLapses(s)
    /\ challenge' # challenge =>
         \/ \E h \in Handlers : (\E c \in Challenges : PutChallenge(h, c)) \/ Take(h)
         \/ \E c \in Challenges : ChallengeLapses(c)
    /\ served' # served =>
         \/ \E h \in Handlers : \/ \E c \in Challenges : PutChallenge(h, c)
                                \/ StoreChallenge(h)
                                \/ Reread(h)
         \/ \E s \in Ceremonies : OptionsAgain(s)
    /\ credential' # credential => \E h \in Handlers : InsertCredential(h) \/ Advance(h)
    /\ answer' # answer => \E c \in Challenges : Answer(c)
    /\ grant' # grant => \E h \in Handlers : Authorize(h)
    /\ sessions' # sessions => \E h \in Handlers : OpenSession(h)

LEMMA Writers == [Next]_vars => Written
<1> SUFFICES ASSUME [Next]_vars PROVE Written
  OBVIOUS
<1>1. ASSUME NEW h \in Handlers, Making(h) PROVE Written
  <2>1. CASE \/ \E b \in Bindings : Handoff(h, b) \/ DirectOptions(h, b)
             \/ \E s \in Ceremonies : OptionsRead(h, s)
             \/ CheckWelcome(h) \/ ManageChallenge(h)
    BY <2>1 DEF Written, Handoff, DirectOptions, OptionsRead, CheckWelcome, ManageChallenge,
       tables, client
  <2>2. ASSUME NEW s \in Ceremonies, PutCeremony(h, s) PROVE Written
    <3>1. UNCHANGED <<challenge, served, credential, answer, grant, sessions>>
      BY <2>2 DEF PutCeremony, client
    <3> QED
      BY <2>2, <3>1 DEF Written
  <2>3. ASSUME NEW c \in Challenges, PutChallenge(h, c) PROVE Written
    <3>1. UNCHANGED <<ceremony, credential, answer, grant, sessions>>
      BY <2>3 DEF PutChallenge, Serve, client
    <3> QED
      BY <2>3, <3>1 DEF Written
  <2>4. CASE StoreChallenge(h)
    <3>1. UNCHANGED <<challenge, credential, answer, grant, sessions>>
      BY <2>4 DEF StoreChallenge, Serve, client
    <3> QED
      BY <2>4, <3>1 DEF Written
  <2>5. CASE Reread(h)
    <3>1. UNCHANGED <<ceremony, challenge, credential, answer, grant, sessions>>
      BY <2>5 DEF Reread, Serve, client, tables
    <3> QED
      BY <2>5, <3>1 DEF Written
  <2> QED
    BY <1>1, <2>1, <2>2, <2>3, <2>4, <2>5 DEF Making
<1>2. ASSUME NEW h \in Handlers, Finishing(h) PROVE Written
  <2>1. CASE \/ \E s \in Ceremonies, genuine \in BOOLEAN : FinishRead(h, s, genuine)
             \/ \E c \in Challenges, b \in Bindings, genuine \in BOOLEAN :
                  DirectFinish(h, c, b, genuine)
             \/ CheckNone(h) \/ ReadCredential(h)
    BY <2>1 DEF Written, FinishRead, DirectFinish, CheckNone, ReadCredential, tables, client
  <2>2. CASE Take(h)
    <3>1. UNCHANGED <<ceremony, served, credential, answer, grant, sessions>>
      BY <2>2 DEF Take, client
    <3> QED
      BY <2>2, <3>1 DEF Written
  <2>3. CASE InsertCredential(h) \/ Advance(h)
    <3>1. UNCHANGED <<ceremony, challenge, served, answer, grant, sessions>>
      BY <2>3 DEF InsertCredential, Advance, client
    <3> QED
      BY <2>3, <3>1 DEF Written
  <2>4. CASE Authorize(h)
    <3>1. UNCHANGED <<ceremony, challenge, served, credential, answer, sessions>>
      BY <2>4 DEF Authorize, client
    <3> QED
      BY <2>4, <3>1 DEF Written
  <2>5. CASE OpenSession(h)
    <3>1. UNCHANGED <<ceremony, challenge, served, credential, answer, grant>>
      BY <2>5 DEF OpenSession, client
    <3> QED
      BY <2>5, <3>1 DEF Written
  <2>6. CASE Complete(h)
    <3>1. UNCHANGED <<challenge, served, credential, answer, grant, sessions>>
      BY <2>6 DEF Complete, client
    <3> QED
      BY <2>6, <3>1 DEF Written
  <2> QED
    BY <1>2, <2>1, <2>2, <2>3, <2>4, <2>5, <2>6 DEF Finishing
<1>3. ASSUME NEW h \in Handlers, Abandon(h) PROVE Written
  BY <1>3 DEF Abandon, Written, tables, client
<1>4. ASSUME NEW s \in Ceremonies, Claim(s) \/ OptionsAgain(s) \/ CeremonyLapses(s) PROVE Written
  <2>1. UNCHANGED <<challenge, credential, answer, grant, sessions>>
    BY <1>4 DEF Claim, OptionsAgain, CeremonyLapses, Serve, client, tables
  <2>2. ceremony' # ceremony => Claim(s) \/ CeremonyLapses(s)
    BY <1>4 DEF OptionsAgain, tables
  <2>3. served' # served => OptionsAgain(s)
    BY <1>4 DEF Claim, CeremonyLapses, client
  <2> QED
    BY <2>1, <2>2, <2>3 DEF Written
<1>5. ASSUME NEW c \in Challenges, Answer(c) PROVE Written
  <2>1. UNCHANGED <<ceremony, challenge, served, credential, grant, sessions>>
    BY <1>5 DEF Answer, tables
  <2> QED
    BY <1>5, <2>1 DEF Written
<1>6. ASSUME NEW c \in Challenges, ChallengeLapses(c) PROVE Written
  <2>1. UNCHANGED <<ceremony, served, credential, answer, grant, sessions>>
    BY <1>6 DEF ChallengeLapses, client
  <2> QED
    BY <1>6, <2>1 DEF Written
<1>7. CASE UNCHANGED vars
  BY <1>7 DEF Written, vars, tables, client
<1> QED
  BY <1>1, <1>2, <1>3, <1>4, <1>5, <1>6, <1>7 DEF Next

RowOK(s) ==
    /\ ceremony[s].binding # "manage"
    /\ ceremony[s].phase = "completed" => ceremony[s].challenge \in Challenges
    /\ ceremony[s].challenge # None =>
         ceremony[s].phase # "absent" /\ challenge[ceremony[s].challenge].state # "absent"

LEMMA RowsStep == Inv /\ [Next]_vars => Rows'
<1> SUFFICES ASSUME Inv, [Next]_vars PROVE Rows'
  OBVIOUS
<1> USE NoneIsNew
<1>0. TypeOK /\ Rows /\ AllInFlight /\ Stay /\ Written
  BY Stays, Writers DEF Inv
<1>1. ASSUME NEW s \in Ceremonies
      PROVE  RowOK(s)'
  <2> USE DEF RowOK
  <2>0. /\ ceremony[s] \in CeremonyRows
        /\ RowOK(s)
        /\ ceremony[s].challenge # None => challenge'[ceremony[s].challenge].state # "absent"
    BY <1>0 DEF TypeOK, Rows, CeremonyRows, Stay
  <2>1. ASSUME NEW h \in Handlers, NEW r \in Ceremonies, PutCeremony(h, r)
        PROVE  RowOK(s)'
    <3>1. InFlight(h) /\ task[h].binding # "manage"
      BY <1>0, <2>1 DEF AllInFlight, InFlight, PutCeremony
    <3>2. CASE s # r
      BY <1>0, <2>0, <2>1, <3>2 DEF PutCeremony, TypeOK
    <3>3. CASE s = r
      <4>1. ceremony'[s] = [ceremony[s] EXCEPT !.phase = "waiting", !.binding = task[h].binding]
        BY <1>0, <2>1, <3>3 DEF PutCeremony, TypeOK
      <4> QED
        BY <2>0, <3>1, <4>1 DEF CeremonyRows
    <3> QED
      BY <3>2, <3>3
  <2>2. ASSUME NEW h \in Handlers, StoreChallenge(h)
        PROVE  RowOK(s)'
    <3>1. task[h].challenge \in Challenges /\ challenge'[task[h].challenge].state # "absent"
      BY <1>0, <2>2 DEF AllInFlight, InFlight, StoreChallenge, Stay
    <3>2. \/ ceremony'[s] = ceremony[s]
          \/ /\ ceremony[s].phase = "claimed"
             /\ ceremony'[s] = [ceremony[s] EXCEPT !.challenge = task[h].challenge]
      BY <1>0, <2>2 DEF StoreChallenge, StoresChallenge, TypeOK
    <3> QED
      BY <1>0, <2>0, <3>1, <3>2 DEF CeremonyRows, Rows
  <2>3. ASSUME NEW h \in Handlers, Complete(h)
        PROVE  RowOK(s)'
    <3>1. /\ task[h].ceremony \in Ceremonies
          /\ ceremony[task[h].ceremony].challenge \in Challenges
      BY <1>0, <2>3 DEF AllInFlight, InFlight, Complete, Finishers
    <3>2. \/ ceremony'[s] = ceremony[s]
          \/ s = task[h].ceremony /\ ceremony'[s] = [ceremony[s] EXCEPT !.phase = "completed"]
      BY <1>0, <2>3 DEF Complete, TypeOK
    <3> QED
      BY <1>0, <2>0, <3>1, <3>2 DEF CeremonyRows, Rows
  <2>4. ASSUME NEW r \in Ceremonies, Claim(r) \/ CeremonyLapses(r)
        PROVE  RowOK(s)'
    <3>1. \/ ceremony'[s] = ceremony[s]
          \/ ceremony'[s] = [ceremony[s] EXCEPT !.phase = "claimed"]
          \/ ceremony'[s] = [ceremony[s] EXCEPT !.phase = "lapsed"]
      BY <1>0, <2>4 DEF Claim, CeremonyLapses, TypeOK
    <3> QED
      BY <1>0, <2>0, <3>1 DEF CeremonyRows, Rows
  <2>5. CASE ceremony' = ceremony
    BY <2>0, <2>5
  <2> QED
    BY <1>0, <2>1, <2>2, <2>3, <2>4, <2>5 DEF Written
<1>2. ASSUME NEW c \in Challenges, challenge'[c].state # "absent"
      PROVE  challenge'[c].purpose = KindOf(challenge'[c].binding)
  <2>1. CASE challenge[c].state # "absent"
    BY <1>0, <2>1 DEF Rows, Stay
  <2>2. CASE challenge[c].state = "absent"
    <3>1. ~ \E h \in Handlers : Take(h) /\ challenge'[c] # challenge[c]
      BY <1>0, <2>2 DEF Take, Takes, MarkUsed, TypeOK
    <3>2. ~ \E d \in Challenges : ChallengeLapses(d) /\ challenge'[c] # challenge[c]
      BY <1>0, <2>2 DEF ChallengeLapses, TypeOK
    <3>3. PICK h \in Handlers, d \in Challenges : PutChallenge(h, d)
      BY <1>0, <1>2, <2>2, <3>1, <3>2 DEF Written
    <3>4. challenge'[c] = NewChallenge(task[h].binding)
      BY <1>0, <1>2, <2>2, <3>3 DEF PutChallenge, TypeOK
    <3> QED
      BY <3>4 DEF NewChallenge
  <2> QED
    BY <2>1, <2>2
<1>3. ASSUME NEW s \in Ceremonies \union {None}, NEW c \in Challenges, c \in served'[s]
      PROVE  challenge'[c].state # "absent"
  <2>1. CASE c \in served[s]
    BY <1>0, <2>1 DEF Rows, Stay
  <2>2. CASE c \notin served[s]
    <3>1. ASSUME NEW h \in Handlers, NEW d \in Challenges, PutChallenge(h, d)
          PROVE  challenge'[c].state # "absent"
      <4>1. c = d
        BY <1>0, <1>3, <2>2, <3>1 DEF PutChallenge, Serve, TypeOK, client
      <4> QED
        BY <1>0, <3>1, <4>1 DEF PutChallenge, NewChallenge, TypeOK
    <3>2. ASSUME NEW h \in Handlers, StoreChallenge(h) PROVE challenge'[c].state # "absent"
      <4>1. c = task[h].challenge
        BY <1>0, <1>3, <2>2, <3>2 DEF StoreChallenge, Serve, TypeOK, client
      <4> QED
        BY <1>0, <3>2, <4>1 DEF AllInFlight, InFlight, StoreChallenge, Stay
    <3>3. \A r \in Ceremonies : ceremony[r].challenge = c => challenge'[c].state # "absent"
      BY <1>0 DEF Rows, Stay
    <3>4. ASSUME NEW h \in Handlers, Reread(h) PROVE challenge'[c].state # "absent"
      <4>1. task[h].ceremony \in Ceremonies /\ c = ceremony[task[h].ceremony].challenge
        BY <1>0, <1>3, <2>2, <3>4 DEF Reread, Serve, TypeOK, client, AllInFlight, InFlight
      <4> QED
        BY <3>3, <4>1
    <3>5. ASSUME NEW r \in Ceremonies, OptionsAgain(r) PROVE challenge'[c].state # "absent"
      <4>1. c = ceremony[r].challenge
        BY <1>0, <1>3, <2>2, <3>5 DEF OptionsAgain, Serve, TypeOK
      <4> QED
        BY <3>3, <4>1
    <3> QED
      BY <1>0, <1>3, <2>2, <3>1, <3>2, <3>4, <3>5 DEF Written
  <2> QED
    BY <2>1, <2>2
<1>4. ASSUME NEW c \in Challenges, answer'[c] # None
      PROVE  /\ challenge'[c].state # "absent"
             /\ answer'[c].key = "P256"
             /\ challenge'[c].purpose = "register" => answer'[c].by = c
  <2>1. CASE answer[c] # None
    BY <1>0, <2>1 DEF Rows, Stay
  <2>2. CASE answer[c] = None
    <3>1. PICK d \in Challenges : Answer(d)
      BY <1>0, <1>4, <2>2 DEF Written
    <3>2. c = d
      BY <1>0, <1>4, <2>2, <3>1 DEF Answer, TypeOK
    <3>3. challenge[c].state # "absent"
      BY <1>0, <3>1, <3>2 DEF Answer, Rows
    <3>4. answer'[c].key = "P256" /\ (challenge[c].purpose = "register" => answer'[c].by = c)
      BY <1>0, <3>1, <3>2 DEF Answer, Offered, TypeOK
    <3> QED
      BY <1>0, <3>3, <3>4 DEF Stay
  <2> QED
    BY <2>1, <2>2
<1> QED
  BY <1>1, <1>2, <1>3, <1>4 DEF Rows, RowOK

-----------------------------------------------------------------------------
LEMMA DistinctStep == Inv /\ [Next]_vars => Distinct'
<1> SUFFICES ASSUME Inv, [Next]_vars PROVE Distinct'
  OBVIOUS
<1>0. TypeOK /\ Distinct /\ AllInFlight
  BY DEF Inv
<1>1. CASE UNCHANGED task
  BY <1>0, <1>1 DEF Distinct
<1>2. ASSUME NEW h \in Handlers, Making(h) \/ Finishing(h) \/ Abandon(h) PROVE Distinct'
  <2>1. \/ task'[h].pc \notin Taken
        \/ task[h].pc \in Taken /\ task'[h].challenge = task[h].challenge
        \/ task'[h].challenge = task[h].challenge /\ challenge[task[h].challenge].state = "live"
    <3>0. task[h] \in Tasks
      BY <1>0 DEF TypeOK
    <3>1. CASE Making(h)
      <4>1. task'[h].pc \notin Taken
        <5>1. CASE \E b \in Bindings : Handoff(h, b) \/ DirectOptions(h, b)
          BY <1>0, <5>1 DEF Handoff, DirectOptions, Begin, TypeOK, Taken
        <5>2. CASE ManageChallenge(h) \/ \E s \in Ceremonies : OptionsRead(h, s)
          BY <1>0, <5>2 DEF OptionsRead, ManageChallenge, Begin, TypeOK, Taken
        <5>3. ASSUME NEW c \in Challenges, PutChallenge(h, c) PROVE task'[h].pc \notin Taken
          <6>1. CASE Finish(h)
            BY <1>0, <6>1 DEF Finish, Idle, TypeOK, Taken
          <6>2. CASE task' = [task EXCEPT ![h].pc = "store", ![h].challenge = c]
            <7>1. task'[h] = [task[h] EXCEPT !.pc = "store", !.challenge = c]
              BY <1>0, <6>2 DEF TypeOK
            <7>2. task'[h].pc = "store"
              BY <3>0, <7>1 DEF Tasks
            <7> QED
              BY <7>2 DEF Taken
          <6> QED
            BY <5>3, <6>1, <6>2 DEF PutChallenge
        <5>4. CASE \/ \E s \in Ceremonies : PutCeremony(h, s)
                   \/ CheckWelcome(h) \/ StoreChallenge(h) \/ Reread(h)
          <6>1. PICK pc \in {"start", "reread"} : Finish(h) \/ Continue(h, pc)
            BY <5>4 DEF PutCeremony, CheckWelcome, StoreChallenge, Reread
          <6>2. task'[h].pc \in {"idle", "start", "reread"}
            BY <1>0, <6>1, Continued DEF Finish, Idle, TypeOK
          <6> QED
            BY <6>2 DEF Taken
        <5> QED
          BY <3>1, <5>1, <5>2, <5>3, <5>4 DEF Making
      <4> QED
        BY <4>1
    <3>2. CASE Finishing(h)
      <4>1. CASE \/ \E s \in Ceremonies, genuine \in BOOLEAN : FinishRead(h, s, genuine)
                 \/ \E c \in Challenges, b \in Bindings, genuine \in BOOLEAN :
                      DirectFinish(h, c, b, genuine)
        <5>1. task'[h].pc \in {"check", "take"}
          BY <1>0, <4>1 DEF FinishRead, DirectFinish, Begin, TypeOK, FirstPc
        <5> QED
          BY <5>1 DEF Taken
      <4>2. CASE CheckNone(h)
        <5>1. task'[h].pc \in {"idle", "take"}
          BY <1>0, <4>2, Continued DEF CheckNone, Finish, Idle, TypeOK
        <5> QED
          BY <5>1 DEF Taken
      <4>3. CASE Take(h)
        <5>1. PICK pc \in {"insert", "read"} :
                Finish(h) \/ (Continue(h, pc) /\ challenge[task[h].challenge].state = "live")
          BY <4>3 DEF Take, Takes
        <5> QED
          BY <1>0, <5>1, Continued DEF Finish, Idle, TypeOK, Taken
      <4>4. CASE \/ InsertCredential(h) \/ ReadCredential(h) \/ Advance(h) \/ Authorize(h)
                 \/ OpenSession(h) \/ Complete(h)
        <5>1. PICK pc \in Taken \union {"complete"} : Finish(h) \/ Continue(h, pc)
          BY <4>4 DEF InsertCredential, ReadCredential, Advance, Authorize, OnConflict,
             OpenSession, Complete, Taken
        <5>2. task[h].pc \in Taken \/ task'[h].pc = "idle"
          BY <1>0, <4>4 DEF InsertCredential, ReadCredential, Advance, Authorize,
             OpenSession, Complete, Finish, Idle, TypeOK, Taken
        <5> QED
          BY <1>0, <5>1, <5>2, Continued DEF Finish, Idle, TypeOK, Taken
      <4> QED
        BY <3>2, <4>1, <4>2, <4>3, <4>4 DEF Finishing
    <3>3. CASE Abandon(h)
      BY <1>0, <3>3 DEF Abandon, Finish, Idle, TypeOK, Taken
    <3> QED
      BY <1>2, <3>1, <3>2, <3>3
  <2>2. ASSUME NEW g \in Handlers, g # h, task'[g].pc \in Taken, task'[h].pc \in Taken
        PROVE  task'[g].challenge # task'[h].challenge
    <3>1. task'[g] = task[g]
      BY <1>0, <1>2, <2>2, OneMoves
    <3>2. challenge[task[g].challenge].state = "used"
      BY <1>0, <2>2, <3>1 DEF AllInFlight, InFlight
    <3> QED
      BY <1>0, <2>1, <2>2, <3>1, <3>2 DEF Distinct
  <2>3. \A f, g \in Handlers : f # h /\ g # h => task'[f] = task[f] /\ task'[g] = task[g]
    BY <1>0, <1>2, OneMoves
  <2> QED
    BY <1>0, <2>2, <2>3 DEF Distinct
<1> QED
  BY <1>1, <1>2, NoneMoves

-----------------------------------------------------------------------------
\* The bindings of what was answered.
LEMMA BoundStep == Inv /\ [Next]_vars => OutcomesAreBound'
<1> SUFFICES ASSUME Inv, [Next]_vars PROVE OutcomesAreBound'
  OBVIOUS
<1>0. TypeOK /\ OutcomesAreBound /\ AllInFlight /\ Stay /\ Written
  BY Stays, Writers DEF Inv
<1>1. ASSUME NEW c \in Challenges, NEW b, AnsweredBy(c, b) PROVE AnsweredBy(c, b)'
  BY <1>0, <1>1 DEF AnsweredBy, Stay
<1>2. ASSUME NEW o \in Operations, grant'[o] # None PROVE AnsweredBy(grant[o], o)'
  <2>1. CASE grant[o] # None
    <3>1. grant[o] \in Challenges /\ AnsweredBy(grant[o], o) /\ grant'[o] = grant[o]
      BY <1>0, <2>1 DEF OutcomesAreBound, Stay, TypeOK
    <3> QED
      BY <1>0, <3>1 DEF AnsweredBy, Stay
  <2>2. CASE grant[o] = None
    <3>1. PICK h \in Handlers : Authorize(h)
      BY <1>0, <1>2, <2>2 DEF Written
    <3>2. o = task[h].binding /\ grant'[o] = task[h].challenge
      BY <1>0, <1>2, <2>2, <3>1 DEF Authorize, TypeOK
    <3>3. task[h].challenge \in Challenges /\ AnsweredBy(task[h].challenge, o)
      BY <1>0, <3>1, <3>2
      DEF AllInFlight, InFlight, Authorize, Finishers, Taken, Accepted, AnsweredBy
    <3> QED
      BY <1>0, <3>2, <3>3 DEF AnsweredBy, Stay
  <2> QED
    BY <2>1, <2>2
<1>3. ASSUME NEW c \in sessions' PROVE AnsweredBy(c, "manage")'
  <2>1. CASE c \in sessions
    <3>1. c \in Challenges /\ AnsweredBy(c, "manage")
      BY <1>0, <2>1 DEF OutcomesAreBound, TypeOK
    <3> QED
      BY <1>0, <3>1 DEF AnsweredBy, Stay
  <2>2. CASE c \notin sessions
    <3>1. PICK h \in Handlers : OpenSession(h)
      BY <1>0, <1>3, <2>2 DEF Written
    <3>2. c = task[h].challenge
      BY <1>3, <2>2, <3>1 DEF OpenSession
    <3>3. c \in Challenges /\ AnsweredBy(c, "manage")
      BY <1>0, <3>1, <3>2
      DEF AllInFlight, InFlight, OpenSession, Finishers, Taken, Accepted, AnsweredBy
    <3> QED
      BY <1>0, <3>3 DEF AnsweredBy, Stay
  <2> QED
    BY <2>1, <2>2
<1> QED
  BY <1>2, <1>3 DEF OutcomesAreBound, AnsweredBy

LEMMA VerifiedStays ==
    ASSUME Inv, Stay, NEW s \in Ceremonies, ceremony[s].challenge \in Challenges,
           ceremony[s].phase # "absent", Verified(ceremony[s].binding, ceremony[s].challenge)
    PROVE  Verified(ceremony[s].binding, ceremony[s].challenge)'
<1>1. /\ ceremony'[s].binding = ceremony[s].binding
      /\ ceremony'[s].challenge = ceremony[s].challenge
  BY NoneIsNew DEF Stay
<1>2. ceremony[s].binding = "register" \/ ceremony[s].binding \in Operations
  BY DEF Inv, TypeOK, Rows, Bindings
<1> QED
  BY <1>1, <1>2, NoneIsNew DEF Verified, Stay

LEMMA CompletedStep == Inv /\ [Next]_vars => CompletedIsVerified'
<1> SUFFICES ASSUME Inv, [Next]_vars, NEW s \in Ceremonies, ceremony'[s].phase = "completed"
             PROVE  Verified(ceremony[s].binding, ceremony[s].challenge)'
  BY DEF CompletedIsVerified, Verified
<1>0. TypeOK /\ Rows /\ CompletedIsVerified /\ AllInFlight /\ Stay /\ Written
  BY Stays, Writers DEF Inv
<1>1. CASE ceremony[s].phase = "completed"
  <2>1. ceremony[s].challenge \in Challenges
    BY <1>0, <1>1 DEF Rows
  <2>2. Verified(ceremony[s].binding, ceremony[s].challenge)
    BY <1>0, <1>1 DEF CompletedIsVerified, Verified
  <2> QED
    BY <1>0, <1>1, <2>1, <2>2, VerifiedStays
<1>2. CASE ceremony[s].phase # "completed"
  <2>1. ASSUME NEW h \in Handlers, NEW r \in Ceremonies, PutCeremony(h, r) PROVE FALSE
    <3>1. \/ ceremony'[s] = ceremony[s]
          \/ ceremony'[s] = [ceremony[s] EXCEPT !.phase = "waiting", !.binding = task[h].binding]
      BY <1>0, <2>1 DEF PutCeremony, TypeOK
    <3> QED
      BY <1>0, <1>2, <3>1 DEF TypeOK, CeremonyRows
  <2>2. ASSUME NEW h \in Handlers, StoreChallenge(h) PROVE FALSE
    <3>1. \/ ceremony'[s] = ceremony[s]
          \/ ceremony'[s] = [ceremony[s] EXCEPT !.challenge = task[h].challenge]
      BY <1>0, <2>2 DEF StoreChallenge, TypeOK
    <3> QED
      BY <1>0, <1>2, <3>1 DEF TypeOK, CeremonyRows
  <2>3. ASSUME NEW r \in Ceremonies, Claim(r) \/ CeremonyLapses(r) PROVE FALSE
    <3>1. \/ ceremony'[s] = ceremony[s]
          \/ ceremony'[s] = [ceremony[s] EXCEPT !.phase = "claimed"]
          \/ ceremony'[s] = [ceremony[s] EXCEPT !.phase = "lapsed"]
      BY <1>0, <2>3 DEF Claim, CeremonyLapses, TypeOK
    <3> QED
      BY <1>0, <1>2, <3>1 DEF TypeOK, CeremonyRows
  <2>4. PICK h \in Handlers : Complete(h)
    BY <1>0, <1>2, <2>1, <2>2, <2>3 DEF Written
  <2>5. s = task[h].ceremony /\ ceremony[s].phase = "claimed"
    BY <1>0, <1>2, <2>4 DEF Complete, TypeOK
  <2>6. /\ ceremony[s].challenge \in Challenges
        /\ Verified(ceremony[s].binding, ceremony[s].challenge)
    BY <1>0, <2>4, <2>5, NoneIsNew DEF Complete, AllInFlight, InFlight, Finishers
  <2> QED
    BY <1>0, <2>5, <2>6, VerifiedStays
<1> QED
  BY <1>1, <1>2

LEMMA PagesStep == Inv /\ [Next]_vars => PagesAgree'
<1> SUFFICES ASSUME Inv, [Next]_vars, NEW s \in Ceremonies, NEW c \in served'[s]
             PROVE  c = ceremony'[s].challenge
  BY DEF PagesAgree
<1> USE NoneIsNew
<1>0. TypeOK /\ TypeOK' /\ Rows /\ PagesAgree /\ AllInFlight /\ Stay /\ Written
  BY Stays, Writers, TypeStep DEF Inv
<1>1. c \in Challenges /\ c # None
  BY <1>0 DEF TypeOK
<1>2. ceremony[s].challenge = c => ceremony'[s].challenge = c
  BY <1>0, <1>1 DEF Rows, Stay
<1>3. CASE c \in served[s]
  BY <1>0, <1>2, <1>3 DEF PagesAgree
<1>4. CASE c \notin served[s]
  <2>1. ASSUME NEW h \in Handlers, NEW d \in Challenges, PutChallenge(h, d) PROVE FALSE
    BY <1>0, <1>4, <2>1 DEF PutChallenge, Serve, TypeOK, client
  <2>2. ASSUME NEW h \in Handlers, StoreChallenge(h) PROVE c = ceremony'[s].challenge
    <3>1. /\ s = task[h].ceremony /\ c = task[h].challenge
          /\ ceremony' = [ceremony EXCEPT ![s].challenge = c]
      BY <1>0, <1>4, <2>2 DEF StoreChallenge, Serve, TypeOK, client
    <3>2. ceremony[s] \in CeremonyRows /\ ceremony'[s] = [ceremony[s] EXCEPT !.challenge = c]
      BY <1>0, <3>1 DEF TypeOK
    <3> QED
      BY <3>2 DEF CeremonyRows
  <2>3. ASSUME NEW h \in Handlers, Reread(h) PROVE c = ceremony[s].challenge
    BY <1>0, <1>4, <2>3 DEF Reread, Serve, TypeOK, client, AllInFlight, InFlight
  <2>4. ASSUME NEW r \in Ceremonies, OptionsAgain(r) PROVE c = ceremony[s].challenge
    BY <1>0, <1>4, <2>4 DEF OptionsAgain, Serve, TypeOK
  <2> QED
    BY <1>0, <1>2, <1>4, <2>1, <2>2, <2>3, <2>4 DEF Written
<1> QED
  BY <1>3, <1>4

LEMMA KeyStep == Inv /\ [Next]_vars => StoredKeyIsUsable'
<1> SUFFICES ASSUME Inv, [Next]_vars, credential' # None PROVE credential'.key = "P256"
  BY DEF StoredKeyIsUsable, Registered
<1>0. TypeOK /\ Rows /\ StoredKeyIsUsable /\ AllInFlight /\ Written
  BY Writers DEF Inv
<1>1. CASE credential' = credential
  BY <1>0, <1>1 DEF StoredKeyIsUsable, Registered
<1>2. ASSUME NEW h \in Handlers, InsertCredential(h), credential' # credential
      PROVE  credential'.key = "P256"
  <2>1. task[h].challenge \in Challenges /\ credential' = answer[task[h].challenge]
    BY <1>0, <1>2 DEF InsertCredential, AllInFlight, InFlight, Finishers, Taken
  <2> QED
    BY <1>0, <2>1 DEF Rows
<1>3. ASSUME NEW h \in Handlers, Advance(h) PROVE credential'.key = "P256"
  <2>1. Registered
    BY <1>0, <1>3 DEF Advance, AllInFlight, InFlight, Accepted
  <2>2. credential \in Credentials
    BY <1>0, <2>1 DEF TypeOK, Registered
  <2>3. credential'.key = credential.key
    BY <1>3, <2>2 DEF Advance, Credentials
  <2> QED
    BY <1>0, <2>1, <2>3 DEF StoredKeyIsUsable
<1> QED
  BY <1>0, <1>1, <1>2, <1>3 DEF Written

-----------------------------------------------------------------------------
LEMMA Inductive == Inv /\ [Next]_vars => Inv'
BY TypeStep, RowsStep, FlightStep, DistinctStep, OutcomeSteps, BoundStep, CompletedStep,
   PagesStep, KeyStep DEF Inv

LEMMA Invariance == Spec => []Inv
BY Initially, Inductive, PTL DEF Spec

\* Tables, handlers and the pages keep their types, and every row and handler that
\* is not empty has a binding.
THEOREM TypeCorrect == Spec => []TypeOK
<1>1. Inv => TypeOK
  BY DEF Inv
<1> QED
  BY <1>1, Invariance, PTL

\* The answer to a challenge counts at most once.
THEOREM OneUse == Spec => []OneOutcome
<1>1. Inv => OneOutcome
  BY DEF Inv
<1> QED
  BY <1>1, Invariance, PTL

\* Authorizations and sessions come of a challenge made for them, answered with the
\* wallet's own passkey.
THEOREM AnswersAreBound == Spec => []OutcomesAreBound
<1>1. Inv => OutcomesAreBound
  BY DEF Inv
<1> QED
  BY <1>1, Invariance, PTL

\* A ceremony reported as completed was verified, by the answer to its challenge.
THEOREM CompletedMeansVerified == Spec => []CompletedIsVerified
<1>1. Inv => CompletedIsVerified
  BY DEF Inv
<1> QED
  BY <1>1, Invariance, PTL

\* All loads of a ceremony's page are given the challenge its finish checks.
THEOREM PagesAreOne == Spec => []PagesAgree
<1>1. Inv => PagesAgree
  BY DEF Inv
<1> QED
  BY <1>1, Invariance, PTL

\* The stored passkey is one that assertions can be verified with.
THEOREM KeyIsUsable == Spec => []StoredKeyIsUsable
<1>1. Inv => StoredKeyIsUsable
  BY DEF Inv
<1> QED
  BY <1>1, Invariance, PTL

\* The passkey of a wallet is never replaced or removed.
THEOREM NeverReplaced == Spec => PasskeyStays
<1>1. Inv /\ [Next]_vars => [Registered => credential' # None /\ credential'.by = credential.by]_vars
  BY Stays DEF Stay, Registered
<1> QED
  BY <1>1, Invariance, PTL DEF Spec, PasskeyStays

-----------------------------------------------------------------------------
\* The limit on waiting management challenges.
OffersNameTheWallet == \A h \in Handlers : task[h].pc = "offer" => task[h].binding # "manage"

LEMMA StartsAre ==
    ASSUME Inv, OffersNameTheWallet, NEW h \in Handlers,
           Making(h) \/ Finishing(h) \/ Abandon(h)
    PROVE  /\ task'[h].pc = "offer" => task'[h].binding # "manage"
           /\ task'[h].pc = "start" => ManageChallenge(h) \/ task'[h].binding # "manage"
<1> USE NoneIsNew
<1>0. TypeOK /\ Rows /\ task[h] \in Tasks
  BY DEF Inv, TypeOK
<1> DEFINE Other == task'[h].pc \notin {"offer", "start"}
<1>1. CASE Finish(h)
  BY <1>0, <1>1 DEF Finish, Idle, TypeOK
<1>2. ASSUME NEW pc \in Pcs \ {"offer", "start"}, Continue(h, pc) PROVE Other
  BY <1>0, <1>2, Continued
<1>3. ASSUME Making(h), ~ ManageChallenge(h), ~ Finish(h)
      PROVE  \/ Other
             \/ task'[h].pc \in {"offer", "start"} /\ task'[h].binding # "manage"
  <2>1. CASE \E b \in Bindings : Handoff(h, b) \/ DirectOptions(h, b)
    BY <1>0, <2>1 DEF Handoff, DirectOptions, Begin, TypeOK
  <2>2. CASE \E s \in Ceremonies : OptionsRead(h, s)
    BY <1>0, <2>2 DEF OptionsRead, Begin, TypeOK, Rows
  <2>3. CASE CheckWelcome(h)
    <3>1. Continue(h, "start") /\ task[h].pc = "offer"
      BY <1>3, <2>3 DEF CheckWelcome
    <3> QED
      BY <1>0, <3>1, Continued DEF OffersNameTheWallet
  <2>4. ASSUME NEW c \in Challenges, PutChallenge(h, c) PROVE Other
    <3>1. task'[h] = [task[h] EXCEPT !.pc = "store", !.challenge = c]
      BY <1>0, <1>3, <2>4 DEF PutChallenge, TypeOK
    <3>2. task'[h].pc = "store"
      BY <1>0, <3>1 DEF Tasks
    <3> QED
      BY <3>2
  <2>5. CASE StoreChallenge(h) \/ Reread(h) \/ \E s \in Ceremonies : PutCeremony(h, s)
    BY <1>2, <1>3, <2>5 DEF StoreChallenge, Reread, PutCeremony, Pcs
  <2> HIDE DEF Other
  <2> QED
    BY <1>3, <2>1, <2>2, <2>3, <2>4, <2>5 DEF Making
<1>4. ASSUME ManageChallenge(h) PROVE task'[h].pc = "start"
  BY <1>0, <1>4 DEF ManageChallenge, Begin, TypeOK
<1>5. ASSUME Finishing(h), ~ Finish(h) PROVE Other
  <2>1. CASE \/ \E s \in Ceremonies, genuine \in BOOLEAN : FinishRead(h, s, genuine)
             \/ \E c \in Challenges, b \in Bindings, genuine \in BOOLEAN :
                  DirectFinish(h, c, b, genuine)
    BY <1>0, <2>1 DEF FinishRead, DirectFinish, Begin, TypeOK, FirstPc
  <2>2. CASE \/ CheckNone(h) \/ Take(h) \/ InsertCredential(h) \/ ReadCredential(h)
             \/ Advance(h) \/ Authorize(h) \/ OpenSession(h) \/ Complete(h)
    <3>1. \E pc \in Pcs \ {"offer", "start"} : Continue(h, pc)
      BY <1>5, <2>2 DEF CheckNone, Take, InsertCredential, ReadCredential, Advance, Authorize,
         OnConflict, OpenSession, Complete, Pcs
    <3> QED
      BY <1>2, <3>1
  <2> QED
    BY <1>5, <2>1, <2>2 DEF Finishing
<1> QED
  BY <1>1, <1>3, <1>4, <1>5 DEF Abandon

LEMMA OffersStep == Inv /\ OffersNameTheWallet /\ [Next]_vars => OffersNameTheWallet'
<1> SUFFICES ASSUME Inv, OffersNameTheWallet, [Next]_vars, NEW g \in Handlers,
                    task'[g].pc = "offer"
             PROVE  task'[g].binding # "manage"
  BY DEF OffersNameTheWallet
<1>1. CASE task'[g] = task[g]
  BY <1>1 DEF OffersNameTheWallet
<1>2. CASE task'[g] # task[g]
  <2>1. PICK h \in Handlers : Making(h) \/ Finishing(h) \/ Abandon(h)
    BY <1>2, NoneMoves
  <2>2. g = h
    BY <1>2, <2>1, OneMoves DEF Inv
  <2> QED
    BY <2>1, <2>2, StartsAre
<1> QED
  BY <1>1, <1>2

LEMMA AboutShrinks ==
    ASSUME Inv, OffersNameTheWallet, [Next]_vars, ~ \E h \in Handlers : ManageChallenge(h)
    PROVE  AboutToWait' \subseteq AboutToWait
<1> SUFFICES ASSUME NEW g \in Handlers, task'[g].pc = "start", task'[g].binding = "manage"
             PROVE  task[g].pc = "start" /\ task[g].binding = "manage"
  BY DEF AboutToWait
<1>1. CASE task'[g] = task[g]
  BY <1>1
<1>2. CASE task'[g] # task[g]
  <2>1. PICK h \in Handlers : Making(h) \/ Finishing(h) \/ Abandon(h)
    BY <1>2, NoneMoves
  <2>2. g = h
    BY <1>2, <2>1, OneMoves DEF Inv
  <2> QED
    BY <2>1, <2>2, StartsAre
<1> QED
  BY <1>1, <1>2

LEMMA LiveShrinks ==
    ASSUME Inv, [Next]_vars,
           ~ \E h \in Handlers, c \in Challenges : PutChallenge(h, c) /\ task[h].binding = "manage"
    PROVE  LiveManage' \subseteq LiveManage
<1> SUFFICES ASSUME NEW c \in Challenges, challenge'[c].wallet = "", challenge'[c].state = "live",
                    challenge'[c] # challenge[c]
             PROVE  FALSE
  BY DEF LiveManage
<1>0. TypeOK /\ Written /\ challenge[c] \in ChallengeRows
  BY Writers DEF Inv, TypeOK
<1>1. ASSUME NEW h \in Handlers, NEW d \in Challenges, PutChallenge(h, d) PROVE FALSE
  <2>1. c = d
    BY <1>0, <1>1 DEF PutChallenge, TypeOK
  <2>2. challenge'[c] = NewChallenge(task[h].binding)
    BY <1>0, <1>1, <2>1 DEF PutChallenge, TypeOK
  <2>3. challenge'[c].wallet = WalletOf(task[h].binding)
    <3>1. NewChallenge(task[h].binding).wallet = WalletOf(task[h].binding)
      BY DEF NewChallenge
    <3> QED
      BY <2>2, <3>1
  <2>4. task[h].binding = "manage"
    BY <2>3 DEF WalletOf
  <2> QED
    BY <1>1, <2>4
<1>2. ASSUME NEW h \in Handlers, Take(h) PROVE FALSE
  <2>1. challenge'[c] = [challenge[c] EXCEPT !.state = "used"]
    BY <1>0, <1>2 DEF Take, MarkUsed, TypeOK
  <2> QED
    BY <1>0, <2>1 DEF ChallengeRows
<1>3. ASSUME NEW d \in Challenges, ChallengeLapses(d) PROVE FALSE
  <2>1. challenge'[c] = [challenge[c] EXCEPT !.state = "lapsed"]
    BY <1>0, <1>3 DEF ChallengeLapses, TypeOK
  <2> QED
    BY <1>0, <2>1 DEF ChallengeRows
<1> QED
  BY <1>0, <1>1, <1>2, <1>3 DEF Written

LEMMA WaitingStep ==
    Inv /\ OffersNameTheWallet /\ WaitingIsBounded /\ [Next]_vars => WaitingIsBounded'
<1> SUFFICES ASSUME Inv, OffersNameTheWallet, WaitingIsBounded, [Next]_vars
             PROVE  WaitingIsBounded'
  OBVIOUS
<1> USE CountsAreFinite, MaxLiveIsNatural
<1>0. TypeOK
  BY DEF Inv
<1>1. /\ LiveManage \subseteq Challenges /\ LiveManage' \subseteq Challenges
      /\ AboutToWait \subseteq Handlers /\ AboutToWait' \subseteq Handlers
  BY DEF LiveManage, AboutToWait
<1>2. /\ IsFiniteSet(LiveManage) /\ IsFiniteSet(LiveManage')
      /\ IsFiniteSet(AboutToWait) /\ IsFiniteSet(AboutToWait')
  BY <1>1, FS_Subset
<1>3. /\ Cardinality(LiveManage) \in Nat /\ Cardinality(LiveManage') \in Nat
      /\ Cardinality(AboutToWait) \in Nat /\ Cardinality(AboutToWait') \in Nat
      /\ Cardinality(Handlers) \in Nat
  BY <1>2, FS_CardinalityType
<1>4. CASE \E h \in Handlers : ManageChallenge(h)
  <2>1. LiveManage' = LiveManage /\ Cardinality(LiveManage) < MaxLive
    BY <1>4 DEF ManageChallenge, MayManage, LiveManage, tables
  <2>2. Cardinality(AboutToWait') <= Cardinality(Handlers)
    BY <1>1, FS_Subset
  <2> QED
    BY <1>3, <2>1, <2>2 DEF WaitingIsBounded
<1>5. ASSUME NEW h \in Handlers, NEW c \in Challenges, PutChallenge(h, c),
             task[h].binding = "manage"
      PROVE  WaitingIsBounded'
  <2>1. challenge' = [challenge EXCEPT ![c] = NewChallenge("manage")]
    BY <1>5 DEF PutChallenge
  <2>2. LiveManage' = LiveManage \union {c} /\ c \notin LiveManage
    <3>1. \A d \in Challenges :
            challenge'[d] = IF d = c THEN NewChallenge("manage") ELSE challenge[d]
      BY <1>0, <2>1 DEF TypeOK
    <3>2. challenge[c].state = "absent"
      BY <1>5 DEF PutChallenge
    <3>3. NewChallenge("manage").wallet = "" /\ NewChallenge("manage").state = "live"
      BY DEF NewChallenge, WalletOf
    <3>4. \A d \in Challenges :
            challenge'[d].wallet = "" /\ challenge'[d].state = "live" <=>
                d = c \/ (challenge[d].wallet = "" /\ challenge[d].state = "live")
      BY <3>1, <3>3
    <3> QED
      BY <3>2, <3>4 DEF LiveManage
  <2>3. h \in AboutToWait
    BY <1>5 DEF PutChallenge, AboutToWait
  <2>4. ~ \E g \in Handlers : ManageChallenge(g)
    BY <1>5, <2>2 DEF ManageChallenge, LiveManage, tables
  <2>5. task'[h].pc # "start"
    <3>1. CASE Finish(h)
      BY <1>0, <3>1 DEF Finish, Idle, TypeOK
    <3>2. CASE task' = [task EXCEPT ![h].pc = "store", ![h].challenge = c]
      <4>1. task[h] \in Tasks /\ task'[h] = [task[h] EXCEPT !.pc = "store", !.challenge = c]
        BY <1>0, <3>2 DEF TypeOK
      <4> QED
        BY <4>1 DEF Tasks
    <3> QED
      BY <1>5, <3>1, <3>2 DEF PutChallenge
  <2>6. AboutToWait' \subseteq AboutToWait \ {h}
    BY <2>4, <2>5, AboutShrinks DEF AboutToWait
  <2>7. Cardinality(LiveManage') = Cardinality(LiveManage) + 1
    BY <1>2, <2>2, FS_AddElement
  <2>8. /\ IsFiniteSet(AboutToWait \ {h})
        /\ Cardinality(AboutToWait \ {h}) = Cardinality(AboutToWait) - 1
    BY <1>2, <2>3, FS_RemoveElement
  <2>9. Cardinality(AboutToWait') <= Cardinality(AboutToWait \ {h})
    BY <2>6, <2>8, FS_Subset
  <2> QED
    BY <1>3, <2>7, <2>8, <2>9 DEF WaitingIsBounded
<1>6. ASSUME ~ \E h \in Handlers : ManageChallenge(h),
             ~ \E h \in Handlers, c \in Challenges :
                 PutChallenge(h, c) /\ task[h].binding = "manage"
      PROVE  WaitingIsBounded'
  <2>1. LiveManage' \subseteq LiveManage /\ AboutToWait' \subseteq AboutToWait
    BY <1>6, LiveShrinks, AboutShrinks
  <2>2. /\ Cardinality(LiveManage') <= Cardinality(LiveManage)
        /\ Cardinality(AboutToWait') <= Cardinality(AboutToWait)
    BY <1>2, <2>1, FS_Subset
  <2> QED
    BY <1>3, <2>2 DEF WaitingIsBounded
<1> QED
  BY <1>4, <1>5, <1>6

LEMMA WaitingInitially == Init => OffersNameTheWallet /\ WaitingIsBounded
<1> SUFFICES ASSUME Init PROVE OffersNameTheWallet /\ WaitingIsBounded
  OBVIOUS
<1>1. OffersNameTheWallet
  BY DEF Init, OffersNameTheWallet, Idle
<1>2. LiveManage = {} /\ AboutToWait = {}
  BY DEF Init, LiveManage, AboutToWait, Idle
<1>3. Cardinality({}) = 0 /\ Cardinality(Handlers) \in Nat /\ Cardinality(Handlers) # 0
  BY CountsAreFinite, FS_EmptySet, FS_CardinalityType
<1>4. WaitingIsBounded
  BY <1>2, <1>3, MaxLiveIsNatural DEF WaitingIsBounded
<1> QED
  BY <1>1, <1>4

\* However many handlers count the waiting management challenges before any of them
\* adds one, those waiting and those on their way stay below the limit and the
\* number of handlers together.
THEOREM WaitingBounded == Spec => []WaitingIsBounded
<1> DEFINE WInv == OffersNameTheWallet /\ WaitingIsBounded
<1>1. Init => WInv
  BY WaitingInitially
<1>2. Inv /\ WInv /\ [Next]_vars => WInv'
  BY WaitingStep, OffersStep
<1> QED
  BY <1>1, <1>2, Invariance, PTL DEF Spec
=============================================================================
