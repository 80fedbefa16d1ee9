------------------------ MODULE RecoveryWatchProofs ------------------------
(***************************************************************************)
(* Theorems about RecoveryWatch, for any number of claims and overlapping  *)
(* checks, and any period and delay of the alarm below the server's wait.  *)
(***************************************************************************)
EXTENDS RecoveryWatch, FiniteSetTheorems, FunctionTheorems, SequenceTheorems, TLAPS

\* What a coroutine of watchRecoveries() holds.
CheckTypes ==
    [pc : {"idle", "listing", "reading", "telling", "writing"},
     found : SUBSET Claims, fresh : SUBSET Claims, left : SUBSET Claims,
     read : Seq(Claims)]

Typed ==
    /\ time \in 0 .. MaxTime
    /\ claim \in [Claims -> [phase : Server!Phases, key : {Mine, Theirs, None},
                             ready : Nat, until : Nat]]
    /\ running \in BOOLEAN
    /\ told \in Seq(Claims) /\ Len(told) <= MaxRemembered
    /\ check \in [Checks -> CheckTypes]
    /\ shown \subseteq Claims /\ seen \subseteq Claims /\ missed \subseteq Claims

\* The next alarm is at most a period or a delay away, so it comes before a
\* claim that starts its wait now is ready.
AlarmIsNear ==
    /\ running => due # None
    /\ due # None => due \in Nat /\ (due <= time + Period \/ due <= time + Delay)

\* Nobody claims the wallet for this install's own key.
NotMine == \A c \in Claims : claim[c].phase # "absent" => claim[c].key = Theirs

\* What is remembered, or no longer left to a check, has been shown.
Remembered ==
    /\ ToSet(told) \subseteq shown
    /\ \A k \in Checks :
        /\ check[k].left \subseteq check[k].fresh
        /\ check[k].fresh \subseteq check[k].found
        /\ check[k].pc \in {"idle", "listing", "reading"} => check[k].fresh = {}
        /\ check[k].pc \in {"telling", "writing"} =>
              check[k].found \ check[k].left \subseteq shown
        /\ check[k].pc = "writing" =>
              check[k].left = {} /\ ToSet(check[k].read) \subseteq shown

\* Check k is on its way to show claim c.
Carries(k, c) ==
    \/ check[k].pc = "listing"
    \/ check[k].pc = "reading" /\ c \in check[k].found
    \/ check[k].pc = "telling" /\ c \in check[k].left

\* A claim that waits, was not shown and has missed no check: it is not ready,
\* and it has only begun, or the browser runs and its alarm comes before the
\* claim is ready, or a check is on its way.
Watched ==
    \A c \in (Claims \ shown) \ missed :
        key = Mine /\ Server!Alive(c) =>
            /\ time < claim[c].ready
            /\ \/ time + Cooling <= claim[c].ready
               \/ /\ running
                  /\ due < claim[c].ready \/ \E k \in Checks : Carries(k, c)

Inv == Typed /\ AlarmIsNear /\ NotMine /\ Remembered /\ FoundIsTold /\ Watched

\* The list in storage takes what was told, drops the oldest and stays short.
LEMMA RememberKeeps ==
    ASSUME NEW s \in Seq(Claims), NEW fresh \in SUBSET Claims
    PROVE  /\ Remember(s, fresh) \in Seq(Claims)
           /\ Len(Remember(s, fresh)) <= MaxRemembered
           /\ ToSet(Remember(s, fresh)) \subseteq ToSet(s) \union fresh
<1> DEFINE new == fresh \ ToSet(s)
           tail == SetToSeq(new)
           merged == s \o tail
           start == IF Len(merged) > MaxRemembered
                    THEN Len(merged) - MaxRemembered + 1
                    ELSE 1
<1>1. tail \in Seq(new)
  <2>1. IsFiniteSet(new)
    BY ClaimsAreFinite, FS_Subset
  <2>2. Cardinality(new) \in Nat /\ ExistsBijection(1 .. Cardinality(new), new)
    BY <2>1, FS_CardinalityType
  <2>3. \E f \in [1 .. Cardinality(new) -> new] : IsInjective(f)
    BY <2>2 DEF ExistsBijection, Bijection, Injection
  <2>4. tail \in [1 .. Cardinality(new) -> new]
    BY <2>3 DEF SetToSeq
  <2> HIDE DEF tail, new
  <2> QED
    BY <2>2, <2>4
<1> HIDE DEF tail
<1>2. tail \in Seq(Claims) /\ \A i \in 1 .. Len(tail) : tail[i] \in fresh
  <2>1. new \subseteq Claims /\ new \subseteq fresh
    OBVIOUS
  <2> HIDE DEF new
  <2> QED
    BY <1>1, <2>1
<1>3. /\ merged \in Seq(Claims)
      /\ \A i \in 1 .. Len(merged) : merged[i] \in ToSet(s) \union fresh
  <2>1. /\ merged \in Seq(Claims)
        /\ Len(merged) = Len(s) + Len(tail)
        /\ \A i \in 1 .. Len(s) + Len(tail) :
              merged[i] = IF i <= Len(s) THEN s[i] ELSE tail[i - Len(s)]
    BY <1>2, ConcatProperties
  <2>2. \A i \in 1 .. Len(s) : s[i] \in ToSet(s)
    BY DEF ToSet
  <2> SUFFICES ASSUME NEW i \in 1 .. Len(merged)
               PROVE  merged[i] \in ToSet(s) \union fresh
    BY <2>1
  <2>3. Len(s) \in Nat /\ Len(tail) \in Nat
    BY <1>2
  <2>4. CASE i <= Len(s)
    BY <2>1, <2>2, <2>3, <2>4
  <2>5. CASE i > Len(s)
    <3>1. i - Len(s) \in 1 .. Len(tail)
      BY <2>1, <2>3, <2>5
    <3>2. merged[i] = tail[i - Len(s)]
      BY <2>1, <2>3, <2>5
    <3> QED
      BY <3>1, <3>2, <1>2
  <2> QED
    BY <2>3, <2>4, <2>5
<1>4. /\ Len(merged) \in Nat /\ start \in 1 .. Len(merged) + 1
      /\ Len(merged) - start + 1 <= MaxRemembered
  BY <1>3, WatchIsFastEnough
<1>5. /\ SubSeq(merged, start, Len(merged)) \in Seq(Claims)
      /\ Len(SubSeq(merged, start, Len(merged))) =
            IF start <= Len(merged) THEN Len(merged) - start + 1 ELSE 0
      /\ \A i \in 1 .. Len(merged) - start + 1 :
            SubSeq(merged, start, Len(merged))[i] = merged[start + i - 1]
  <2>1. \A i \in start .. Len(merged) : merged[i] \in Claims
    BY <1>3, <1>4
  <2> HIDE DEF merged, start
  <2> QED
    BY <2>1, <1>4, SubSeqProperties
<1>6. Remember(s, fresh) = SubSeq(merged, start, Len(merged))
  BY DEF Remember, merged, start, tail, new
<1> HIDE DEF merged, start
<1>7. ToSet(SubSeq(merged, start, Len(merged))) \subseteq ToSet(s) \union fresh
  <2> SUFFICES ASSUME NEW i \in 1 .. Len(SubSeq(merged, start, Len(merged)))
               PROVE  SubSeq(merged, start, Len(merged))[i] \in ToSet(s) \union fresh
    BY <1>5 DEF ToSet
  <2>1. i \in 1 .. Len(merged) - start + 1 /\ start + i - 1 \in 1 .. Len(merged)
    BY <1>4, <1>5
  <2> QED
    BY <2>1, <1>3, <1>5
<1> QED
  BY <1>4, <1>5, <1>6, <1>7, WatchIsFastEnough

\* A coroutine that does not run holds nothing.
LEMMA NoCheckTyped == NoCheck \in CheckTypes
<1>1. <<>> \in Seq(Claims)
  OBVIOUS
<1> QED
  BY <1>1 DEF NoCheck, CheckTypes

\* No claim is there, nothing was told and the first alarm is near.
LEMMA Initially == Init => Inv
<1> SUFFICES ASSUME Init PROVE Inv
  OBVIOUS
<1> USE WatchIsFastEnough, ClaimsAreFinite DEF Init, Server!NoClaim, NoCheck
<1>1. Typed
  BY DEF Typed, CheckTypes, Server!Phases
<1>2. AlarmIsNear /\ NotMine
  BY DEF AlarmIsNear, NotMine
<1>3. Remembered /\ FoundIsTold
  BY DEF Remembered, FoundIsTold, ToSet
<1>4. Watched
  BY DEF Watched, Server!Alive
<1> QED
  BY <1>1, <1>2, <1>3, <1>4 DEF Inv

\* Each action keeps the types; the list stays short by RememberKeeps.
LEMMA TypedStep == Inv /\ [Next]_vars => Typed'
<1> SUFFICES ASSUME Inv, [Next]_vars PROVE Typed'
  OBVIOUS
<1> USE WatchIsFastEnough, ClaimsAreFinite DEF Inv, Typed, Server!Phases,
   NotMine, serverVars, historyVars
<1>1. CASE Others
  <2> SUFFICES ASSUME NEW c \in Claims,
                      \/ Server!Ask(c, Theirs) \/ Server!Approve(c) \/ Server!Begin(c)
                      \/ Server!TakeOver(c) \/ Server!Object(c)
               PROVE  Typed'
    BY <1>1 DEF Others
  <2>1. UNCHANGED <<running, due, told, check, historyVars>>
    BY <1>1 DEF Others
  <2>2. CASE Server!Ask(c, Theirs)
    BY <2>1, <2>2 DEF Server!Ask
  <2>3. CASE Server!Approve(c)
    BY <2>1, <2>3 DEF Server!Approve
  <2>4. CASE Server!Begin(c)
    <3>1. time + Cooling \in Nat /\ time + Cooling + Window \in Nat
      OBVIOUS
    <3>2. ASSUME NEW d \in Claims
          PROVE  claim'[d] \in [phase : Server!Phases, key : {Mine, Theirs, None},
                                ready : Nat, until : Nat]
      BY <2>4, <3>1 DEF Server!Begin
    <3>3. claim' = [d \in Claims |-> claim'[d]]
      BY <2>4 DEF Server!Begin
    <3> QED
      BY <2>1, <2>4, <3>2, <3>3 DEF Server!Begin
  <2>5. CASE Server!TakeOver(c)
    BY <2>1, <2>5 DEF Server!TakeOver, Server!Alive
  <2>6. CASE Server!Object(c)
    BY <2>1, <2>6 DEF Server!Object
  <2> QED
    BY <2>2, <2>3, <2>4, <2>5, <2>6
<1>2. CASE Tick
  BY <1>2 DEF Tick, Misses, Waiting
<1>3. CASE BrowserStops
  BY <1>3, NoCheckTyped DEF BrowserStops, Misses, Waiting
<1>4. CASE BrowserStarts
  BY <1>4 DEF BrowserStarts
<1>5. CASE WorkerStops
  BY <1>5, NoCheckTyped DEF WorkerStops, Misses, Waiting
<1>6. ASSUME NEW k \in Checks, AlarmFires(k)
      PROVE  Typed'
  <2>1. check[k] \in CheckTypes
    OBVIOUS
  <2> DEFINE new == [check[k] EXCEPT !.pc = "listing"]
  <2>2. new \in CheckTypes
    BY <2>1 DEF CheckTypes
  <2>3. check' = [check EXCEPT ![k] = new]
    BY <1>6, <2>1 DEF AlarmFires, Start, CheckTypes
  <2> HIDE DEF new
  <2> QED
    BY <1>6, <2>2, <2>3 DEF AlarmFires, Start
<1>7. ASSUME NEW k \in Checks, CheckAsked(k)
      PROVE  Typed'
  <2>1. check[k] \in CheckTypes
    OBVIOUS
  <2> DEFINE new == [check[k] EXCEPT !.pc = "listing"]
  <2>2. new \in CheckTypes
    BY <2>1 DEF CheckTypes
  <2>3. check' = [check EXCEPT ![k] = new]
    BY <1>7, <2>1 DEF CheckAsked, Start, CheckTypes
  <2> HIDE DEF new
  <2> QED
    BY <1>7, <2>2, <2>3 DEF CheckAsked, Start
<1>8. ASSUME NEW k \in Checks, Fails(k)
      PROVE  Typed'
  BY <1>8, NoCheckTyped DEF Fails, Misses, Waiting
<1>9. ASSUME NEW k \in Checks, Listed(k)
      PROVE  Typed'
  <2>1. check[k] \in CheckTypes
    OBVIOUS
  <2> DEFINE new == [check[k] EXCEPT !.pc = "reading",
                            !.found = IF key = Mine THEN Waiting ELSE {}]
  <2>2. new \in CheckTypes
    BY <2>1 DEF CheckTypes, Waiting
  <2>3. check' = [check EXCEPT ![k] = new]
    BY <1>9, <2>1 DEF Listed, Start, CheckTypes
  <2> HIDE DEF new
  <2> QED
    BY <1>9, <2>2, <2>3 DEF Listed, Start
<1>10. ASSUME NEW k \in Checks, ReadTold(k)
      PROVE  Typed'
  <2> DEFINE fresh == Unannounced(check[k].found, told)
             new == [check[k] EXCEPT !.pc = "telling", !.fresh = fresh, !.left = fresh]
  <2>1. check[k] \in CheckTypes /\ check[k].found \subseteq Claims
    BY DEF CheckTypes
  <2>2. new \in CheckTypes
    BY <2>1 DEF CheckTypes, Unannounced
  <2>3. CASE fresh = {}
    BY <1>10, <2>1, <2>3, NoCheckTyped DEF ReadTold
  <2>4. CASE fresh # {}
    <3>1. check' = [check EXCEPT ![k] = new]
      BY <1>10, <2>1, <2>4 DEF ReadTold, CheckTypes
    <3> HIDE DEF new
    <3> QED
      BY <1>10, <2>2, <2>4, <3>1 DEF ReadTold
  <2> QED
    BY <2>3, <2>4
<1>11. ASSUME NEW k \in Checks, NEW c \in Claims, Notify(k, c)
      PROVE  Typed'
  <2>1. check[k] \in CheckTypes
    OBVIOUS
  <2> DEFINE new == [check[k] EXCEPT !.left = @ \ {c}]
  <2>2. new \in CheckTypes
    BY <2>1 DEF CheckTypes
  <2>3. check' = [check EXCEPT ![k] = new]
    BY <1>11, <2>1 DEF Notify, Start, CheckTypes
  <2> HIDE DEF new
  <2> QED
    BY <1>11, <2>2, <2>3 DEF Notify, Start
<1>12. ASSUME NEW k \in Checks, ReadAgain(k)
      PROVE  Typed'
  <2>1. check[k] \in CheckTypes
    OBVIOUS
  <2> DEFINE new == [check[k] EXCEPT !.pc = "writing", !.read = told]
  <2>2. new \in CheckTypes
    BY <2>1 DEF CheckTypes
  <2>3. check' = [check EXCEPT ![k] = new]
    BY <1>12, <2>1 DEF ReadAgain, Start, CheckTypes
  <2> HIDE DEF new
  <2> QED
    BY <1>12, <2>2, <2>3 DEF ReadAgain, Start
<1>13. ASSUME NEW k \in Checks, WriteTold(k)
      PROVE  Typed'
  <2>1. check[k].read \in Seq(Claims) /\ check[k].fresh \in SUBSET Claims
        /\ check[k].found \subseteq Claims
    BY DEF CheckTypes
  <2>2. told' \in Seq(Claims) /\ Len(told') <= MaxRemembered
    BY <1>13, <2>1, RememberKeeps DEF WriteTold
  <2> QED
    BY <1>13, <2>1, <2>2, NoCheckTyped DEF WriteTold
<1>14. CASE UNCHANGED vars
  BY <1>14 DEF vars
<1> QED
  BY <1>1, <1>2, <1>3, <1>4, <1>5, <1>6, <1>7, <1>8, <1>9, <1>10, <1>11, <1>12,
     <1>13, <1>14 DEF Next

\* Alarms are set a period or a delay ahead, and both are below the wait.
LEMMA AlarmIsNearStep == Inv /\ [Next]_vars => AlarmIsNear'
<1> SUFFICES ASSUME Inv, [Next]_vars PROVE AlarmIsNear'
  OBVIOUS
<1> USE WatchIsFastEnough, ClaimsAreFinite DEF Inv, Typed, AlarmIsNear,
   serverVars, historyVars
<1>1. CASE Others
  <2> SUFFICES ASSUME NEW c \in Claims,
                      \/ Server!Ask(c, Theirs) \/ Server!Approve(c) \/ Server!Begin(c)
                      \/ Server!TakeOver(c) \/ Server!Object(c)
               PROVE  AlarmIsNear'
    BY <1>1 DEF Others
  <2>1. UNCHANGED <<running, due, told, check, historyVars>>
    BY <1>1 DEF Others
  <2>2. CASE Server!Ask(c, Theirs)
    BY <2>1, <2>2 DEF Server!Ask
  <2>3. CASE Server!Approve(c)
    BY <2>1, <2>3 DEF Server!Approve
  <2>4. CASE Server!Begin(c)
    BY <2>1, <2>4 DEF Server!Begin, Server!Alive
  <2>5. CASE Server!TakeOver(c)
    BY <2>1, <2>5 DEF Server!TakeOver, Server!Alive
  <2>6. CASE Server!Object(c)
    BY <2>1, <2>6 DEF Server!Object
  <2> QED
    BY <2>2, <2>3, <2>4, <2>5, <2>6
<1>2. CASE Tick
  BY <1>2 DEF Tick, Misses, Waiting
<1>3. CASE BrowserStops
  BY <1>3 DEF BrowserStops, Misses, Waiting, NoCheck
<1>4. CASE BrowserStarts
  <2>1. time + Delay \in Nat /\ time + Delay # None
    OBVIOUS
  <2>2. CASE due = None
    BY <1>4, <2>1, <2>2 DEF BrowserStarts
  <2>3. CASE due # None
    BY <1>4, <2>3 DEF BrowserStarts
  <2> QED
    BY <2>2, <2>3
<1>5. ASSUME NEW k \in Checks, AlarmFires(k)
      PROVE  AlarmIsNear'
  BY <1>5 DEF AlarmFires, Start
\* No other action changes what this is about.
<1>6. CASE \/ WorkerStops
           \/ \E k \in Checks : CheckAsked(k) \/ Fails(k) \/ Listed(k)
           \/ \E k \in Checks : ReadTold(k) \/ ReadAgain(k) \/ WriteTold(k)
           \/ \E k \in Checks, c \in Claims : Notify(k, c)
  <2>1. CASE WorkerStops
    BY <2>1 DEF WorkerStops
  <2>2. CASE \E k \in Checks : CheckAsked(k) \/ Fails(k) \/ Listed(k)
    BY <2>2 DEF CheckAsked, Fails, Listed, Start
  <2>3. CASE \E k \in Checks : ReadTold(k) \/ ReadAgain(k) \/ WriteTold(k)
    BY <2>3 DEF ReadTold, ReadAgain, WriteTold, Start
  <2>4. CASE \E k \in Checks, c \in Claims : Notify(k, c)
    BY <2>4 DEF Notify
  <2> QED
    BY <1>6, <2>1, <2>2, <2>3, <2>4
<1>7. CASE UNCHANGED vars
  BY <1>7 DEF vars
<1> QED
  BY <1>1, <1>2, <1>3, <1>4, <1>5, <1>6, <1>7 DEF Next

\* A claim keeps the key it was asked with.
LEMMA NotMineStep == Inv /\ [Next]_vars => NotMine'
<1> SUFFICES ASSUME Inv, [Next]_vars PROVE NotMine'
  OBVIOUS
<1> USE WatchIsFastEnough, ClaimsAreFinite DEF Inv, Typed, NotMine, serverVars,
   historyVars
<1>1. CASE Others
  <2> SUFFICES ASSUME NEW c \in Claims,
                      \/ Server!Ask(c, Theirs) \/ Server!Approve(c) \/ Server!Begin(c)
                      \/ Server!TakeOver(c) \/ Server!Object(c)
               PROVE  NotMine'
    BY <1>1 DEF Others
  <2>1. UNCHANGED <<running, due, told, check, historyVars>>
    BY <1>1 DEF Others
  <2>2. CASE Server!Ask(c, Theirs)
    BY <2>1, <2>2 DEF Server!Ask
  <2>3. CASE Server!Approve(c)
    BY <2>1, <2>3 DEF Server!Approve
  <2>4. CASE Server!Begin(c)
    BY <2>1, <2>4 DEF Server!Begin, Server!Alive
  <2>5. CASE Server!TakeOver(c)
    BY <2>1, <2>5 DEF Server!TakeOver, Server!Alive
  <2>6. CASE Server!Object(c)
    BY <2>1, <2>6 DEF Server!Object
  <2> QED
    BY <2>2, <2>3, <2>4, <2>5, <2>6
\* No other action changes what this is about.
<1>2. CASE \/ Tick
           \/ BrowserStops
           \/ BrowserStarts
           \/ WorkerStops
           \/ \E k \in Checks : AlarmFires(k) \/ CheckAsked(k) \/ Fails(k) \/ Listed(k)
           \/ \E k \in Checks : ReadTold(k) \/ ReadAgain(k) \/ WriteTold(k)
           \/ \E k \in Checks, c \in Claims : Notify(k, c)
  <2>1. CASE Tick
    BY <2>1 DEF Tick
  <2>2. CASE BrowserStops
    BY <2>2 DEF BrowserStops
  <2>3. CASE BrowserStarts
    BY <2>3 DEF BrowserStarts
  <2>4. CASE WorkerStops
    BY <2>4 DEF WorkerStops
  <2>5. CASE \E k \in Checks : AlarmFires(k) \/ CheckAsked(k) \/ Fails(k) \/ Listed(k)
    BY <2>5 DEF AlarmFires, CheckAsked, Fails, Listed, Start
  <2>6. CASE \E k \in Checks : ReadTold(k) \/ ReadAgain(k) \/ WriteTold(k)
    BY <2>6 DEF ReadTold, ReadAgain, WriteTold, Start
  <2>7. CASE \E k \in Checks, c \in Claims : Notify(k, c)
    BY <2>7 DEF Notify
  <2> QED
    BY <1>2, <2>1, <2>2, <2>3, <2>4, <2>5, <2>6, <2>7
<1>3. CASE UNCHANGED vars
  BY <1>3 DEF vars
<1> QED
  BY <1>1, <1>2, <1>3 DEF Next

\* A check writes what it has shown, after another look at what was told.
LEMMA RememberedStep == Inv /\ [Next]_vars => (Remembered /\ FoundIsTold)'
<1> SUFFICES ASSUME Inv, [Next]_vars PROVE (Remembered /\ FoundIsTold)'
  OBVIOUS
<1> USE WatchIsFastEnough, ClaimsAreFinite DEF Inv, Typed, CheckTypes,
   Remembered, FoundIsTold, serverVars, historyVars
<1>1. CASE BrowserStops
  BY <1>1 DEF BrowserStops, Misses, Waiting, NoCheck
<1>2. CASE WorkerStops
  BY <1>2 DEF WorkerStops, Misses, Waiting, NoCheck
<1>3. ASSUME NEW k \in Checks, AlarmFires(k)
      PROVE  (Remembered /\ FoundIsTold)'
  BY <1>3 DEF AlarmFires, Start
<1>4. ASSUME NEW k \in Checks, CheckAsked(k)
      PROVE  (Remembered /\ FoundIsTold)'
  BY <1>4 DEF CheckAsked, Start
<1>5. ASSUME NEW k \in Checks, Fails(k)
      PROVE  (Remembered /\ FoundIsTold)'
  BY <1>5 DEF Fails, Misses, Waiting, NoCheck
<1>6. ASSUME NEW k \in Checks, Listed(k)
      PROVE  (Remembered /\ FoundIsTold)'
  BY <1>6 DEF Listed, Waiting
<1>7. ASSUME NEW k \in Checks, ReadTold(k)
      PROVE  (Remembered /\ FoundIsTold)'
  <2> DEFINE fresh == Unannounced(check[k].found, told)
             new == [check[k] EXCEPT !.pc = "telling", !.fresh = fresh, !.left = fresh]
  <2>1. /\ check[k].found \ fresh \subseteq shown /\ fresh \subseteq check[k].found
        /\ UNCHANGED <<told, shown>>
    BY <1>7 DEF ReadTold, Unannounced
  <2>2. CASE fresh = {}
    <3>1. /\ check' = [check EXCEPT ![k] = NoCheck]
          /\ seen' = seen \union check[k].found
      BY <1>7, <2>2 DEF ReadTold
    <3> HIDE DEF fresh
    <3> QED
      BY <2>1, <2>2, <3>1 DEF NoCheck
  <2>3. CASE fresh # {}
    <3>1. check' = [check EXCEPT ![k] = new] /\ seen' = seen
      BY <1>7, <2>3 DEF ReadTold
    <3>2. /\ new.pc = "telling" /\ new.fresh = fresh /\ new.left = fresh
          /\ new.found = check[k].found
      OBVIOUS
    <3> HIDE DEF fresh, new
    <3> QED
      BY <2>1, <3>1, <3>2
  <2> QED
    BY <2>2, <2>3
<1>8. ASSUME NEW k \in Checks, NEW c \in Claims, Notify(k, c)
      PROVE  (Remembered /\ FoundIsTold)'
  BY <1>8 DEF Notify
<1>9. ASSUME NEW k \in Checks, ReadAgain(k)
      PROVE  (Remembered /\ FoundIsTold)'
  BY <1>9 DEF ReadAgain
<1>10. ASSUME NEW k \in Checks, WriteTold(k)
      PROVE  (Remembered /\ FoundIsTold)'
  <2>1. check[k].read \in Seq(Claims) /\ check[k].fresh \in SUBSET Claims
    OBVIOUS
  <2>2. ToSet(told') \subseteq ToSet(check[k].read) \union check[k].fresh
    BY <1>10, <2>1, RememberKeeps DEF WriteTold
  <2> QED
    BY <1>10, <2>2 DEF WriteTold, NoCheck
\* No other action changes what this is about.
<1>11. CASE \/ Others
            \/ Tick
            \/ BrowserStarts
  <2>1. CASE Others
    BY <2>1 DEF Others, Server!Ask, Server!Approve, Server!Begin,
       Server!TakeOver, Server!Object
  <2>2. CASE Tick
    BY <2>2 DEF Tick
  <2>3. CASE BrowserStarts
    BY <2>3 DEF BrowserStarts
  <2> QED
    BY <1>11, <2>1, <2>2, <2>3
<1>12. CASE UNCHANGED vars
  BY <1>12 DEF vars
<1> QED
  BY <1>1, <1>2, <1>3, <1>4, <1>5, <1>6, <1>7, <1>8, <1>9, <1>10, <1>11, <1>12
     DEF Next

\* The clock passes the alarm, or moves while a check is on its way or cut
\* off, only by counting every claim that waits as missed.
LEMMA WatchedStep == Inv /\ [Next]_vars => Watched'
<1> SUFFICES ASSUME Inv, [Next]_vars PROVE Watched'
  OBVIOUS
<1> USE WatchIsFastEnough, ClaimsAreFinite DEF Inv, Typed, CheckTypes,
   AlarmIsNear, NotMine, Remembered, FoundIsTold, Watched, Carries,
   Server!Alive, serverVars, historyVars
<1>1. CASE Others
  <2> SUFFICES ASSUME NEW c \in Claims,
                      \/ Server!Ask(c, Theirs) \/ Server!Approve(c) \/ Server!Begin(c)
                      \/ Server!TakeOver(c) \/ Server!Object(c)
               PROVE  Watched'
    BY <1>1 DEF Others
  <2>1. UNCHANGED <<running, due, told, check, historyVars>>
    BY <1>1 DEF Others
  <2>2. CASE Server!Ask(c, Theirs)
    BY <2>1, <2>2 DEF Server!Ask
  <2>3. CASE Server!Approve(c)
    BY <2>1, <2>3 DEF Server!Approve
  <2>4. CASE Server!Begin(c)
    BY <2>1, <2>4 DEF Server!Begin, Server!Alive
  <2>5. CASE Server!TakeOver(c)
    BY <2>1, <2>5 DEF Server!TakeOver, Server!Alive
  <2>6. CASE Server!Object(c)
    BY <2>1, <2>6 DEF Server!Object
  <2> QED
    BY <2>2, <2>3, <2>4, <2>5, <2>6
<1>2. CASE Tick
  <2> SUFFICES ASSUME NEW c \in (Claims \ shown) \ missed', key = Mine, Server!Alive(c)'
               PROVE  running /\ time + 1 < claim[c].ready /\ due < claim[c].ready
    BY <1>2 DEF Tick
  <2>1. Server!Alive(c) /\ c \notin missed
    BY <1>2 DEF Tick, Misses
  <2>2. running /\ due > time /\ \A k \in Checks : check[k].pc = "idle"
    BY <1>2, <2>1 DEF Tick, Misses, Waiting
  <2>3. time + Cooling <= claim[c].ready \/ due < claim[c].ready
    BY <2>1, <2>2
  <2>4. due \in Nat /\ due < time + Cooling
    BY <2>2
  <2> QED
    BY <2>2, <2>3, <2>4
<1>3. CASE BrowserStops
  BY <1>3 DEF BrowserStops, Misses, Waiting, NoCheck
<1>4. CASE BrowserStarts
  BY <1>4 DEF BrowserStarts
<1>5. CASE WorkerStops
  BY <1>5 DEF WorkerStops, Misses, Waiting, NoCheck
<1>6. ASSUME NEW k \in Checks, AlarmFires(k)
      PROVE  Watched'
  BY <1>6 DEF AlarmFires, Start
<1>7. ASSUME NEW k \in Checks, CheckAsked(k)
      PROVE  Watched'
  BY <1>7 DEF CheckAsked, Start
<1>8. ASSUME NEW k \in Checks, Fails(k)
      PROVE  Watched'
  BY <1>8 DEF Fails, Misses, Waiting, NoCheck
<1>9. ASSUME NEW k \in Checks, Listed(k)
      PROVE  Watched'
  BY <1>9 DEF Listed, Waiting
<1>10. ASSUME NEW k \in Checks, ReadTold(k)
      PROVE  Watched'
  <2> SUFFICES ASSUME NEW c \in (Claims \ shown) \ missed, key = Mine, Server!Alive(c),
                      NEW j \in Checks, Carries(j, c)
               PROVE  Carries(j, c)'
    BY <1>10 DEF ReadTold
  <2>1. CASE j # k
    BY <1>10, <2>1 DEF ReadTold
  <2>2. CASE j = k
    <3>1. c \in Unannounced(check[k].found, told)
      BY <1>10, <2>2 DEF ReadTold, Unannounced
    <3> DEFINE fresh == Unannounced(check[k].found, told)
               new == [check[k] EXCEPT !.pc = "telling", !.fresh = fresh, !.left = fresh]
    <3>2. check' = [check EXCEPT ![k] = new]
      BY <1>10, <3>1 DEF ReadTold
    <3>3. new.pc = "telling" /\ new.left = fresh
      OBVIOUS
    <3>4. c \in fresh
      BY <3>1
    <3> HIDE DEF new, fresh
    <3> QED
      BY <2>2, <3>2, <3>3, <3>4
  <2> QED
    BY <2>1, <2>2
<1>11. ASSUME NEW k \in Checks, NEW c \in Claims, Notify(k, c)
      PROVE  Watched'
  BY <1>11 DEF Notify
<1>12. ASSUME NEW k \in Checks, ReadAgain(k)
      PROVE  Watched'
  BY <1>12 DEF ReadAgain
<1>13. ASSUME NEW k \in Checks, WriteTold(k)
      PROVE  Watched'
  BY <1>13 DEF WriteTold, NoCheck
<1>14. CASE UNCHANGED vars
  BY <1>14 DEF vars
<1> QED
  BY <1>1, <1>2, <1>3, <1>4, <1>5, <1>6, <1>7, <1>8, <1>9, <1>10, <1>11, <1>12,
     <1>13, <1>14 DEF Next

\* The parts support each other: each step above assumes all of Inv.
LEMMA Inductive == Inv /\ [Next]_vars => Inv'
BY TypedStep, AlarmIsNearStep, NotMineStep, RememberedStep, WatchedStep DEF Inv

\* Inv holds in every reachable state, which the theorems below draw on.
LEMMA Invariant == Spec => []Inv
BY Initially, Inductive, PTL DEF Spec

\* Storage, alarm and checks have their types, and the list keeps to its cap.
THEOREM TypeCorrect == Spec => []TypeOK
<1>1. Inv => TypeOK
  <2> SUFFICES ASSUME Inv PROVE TypeOK
    OBVIOUS
  <2> USE DEF Inv, Typed
  <2>1. ToSet(told) \subseteq Claims
    BY DEF ToSet
  <2>2. due \in 0 .. MaxTime + Period + Delay \union {None}
    <3>1. CASE due = None
      BY <3>1
    <3>2. CASE due # None
      BY <3>2, WatchIsFastEnough DEF AlarmIsNear
    <3> QED
      BY <3>1, <3>2
  <2>3. \A k \in Checks :
          /\ check[k].pc \in {"idle", "listing", "reading", "telling", "writing"}
          /\ check[k].left \subseteq check[k].fresh
          /\ check[k].fresh \subseteq check[k].found
    BY DEF Remembered, CheckTypes
  <2> QED
    BY <2>1, <2>2, <2>3 DEF TypeOK
<1> QED
  BY Invariant, <1>1, PTL

\* A check that went through leaves nothing it found untold, however many
\* checks overlap, fail or are cut off.
THEOREM NothingUntold == Spec => []FoundIsTold
<1>1. Inv => FoundIsTold
  BY DEF Inv
<1> QED
  BY Invariant, <1>1, PTL

\* A claim takes this install's place untold only when a check failed, was late
\* or was cut off while it waited, whatever period below the server's wait.
THEOREM InTime == Spec => ToldInTime
<1> DEFINE Told == \A c \in Claims :
                      key = Mine /\ claim[c].phase = "waiting" /\ claim'[c].phase = "taken" =>
                          c \in shown \union missed
<1>1. Inv /\ [Next]_vars => [Told]_vars
  <2> SUFFICES ASSUME Inv, Next, NEW c \in Claims, key = Mine,
                      claim[c].phase = "waiting", claim'[c].phase = "taken"
               PROVE  c \in shown \union missed
    BY DEF vars
  <2> USE DEF Inv, Typed
  <2>1. Others
    <3> SUFFICES claim' # claim
      BY DEF Next, Tick, BrowserStops, BrowserStarts, WorkerStops, AlarmFires, CheckAsked,
         Start, Fails, Listed, ReadTold, Notify, ReadAgain, WriteTold, serverVars
    <3> QED
      OBVIOUS
  <2>2. Server!Alive(c) /\ claim[c].ready <= time
    BY <2>1 DEF Others, Server!Ask, Server!Approve, Server!Begin, Server!TakeOver, Server!Object
  <2> QED
    BY <2>2 DEF Watched
<1> QED
  BY Invariant, <1>1, PTL DEF Spec, ToldInTime
=============================================================================
