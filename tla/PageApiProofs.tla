--------------------------- MODULE PageApiProofs ---------------------------
(***************************************************************************)
(* Theorems about PageApi, for any number of requests, windows, tabs and   *)
(* origins.                                                                *)
(***************************************************************************)
EXTENDS PageApi, TLAPS

\* What the queue holds is undecided and has not been served, what opens a
\* window undecided is in it, and no window shows more than the queue.
Queued ==
    /\ \A r \in queue :
          decision[r] = None /\ at[r] \in {"opening", "waiting", "failed"}
    /\ \A r \in Requests :
          at[r] = "opening" /\ decision[r] = None => r \in queue
    /\ \A w \in Requests : view[w] \subseteq queue

\* What a handler may ask for at each place in the code.
Asked ==
    \A r \in Requests :
        /\ at[r] \in {"idle", "checking"} => decision[r] = None
        /\ at[r] = "checking" =>
              method[r] \in {"eth_accounts", "eth_requestAccounts", "personal_sign"}
        /\ at[r] \in Holding \union {"signing"} => Signs(r)
        /\ at[r] \in {"connecting", "connected"} =>
              method[r] = "eth_requestAccounts"

\* The user has agreed to every origin that a list read before an await, or a
\* handler past its check, goes on with.
Agreed ==
    /\ \A r \in Requests :
        /\ list[r] \subseteq granted
        /\ at[r] \in {"connecting", "connected"} => Origin[r] \in granted
        /\ method[r] = "eth_requestAccounts" /\ decision[r] = "approved" =>
              Origin[r] \in granted
        /\ method[r] = "personal_sign" /\ at[r] \in Holding \union {"opening", "waiting"} =>
              Origin[r] \in granted
        /\ method[r] = "personal_sign" /\ at[r] \in Holding =>
              decision[r] = "approved"
    /\ \A o \in Origins : revoking[o] # None => revoking[o] \subseteq granted

\* A handler keeps its buffer through the ceremony and never takes another, the
\* current buffer is there only while the wallet is unlocked, and what a handler
\* kept over a lock is wiped.
Buffered ==
    \A r \in Requests :
        /\ at[r] \in Holding => held[r] # None
        /\ held[r] = "current" => unlocked
        /\ held[r] # None => at[r] \in Holding \union Done
        /\ r \in cut => at[r] \in Holding \union Done \union {"signing"}
        /\ r \in cut /\ at[r] \in Holding => held[r] = "wiped"

Inv ==
    /\ TypeOK /\ Queued /\ Asked /\ Agreed /\ Buffered
    /\ WaitsAtAWindow /\ SignedByConsent /\ ListedByConsent

\* Nothing is asked, queued, held or read yet.
LEMMA Initially == Init => Inv
<1> SUFFICES ASSUME Init PROVE Inv
  OBVIOUS
<1> USE RequestsAreSupported, NoneIsNew DEF Init, Holding
<1>1. TypeOK
  BY DEF TypeOK, Methods, Done
<1>2. Queued /\ Asked /\ WaitsAtAWindow
  BY DEF Queued, Asked, WaitsAtAWindow
<1>3. Agreed /\ Buffered
  BY DEF Agreed, Buffered
<1>4. SignedByConsent /\ ListedByConsent
  BY DEF SignedByConsent, ListedByConsent
<1> QED
  BY <1>1, <1>2, <1>3, <1>4 DEF Inv

\* Each action keeps the types; what a disconnect read back is a set of origins.
LEMMA TypeStep == TypeOK /\ [Next]_vars => TypeOK'
<1> SUFFICES ASSUME TypeOK, [Next]_vars PROVE TypeOK'
  OBVIOUS
<1> USE RequestsAreSupported, NoneIsNew DEF TypeOK, Methods, Done, Holding,
   handlerVars, approvalVars, passkeyVars, originVars, lockVars
<1>1. ASSUME NEW r \in Requests, Checked(r)
      PROVE  TypeOK'
  BY <1>1 DEF Checked, Address, Park, Goto
<1>2. ASSUME NEW r \in Requests, Opened(r)
      PROVE  TypeOK'
  BY <1>2 DEF Opened, Goto
<1>3. ASSUME NEW r \in Requests, OpenFails(r)
      PROVE  TypeOK'
  BY <1>3 DEF OpenFails, Goto
<1>4. ASSUME NEW r \in Requests, Decided(r)
      PROVE  TypeOK'
  BY <1>4 DEF Decided, BeginSign, Goto
<1>5. ASSUME NEW r \in Requests, Connect(r)
      PROVE  TypeOK'
  BY <1>5 DEF Connect, Goto
<1>6. ASSUME NEW r \in Requests, Connected(r)
      PROVE  TypeOK'
  BY <1>6 DEF Connected, Address, Goto
<1>7. ASSUME NEW r \in Requests, Handoff(r)
      PROVE  TypeOK'
  BY <1>7 DEF Handoff, Goto
<1>8. ASSUME NEW r \in Requests, TabOpens(r)
      PROVE  TypeOK'
  BY <1>8 DEF TabOpens, Goto
<1>9. ASSUME NEW r \in Requests, Authorized(r)
      PROVE  TypeOK'
  BY <1>9 DEF Authorized, CeremonyEnds, MakeSession, Goto
<1>10. ASSUME NEW r \in Requests, TimedOut(r)
      PROVE  TypeOK'
  BY <1>10 DEF TimedOut, CeremonyEnds, Goto
<1>11. ASSUME NEW r \in Requests, SignFails(r)
      PROVE  TypeOK'
  BY <1>11 DEF SignFails, Goto
<1>12. ASSUME NEW r \in Requests, Signed(r)
      PROVE  TypeOK'
  BY <1>12 DEF Signed, Goto
<1>13. ASSUME NEW r \in Requests, NEW m \in Methods, Arrive(r, m)
      PROVE  TypeOK'
  BY <1>13 DEF Arrive, BeginSign, Goto
<1>14. ASSUME NEW w \in Requests, Load(w)
      PROVE  TypeOK'
  BY <1>14 DEF Load
<1>15. ASSUME NEW w \in Requests, Refresh(w)
      PROVE  TypeOK'
  BY <1>15 DEF Refresh
<1>16. ASSUME NEW w \in Requests, CloseWindow(w)
      PROVE  TypeOK'
  BY <1>16 DEF CloseWindow
<1>17. ASSUME NEW w \in Requests, Removed(w)
      PROVE  TypeOK'
  BY <1>17 DEF Removed, RejectAll, Leave
<1>18. ASSUME NEW w \in Requests, NEW r \in Requests, NEW approved \in BOOLEAN,
            Decide(w, r, approved)
      PROVE  TypeOK'
  BY <1>18 DEF Decide, Leave
<1>19. ASSUME NEW t \in Requests, NEW passed \in BOOLEAN, Launch(t, passed)
      PROVE  TypeOK'
  BY <1>19 DEF Launch
<1>20. ASSUME NEW o \in Origins, ReadToDisconnect(o)
      PROVE  TypeOK'
  BY <1>20 DEF ReadToDisconnect
<1>21. ASSUME NEW o \in Origins, Disconnect(o)
      PROVE  TypeOK'
  BY <1>21 DEF Disconnect
<1>22. CASE Unlock
  BY <1>22 DEF Unlock
<1>23. CASE Lock
  BY <1>23 DEF Lock, Cuts, RejectAll, Leave
<1>24. CASE WorkerStops
  BY <1>24 DEF WorkerStops
<1>25. CASE UNCHANGED vars
  BY <1>25 DEF vars
<1> QED
  BY <1>1, <1>2, <1>3, <1>4, <1>5, <1>6, <1>7, <1>8, <1>9, <1>10, <1>11, <1>12,
     <1>13, <1>14, <1>15, <1>16, <1>17, <1>18, <1>19, <1>20, <1>21, <1>22,
     <1>23, <1>24, <1>25 DEF Next, Work

\* A handler leaves its window only with a decision, and every decision takes
\* its request out of the queue and off every window.
LEMMA QueuedStep == Inv /\ [Next]_vars => Queued'
<1> SUFFICES ASSUME Inv, [Next]_vars PROVE Queued'
  OBVIOUS
<1> USE RequestsAreSupported, NoneIsNew DEF Inv, TypeOK, Done, Holding, Queued,
   Asked, handlerVars, approvalVars, passkeyVars, originVars, lockVars
<1>1. ASSUME NEW r \in Requests, Checked(r)
      PROVE  Queued'
  BY <1>1 DEF Checked, Address, Park, Goto
<1>2. ASSUME NEW r \in Requests, Opened(r)
      PROVE  Queued'
  BY <1>2 DEF Opened, Goto
<1>3. ASSUME NEW r \in Requests, OpenFails(r)
      PROVE  Queued'
  BY <1>3 DEF OpenFails, Goto
<1>4. ASSUME NEW r \in Requests, Decided(r)
      PROVE  Queued'
  BY <1>4 DEF Decided, BeginSign, Goto
<1>5. ASSUME NEW r \in Requests, Connect(r)
      PROVE  Queued'
  BY <1>5 DEF Connect, Goto
<1>6. ASSUME NEW r \in Requests, Connected(r)
      PROVE  Queued'
  BY <1>6 DEF Connected, Address, Goto
<1>7. ASSUME NEW r \in Requests, Handoff(r)
      PROVE  Queued'
  BY <1>7 DEF Handoff, Goto
<1>8. ASSUME NEW r \in Requests, TabOpens(r)
      PROVE  Queued'
  BY <1>8 DEF TabOpens, Goto
<1>9. ASSUME NEW r \in Requests, Authorized(r)
      PROVE  Queued'
  BY <1>9 DEF Authorized, CeremonyEnds, MakeSession, Goto
<1>10. ASSUME NEW r \in Requests, TimedOut(r)
      PROVE  Queued'
  BY <1>10 DEF TimedOut, CeremonyEnds, Goto
<1>11. ASSUME NEW r \in Requests, SignFails(r)
      PROVE  Queued'
  BY <1>11 DEF SignFails, Goto
<1>12. ASSUME NEW r \in Requests, Signed(r)
      PROVE  Queued'
  BY <1>12 DEF Signed, Goto
<1>13. ASSUME NEW r \in Requests, NEW m \in Methods, Arrive(r, m)
      PROVE  Queued'
  BY <1>13 DEF Arrive, BeginSign, Goto
<1>14. ASSUME NEW w \in Requests, Load(w)
      PROVE  Queued'
  BY <1>14 DEF Load
<1>15. ASSUME NEW w \in Requests, Refresh(w)
      PROVE  Queued'
  BY <1>15 DEF Refresh
<1>16. ASSUME NEW w \in Requests, CloseWindow(w)
      PROVE  Queued'
  BY <1>16 DEF CloseWindow
<1>17. ASSUME NEW w \in Requests, Removed(w)
      PROVE  Queued'
  BY <1>17 DEF Removed, RejectAll, Leave
<1>18. ASSUME NEW w \in Requests, NEW r \in Requests, NEW approved \in BOOLEAN,
            Decide(w, r, approved)
      PROVE  Queued'
  BY <1>18 DEF Decide, Leave
<1>19. CASE Lock
  BY <1>19 DEF Lock, Cuts, RejectAll, Leave
<1>20. CASE WorkerStops
  BY <1>20 DEF WorkerStops
\* No other action changes what this is about.
<1>21. CASE \/ \E t \in Requests, passed \in BOOLEAN : Launch(t, passed)
            \/ \E o \in Origins : ReadToDisconnect(o) \/ Disconnect(o)
            \/ Unlock
  BY <1>21 DEF Launch, ReadToDisconnect, Disconnect, Unlock
<1>22. CASE UNCHANGED vars
  BY <1>22 DEF vars
<1> QED
  BY <1>1, <1>2, <1>3, <1>4, <1>5, <1>6, <1>7, <1>8, <1>9, <1>10, <1>11, <1>12,
     <1>13, <1>14, <1>15, <1>16, <1>17, <1>18, <1>19, <1>20, <1>21, <1>22 DEF
     Next, Work

\* Only Arrive changes a method, and only before anything was decided.
LEMMA AskedStep == Inv /\ [Next]_vars => Asked'
<1> SUFFICES ASSUME Inv, [Next]_vars PROVE Asked'
  OBVIOUS
<1> USE RequestsAreSupported, NoneIsNew DEF Inv, TypeOK, Done, Holding, Asked,
   Queued, Signs, Methods, handlerVars, approvalVars, passkeyVars, originVars, lockVars
<1>1. ASSUME NEW r \in Requests, Checked(r)
      PROVE  Asked'
  BY <1>1 DEF Checked, Address, Park, Goto
<1>2. ASSUME NEW r \in Requests, Opened(r)
      PROVE  Asked'
  BY <1>2 DEF Opened, Goto
<1>3. ASSUME NEW r \in Requests, OpenFails(r)
      PROVE  Asked'
  BY <1>3 DEF OpenFails, Goto
<1>4. ASSUME NEW r \in Requests, Decided(r)
      PROVE  Asked'
  BY <1>4 DEF Decided, BeginSign, Goto
<1>5. ASSUME NEW r \in Requests, Connect(r)
      PROVE  Asked'
  BY <1>5 DEF Connect, Goto
<1>6. ASSUME NEW r \in Requests, Connected(r)
      PROVE  Asked'
  BY <1>6 DEF Connected, Address, Goto
<1>7. ASSUME NEW r \in Requests, Handoff(r)
      PROVE  Asked'
  BY <1>7 DEF Handoff, Goto
<1>8. ASSUME NEW r \in Requests, TabOpens(r)
      PROVE  Asked'
  BY <1>8 DEF TabOpens, Goto
<1>9. ASSUME NEW r \in Requests, Authorized(r)
      PROVE  Asked'
  BY <1>9 DEF Authorized, CeremonyEnds, MakeSession, Goto
<1>10. ASSUME NEW r \in Requests, TimedOut(r)
      PROVE  Asked'
  BY <1>10 DEF TimedOut, CeremonyEnds, Goto
<1>11. ASSUME NEW r \in Requests, SignFails(r)
      PROVE  Asked'
  BY <1>11 DEF SignFails, Goto
<1>12. ASSUME NEW r \in Requests, Signed(r)
      PROVE  Asked'
  BY <1>12 DEF Signed, Goto
<1>13. ASSUME NEW r \in Requests, NEW m \in Methods, Arrive(r, m)
      PROVE  Asked'
  BY <1>13 DEF Arrive, BeginSign, Goto
<1>14. ASSUME NEW w \in Requests, Removed(w)
      PROVE  Asked'
  BY <1>14 DEF Removed, RejectAll, Leave
<1>15. ASSUME NEW w \in Requests, NEW r \in Requests, NEW approved \in BOOLEAN,
            Decide(w, r, approved)
      PROVE  Asked'
  BY <1>15 DEF Decide, Leave
<1>16. CASE Lock
  BY <1>16 DEF Lock, Cuts, RejectAll, Leave
<1>17. CASE WorkerStops
  BY <1>17 DEF WorkerStops
\* No other action changes what this is about.
<1>18. CASE \/ \E w \in Requests : Load(w) \/ Refresh(w) \/ CloseWindow(w)
            \/ \E t \in Requests, passed \in BOOLEAN : Launch(t, passed)
            \/ \E o \in Origins : ReadToDisconnect(o) \/ Disconnect(o)
            \/ Unlock
  BY <1>18 DEF Load, Refresh, CloseWindow, Launch, ReadToDisconnect,
     Disconnect, Unlock
<1>19. CASE UNCHANGED vars
  BY <1>19 DEF vars
<1> QED
  BY <1>1, <1>2, <1>3, <1>4, <1>5, <1>6, <1>7, <1>8, <1>9, <1>10, <1>11, <1>12,
     <1>13, <1>14, <1>15, <1>16, <1>17, <1>18, <1>19 DEF Next, Work

\* A list is read from origins, which is within granted, and granted only
\* grows: writing an old list back lists nothing that was never agreed to.
LEMMA AgreedStep == Inv /\ [Next]_vars => Agreed'
<1> SUFFICES ASSUME Inv, [Next]_vars PROVE Agreed'
  OBVIOUS
<1> USE RequestsAreSupported, NoneIsNew DEF Inv, TypeOK, Done, Holding, Agreed,
   Asked, Queued, ListedByConsent, Signs, handlerVars, approvalVars,
   passkeyVars, originVars, lockVars
<1>1. ASSUME NEW r \in Requests, Checked(r)
      PROVE  Agreed'
  BY <1>1 DEF Checked, Address, Park, Goto
<1>2. ASSUME NEW r \in Requests, Opened(r)
      PROVE  Agreed'
  BY <1>2 DEF Opened, Goto
<1>3. ASSUME NEW r \in Requests, OpenFails(r)
      PROVE  Agreed'
  BY <1>3 DEF OpenFails, Goto
<1>4. ASSUME NEW r \in Requests, Decided(r)
      PROVE  Agreed'
  BY <1>4 DEF Decided, BeginSign, Goto
<1>5. ASSUME NEW r \in Requests, Connect(r)
      PROVE  Agreed'
  BY <1>5 DEF Connect, Goto
<1>6. ASSUME NEW r \in Requests, Connected(r)
      PROVE  Agreed'
  BY <1>6 DEF Connected, Address, Goto
<1>7. ASSUME NEW r \in Requests, Handoff(r)
      PROVE  Agreed'
  BY <1>7 DEF Handoff, Goto
<1>8. ASSUME NEW r \in Requests, TabOpens(r)
      PROVE  Agreed'
  BY <1>8 DEF TabOpens, Goto
<1>9. ASSUME NEW r \in Requests, Authorized(r)
      PROVE  Agreed'
  BY <1>9 DEF Authorized, CeremonyEnds, MakeSession, Goto
<1>10. ASSUME NEW r \in Requests, TimedOut(r)
      PROVE  Agreed'
  BY <1>10 DEF TimedOut, CeremonyEnds, Goto
<1>11. ASSUME NEW r \in Requests, SignFails(r)
      PROVE  Agreed'
  BY <1>11 DEF SignFails, Goto
<1>12. ASSUME NEW r \in Requests, Signed(r)
      PROVE  Agreed'
  BY <1>12 DEF Signed, Goto
<1>13. ASSUME NEW r \in Requests, NEW m \in Methods, Arrive(r, m)
      PROVE  Agreed'
  BY <1>13 DEF Arrive, BeginSign, Goto
<1>14. ASSUME NEW w \in Requests, Removed(w)
      PROVE  Agreed'
  BY <1>14 DEF Removed, RejectAll, Leave
<1>15. ASSUME NEW w \in Requests, NEW r \in Requests, NEW approved \in BOOLEAN,
            Decide(w, r, approved)
      PROVE  Agreed'
  BY <1>15 DEF Decide, Leave
<1>16. ASSUME NEW o \in Origins, ReadToDisconnect(o)
      PROVE  Agreed'
  BY <1>16 DEF ReadToDisconnect
<1>17. ASSUME NEW o \in Origins, Disconnect(o)
      PROVE  Agreed'
  BY <1>17 DEF Disconnect
<1>18. CASE Lock
  BY <1>18 DEF Lock, Cuts, RejectAll, Leave
<1>19. CASE WorkerStops
  BY <1>19 DEF WorkerStops
\* No other action changes what this is about.
<1>20. CASE \/ \E w \in Requests : Load(w) \/ Refresh(w) \/ CloseWindow(w)
            \/ \E t \in Requests, passed \in BOOLEAN : Launch(t, passed)
            \/ Unlock
  BY <1>20 DEF Load, Refresh, CloseWindow, Launch, Unlock
<1>21. CASE UNCHANGED vars
  BY <1>21 DEF vars
<1> QED
  BY <1>1, <1>2, <1>3, <1>4, <1>5, <1>6, <1>7, <1>8, <1>9, <1>10, <1>11, <1>12,
     <1>13, <1>14, <1>15, <1>16, <1>17, <1>18, <1>19, <1>20, <1>21 DEF Next,
     Work

\* Lock and the end of the worker take the current buffer from every holder.
LEMMA BufferedStep == Inv /\ [Next]_vars => Buffered'
<1> SUFFICES ASSUME Inv, [Next]_vars PROVE Buffered'
  OBVIOUS
<1> USE RequestsAreSupported, NoneIsNew DEF Inv, TypeOK, Done, Holding,
   Buffered, handlerVars, approvalVars, passkeyVars, originVars, lockVars
<1>1. ASSUME NEW r \in Requests, Checked(r)
      PROVE  Buffered'
  BY <1>1 DEF Checked, Address, Park, Goto
<1>2. ASSUME NEW r \in Requests, Opened(r)
      PROVE  Buffered'
  BY <1>2 DEF Opened, Goto
<1>3. ASSUME NEW r \in Requests, OpenFails(r)
      PROVE  Buffered'
  BY <1>3 DEF OpenFails, Goto
<1>4. ASSUME NEW r \in Requests, Decided(r)
      PROVE  Buffered'
  BY <1>4 DEF Decided, BeginSign, Goto
<1>5. ASSUME NEW r \in Requests, Connect(r)
      PROVE  Buffered'
  BY <1>5 DEF Connect, Goto
<1>6. ASSUME NEW r \in Requests, Connected(r)
      PROVE  Buffered'
  BY <1>6 DEF Connected, Address, Goto
<1>7. ASSUME NEW r \in Requests, Handoff(r)
      PROVE  Buffered'
  BY <1>7 DEF Handoff, Goto
<1>8. ASSUME NEW r \in Requests, TabOpens(r)
      PROVE  Buffered'
  BY <1>8 DEF TabOpens, Goto
<1>9. ASSUME NEW r \in Requests, Authorized(r)
      PROVE  Buffered'
  BY <1>9 DEF Authorized, CeremonyEnds, MakeSession, Goto
<1>10. ASSUME NEW r \in Requests, TimedOut(r)
      PROVE  Buffered'
  BY <1>10 DEF TimedOut, CeremonyEnds, Goto
<1>11. ASSUME NEW r \in Requests, SignFails(r)
      PROVE  Buffered'
  BY <1>11 DEF SignFails, Goto
<1>12. ASSUME NEW r \in Requests, Signed(r)
      PROVE  Buffered'
  BY <1>12 DEF Signed, Goto
<1>13. ASSUME NEW r \in Requests, NEW m \in Methods, Arrive(r, m)
      PROVE  Buffered'
  BY <1>13 DEF Arrive, BeginSign, Goto
<1>14. CASE Unlock
  BY <1>14 DEF Unlock
<1>15. CASE Lock
  BY <1>15 DEF Lock, Cuts, RejectAll, Leave
<1>16. CASE WorkerStops
  BY <1>16 DEF WorkerStops
\* No other action changes what this is about.
<1>17. CASE \/ \E w \in Requests : Load(w) \/ Refresh(w) \/ CloseWindow(w) \/ Removed(w)
            \/ \E w, r \in Requests, approved \in BOOLEAN : Decide(w, r, approved)
            \/ \E t \in Requests, passed \in BOOLEAN : Launch(t, passed)
            \/ \E o \in Origins : ReadToDisconnect(o) \/ Disconnect(o)
  BY <1>17 DEF Load, Refresh, CloseWindow, Removed, Decide, Launch,
     ReadToDisconnect, Disconnect
<1>18. CASE UNCHANGED vars
  BY <1>18 DEF vars
<1> QED
  BY <1>1, <1>2, <1>3, <1>4, <1>5, <1>6, <1>7, <1>8, <1>9, <1>10, <1>11, <1>12,
     <1>13, <1>14, <1>15, <1>16, <1>17, <1>18 DEF Next, Work

\* The windows share one queue: the closing of any of them decides for all,
\* so the handlers whose own window is gone have been decided.
LEMMA WaitsAtAWindowStep == Inv /\ [Next]_vars => WaitsAtAWindow'
<1> SUFFICES ASSUME Inv, [Next]_vars PROVE WaitsAtAWindow'
  OBVIOUS
<1> USE RequestsAreSupported, NoneIsNew DEF Inv, TypeOK, Done, Holding,
   WaitsAtAWindow, Queued, Asked, handlerVars, approvalVars, passkeyVars,
   originVars, lockVars
<1>1. ASSUME NEW r \in Requests, Checked(r)
      PROVE  WaitsAtAWindow'
  BY <1>1 DEF Checked, Address, Park, Goto
<1>2. ASSUME NEW r \in Requests, Opened(r)
      PROVE  WaitsAtAWindow'
  BY <1>2 DEF Opened, Goto
<1>3. ASSUME NEW r \in Requests, OpenFails(r)
      PROVE  WaitsAtAWindow'
  BY <1>3 DEF OpenFails, Goto
<1>4. ASSUME NEW r \in Requests, Decided(r)
      PROVE  WaitsAtAWindow'
  BY <1>4 DEF Decided, BeginSign, Goto
<1>5. ASSUME NEW r \in Requests, Connect(r)
      PROVE  WaitsAtAWindow'
  BY <1>5 DEF Connect, Goto
<1>6. ASSUME NEW r \in Requests, Connected(r)
      PROVE  WaitsAtAWindow'
  BY <1>6 DEF Connected, Address, Goto
<1>7. ASSUME NEW r \in Requests, Handoff(r)
      PROVE  WaitsAtAWindow'
  BY <1>7 DEF Handoff, Goto
<1>8. ASSUME NEW r \in Requests, TabOpens(r)
      PROVE  WaitsAtAWindow'
  BY <1>8 DEF TabOpens, Goto
<1>9. ASSUME NEW r \in Requests, Authorized(r)
      PROVE  WaitsAtAWindow'
  BY <1>9 DEF Authorized, CeremonyEnds, MakeSession, Goto
<1>10. ASSUME NEW r \in Requests, TimedOut(r)
      PROVE  WaitsAtAWindow'
  BY <1>10 DEF TimedOut, CeremonyEnds, Goto
<1>11. ASSUME NEW r \in Requests, SignFails(r)
      PROVE  WaitsAtAWindow'
  BY <1>11 DEF SignFails, Goto
<1>12. ASSUME NEW r \in Requests, Signed(r)
      PROVE  WaitsAtAWindow'
  BY <1>12 DEF Signed, Goto
<1>13. ASSUME NEW r \in Requests, NEW m \in Methods, Arrive(r, m)
      PROVE  WaitsAtAWindow'
  BY <1>13 DEF Arrive, BeginSign, Goto
<1>14. ASSUME NEW w \in Requests, Refresh(w)
      PROVE  WaitsAtAWindow'
  BY <1>14 DEF Refresh
<1>15. ASSUME NEW w \in Requests, CloseWindow(w)
      PROVE  WaitsAtAWindow'
  BY <1>15 DEF CloseWindow
<1>16. ASSUME NEW w \in Requests, Removed(w)
      PROVE  WaitsAtAWindow'
  BY <1>16 DEF Removed, RejectAll, Leave
<1>17. ASSUME NEW w \in Requests, NEW r \in Requests, NEW approved \in BOOLEAN,
            Decide(w, r, approved)
      PROVE  WaitsAtAWindow'
  BY <1>17 DEF Decide, Leave
<1>18. CASE Lock
  BY <1>18 DEF Lock, Cuts, RejectAll, Leave
<1>19. CASE WorkerStops
  BY <1>19 DEF WorkerStops
\* No other action changes what this is about.
<1>20. CASE \/ \E w \in Requests : Load(w)
            \/ \E t \in Requests, passed \in BOOLEAN : Launch(t, passed)
            \/ \E o \in Origins : ReadToDisconnect(o) \/ Disconnect(o)
            \/ Unlock
  BY <1>20 DEF Load, Launch, ReadToDisconnect, Disconnect, Unlock
<1>21. CASE UNCHANGED vars
  BY <1>21 DEF vars
<1> QED
  BY <1>1, <1>2, <1>3, <1>4, <1>5, <1>6, <1>7, <1>8, <1>9, <1>10, <1>11, <1>12,
     <1>13, <1>14, <1>15, <1>16, <1>17, <1>18, <1>19, <1>20, <1>21 DEF Next,
     Work

\* A ceremony that was completed stays so, and a request past its window is
\* not in the queue, so nothing changes its decision any more.
LEMMA SignedByConsentStep == Inv /\ [Next]_vars => SignedByConsent'
<1> SUFFICES ASSUME Inv, [Next]_vars PROVE SignedByConsent'
  OBVIOUS
<1> USE RequestsAreSupported, NoneIsNew DEF Inv, TypeOK, Done, Holding,
   SignedByConsent, Asked, Agreed, Queued, Signs, handlerVars, approvalVars,
   passkeyVars, originVars, lockVars
<1>1. ASSUME NEW r \in Requests, Checked(r)
      PROVE  SignedByConsent'
  BY <1>1 DEF Checked, Address, Park, Goto
<1>2. ASSUME NEW r \in Requests, Opened(r)
      PROVE  SignedByConsent'
  BY <1>2 DEF Opened, Goto
<1>3. ASSUME NEW r \in Requests, OpenFails(r)
      PROVE  SignedByConsent'
  BY <1>3 DEF OpenFails, Goto
<1>4. ASSUME NEW r \in Requests, Decided(r)
      PROVE  SignedByConsent'
  BY <1>4 DEF Decided, BeginSign, Goto
<1>5. ASSUME NEW r \in Requests, Connect(r)
      PROVE  SignedByConsent'
  BY <1>5 DEF Connect, Goto
<1>6. ASSUME NEW r \in Requests, Connected(r)
      PROVE  SignedByConsent'
  BY <1>6 DEF Connected, Address, Goto
<1>7. ASSUME NEW r \in Requests, Handoff(r)
      PROVE  SignedByConsent'
  BY <1>7 DEF Handoff, Goto
<1>8. ASSUME NEW r \in Requests, TabOpens(r)
      PROVE  SignedByConsent'
  BY <1>8 DEF TabOpens, Goto
<1>9. ASSUME NEW r \in Requests, Authorized(r)
      PROVE  SignedByConsent'
  BY <1>9 DEF Authorized, CeremonyEnds, MakeSession, Goto
<1>10. ASSUME NEW r \in Requests, TimedOut(r)
      PROVE  SignedByConsent'
  BY <1>10 DEF TimedOut, CeremonyEnds, Goto
<1>11. ASSUME NEW r \in Requests, SignFails(r)
      PROVE  SignedByConsent'
  BY <1>11 DEF SignFails, Goto
<1>12. ASSUME NEW r \in Requests, Signed(r)
      PROVE  SignedByConsent'
  BY <1>12 DEF Signed, Goto
<1>13. ASSUME NEW r \in Requests, NEW m \in Methods, Arrive(r, m)
      PROVE  SignedByConsent'
  BY <1>13 DEF Arrive, BeginSign, Goto
<1>14. ASSUME NEW w \in Requests, Removed(w)
      PROVE  SignedByConsent'
  BY <1>14 DEF Removed, RejectAll, Leave
<1>15. ASSUME NEW w \in Requests, NEW r \in Requests, NEW approved \in BOOLEAN,
            Decide(w, r, approved)
      PROVE  SignedByConsent'
  BY <1>15 DEF Decide, Leave
<1>16. ASSUME NEW t \in Requests, NEW passed \in BOOLEAN, Launch(t, passed)
      PROVE  SignedByConsent'
  BY <1>16 DEF Launch
<1>17. CASE Lock
  BY <1>17 DEF Lock, Cuts, RejectAll, Leave
<1>18. CASE WorkerStops
  BY <1>18 DEF WorkerStops
\* No other action changes what this is about.
<1>19. CASE \/ \E w \in Requests : Load(w) \/ Refresh(w) \/ CloseWindow(w)
            \/ \E o \in Origins : ReadToDisconnect(o) \/ Disconnect(o)
            \/ Unlock
  BY <1>19 DEF Load, Refresh, CloseWindow, ReadToDisconnect, Disconnect, Unlock
<1>20. CASE UNCHANGED vars
  BY <1>20 DEF vars
<1> QED
  BY <1>1, <1>2, <1>3, <1>4, <1>5, <1>6, <1>7, <1>8, <1>9, <1>10, <1>11, <1>12,
     <1>13, <1>14, <1>15, <1>16, <1>17, <1>18, <1>19, <1>20 DEF Next, Work

\* Connect and Disconnect write back a list that is within granted.
LEMMA ListedByConsentStep == Inv /\ [Next]_vars => ListedByConsent'
<1> SUFFICES ASSUME Inv, [Next]_vars PROVE ListedByConsent'
  OBVIOUS
<1> USE RequestsAreSupported, NoneIsNew DEF Inv, TypeOK, Done, Holding,
   ListedByConsent, Agreed, Asked, Signs, handlerVars, approvalVars,
   passkeyVars, originVars, lockVars
<1>1. ASSUME NEW r \in Requests, Checked(r)
      PROVE  ListedByConsent'
  BY <1>1 DEF Checked, Address, Park, Goto
<1>2. ASSUME NEW r \in Requests, Opened(r)
      PROVE  ListedByConsent'
  BY <1>2 DEF Opened, Goto
<1>3. ASSUME NEW r \in Requests, OpenFails(r)
      PROVE  ListedByConsent'
  BY <1>3 DEF OpenFails, Goto
<1>4. ASSUME NEW r \in Requests, Decided(r)
      PROVE  ListedByConsent'
  BY <1>4 DEF Decided, BeginSign, Goto
<1>5. ASSUME NEW r \in Requests, Connect(r)
      PROVE  ListedByConsent'
  BY <1>5 DEF Connect, Goto
<1>6. ASSUME NEW r \in Requests, Connected(r)
      PROVE  ListedByConsent'
  BY <1>6 DEF Connected, Address, Goto
<1>7. ASSUME NEW r \in Requests, Handoff(r)
      PROVE  ListedByConsent'
  BY <1>7 DEF Handoff, Goto
<1>8. ASSUME NEW r \in Requests, TabOpens(r)
      PROVE  ListedByConsent'
  BY <1>8 DEF TabOpens, Goto
<1>9. ASSUME NEW r \in Requests, Authorized(r)
      PROVE  ListedByConsent'
  BY <1>9 DEF Authorized, CeremonyEnds, MakeSession, Goto
<1>10. ASSUME NEW r \in Requests, TimedOut(r)
      PROVE  ListedByConsent'
  BY <1>10 DEF TimedOut, CeremonyEnds, Goto
<1>11. ASSUME NEW r \in Requests, SignFails(r)
      PROVE  ListedByConsent'
  BY <1>11 DEF SignFails, Goto
<1>12. ASSUME NEW r \in Requests, Signed(r)
      PROVE  ListedByConsent'
  BY <1>12 DEF Signed, Goto
<1>13. ASSUME NEW r \in Requests, NEW m \in Methods, Arrive(r, m)
      PROVE  ListedByConsent'
  BY <1>13 DEF Arrive, BeginSign, Goto
<1>14. ASSUME NEW w \in Requests, NEW r \in Requests, NEW approved \in BOOLEAN,
            Decide(w, r, approved)
      PROVE  ListedByConsent'
  BY <1>14 DEF Decide, Leave
<1>15. ASSUME NEW o \in Origins, Disconnect(o)
      PROVE  ListedByConsent'
  BY <1>15 DEF Disconnect
<1>16. CASE WorkerStops
  BY <1>16 DEF WorkerStops
\* No other action changes what this is about.
<1>17. CASE \/ \E w \in Requests : Load(w) \/ Refresh(w) \/ CloseWindow(w) \/ Removed(w)
            \/ \E t \in Requests, passed \in BOOLEAN : Launch(t, passed)
            \/ \E o \in Origins : ReadToDisconnect(o)
            \/ Unlock \/ Lock
  BY <1>17 DEF Load, Refresh, CloseWindow, Removed, Launch, ReadToDisconnect,
     Unlock, Lock, Cuts
<1>18. CASE UNCHANGED vars
  BY <1>18 DEF vars
<1> QED
  BY <1>1, <1>2, <1>3, <1>4, <1>5, <1>6, <1>7, <1>8, <1>9, <1>10, <1>11, <1>12,
     <1>13, <1>14, <1>15, <1>16, <1>17, <1>18 DEF Next, Work

\* The parts support each other: each step above assumes all of Inv.
LEMMA Inductive == Inv /\ [Next]_vars => Inv'
<1>1. Inv => TypeOK
  BY DEF Inv
<1> QED
  BY <1>1, TypeStep, QueuedStep, AskedStep, AgreedStep, BufferedStep,
     WaitsAtAWindowStep, SignedByConsentStep, ListedByConsentStep DEF Inv

\* Inv holds in every reachable state, which the theorems below draw on.
LEMMA Invariant == Spec => []Inv
BY Initially, Inductive, PTL DEF Spec

\* The queue, the windows, the buffers and the ceremonies have their types.
THEOREM TypeCorrect == Spec => []TypeOK
<1>1. Inv => TypeOK
  BY DEF Inv
<1> QED
  BY Invariant, <1>1, PTL

\* No handler waits for a decision that nobody can give: it is in the queue, and
\* the worker will hear of the closing of a window that is still there.
THEOREM NeverStranded == Spec => []WaitsAtAWindow
<1>1. Inv => WaitsAtAWindow
  BY DEF Inv
<1> QED
  BY Invariant, <1>1, PTL

\* Every signature a page gets was approved and passed its own ceremony, however
\* many requests, windows, tabs and ceremonies overlap.
THEOREM NoSilentApproval == Spec => []SignedByConsent
<1>1. Inv => SignedByConsent
  BY DEF Inv
<1> QED
  BY Invariant, <1>1, PTL

\* Only origins the user agreed to are listed or see the address, however many
\* handlers write back lists they read earlier.
THEOREM NoUninvitedOrigin == Spec => []ListedByConsent
<1>1. Inv => ListedByConsent
  BY DEF Inv
<1> QED
  BY Invariant, <1>1, PTL

\* A sign() that a lock finds waiting for its ceremony starts no session, however
\* often the wallet is unlocked again before the ceremony is through.
THEOREM LockHolds == Spec => LockEndsSigning
<1> DEFINE Ended == \A r \in Requests :
                       at[r] = "polling" /\ at'[r] = "signing" => r \notin cut
<1>1. Inv /\ [Next]_vars => [Ended]_vars
  <2> SUFFICES ASSUME Inv, Next, NEW r \in Requests, at[r] = "polling", at'[r] = "signing"
               PROVE  r \notin cut
    BY DEF vars
  <2> USE DEF Inv, TypeOK
  <2>1. \E q \in Requests : Authorized(q)
    <3>1. ASSUME NEW q \in Requests, Work(q) PROVE Authorized(q)
      BY <3>1 DEF Work, Checked, Opened, OpenFails, Decided, Connect, Connected, Handoff,
         TabOpens, TimedOut, SignFails, Signed, Address, Park, BeginSign, Goto
    <3>2. ASSUME NEW q \in Requests, NEW m \in Methods, Arrive(q, m) PROVE FALSE
      BY <3>2 DEF Arrive, BeginSign, Goto
    <3>3. ~ WorkerStops
      BY DEF WorkerStops
    <3>4. at' # at
      OBVIOUS
    <3> QED
      BY <3>1, <3>2, <3>3, <3>4 DEF Next, Load, Refresh, CloseWindow, Removed, Decide,
         Launch, ReadToDisconnect, Disconnect, Unlock, Lock, handlerVars
  <2>2. held[r] # "wiped"
    BY <2>1 DEF Authorized, MakeSession, Goto
  <2> QED
    BY <2>2 DEF Buffered, Holding
<1> QED
  BY Invariant, <1>1, PTL DEF Spec, LockEndsSigning
=============================================================================
