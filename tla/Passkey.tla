------------------------------ MODULE Passkey ------------------------------
(***************************************************************************)
(* The passkey endpoints of mpc-server for one wallet: browser ceremonies   *)
(* (auth_page.rs), registration and assertion (passkey.rs), and the         *)
(* challenge and session of the management page (manage.rs), over the       *)
(* tables passkey_challenges, passkey_credentials, passkey_authorizations,  *)
(* browser_ceremonies and manage_sessions of store.rs.                      *)
(*                                                                          *)
(* As in Recovery, one store function is one action, task[h] is a handler   *)
(* between two of them, and Abandon drops it.  Every row has a time limit   *)
(* of its own; here a row may lapse at any moment, which covers every       *)
(* relation between the limits.  cancelled_at is not modelled: no statement *)
(* writes it.  A definition whose name begins with Slip is not the code: it *)
(* is the definition after it with a mistake one could make there.          *)
(***************************************************************************)
EXTENDS Integers, FiniteSets

CONSTANTS
    Ceremonies,     \* browser ceremonies the server can create
    Challenges,     \* challenge ids the server can draw
    Operations,     \* what an assertion can be bound to: purpose, id and digest
    Handlers,       \* slots for handlers in flight
    None,           \* SQL NULL, no row, no local value
    MaxLive         \* MAX_LIVE_CHALLENGES of the management page

ASSUME NoneIsNew ==
    None \notin Ceremonies \union Challenges \union Operations \union {"register", "manage"}
ASSUME BindingsDiffer == Operations \intersect {"register", "manage"} = {}
ASSUME MaxLiveIsNatural == MaxLive \in Nat
ASSUME CountsAreFinite == IsFiniteSet(Challenges) /\ IsFiniteSet(Handlers) /\ Handlers # {}

VARIABLES
    ceremony,       \* browser_ceremonies
    challenge,      \* passkey_challenges
    credential,     \* passkey_credentials, None without a row
    grant,          \* passkey_authorizations: which challenge's answer made the row
    sessions,       \* manage_sessions, by the challenge whose answer opened it
    task,           \* handlers in flight
    served,         \* the challenges each ceremony's page was given; None: other pages
    answer,         \* the authenticator's answer to a challenge
    hardware,       \* the authenticator's signature counter
    outcomes        \* history: rows made from the answer to a challenge

tables == <<ceremony, challenge, credential, grant, sessions>>
client == <<served, answer, hardware>>
vars == <<tables, task, client, outcomes>>

-----------------------------------------------------------------------------
(* Types                                                                    *)

\* The binding stored with a challenge; "manage" also stands for the empty
\* wallet id a management challenge is stored under.
Bindings == Operations \union {"register", "manage"}
KindOf(b) == IF b = "register" THEN "register" ELSE "assert"
WalletOf(b) == IF b = "manage" THEN "" ELSE "wallet"

CeremonyRows == [phase : {"absent", "waiting", "claimed", "completed", "lapsed"},
                 binding : Bindings \union {None},
                 challenge : Challenges \union {None}]
ChallengeRows == [state : {"absent", "live", "used", "lapsed"},
                  wallet : {"wallet", "", None},
                  purpose : {"register", "assert", None},
                  binding : Bindings \union {None}]

\* A passkey is named by the challenge it was created for, None if that was
\* before the behaviour starts.
Credentials == [by : Challenges \union {None}, key : {"P256", "other"}, count : Nat]

ASSUME NoneIsNoCredential == None \notin Credentials

Tasks == [pc : {"idle", "handoff", "offer", "start", "store", "reread",
                "check", "take", "insert", "read", "advance", "authorize",
                "session", "complete"},
          ceremony : Ceremonies \union {None},
          challenge : Challenges \union {None},
          binding : Bindings \union {None},
          genuine : BOOLEAN]
Idle == [pc |-> "idle", ceremony |-> None, challenge |-> None,
         binding |-> None, genuine |-> FALSE]

TypeOK ==
    /\ ceremony \in [Ceremonies -> CeremonyRows]
    /\ challenge \in [Challenges -> ChallengeRows]
    /\ credential \in Credentials \union {None}
    /\ grant \in [Operations -> Challenges \union {None}]
    /\ sessions \subseteq Challenges
    /\ task \in [Handlers -> Tasks]
    /\ served \in [Ceremonies \union {None} -> SUBSET Challenges]
    /\ answer \in [Challenges -> Credentials \union {None}]
    /\ hardware \in Nat
    /\ outcomes \in [Challenges -> Nat]
    /\ \A s \in Ceremonies : ceremony[s].phase # "absent" => ceremony[s].binding \in Bindings
    /\ \A c \in Challenges : challenge[c].state # "absent" => challenge[c].binding \in Bindings
    /\ \A h \in Handlers : task[h].pc # "idle" => task[h].binding \in Bindings

\* A database with or without the wallet's passkey.  An authenticator either
\* counts or answers every assertion with zero; one that counts has counted.
Init ==
    /\ ceremony = [s \in Ceremonies |-> [phase |-> "absent", binding |-> None, challenge |-> None]]
    /\ challenge = [c \in Challenges |->
                      [state |-> "absent", wallet |-> None, purpose |-> None, binding |-> None]]
    /\ hardware \in {0, 1}
    /\ credential \in {None, [by |-> None, key |-> "P256", count |-> hardware]}
    /\ grant = [o \in Operations |-> None]
    /\ sessions = {}
    /\ task = [h \in Handlers |-> Idle]
    /\ served = [s \in Ceremonies \union {None} |-> {}]
    /\ answer = [c \in Challenges |-> None]
    /\ outcomes = [c \in Challenges |-> 0]

Begin(h, pc, s, c, b, genuine) ==
    /\ task[h] = Idle
    /\ task' = [task EXCEPT ![h] = [pc |-> pc, ceremony |-> s, challenge |-> c,
                                    binding |-> b, genuine |-> genuine]]
Continue(h, pc) == task' = [task EXCEPT ![h].pc = pc]
Finish(h) == task' = [task EXCEPT ![h] = Idle]

Registered == credential # None

\* Registration needs that there is no passkey yet, an assertion that there is.
\* Reading this and acting on it are separate statements everywhere.
Welcome(b) == IF b = "register" THEN ~ Registered ELSE Registered

-----------------------------------------------------------------------------
(* POST /v1/passkeys/handoff, and the page that claims it                   *)

Handoff(h, b) ==
    /\ b # "manage"
    /\ Welcome(b)
    /\ Begin(h, "handoff", None, None, b, FALSE)
    /\ UNCHANGED <<tables, client, outcomes>>

PutCeremony(h, s) ==
    /\ task[h].pc = "handoff"
    /\ ceremony[s].phase = "absent"
    /\ ceremony' = [ceremony EXCEPT ![s].phase = "waiting", ![s].binding = task[h].binding]
    /\ Finish(h)
    /\ UNCHANGED <<challenge, credential, grant, sessions, client, outcomes>>

Claim(s) ==
    /\ ceremony[s].phase = "waiting"
    /\ ceremony' = [ceremony EXCEPT ![s].phase = "claimed"]
    /\ UNCHANGED <<challenge, credential, grant, sessions, task, client, outcomes>>

-----------------------------------------------------------------------------
(* Making a challenge: GET /auth/session for a claimed ceremony, the two    *)
(* options endpoints, and GET /manage/challenge                             *)

Serve(s, c) ==
    /\ served' = [served EXCEPT ![s] = @ \union {c}]
    /\ UNCHANGED <<answer, hardware>>

\* The ceremony already has its challenge: the page is given it again.
OptionsAgain(s) ==
    /\ ceremony[s].phase = "claimed"
    /\ ceremony[s].challenge # None
    /\ Serve(s, ceremony[s].challenge)
    /\ UNCHANGED <<tables, task, outcomes>>

OptionsRead(h, s) ==
    /\ ceremony[s].phase = "claimed"
    /\ ceremony[s].challenge = None
    /\ Begin(h, "offer", s, None, ceremony[s].binding, FALSE)
    /\ UNCHANGED <<tables, client, outcomes>>

\* register_options() and assert_options(), called without a ceremony.
DirectOptions(h, b) ==
    /\ b # "manage"
    /\ Begin(h, "offer", None, None, b, FALSE)
    /\ UNCHANGED <<tables, client, outcomes>>

CheckWelcome(h) ==
    /\ task[h].pc = "offer"
    /\ IF Welcome(task[h].binding) THEN Continue(h, "start") ELSE Finish(h)
    /\ UNCHANGED <<tables, client, outcomes>>

\* The rows live_manage_challenges() counts.
LiveManage == {c \in Challenges : challenge[c].wallet = "" /\ challenge[c].state = "live"}

SlipOneTooMany == Cardinality(LiveManage) <= MaxLive
MayManage == Cardinality(LiveManage) < MaxLive

ManageChallenge(h) ==
    /\ MayManage
    /\ Begin(h, "start", None, None, "manage", FALSE)
    /\ UNCHANGED <<tables, client, outcomes>>

SlipUnboundChallenge(b) ==
    [state |-> "live", wallet |-> WalletOf(b), purpose |-> KindOf(b), binding |-> None]
NewChallenge(b) ==
    [state |-> "live", wallet |-> WalletOf(b), purpose |-> KindOf(b), binding |-> b]

PutChallenge(h, c) ==
    /\ task[h].pc = "start"
    /\ challenge[c].state = "absent"
    /\ challenge' = [challenge EXCEPT ![c] = NewChallenge(task[h].binding)]
    /\ IF task[h].ceremony # None
       THEN /\ task' = [task EXCEPT ![h].pc = "store", ![h].challenge = c]
            /\ UNCHANGED client
       ELSE /\ Finish(h)
            /\ Serve(None, c)
    /\ UNCHANGED <<ceremony, credential, grant, sessions, outcomes>>

\* set_browser_challenge(): of two loads of the page only the first stores.
SlipLastLoadWins(s) == ceremony[s].phase = "claimed"
StoresChallenge(s) == ceremony[s].phase = "claimed" /\ ceremony[s].challenge = None

StoreChallenge(h) ==
    LET s == task[h].ceremony
        c == task[h].challenge
    IN
    /\ task[h].pc = "store"
    /\ \/ /\ StoresChallenge(s)
          /\ ceremony' = [ceremony EXCEPT ![s].challenge = c]
          /\ Serve(s, c)
          /\ Finish(h)
       \/ /\ ~ StoresChallenge(s)
          /\ Continue(h, "reread")
          /\ UNCHANGED <<ceremony, client>>
    /\ UNCHANGED <<challenge, credential, grant, sessions, outcomes>>

\* The other load answers with what the first one stored, if the row is left.
Reread(h) ==
    LET s == task[h].ceremony IN
    /\ task[h].pc = "reread"
    /\ IF ceremony[s].phase # "lapsed" /\ ceremony[s].challenge # None
       THEN Serve(s, ceremony[s].challenge)
       ELSE UNCHANGED client
    /\ Finish(h)
    /\ UNCHANGED <<tables, outcomes>>

-----------------------------------------------------------------------------
(* The authenticator (external).  It answers a challenge a page has, once.  *)

\* The algorithms registration_options() leaves in pub_key_cred_params.
Offered == {"P256"}

Created == {c \in Challenges : answer[c] # None /\ challenge[c].purpose = "register"}
Passkeys == Created \union {p.by : p \in {credential} \ {None}}

Ticks == IF hardware = 0 THEN 0 ELSE hardware + 1

Answer(c) ==
    /\ \E s \in Ceremonies \union {None} : c \in served[s]
    /\ answer[c] = None
    /\ \/ /\ challenge[c].purpose = "register"
          /\ \E k \in Offered :
               answer' = [answer EXCEPT ![c] = [by |-> c, key |-> k, count |-> hardware]]
          /\ UNCHANGED hardware
       \/ /\ challenge[c].purpose = "assert"
          /\ \E p \in Passkeys :
               answer' = [answer EXCEPT ![c] = [by |-> p, key |-> "P256", count |-> Ticks]]
          /\ hardware' = Ticks
    /\ UNCHANGED <<tables, task, served, outcomes>>

-----------------------------------------------------------------------------
(* Finishing: POST /auth/session/finish, the two finish endpoints and       *)
(* POST /manage/session.  A call carries the authenticator's answer to the  *)
(* challenge, or something else (genuine is FALSE).                         *)

FirstPc(b) == IF b = "register" THEN "check" ELSE "take"

\* A ceremony that is completed is not refused here, its challenge is used.
FinishRead(h, s, genuine) ==
    /\ ceremony[s].phase \in {"waiting", "claimed", "completed"}
    /\ ceremony[s].challenge # None
    /\ genuine => answer[ceremony[s].challenge] # None
    /\ Begin(h, FirstPc(ceremony[s].binding), s, ceremony[s].challenge,
             ceremony[s].binding, genuine)
    /\ UNCHANGED <<tables, client, outcomes>>

\* register_finish(), assert_finish() and the management session name the
\* challenge themselves, and assert_finish() the operation as well.  Any id the
\* server has drawn may come back.
DirectFinish(h, c, b, genuine) ==
    /\ challenge[c].state # "absent"
    /\ genuine => answer[c] # None
    /\ Begin(h, FirstPc(b), None, c, b, genuine)
    /\ UNCHANGED <<tables, client, outcomes>>

CheckNone(h) ==
    /\ task[h].pc = "check"
    /\ IF Registered THEN Finish(h) ELSE Continue(h, "take")
    /\ UNCHANGED <<tables, client, outcomes>>

\* take_passkey_challenge_with_binding() finds the row and marks it.
Takes(c, b) ==
    /\ challenge[c].state = "live"
    /\ challenge[c].wallet = WalletOf(b)
    /\ challenge[c].purpose = KindOf(b)
SlipLeaveLive(c) == challenge
MarkUsed(c) == [challenge EXCEPT ![c].state = "used"]

SlipAnyBinding(c, b) == TRUE
Bound(c, b) == challenge[c].binding = b

Take(h) ==
    LET c == task[h].challenge
        b == task[h].binding
    IN
    /\ task[h].pc = "take"
    /\ \/ /\ Takes(c, b)
          /\ challenge' = MarkUsed(c)
          /\ IF Bound(c, b)
             THEN Continue(h, IF b = "register" THEN "insert" ELSE "read")
             ELSE Finish(h)
       \/ /\ ~ Takes(c, b)
          /\ Finish(h)
          /\ UNCHANGED challenge
    /\ UNCHANGED <<ceremony, credential, grant, sessions, client, outcomes>>

Yields(c) == outcomes' = [outcomes EXCEPT ![c] = @ + 1]

\* The rest of a registration: verify the answer, insert the row.  Only the
\* page's path looks at the key again (verify_registration()).
Inserts == ~ Registered

KeyAccepted(h) ==
    \/ task[h].ceremony = None
    \/ answer[task[h].challenge].key = "P256"

InsertCredential(h) ==
    LET c == task[h].challenge IN
    /\ task[h].pc = "insert"
    /\ \/ /\ task[h].genuine /\ KeyAccepted(h) /\ Inserts
          /\ credential' = answer[c]
          /\ Yields(c)
          /\ IF task[h].ceremony = None THEN Finish(h) ELSE Continue(h, "complete")
       \/ /\ ~ (task[h].genuine /\ KeyAccepted(h) /\ Inserts)
          /\ Finish(h)
          /\ UNCHANGED <<credential, outcomes>>
    /\ UNCHANGED <<ceremony, challenge, grant, sessions, client>>

\* verify_and_advance(): read the row and verify against it, write it back.
\* The management session finds the wallet by the passkey's handle first.
Verifies(c) ==
    /\ Registered
    /\ answer[c].by = credential.by
    /\ credential.key = "P256"
    /\ \/ answer[c].count > credential.count
       \/ answer[c].count = 0 /\ credential.count = 0

ReadCredential(h) ==
    /\ task[h].pc = "read"
    /\ IF task[h].genuine /\ Verifies(task[h].challenge)
       THEN Continue(h, "advance")
       ELSE Finish(h)
    /\ UNCHANGED <<tables, client, outcomes>>

\* The whole row is written back; of it only the counter can have changed.
Advance(h) ==
    /\ task[h].pc = "advance"
    /\ credential' = [credential EXCEPT !.count = answer[task[h].challenge].count]
    /\ Continue(h, IF task[h].binding = "manage" THEN "session" ELSE "authorize")
    /\ UNCHANGED <<ceremony, challenge, grant, sessions, client, outcomes>>

\* The operation has at most one row for good, so a second insert fails, and
\* the finish with it, with the counter advanced and the challenge used.
SlipConflictIsFine(h) ==
    IF task[h].ceremony = None THEN Finish(h) ELSE Continue(h, "complete")
OnConflict(h) == Finish(h)

Authorize(h) ==
    LET o == task[h].binding IN
    /\ task[h].pc = "authorize"
    /\ \/ /\ grant[o] = None
          /\ grant' = [grant EXCEPT ![o] = task[h].challenge]
          /\ Yields(task[h].challenge)
          /\ IF task[h].ceremony = None THEN Finish(h) ELSE Continue(h, "complete")
       \/ /\ grant[o] # None
          /\ OnConflict(h)
          /\ UNCHANGED <<grant, outcomes>>
    /\ UNCHANGED <<ceremony, challenge, credential, sessions, client>>

OpenSession(h) ==
    /\ task[h].pc = "session"
    /\ sessions' = sessions \union {task[h].challenge}
    /\ Yields(task[h].challenge)
    /\ Finish(h)
    /\ UNCHANGED <<ceremony, challenge, credential, grant, client>>

\* complete_browser_ceremony(), whose answer status polls as "completed".
Complete(h) ==
    LET s == task[h].ceremony IN
    /\ task[h].pc = "complete"
    /\ \/ /\ ceremony[s].phase = "claimed"
          /\ ceremony' = [ceremony EXCEPT ![s].phase = "completed"]
       \/ /\ ceremony[s].phase # "claimed"
          /\ UNCHANGED ceremony
    /\ Finish(h)
    /\ UNCHANGED <<challenge, credential, grant, sessions, client, outcomes>>

-----------------------------------------------------------------------------
(* Time, and handlers that end early.  An authorization that is consumed    *)
(* (Recovery and ServerShare do that) or expires keeps its row, and nothing *)
(* here reads a session again, so neither needs a step.                     *)

CeremonyLapses(s) ==
    /\ ceremony[s].phase \notin {"absent", "lapsed"}
    /\ ceremony' = [ceremony EXCEPT ![s].phase = "lapsed"]
    /\ UNCHANGED <<challenge, credential, grant, sessions, task, client, outcomes>>

ChallengeLapses(c) ==
    /\ challenge[c].state = "live"
    /\ challenge' = [challenge EXCEPT ![c].state = "lapsed"]
    /\ UNCHANGED <<ceremony, credential, grant, sessions, task, client, outcomes>>

Abandon(h) ==
    /\ task[h] # Idle
    /\ Finish(h)
    /\ UNCHANGED <<tables, client, outcomes>>

-----------------------------------------------------------------------------
Making(h) ==
    \/ \E b \in Bindings : Handoff(h, b) \/ DirectOptions(h, b)
    \/ \E s \in Ceremonies : PutCeremony(h, s) \/ OptionsRead(h, s)
    \/ CheckWelcome(h)
    \/ ManageChallenge(h)
    \/ \E c \in Challenges : PutChallenge(h, c)
    \/ StoreChallenge(h)
    \/ Reread(h)

Finishing(h) ==
    \/ \E s \in Ceremonies, genuine \in BOOLEAN : FinishRead(h, s, genuine)
    \/ \E c \in Challenges, b \in Bindings, genuine \in BOOLEAN : DirectFinish(h, c, b, genuine)
    \/ CheckNone(h)
    \/ Take(h)
    \/ InsertCredential(h)
    \/ ReadCredential(h)
    \/ Advance(h)
    \/ Authorize(h)
    \/ OpenSession(h)
    \/ Complete(h)

Next ==
    \/ \E h \in Handlers : Making(h) \/ Finishing(h) \/ Abandon(h)
    \/ \E s \in Ceremonies : Claim(s) \/ OptionsAgain(s) \/ CeremonyLapses(s)
    \/ \E c \in Challenges : Answer(c) \/ ChallengeLapses(c)

Spec == Init /\ [][Next]_vars

-----------------------------------------------------------------------------
(* Properties                                                               *)

\* The answer to one challenge registers a passkey, authorizes an operation or
\* opens a session at most once, however often and by whatever endpoint it is
\* submitted ("One-use", docs/server.md).
OneOutcome == \A c \in Challenges : outcomes[c] <= 1

\* What an answer authorizes is what its challenge was made for: the wallet's own
\* passkey answered a challenge bound to that operation (or to management), and
\* that challenge cannot be answered again.
AnsweredBy(c, b) ==
    /\ challenge[c].state = "used"
    /\ challenge[c].binding = b
    /\ answer[c] # None
    /\ Registered
    /\ answer[c].by = credential.by
OutcomesAreBound ==
    /\ \A o \in Operations : grant[o] # None => AnsweredBy(grant[o], o)
    /\ \A c \in sessions : AnsweredBy(c, "manage")

\* The extension starts the operation when the status of its ceremony is
\* "completed": by then the answer to this very ceremony's challenge has made
\* the authorization, or registered the passkey.
CompletedIsVerified ==
    \A s \in Ceremonies : ceremony[s].phase = "completed" =>
        IF ceremony[s].binding = "register"
        THEN Registered /\ credential.by = ceremony[s].challenge
        ELSE grant[ceremony[s].binding] = ceremony[s].challenge

\* Every load of a ceremony's page is given the one challenge its finish will
\* check, also when two loads make a challenge each.
PagesAgree == \A s \in Ceremonies : served[s] \subseteq {ceremony[s].challenge}

\* No stored passkey has a key that verify_and_advance() refuses: with one the
\* wallet could never approve anything again.  register_finish() does not look
\* at the key as the page's path does, so this rests on what was offered.
StoredKeyIsUsable == Registered => credential.key = "P256"

\* A registered passkey is never replaced, whatever registrations overlap.
PasskeyStays ==
    [][Registered => credential' # None /\ credential'.by = credential.by]_vars

\* The count of waiting management challenges and the insert are two statements.
\* The limit can be exceeded, but only by handlers that counted before any of
\* them inserted: those waiting and those about to wait stay below this.
AboutToWait == {h \in Handlers : task[h].pc = "start" /\ task[h].binding = "manage"}
WaitingIsBounded ==
    Cardinality(LiveManage) + Cardinality(AboutToWait) < MaxLive + Cardinality(Handlers)
=============================================================================
