------------------------------ MODULE Parties ------------------------------
(***************************************************************************)
(* The party state machines of mpc-core (DkgParty, SignParty), the sessions *)
(* of the wasm bindings around them, and the extension's driver             *)
(* (protocolRunner.ts), which advances its own parties and the server's in  *)
(* lock step: key generation, reshare, signing with the server and signing  *)
(* with a recovery file.                                                    *)
(*                                                                         *)
(* A share is the party's point, the public key, and the run that dealt it: *)
(* the multiplication set-up of two shares matches only within one deal.   *)
(* The public key is represented by the secret it belongs to.              *)
(***************************************************************************)
EXTENDS Sharing, FiniteSets

CONSTANTS
    Draws,          \* bound: the scalars a party may draw
    MaxDeals,       \* bound: key generations and reshares
    MaxRounds,      \* MAX_ROUNDS
    Everyone,       \* the recipient of a broadcast
    None

ASSUME DrawsAreScalars == Draws \subseteq Scalar

\* A protocol takes three turns of the driver's loop.
ASSUME BoundsAreNaturals == MaxDeals \in Nat /\ MaxRounds \in Nat /\ MaxRounds >= 3

ASSUME EveryoneIsNoParty == Everyone \notin Party

VARIABLES
    vault,          \* the extension's share
    files,          \* the shares of the recovery files the user has
    live, staged,   \* the server's share and the one a reshare staged
    deals,          \* how many deals have begun
    run,            \* the driver's coroutine
    session         \* the server's session for it

wallet == <<vault, files, live, staged>>
vars == <<vault, files, live, staged, deals, run, session>>

Maybe(S) == S \union {None}

Shares == [party : Party, point : Scalar, deal : 1..MaxDeals, key : Scalar]

Messages ==
    [round : 1..3, from : Party, to : Party \union {Everyone},
     body : Maybe(Scalar) \union (1..MaxDeals)]

DealSessions ==
    [kind : {"deal"}, me : Party, round : 1..4, deal : 1..MaxDeals,
     expected : Maybe(Scalar), fragments : [Party -> Maybe(Scalar)],
     proofs : [Party -> Maybe(Scalar)], zero2 : SUBSET Party,
     private3 : SUBSET Party, bip3 : SUBSET Party, share : Maybe(Shares)]

SignSessions ==
    [kind : {"sign"}, me : Party, with : Party, round : 1..4,
     held : Shares, broadcasts : SUBSET (1..MaxDeals)]

Sessions == DealSessions \union SignSessions

\* fits: the shares the run starts from belong together.  disturbed: a call
\* was lost, or the server was sent something in between.
Runs ==
    [kind : {"dkg", "reshare", "sign", "offline"}, deal : 0..MaxDeals,
     at : {"open", "advance", "send", "abort", "returned", "failed"},
     local : [Party -> Maybe(Sessions)], flying : SUBSET Messages,
     next : SUBSET Messages, count : 0..MaxRounds,
     fits : BOOLEAN, disturbed : BOOLEAN]

\* What starting or advancing a party gives.
Replies == [session : Sessions, out : SUBSET Messages]

ASSUME NoneIsNoValue == None \notin Scalar \union Shares \union Sessions \union Replies

\* The last two conjuncts: a session belongs to the party it was made for.
TypeOK ==
    /\ {vault, live, staged} \subseteq Maybe(Shares)
    /\ files \subseteq Shares
    /\ deals \in 0..MaxDeals
    /\ session \in Maybe(Sessions)
    /\ run \in Maybe(Runs)
    /\ session # None => session.me = Server
    /\ run # None => \A p \in Party : run.local[p] # None => run.local[p].me = p

Init ==
    /\ vault = None /\ files = {} /\ live = None /\ staged = None
    /\ deals = 0
    /\ run = None
    /\ session = None

-----------------------------------------------------------------------------
(* One party.  Starting and advancing it give the session and what it sends; *)
(* an error gives Refused.                                                   *)

Refused == None

Message(round, from, to, body) ==
    [round |-> round, from |-> from, to |-> to, body |-> body]

Others(me) == Party \ {me}

Nobody == [p \in Party |-> None]

StartWith(me, row, expected, deal) ==
    [session |->
        [kind |-> "deal", me |-> me, round |-> 1, deal |-> deal,
         expected |-> expected, fragments |-> [Nobody EXCEPT ![me] = row[me]],
         proofs |-> Nobody, zero2 |-> {}, private3 |-> {}, bip3 |-> {},
         share |-> None],
     out |-> {Message(1, me, p, row[p]) : p \in Others(me)}]

SlipSwappedParties(held, me, with) ==
    [session |->
        [kind |-> "sign", me |-> with, with |-> me, round |-> 1,
         held |-> held, broadcasts |-> {}],
     out |-> {Message(1, with, me, held.deal)}]

StartSign(held, me, with) ==
    [session |->
        [kind |-> "sign", me |-> me, with |-> with, round |-> 1,
         held |-> held, broadcasts |-> {}],
     out |-> {Message(1, me, with, held.deal)}]

\* The checks before a round touches any state.
Accepts(s, e) ==
    /\ e.round = s.round
    /\ e.to \in {s.me, Everyone}
    /\ s.kind = "sign" => e.from = s.with

Senders(inbox) == {e.from : e \in inbox}
BodyFrom(p, inbox) == (CHOOSE e \in inbox : e.from = p).body
Private(inbox) == {e \in inbox : e.to # Everyone}
Public(inbox) == {e \in inbox : e.to = Everyone}

\* Later entries replace earlier ones, as BTreeMap::insert does.
Merge(old, inbox) ==
    [p \in Party |-> IF p \in Senders(inbox) THEN BodyFrom(p, inbox) ELSE old[p]]

AllFragments(fragments) == \A p \in Party : fragments[p] # None

Round2(s, inbox) ==
    LET fragments == Merge(s.fragments, inbox)
        point == SumOf(fragments)
    IN  IF ~ AllFragments(fragments) THEN Refused
        ELSE [session |-> [s EXCEPT !.round = 2, !.fragments = fragments,
                                    !.proofs[s.me] = point],
              out |-> {Message(2, s.me, Everyone, point)} \union
                      {Message(2, s.me, p, None) : p \in Others(s.me)}]

Round3(s, inbox) ==
    [session |-> [s EXCEPT !.round = 3, !.proofs = Merge(@, Public(inbox)),
                           !.zero2 = @ \union Senders(Private(inbox)), !.bip3 = {s.me}],
     out |-> {Message(3, s.me, Everyone, None)} \union
             {Message(3, s.me, p, None) : p \in Others(s.me)}]

\* The library's last phase: the peers' contributions are all there and every
\* two consecutive points give the same public key.
JointKey(proofs) ==
    Reconstruct(Extension, proofs[Extension], Recovery, proofs[Recovery])

Phase4Accepts(s) ==
    /\ s.zero2 = Others(s.me) /\ s.private3 = Others(s.me) /\ s.bip3 = Party
    /\ JointKey(s.proofs) =
         Reconstruct(Recovery, s.proofs[Recovery], Server, s.proofs[Server])

SlipAnyKey(s) == TRUE
KeyIsExpected(s) == s.expected \in {None, JointKey(s.proofs)}

Round4(s, inbox) ==
    LET heard == [s EXCEPT !.bip3 = @ \union Senders(Public(inbox)),
                           !.private3 = @ \union Senders(Private(inbox))]
    IN  IF /\ \A p \in Party : heard.proofs[p] # None
           /\ Phase4Accepts(heard)
           /\ KeyIsExpected(heard)
        THEN [session |->
                [heard EXCEPT !.round = 4,
                    !.share = [party |-> s.me, point |-> SumOf(s.fragments),
                               deal |-> s.deal, key |-> JointKey(heard.proofs)]],
              out |-> {}]
        ELSE Refused

\* The library's third signing phase checks the multiplication, which shares
\* of different deals fail; its fourth verifies the signature.
Phase3Accepts(s, inbox) == {e.body : e \in inbox} = {s.held.deal}

SignRound2(s, inbox) ==
    [session |-> [s EXCEPT !.round = 2],
     out |-> {Message(2, s.me, s.with, s.held.deal)}]

SignRound3(s, inbox) ==
    IF ~ Phase3Accepts(s, inbox) THEN Refused
    ELSE [session |-> [s EXCEPT !.round = 3, !.broadcasts = {s.held.deal}],
          out |-> {Message(3, s.me, Everyone, s.held.deal)}]

SignRound4(s, inbox) ==
    IF inbox = {} \/ ~ Phase3Accepts(s, inbox) THEN Refused
    ELSE [session |-> [s EXCEPT !.round = 4, !.broadcasts = @ \union {e.body : e \in inbox}],
          out |-> {}]

Advance(s, inbox) ==
    IF \E e \in inbox : ~ Accepts(s, e) THEN Refused
    ELSE CASE s.round = 1 /\ s.kind = "deal" -> Round2(s, inbox)
           [] s.round = 2 /\ s.kind = "deal" -> Round3(s, inbox)
           [] s.round = 3 /\ s.kind = "deal" -> Round4(s, inbox)
           [] s.round = 1 /\ s.kind = "sign" -> SignRound2(s, inbox)
           [] s.round = 2 /\ s.kind = "sign" -> SignRound3(s, inbox)
           [] s.round = 3 /\ s.kind = "sign" -> SignRound4(s, inbox)
           [] OTHER -> Refused

Finished(s) == s.round = 4

-----------------------------------------------------------------------------
(* The driver                                                               *)

InboxFor(me, envelopes) ==
    {e \in envelopes : e.from # me /\ e.to \in {me, Everyone}}

Locals == {p \in Party : run.local[p] # None}
LocalsDone == \A p \in Locals : Finished(run.local[p])

\* The constructors of the local parties, and the call that opens the
\* server's session comes next.
Begin(kind, started, fits) ==
    /\ run = None
    /\ run' = [kind |-> kind,
               deal |-> IF kind \in {"dkg", "reshare"} THEN deals + 1 ELSE 0,
               at |-> IF kind = "offline" THEN "advance" ELSE "open",
               local |-> [p \in Party |-> IF p \in DOMAIN started
                                          THEN started[p].session ELSE None],
               flying |-> UNION {started[p].out : p \in DOMAIN started},
               next |-> {}, count |-> 0, fits |-> fits, disturbed |-> FALSE]
    /\ session' = None

\* runDkg(), for a wallet id that is new to the server.
BeginDkg ==
    /\ vault = None /\ deals < MaxDeals
    /\ \E c \in [{Extension, Recovery} -> Draws], m \in [{Extension, Recovery} -> Draws] :
         Begin("dkg",
               [p \in {Extension, Recovery} |->
                    StartWith(p, Line(c[p], m[p]), None, deals + 1)],
               TRUE)
    /\ deals' = deals + 1
    /\ live' = None
    /\ UNCHANGED <<vault, files, staged>>

\* runReshare(), from the share B of a restored wallet.
BeginReshare ==
    /\ vault # None /\ live # None /\ deals < MaxDeals
    /\ vault.party = Recovery
    /\ \E slope \in Draws :
         Begin("reshare",
               [p \in {Extension, Recovery} |->
                  StartWith(p, IF p = Extension THEN JoinerRow
                               ELSE ReshareRow(Recovery, vault.point, Server, slope),
                            vault.key, deals + 1)],
               Reconstruct(Recovery, vault.point, Server, live.point) = vault.key)
    /\ deals' = deals + 1
    /\ UNCHANGED wallet

\* signWithServer(), with whichever share the extension holds.
BeginSign ==
    /\ vault # None /\ live # None
    /\ Begin("sign", [p \in {vault.party} |-> StartSign(vault, p, Server)],
             vault.deal = live.deal)
    /\ UNCHANGED <<wallet, deals>>

\* signWithRecoveryFile(), which takes the extension's share for share A.
BeginOffline ==
    /\ vault # None
    /\ vault.party = Extension
    /\ \E f \in files :
         Begin("offline",
               [p \in {Extension, Recovery} |->
                  IF p = Extension THEN StartSign(vault, Extension, Recovery)
                                   ELSE StartSign(f, Recovery, Extension)],
               vault.deal = f.deal)
    /\ UNCHANGED <<wallet, deals>>

\* What the server can answer when its session is opened.
ServerStarts ==
    CASE run.kind = "dkg" ->
           {StartWith(Server, Line(c, m), None, run.deal) : c \in Draws, m \in Draws}
      [] run.kind = "reshare" ->
           {StartWith(Server, ReshareRow(Server, live.point, Recovery, slope),
                      live.key, run.deal) : slope \in Draws}
      [] OTHER -> {StartSign(live, Server, vault.party)}

Fail == IF run.kind = "reshare" THEN "abort" ELSE "failed"

Open ==
    /\ run # None /\ run.at = "open"
    /\ \E started \in ServerStarts :
         /\ session' = started.session
         /\ run' = [run EXCEPT !.at = "advance", !.flying = @ \union started.out]
    /\ UNCHANGED <<wallet, deals>>

\* Offline the local parties are the only ones.
SlipNoWait(local) ==
    /\ run.kind # "offline"
    /\ \E p \in Locals : ~ Finished(local[p])
ServerFollows(local) == run.kind # "offline"

\* The local half of one turn of the loop.
AdvanceLocal ==
    /\ run # None /\ run.at = "advance"
    /\ LET active == {p \in Locals : ~ Finished(run.local[p])}
           turn == [p \in active |-> Advance(run.local[p], InboxFor(p, run.flying))]
           local == [p \in Party |-> IF p \in active THEN turn[p].session
                                                     ELSE run.local[p]]
           next == UNION {turn[p].out : p \in active}
       IN  run' = IF \E p \in active : turn[p] = Refused
                  THEN [run EXCEPT !.at = Fail]
                  ELSE IF ServerFollows(local)
                  THEN [run EXCEPT !.at = "send", !.local = local, !.next = next]
                  ELSE [run EXCEPT !.local = local, !.flying = next, !.count = @ + 1,
                          !.at = IF Finished(local[Extension]) THEN "returned"
                                 ELSE IF run.count + 1 = MaxRounds THEN Fail
                                 ELSE "advance"]
    /\ UNCHANGED <<wallet, deals, session>>

-----------------------------------------------------------------------------
(* The server's half                                                        *)

Reply(inbox) == IF session = None THEN Refused ELSE Advance(session, inbox)

\* A failed round ends a reshare and leaves the other sessions as they were.
\* finish_dkg() stores the share, reshare::advance() stages it.
ServerTurn(inbox) ==
    LET reply == Reply(inbox)
        done == reply # Refused /\ Finished(reply.session)
    IN  /\ session' = IF reply = Refused
                      THEN IF run.kind = "reshare" THEN None ELSE session
                      ELSE IF done THEN None ELSE reply.session
        /\ live' = IF done /\ run.kind = "dkg" THEN reply.session.share ELSE live
        /\ staged' = IF done /\ run.kind = "reshare" THEN reply.session.share ELSE staged

\* The parties agree on the key, and a reshare's is the wallet's.
KeysAgree(reply) ==
    run.kind \in {"dkg", "reshare"} =>
        /\ run.local[Extension].share.key = reply.session.share.key
        /\ run.kind = "reshare" => run.local[Extension].share.key = vault.key

\* The answer: the result, another turn, or an error.
Answered(reply) ==
    LET failed == [run EXCEPT !.at = Fail] IN
    run' = IF reply = Refused THEN failed
           ELSE IF Finished(reply.session)
           THEN IF LocalsDone /\ KeysAgree(reply)
                THEN [run EXCEPT !.at = "returned", !.flying = {}, !.next = {}]
                ELSE failed
           ELSE IF run.count + 1 = MaxRounds THEN failed
           ELSE [run EXCEPT !.at = "advance", !.count = @ + 1, !.next = {},
                            !.flying = run.next \union reply.out]

Round ==
    /\ run # None /\ run.at = "send"
    /\ ServerTurn(InboxFor(Server, run.flying))
    /\ Answered(Reply(InboxFor(Server, run.flying)))
    /\ UNCHANGED <<vault, files, deals>>

Disturbed == [run EXCEPT !.disturbed = TRUE]

\* The call or its answer is lost, and the driver gives up.
Unanswered ==
    /\ run # None
    /\ run' = [Disturbed EXCEPT !.at = Fail]
    /\ \/ /\ run.at \in {"open", "send"}
          /\ UNCHANGED <<live, staged, session>>
       \/ /\ run.at = "open"
          /\ \E started \in ServerStarts : session' = started.session
          /\ UNCHANGED <<live, staged>>
       \/ /\ run.at = "send"
          /\ ServerTurn(InboxFor(Server, run.flying))
    /\ UNCHANGED <<vault, files, deals>>

\* A key generation round is not authenticated: a request of this round, or
\* one with some of its envelopes, may be served before the driver's own.
\* What the server refuses leaves its session as it was.
ServedBefore ==
    /\ run # None /\ run.at \in {"advance", "send"}
    /\ run.kind = "dkg"
    /\ \E inbox \in SUBSET InboxFor(Server, run.flying) :
         /\ Reply(inbox) # Refused
         /\ ServerTurn(inbox)
    /\ run' = Disturbed
    /\ UNCHANGED <<vault, files, deals>>

\* abortReshare(), whose failure is ignored.
Abort ==
    /\ run # None /\ run.at = "abort"
    /\ run' = [run EXCEPT !.at = "failed"]
    /\ \/ session' = None /\ staged' = None
       \/ UNCHANGED <<session, staged>>
    /\ UNCHANGED <<vault, files, live, deals>>

-----------------------------------------------------------------------------
(* What becomes of the result                                               *)

\* The user has saved the recovery file: confirmRecoverySaved(), and the
\* commit of confirmReshareSaved() (ReshareDevice has its steps).
Confirm ==
    /\ run # None /\ run.at = "returned"
    /\ run.kind \in {"dkg", "reshare"}
    /\ vault' = run.local[Extension].share
    /\ files' = files \union {run.local[Recovery].share}
    /\ IF run.kind = "reshare" THEN live' = staged /\ staged' = None
       ELSE UNCHANGED <<live, staged>>
    /\ run' = None
    /\ UNCHANGED <<deals, session>>

\* A signature was handed on, the run failed, or the user cancelled.
Discard ==
    /\ run # None /\ run.at \in {"returned", "failed"}
    /\ staged' = IF run.at = "returned" THEN None ELSE staged
    /\ run' = None
    /\ session' = None
    /\ UNCHANGED <<vault, files, live, deals>>

\* The device is lost and the wallet restored from one of the user's files.
Restore ==
    /\ run = None /\ live # None /\ vault # None
    /\ \E f \in files : vault' = f
    /\ UNCHANGED <<files, live, staged, deals, run, session>>

Next ==
    \/ BeginDkg \/ BeginReshare \/ BeginSign \/ BeginOffline
    \/ Open \/ AdvanceLocal \/ Round \/ Unanswered \/ ServedBefore \/ Abort
    \/ Confirm \/ Discard \/ Restore

Spec == Init /\ [][Next]_vars

-----------------------------------------------------------------------------
(* Properties                                                               *)

\* Two shares put together for an export, which is refused unless they give
\* the wallet's key.
ExportPrivateKeyFor(a, b, expected) ==
    IF \/ a.party = b.party
       \/ Reconstruct(a.party, a.point, b.party, b.point) # expected
    THEN Refused ELSE expected

\* All shares in use or on file are for one key, and any two of one deal,
\* wherever they are kept and whichever parties they belong to, export it:
\* also after reshares, failed runs and restores from an old file.  What the
\* server stores or stages is never on a line of its own
\* (export_private_key_for(), the checks at the end of round4()).
Held == files \union ({vault, live, staged} \ {None})

SharesFit ==
    \A a, b \in Held :
        /\ a.key = b.key
        /\ a.deal = b.deal /\ a.party # b.party =>
              ExportPrivateKeyFor(a, b, a.key) # Refused

\* A run from shares that belong together fails only when a call was lost or
\* something else was served in between; the errors of the driver for a
\* server that finishes first, a disagreement on the key, or too many rounds
\* do not occur.  A run from shares that do not belong together, an old
\* recovery file with a new share of the server, never returns anything.
OutcomeFollowsShares ==
    run # None =>
        /\ run.at = "returned" => run.fits
        /\ run.at \in {"abort", "failed"} => ~ run.fits \/ run.disturbed

\* When the driver hands over a key's new shares, the server holds the third
\* one of the same deal: stored after a key generation, staged after a
\* reshare.
KeptTogether ==
    run # None /\ run.at = "returned" =>
        /\ run.kind = "dkg" => live # None /\ live.deal = run.deal
        /\ run.kind = "reshare" => staged # None /\ staged.deal = run.deal
=============================================================================
