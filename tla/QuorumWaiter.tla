---------------------------- MODULE QuorumWaiter ----------------------------
(***************************************************************************)
(* How the creator of blocks asks the quorum for signatures: the waiter of *)
(* an epoch (QuorumWaiter), the websocket connections it uses, and the     *)
(* thread that calls it round after round until the block it hunts is      *)
(* finalized (runFinalizationProofsGrabbing).                              *)
(*                                                                         *)
(* A round (SendAndWait) starts one goroutine per member asked; each       *)
(* writes the request, reads one message and hands it over in a channel.   *)
(* The channel outlives the round, and so do the goroutines: what they     *)
(* read late is an answer in a later round, and when they fail late they   *)
(* drop whichever connection their member has by then.                     *)
(*                                                                         *)
(* Members are asked and dialed independently of each other, so a round's  *)
(* messages are sent in one step, and its end is one step too.  A write    *)
(* that fails is handled as a read that fails.  Two readers of one         *)
(* connection are interchangeable.                                         *)
(***************************************************************************)
EXTENDS Integers, FiniteSets, Sequences

CONSTANTS
    Epochs,        \* each has a waiter and rounds of its own
    Quorum,        \* the anchors of an epoch
    MajorityOf,    \* how many of them make a majority, for each epoch
    LiveIn,        \* those that answer every request, in time in the end
    RepeatedIn     \* bound: those that have up to two goroutines at once; the
                   \* others have up to one

ASSUME QuorumAssumption ==
    /\ IsFiniteSet(Quorum)
    /\ MajorityOf \in [Epochs -> 1 .. Cardinality(Quorum)]
    /\ LiveIn \in [Epochs -> SUBSET Quorum]
    /\ RepeatedIn \in [Epochs -> SUBSET Quorum]

\* For the liveness properties; the others do not need it.
ASSUME LiveAssumption ==
    \A e \in Epochs : Cardinality(LiveIn[e]) >= MajorityOf[e]

VARIABLES
    epoch,        \* whose waiter this is: it never changes
    phase,        \* of the calling thread
    done,         \* qw.done of the last round
    responses,    \* qw.responses, whose keys are qw.answered
    failed,       \* qw.failed
    responseCh,   \* qw.responseCh
    connected,    \* the keys of wsConnMap
    goroutines,   \* those of sendMessages
    proofsCache   \* the members whose signature of the block is collected

waiterVars == <<done, responses, failed>>
callerVars == <<epoch, proofsCache>>
vars == <<phase, waiterVars, responseCh, connected, goroutines, callerVars>>

-----------------------------------------------------------------------------
Majority == MajorityOf[epoch]
Live == LiveIn[epoch]

Slots(v) == IF \E e \in Epochs : v \in RepeatedIn[e] THEN {1, 2} ELSE {1}

\* A goroutine is known by the member it asks and a number.
Ids == UNION {{<<v, k>> : k \in Slots(v)} : v \in Quorum}
Member(g) == g[1]

\* Its connection: the one in the map, one that is open but no longer in the
\* map, or one that has been closed.
Conn == {"mapped", "unmapped", "closed"}

\* Its request: this round's, an earlier round's for the same block, or one
\* for a block that has been finalized since.
Age == {"fresh", "retried", "stale"}

\* Waiting for the answer; past an error, with the member reported; in the
\* select with an answer that the channel has no room for, where the done
\* channel is this round's, or one that nobody will close.
Goroutine ==
    [pc : {"asking", "failing", "blocked", "lost"}, conn : Conn, age : Age]
NoGoroutine == [pc |-> "none", conn |-> "closed", age |-> "stale"]

QuorumResponse == [id : Quorum, stale : BOOLEAN]

TypeOK ==
    /\ epoch \in Epochs
    /\ phase \in {"idle", "waiting"}
    /\ done \in {"open", "closed"}
    /\ responses \in [Quorum -> {"none", "current", "stale"}]
    /\ failed \in SUBSET Quorum
    /\ responseCh \in Seq(QuorumResponse)
    /\ Len(responseCh) <= Cardinality(Quorum)
    /\ connected \in SUBSET Quorum
    /\ goroutines \in [Ids -> Goroutine \cup {NoGoroutine}]
    /\ proofsCache \in SUBSET Quorum

\* OpenWebsocketConnectionsWithQuorum reaches some of the members.
Init ==
    /\ epoch \in Epochs
    /\ phase = "idle"
    /\ done = "open"
    /\ responses = [v \in Quorum |-> "none"]
    /\ failed = {}
    /\ responseCh = <<>>
    /\ connected \in SUBSET Quorum
    /\ goroutines = [g \in Ids |-> NoGoroutine]
    /\ proofsCache = {}

-----------------------------------------------------------------------------
(***************************************************************************)
(* sendMessages starts a goroutine for every target that has a connection; *)
(* the others are reported.  (Bound: no goroutine without a free number.)  *)
(***************************************************************************)
IsFirstFree(g, threads) ==
    /\ threads[g] = NoGoroutine
    /\ g[2] = 1 \/ Member(g) \in RepeatedIn[epoch]
    /\ \A h \in Ids : Member(h) = Member(g) /\ threads[h] = NoGoroutine =>
         g[2] <= h[2]

Send(targets, threads) ==
    [g \in Ids |->
        IF Member(g) \in targets \cap connected /\ IsFirstFree(g, threads)
        THEN [pc |-> "asking", conn |-> "mapped", age |-> "fresh"]
        ELSE threads[g]]

\* What a goroutine of the last round is in the next one.
Aged(t) ==
    [t EXCEPT !.age = IF @ = "fresh" THEN "retried" ELSE @,
              !.pc = IF @ = "blocked" THEN "lost" ELSE @]

\* (a variant of StartRound that keeps the answers of the last round)
StartRoundWithoutReset ==
    /\ phase = "idle"
    /\ phase' = "waiting"
    /\ done' = "open"
    /\ failed' = Quorum \ connected
    /\ goroutines' = Send(Quorum, [g \in Ids |-> Aged(goroutines[g])])
    /\ UNCHANGED <<responses, responseCh, connected, callerVars>>


\* SendAndWait: the state is reset, but not the channel; everyone is asked.
StartRound ==
    /\ phase = "idle"
    /\ phase' = "waiting"
    /\ done' = "open"
    /\ responses' = [v \in Quorum |-> "none"]
    /\ failed' = Quorum \ connected
    /\ goroutines' = Send(Quorum, [g \in Ids |-> Aged(goroutines[g])])
    /\ UNCHANGED <<responseCh, connected, callerVars>>

-----------------------------------------------------------------------------
(***************************************************************************)
(* reconnectFailed, at the end of a round: every member reported is dialed *)
(* once; if that succeeds the new connection replaces the one in the map.  *)
(***************************************************************************)
\* What becomes of a goroutine when another connection, or none, takes the
\* place of its connection in the map.
Unmapped(t) == [t EXCEPT !.conn = IF @ = "mapped" THEN "unmapped" ELSE @]

\* The goroutines after some have ended and some members were dialed.
Threads(ended, dialed) ==
    [g \in Ids |->
        CASE g \in ended -> NoGoroutine
          [] g \notin ended /\ Member(g) \in dialed -> Unmapped(goroutines[g])
          [] OTHER -> goroutines[g]]

ReconnectFailed(dialed) == failed' = {} /\ connected' = connected \cup dialed

-----------------------------------------------------------------------------
(***************************************************************************)
(* The channel.  A receive makes room, which one of the goroutines that    *)
(* wait to send, if any, takes at once.                                    *)
(***************************************************************************)
Blocked == {g \in Ids : goroutines[g].pc = "blocked"}


Senders == Blocked \cup {g \in Ids : goroutines[g].pc = "lost"}

Sent == IF Senders = {} THEN {{}} ELSE {{g} : g \in Senders}

Message(g) == [id |-> Member(g), stale |-> goroutines[g].age = "stale"]

Received(sent) ==
    IF sent = {} THEN Tail(responseCh)
    ELSE Append(Tail(responseCh), Message(CHOOSE g \in sent : TRUE))

\* The first answer of a member counts.
Responses ==
    LET r == Head(responseCh)
    IN  IF responses[r.id] # "none" THEN responses
        ELSE [responses EXCEPT ![r.id] =
                IF r.stale THEN "stale" ELSE "current"]

AnsweredIn(answers) == {v \in Quorum : answers[v] # "none"}

-----------------------------------------------------------------------------
(***************************************************************************)
(* The loop of SendAndWait, and its caller.                                *)
(***************************************************************************)
TakeAnswer(sent) ==
    /\ phase = "waiting"
    /\ responseCh # <<>>
    /\ Cardinality(AnsweredIn(Responses)) < Majority
    /\ responses' = Responses
    /\ responseCh' = Received(sent)
    /\ goroutines' = Threads(sent, {})
    /\ UNCHANGED <<phase, done, failed, connected, callerVars>>

\* The timer, each second: who has not answered is asked once more.
Resend ==
    LET unanswered == Quorum \ AnsweredIn(responses)
    IN  /\ phase = "waiting"
        /\ failed' = failed \cup (unanswered \ connected)
        /\ goroutines' = Send(unanswered, goroutines)
        /\ UNCHANGED <<phase, done, responses, responseCh, connected,
                       callerVars>>

\* The context, after three seconds.  The done channel stays open.
TimeOut(dialed) ==
    /\ phase = "waiting"
    /\ phase' = "idle"
    /\ ReconnectFailed(dialed)
    /\ goroutines' = Threads({}, dialed)
    /\ UNCHANGED <<done, responses, responseCh, callerVars>>

\* The answer that makes a majority.  Closing the done channel releases the
\* goroutines that are in the select with it.
TakeLastAnswer(dialed) ==
    /\ phase = "waiting"
    /\ responseCh # <<>>
    /\ Cardinality(AnsweredIn(Responses)) >= Majority
    /\ phase' = "idle"
    /\ done' = "closed"
    /\ responses' = Responses
    /\ ReconnectFailed(dialed)
    /\ UNCHANGED epoch

\* What the caller makes of a majority of answers: signatures of the block it
\* hunts go to the cache,
Collected == proofsCache \cup {v \in Quorum : Responses[v] = "current"}

CollectTooFew(sent, dialed) ==
    /\ TakeLastAnswer(dialed)
    /\ Cardinality(Collected) < Majority
    /\ proofsCache' = Collected
    /\ responseCh' = Received(sent)
    /\ goroutines' = Threads(sent \cup Blocked, dialed)

\* and with a majority of signatures the block is finalized: whatever is
\* under way about it is stale from now on.
Finalize(sent, dialed) ==
    /\ TakeLastAnswer(dialed)
    /\ Cardinality(Collected) >= Majority
    /\ proofsCache' = {}
    /\ responseCh' = [i \in DOMAIN Received(sent) |->
                        [Received(sent)[i] EXCEPT !.stale = TRUE]]
    /\ goroutines' = [g \in Ids |->
                        [Threads(sent \cup Blocked, dialed)[g] EXCEPT
                           !.age = "stale"]]

-----------------------------------------------------------------------------
(***************************************************************************)
(* A goroutine.                                                            *)
(***************************************************************************)
End(g) == goroutines' = [goroutines EXCEPT ![g] = NoGoroutine]

HasRoom == Len(responseCh) < Cardinality(Quorum)

CanRead(g) == goroutines[g].pc = "asking" /\ goroutines[g].conn # "closed"

\* It has read an answer, and there is room for it.
Answer(g) ==
    /\ CanRead(g)
    /\ HasRoom
    /\ responseCh' = Append(responseCh, Message(g))
    /\ End(g)
    /\ UNCHANGED <<phase, waiterVars, connected, callerVars>>

\* qw.done is replaced without a lock: the goroutine of an earlier round may
\* still see any value it has had since that round.
SeesOldDone(g) == goroutines[g].age # "fresh"

\* If the done channel it sees is closed, the select may as well take that.
Drop(g) ==
    /\ CanRead(g)
    /\ done = "closed" \/ SeesOldDone(g)
    /\ End(g)
    /\ UNCHANGED <<phase, waiterVars, responseCh, connected, callerVars>>

\* No room: the select waits, with this round's done channel or an old one.
Block(g) ==
    /\ CanRead(g)
    /\ ~HasRoom
    /\ \E pc \in {"blocked", "lost"} :
        /\ pc = "blocked" => done = "open"
        /\ pc = "lost" => SeesOldDone(g)
        /\ goroutines' = [goroutines EXCEPT
                            ![g] = [@ EXCEPT !.pc = pc, !.conn = "closed"]]
    /\ UNCHANGED <<phase, waiterVars, responseCh, connected, callerVars>>

\* An error, one second without an answer, or a connection that another
\* goroutine has closed: the member is reported first,
Fail(g) ==
    /\ goroutines[g].pc = "asking"
    /\ failed' = failed \cup {Member(g)}
    /\ goroutines' = [goroutines EXCEPT
                        ![g] = [@ EXCEPT !.pc = "failing", !.age = "stale"]]
    /\ UNCHANGED <<phase, done, responses, responseCh, connected,
                   callerVars>>

\* then its connection is closed, and whichever is in the map is dropped.
\* Two connections that are not in the map may be one or not (sameUnmapped).
Disconnect(g) ==
    LET shares(t, sameUnmapped) ==
            /\ t.conn = goroutines[g].conn
            /\ t.conn = "unmapped" => sameUnmapped
        lose(t, sameUnmapped) ==
            IF shares(t, sameUnmapped)
            THEN [t EXCEPT !.conn = "closed"] ELSE Unmapped(t)
    IN  /\ goroutines[g].pc = "failing"
        /\ connected' = connected \ {Member(g)}
        /\ \E sameUnmapped \in BOOLEAN :
             goroutines' = [h \in Ids |->
               CASE h = g -> NoGoroutine
                 [] h # g /\ Member(h) = Member(g) ->
                      lose(goroutines[h], sameUnmapped)
                 [] OTHER -> goroutines[h]]
        /\ UNCHANGED <<phase, waiterVars, responseCh, callerVars>>

-----------------------------------------------------------------------------
Return(sent, dialed) == CollectTooFew(sent, dialed) \/ Finalize(sent, dialed)

CallerNext ==
    \/ StartRound
    \/ \E sent \in Sent : TakeAnswer(sent)
    \/ Resend
    \/ \E dialed \in SUBSET failed : TimeOut(dialed)
    \/ \E sent \in Sent, dialed \in SUBSET failed : Return(sent, dialed)

GoroutineNext(g) ==
    \/ Answer(g)
    \/ Drop(g)
    \/ Block(g)
    \/ Fail(g)
    \/ Disconnect(g)

Next ==
    \/ CallerNext
    \/ \E g \in Ids : GoroutineNext(g)

Spec == Init /\ [][Next]_vars

-----------------------------------------------------------------------------
\* A round waits for a majority and no longer: it returns as many answers,
\* all of them taken in this very round, and the caller never sits on enough
\* signatures - with goroutines of earlier rounds still putting answers in
\* the channel at any moment.
RoundsReturnMajorities ==
    LET answered == Cardinality(AnsweredIn(responses))
    IN  /\ phase = "waiting" => done = "open" /\ answered < Majority
        /\ phase = "idle" /\ done = "closed" => answered = Majority
        /\ Cardinality(proofsCache) < Majority

-----------------------------------------------------------------------------
(***************************************************************************)
(* Liveness.  Every goroutine has a deadline; a sender blocked on a        *)
(* channel is served in its turn: strong fairness.  From some time on live *)
(* members can be dialed and answer in less than the second after which    *)
(* the timer and the deadlines fire.                                       *)
(***************************************************************************)
LiveCanBeRead == \E g \in Ids : Member(g) \in Live /\ CanRead(g)

FiresTooEarly ==
    \/ /\ responseCh # <<>> \/ LiveCanBeRead
       /\ Resend \/ \E dialed \in SUBSET failed : TimeOut(dialed)
    \/ \E g \in Ids : Member(g) \in Live /\ CanRead(g) /\ Fail(g)

LiveNotDialed ==
    /\ phase = "waiting"
    /\ phase' = "idle"
    /\ ~(failed \cap Live \subseteq connected')

Fairness ==
    /\ WF_vars(StartRound \/ \E dialed \in SUBSET failed : TimeOut(dialed))
    /\ WF_vars(\E sent \in Sent :
                 \/ TakeAnswer(sent)
                 \/ \E dialed \in SUBSET failed : Return(sent, dialed))
    /\ \A g \in Ids :
         /\ WF_vars(GoroutineNext(g))
         /\ SF_vars(\/ TakeAnswer({g})
                    \/ \E dialed \in SUBSET failed : Return({g}, dialed))

FairSpec == Spec /\ Fairness /\ <>[][~FiresTooEarly /\ ~LiveNotDialed]_vars



=============================================================================
