------------------------- MODULE QuorumWaiterProofs -------------------------
(***************************************************************************)
(* The proof that a round returns a majority of answers, all of its own,   *)
(* and goes on until then or until its time is over, for any quorum,       *)
(* majority, and number of answers of earlier rounds in the channel.       *)
(***************************************************************************)
EXTENDS QuorumWaiter, FiniteSetTheorems, TLAPS

USE QuorumAssumption

-----------------------------------------------------------------------------
\* What the helpers on goroutines return.
LEMMA GoroutineTypes ==
    ASSUME goroutines \in [Ids -> Goroutine \cup {NoGoroutine}]
    PROVE  /\ \A t \in Goroutine \cup {NoGoroutine} :
                /\ Aged(t) \in Goroutine \cup {NoGoroutine}
                /\ Unmapped(t) \in Goroutine \cup {NoGoroutine}
                /\ [t EXCEPT !.age = "stale"] \in Goroutine \cup {NoGoroutine}
                /\ [t EXCEPT !.conn = "closed"] \in Goroutine \cup {NoGoroutine}
           /\ \A ended, dialed :
                Threads(ended, dialed) \in [Ids -> Goroutine \cup {NoGoroutine}]
<1>1. \A t \in Goroutine :
        /\ Aged(t) \in Goroutine
        /\ Unmapped(t) \in Goroutine
        /\ [t EXCEPT !.age = "stale"] \in Goroutine
        /\ [t EXCEPT !.conn = "closed"] \in Goroutine
  BY DEF Goroutine, Conn, Age, Aged, Unmapped
<1>2. /\ Aged(NoGoroutine) = NoGoroutine
      /\ Unmapped(NoGoroutine) = NoGoroutine
      /\ [NoGoroutine EXCEPT !.age = "stale"] = NoGoroutine
      /\ [NoGoroutine EXCEPT !.conn = "closed"] = NoGoroutine
  <2>1. Aged(NoGoroutine) = NoGoroutine
    BY DEF NoGoroutine, Aged
  <2>2. Unmapped(NoGoroutine) = NoGoroutine
    BY DEF NoGoroutine, Unmapped
  <2>3. [NoGoroutine EXCEPT !.age = "stale"] = NoGoroutine
    BY DEF NoGoroutine
  <2>4. [NoGoroutine EXCEPT !.conn = "closed"] = NoGoroutine
    BY DEF NoGoroutine
  <2> QED BY <2>1, <2>2, <2>3, <2>4
<1>3. \A t \in Goroutine \cup {NoGoroutine} :
        Unmapped(t) \in Goroutine \cup {NoGoroutine}
  BY <1>1, <1>2
<1>4. ASSUME NEW ended, NEW dialed
      PROVE  Threads(ended, dialed) \in [Ids -> Goroutine \cup {NoGoroutine}]
  <2>1. \A g \in Ids :
          (CASE g \in ended -> NoGoroutine
             [] g \notin ended /\ Member(g) \in dialed -> Unmapped(goroutines[g])
             [] OTHER -> goroutines[g]) \in Goroutine \cup {NoGoroutine}
    BY <1>3
  <2> QED BY <2>1 DEF Threads
<1> QED BY <1>1, <1>2, <1>4

LEMMA SendType ==
    ASSUME NEW targets, NEW threads \in [Ids -> Goroutine \cup {NoGoroutine}]
    PROVE  Send(targets, threads) \in [Ids -> Goroutine \cup {NoGoroutine}]
<1>1. [pc |-> "asking", conn |-> "mapped", age |-> "fresh"] \in Goroutine
  BY DEF Goroutine, Conn, Age
<1> QED BY <1>1 DEF Send

LEMMA MemberOfId == \A g \in Ids : Member(g) \in Quorum
BY DEF Ids, Member

LEMMA CardQuorum == Cardinality(Quorum) \in Nat
BY FS_CardinalityType

LEMMA MajorityType ==
    ASSUME TypeOK
    PROVE  Majority \in 1 .. Cardinality(Quorum)
BY DEF TypeOK, Majority

\* The epoch, and with it the majority, never changes.
LEMMA EpochStays == [Next]_vars => epoch' = epoch /\ Majority' = Majority
<1>1. CallerNext => epoch' = epoch
  BY DEF CallerNext, StartRound, TakeAnswer, Resend, TimeOut, Return,
         CollectTooFew, Finalize, TakeLastAnswer, callerVars
<1>2. ASSUME NEW g \in Ids, GoroutineNext(g) PROVE epoch' = epoch
  BY <1>2 DEF GoroutineNext, Answer, Drop, Block, Fail, Disconnect, callerVars
<1>3. UNCHANGED vars => epoch' = epoch
  BY DEF vars, callerVars
<1> QED BY <1>1, <1>2, <1>3 DEF Next, Majority

LEMMA FunctionIsSequence ==
    ASSUME NEW S, NEW n \in Nat, NEW f \in [1 .. n -> S]
    PROVE  f \in Seq(S) /\ Len(f) = n
OBVIOUS

\* A receive keeps the channel within its capacity.
LEMMA ReceivedType ==
    ASSUME TypeOK, responseCh # <<>>, NEW sent \in Sent
    PROVE  /\ Received(sent) \in Seq(QuorumResponse)
           /\ Len(Received(sent)) <= Cardinality(Quorum)
           /\ Head(responseCh) \in QuorumResponse
<1>1. /\ responseCh \in Seq(QuorumResponse) /\ Len(responseCh) \in Nat
      /\ Len(responseCh) <= Cardinality(Quorum)
      /\ Tail(responseCh) \in Seq(QuorumResponse)
      /\ Len(Tail(responseCh)) = Len(responseCh) - 1
      /\ Head(responseCh) \in QuorumResponse
  BY DEF TypeOK
<1>2. CASE sent = {}
  BY <1>1, <1>2, CardQuorum DEF Received
<1>3. CASE sent # {}
  <2> DEFINE g == CHOOSE x \in sent : TRUE
  <2>1. g \in Ids
    BY <1>3 DEF Sent, Senders, Blocked
  <2>2. Message(g) \in QuorumResponse
    BY <2>1, MemberOfId DEF Message, QuorumResponse
  <2> HIDE DEF g
  <2>3. /\ Append(Tail(responseCh), Message(g)) \in Seq(QuorumResponse)
        /\ Len(Append(Tail(responseCh), Message(g))) = Len(responseCh)
    BY <1>1, <2>2
  <2> QED BY <1>1, <1>3, <2>3 DEF Received, g
<1> QED BY <1>2, <1>3

LEMMA ResponsesType ==
    ASSUME TypeOK, responseCh # <<>>
    PROVE  /\ Responses \in [Quorum -> {"none", "current", "stale"}]
           /\ AnsweredIn(Responses) \subseteq
                AnsweredIn(responses) \cup {Head(responseCh).id}
<1>1. Head(responseCh) \in QuorumResponse
  BY DEF TypeOK
<1>2. Head(responseCh).id \in Quorum
  BY <1>1 DEF QuorumResponse
<1> QED BY <1>2 DEF Responses, AnsweredIn, TypeOK

-----------------------------------------------------------------------------
LEMMA TypeInit == Init => TypeOK
BY CardQuorum DEF Init, TypeOK

LEMMA TypeCaller ==
    ASSUME TypeOK, CallerNext
    PROVE  TypeOK'
<1> USE DEF TypeOK, callerVars
<1>1. CASE StartRound
  <2>1. [g \in Ids |-> Aged(goroutines[g])]
          \in [Ids -> Goroutine \cup {NoGoroutine}]
    BY GoroutineTypes
  <2> QED BY <1>1, <2>1, SendType DEF StartRound
<1>2. ASSUME NEW sent \in Sent, TakeAnswer(sent) PROVE TypeOK'
  BY <1>2, ReceivedType, ResponsesType, GoroutineTypes DEF TakeAnswer
<1>3. CASE Resend
  BY <1>3, SendType DEF Resend
<1>4. ASSUME NEW dialed \in SUBSET failed, TimeOut(dialed) PROVE TypeOK'
  BY <1>4, GoroutineTypes DEF TimeOut, ReconnectFailed
<1>5. ASSUME NEW sent \in Sent, NEW dialed \in SUBSET failed,
             CollectTooFew(sent, dialed)
      PROVE  TypeOK'
  <2>1. Collected \subseteq Quorum
    BY DEF Collected
  <2> QED
    BY <1>5, <2>1, ReceivedType, ResponsesType, GoroutineTypes
    DEF CollectTooFew, TakeLastAnswer, ReconnectFailed
<1>6. ASSUME NEW sent \in Sent, NEW dialed \in SUBSET failed,
             Finalize(sent, dialed)
      PROVE  TypeOK'
  <2>1. Received(sent) \in Seq(QuorumResponse)
          /\ Len(Received(sent)) <= Cardinality(Quorum)
    BY <1>6, ReceivedType DEF Finalize, TakeLastAnswer
  <2>2. responseCh' \in Seq(QuorumResponse)
          /\ Len(responseCh') <= Cardinality(Quorum)
    <3> DEFINE R == Received(sent)
    <3>1. /\ DOMAIN R = 1 .. Len(R) /\ Len(R) \in Nat
          /\ \A i \in 1 .. Len(R) : R[i] \in QuorumResponse
      BY <2>1
    <3>2. \A r \in QuorumResponse : [r EXCEPT !.stale = TRUE] \in QuorumResponse
      BY DEF QuorumResponse
    <3>3. responseCh' = [i \in DOMAIN R |-> [R[i] EXCEPT !.stale = TRUE]]
      BY <1>6 DEF Finalize
    <3> HIDE DEF R
    <3>4. responseCh' \in [1 .. Len(R) -> QuorumResponse]
      BY <3>1, <3>2, <3>3
    <3>5. responseCh' \in Seq(QuorumResponse) /\ Len(responseCh') = Len(R)
      BY <3>1, <3>4, FunctionIsSequence
    <3> QED BY <2>1, <3>5 DEF R
  <2>3. goroutines' \in [Ids -> Goroutine \cup {NoGoroutine}]
    <3> DEFINE T == Threads(sent \cup Blocked, dialed)
    <3>1. T \in [Ids -> Goroutine \cup {NoGoroutine}]
      BY GoroutineTypes
    <3>2. goroutines' = [g \in Ids |-> [T[g] EXCEPT !.age = "stale"]]
      BY <1>6 DEF Finalize
    <3> HIDE DEF T
    <3> QED BY <3>1, <3>2, GoroutineTypes
  <2> QED
    BY <1>6, <2>2, <2>3, ResponsesType
    DEF Finalize, TakeLastAnswer, ReconnectFailed
<1> QED
  BY <1>1, <1>2, <1>3, <1>4, <1>5, <1>6 DEF CallerNext, Return

LEMMA TypeGoroutine ==
    ASSUME TypeOK, NEW g \in Ids, GoroutineNext(g)
    PROVE  TypeOK'
<1> USE DEF TypeOK, callerVars
<1> DEFINE t == goroutines[g]
<1>1. t \in Goroutine \cup {NoGoroutine} /\ Member(g) \in Quorum
  BY MemberOfId
<1>2. t.pc # "none" => t \in Goroutine
  BY <1>1 DEF NoGoroutine
<1>3. CASE Answer(g)
  <2>1. Message(g) \in QuorumResponse
    BY <1>1 DEF Message, QuorumResponse
  <2> QED
    BY <1>3, <2>1, CardQuorum DEF Answer, HasRoom, End, waiterVars
<1>4. CASE Drop(g)
  BY <1>4 DEF Drop, End, waiterVars
<1>5. CASE Block(g)
  <2>1. \A pc \in {"blocked", "lost"} :
          [t EXCEPT !.pc = pc, !.conn = "closed"] \in Goroutine
    BY <1>2, <1>5 DEF Block, CanRead, Goroutine, Conn
  <2> QED BY <1>5, <2>1 DEF Block, waiterVars
<1>6. CASE Fail(g)
  <2>1. [t EXCEPT !.pc = "failing", !.age = "stale"] \in Goroutine
    BY <1>2, <1>6 DEF Fail, Goroutine, Age
  <2> QED BY <1>1, <1>6, <2>1 DEF Fail
<1>7. CASE Disconnect(g)
  <2>1. goroutines' \in [Ids -> Goroutine \cup {NoGoroutine}]
    <3>1. PICK s \in BOOLEAN :
             goroutines' = [h \in Ids |->
               CASE h = g -> NoGoroutine
                 [] h # g /\ Member(h) = Member(g) ->
                      IF /\ goroutines[h].conn = goroutines[g].conn
                         /\ goroutines[h].conn = "unmapped" => s
                      THEN [goroutines[h] EXCEPT !.conn = "closed"]
                      ELSE Unmapped(goroutines[h])
                 [] OTHER -> goroutines[h]]
      BY <1>7 DEF Disconnect
    <3> DEFINE left(h) ==
                 CASE h = g -> NoGoroutine
                   [] h # g /\ Member(h) = Member(g) ->
                        IF /\ goroutines[h].conn = goroutines[g].conn
                           /\ goroutines[h].conn = "unmapped" => s
                        THEN [goroutines[h] EXCEPT !.conn = "closed"]
                        ELSE Unmapped(goroutines[h])
                   [] OTHER -> goroutines[h]
    <3>2. \A h \in Ids : left(h) \in Goroutine \cup {NoGoroutine}
      <4>1. SUFFICES ASSUME NEW h \in Ids
                     PROVE  left(h) \in Goroutine \cup {NoGoroutine}
        OBVIOUS
      <4>2. /\ goroutines[h] \in Goroutine \cup {NoGoroutine}
            /\ Unmapped(goroutines[h]) \in Goroutine \cup {NoGoroutine}
            /\ [goroutines[h] EXCEPT !.conn = "closed"]
                 \in Goroutine \cup {NoGoroutine}
        BY GoroutineTypes
      <4>3. left(h) \in {NoGoroutine, goroutines[h], Unmapped(goroutines[h]),
                         [goroutines[h] EXCEPT !.conn = "closed"]}
        BY Zenon
      <4> QED BY <4>2, <4>3
    <3>3. goroutines' = [h \in Ids |-> left(h)]
      BY <3>1
    <3> HIDE DEF left
    <3> QED BY <3>2, <3>3
  <2> QED BY <1>7, <2>1 DEF Disconnect, waiterVars
<1> QED BY <1>3, <1>4, <1>5, <1>6, <1>7 DEF GoroutineNext

-----------------------------------------------------------------------------
IInv == TypeOK /\ RoundsReturnMajorities

LEMMA AnsweredIsFinite ==
    \A r : IsFiniteSet(AnsweredIn(r)) /\ Cardinality(AnsweredIn(r)) \in Nat
BY FS_Subset, FS_CardinalityType DEF AnsweredIn

\* One answer takes the count to the majority at most.
LEMMA OneMoreAnswer ==
    ASSUME TypeOK, responseCh # <<>>,
           Cardinality(AnsweredIn(responses)) < Majority,
           Cardinality(AnsweredIn(Responses)) >= Majority
    PROVE  Cardinality(AnsweredIn(Responses)) = Majority
<1> DEFINE A == AnsweredIn(responses)
           x == Head(responseCh).id
<1>1. IsFiniteSet(A \cup {x}) /\ Cardinality(A \cup {x}) <= Cardinality(A) + 1
        /\ Cardinality(A \cup {x}) \in Nat
  <2>1. IsFiniteSet(A) /\ Cardinality(A) \in Nat
    BY AnsweredIsFinite
  <2> HIDE DEF A, x
  <2>2. /\ IsFiniteSet(A \cup {x})
        /\ Cardinality(A \cup {x}) =
             IF x \in A THEN Cardinality(A) ELSE Cardinality(A) + 1
    BY <2>1, FS_AddElement
  <2> QED BY <2>1, <2>2
<1>2. Cardinality(AnsweredIn(Responses)) <= Cardinality(A \cup {x})
  BY <1>1, ResponsesType, FS_Subset
<1> QED BY <1>1, <1>2, AnsweredIsFinite, CardQuorum, MajorityType

LEMMA RoundsInit == Init => RoundsReturnMajorities
BY FS_EmptySet, CardQuorum DEF Init, RoundsReturnMajorities, Majority

LEMMA RoundsStep ==
    ASSUME IInv, [Next]_vars
    PROVE  RoundsReturnMajorities'
<1> USE DEF IInv, RoundsReturnMajorities, callerVars
<1>0. Majority \in 1 .. Cardinality(Quorum) /\ Majority' = Majority
  BY MajorityType, EpochStays
<1>1. CASE StartRound
  <2>1. AnsweredIn(responses') = {}
    BY <1>1 DEF StartRound, AnsweredIn
  <2>2. Cardinality(AnsweredIn(responses')) = 0
    BY <2>1, FS_EmptySet
  <2>3. 0 < Majority'
    BY <1>0, CardQuorum
  <2>4. phase' = "waiting" /\ done' = "open" /\ proofsCache' = proofsCache
    BY <1>1 DEF StartRound
  <2>5. Cardinality(proofsCache) < Majority
    OBVIOUS
  <2> HIDE DEF IInv
  <2> QED BY <1>0, <2>2, <2>3, <2>4, <2>5
<1>2. ASSUME NEW sent \in Sent, TakeAnswer(sent)
      PROVE  RoundsReturnMajorities'
  BY <1>0, <1>2 DEF TakeAnswer
<1>3. CASE Resend
  BY <1>0, <1>3 DEF Resend
<1>4. ASSUME NEW dialed \in SUBSET failed, TimeOut(dialed)
      PROVE  RoundsReturnMajorities'
  BY <1>0, <1>4 DEF TimeOut
<1>5. ASSUME NEW sent \in Sent, NEW dialed \in SUBSET failed,
             CollectTooFew(sent, dialed) \/ Finalize(sent, dialed)
      PROVE  RoundsReturnMajorities'
  <2>1. /\ phase = "waiting" /\ phase' = "idle" /\ responseCh # <<>>
        /\ Cardinality(AnsweredIn(Responses)) >= Majority
        /\ responses' = Responses
    BY <1>5 DEF CollectTooFew, Finalize, TakeLastAnswer
  <2>2. Cardinality(AnsweredIn(responses')) = Majority
    BY <1>0, <2>1, OneMoreAnswer
  <2>3. Cardinality(proofsCache') < Majority
    <3>1. CASE CollectTooFew(sent, dialed)
      BY <1>0, <3>1 DEF CollectTooFew
    <3>2. CASE Finalize(sent, dialed)
      BY <1>0, <3>2, FS_EmptySet, CardQuorum DEF Finalize
    <3> QED BY <1>5, <3>1, <3>2
  <2> QED BY <1>0, <2>1, <2>2, <2>3
<1>6. ASSUME NEW g \in Ids, GoroutineNext(g)
      PROVE  RoundsReturnMajorities'
  BY <1>0, <1>6 DEF GoroutineNext, Answer, Drop, Block, Fail, Disconnect, waiterVars
<1>7. CASE UNCHANGED vars
  BY <1>0, <1>7 DEF vars, waiterVars
<1> QED
  BY <1>1, <1>2, <1>3, <1>4, <1>5, <1>6, <1>7 DEF Next, CallerNext, Return

LEMMA IInvHolds == Spec => []IInv
<1>1. Init => IInv
  BY TypeInit, RoundsInit DEF IInv
<1>2. IInv /\ [Next]_vars => IInv'
  <2> SUFFICES ASSUME IInv, [Next]_vars PROVE IInv'
    OBVIOUS
  <2>1. ASSUME UNCHANGED vars PROVE TypeOK'
    BY <2>1 DEF vars, waiterVars, callerVars, IInv, TypeOK
  <2>2. TypeOK'
    BY <2>1, TypeCaller, TypeGoroutine DEF Next, IInv
  <2> QED BY <2>2, RoundsStep DEF IInv
<1> QED BY <1>1, <1>2, PTL DEF Spec

\* The waiter and its goroutines stay within their types; the channel never
\* holds more than its capacity.
THEOREM TypeCorrect == Spec => []TypeOK
<1>1. IInv => TypeOK
  BY DEF IInv
<1> QED BY <1>1, IInvHolds, PTL

\* SendAndWait returns exactly a majority of answers taken in its own round,
\* and its caller never keeps a majority of signatures without finalizing.
THEOREM RoundsAreMajorities == Spec => []RoundsReturnMajorities
<1>1. IInv => RoundsReturnMajorities
  BY DEF IInv
<1> QED BY <1>1, IInvHolds, PTL
=============================================================================
