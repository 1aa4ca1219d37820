------------------------ MODULE DiceRequestProofs ------------------------
(***************************************************************************)
(* Proofs about DiceRequest for every number of keys, dice and clean-ups.  *)
(***************************************************************************)
EXTENDS DiceRequest, TLAPS

-----------------------------------------------------------------------------
(***************************************************************************)
(* The properties are not inductive: which key may still throw depends on  *)
(* what the open request, its receipt and the records know of the throws   *)
(* made.  The four parts below say what.                                   *)
(***************************************************************************)

\* The open request is the key issued last, and its receipt is its throw.
OpenRequest ==
  /\ request # Nothing => request = issued
  /\ request = Nothing => receipt = Nothing
  /\ receipt # Nothing => <<request, receipt>> \in thrown
  /\ \A k \in seen : k <= issued /\ k # request

\* Throws are made under issued keys, and records keep those of legacy keys
\* until the first clean-up.
ThrowsAccounted ==
  \A a \in thrown :
    /\ a[1] \in ServerKeys => a[1] <= issued
    /\ purges = 0 /\ a[1] \in LegacyKeys => records[<<"roll", a[1]>>] # Nothing

\* Whatever a retry may be told was thrown under its key.
RecordsTruthful ==
  \A k \in ServerKeys :
    /\ records[<<"roll", k>>] # Nothing => <<k, records[<<"roll", k>>]>> \in thrown
    /\ cache[<<"roll", k>>] # Nothing => <<k, cache[<<"roll", k>>]>> \in thrown
    /\ \A entry \in late : entry[1] = <<"roll", k>> => <<k, entry[2]>> \in thrown

\* The pending move has not landed yet.
HeldNotLanded ==
  \A entry \in landed :
    entry[1] <= throws /\ entry[2] <= landings /\ entry[1] # held

\* What an open request knows, and what the retries may be told.
KeyInv ==
  OpenRequest /\ ThrowsAccounted /\ ThrowsOncePerKey /\ ResultKeptUntilSeen

ResultInv == RecordsTruthful /\ OneResultPerKey

LandingInv == HeldNotLanded /\ LandsOncePerThrow

IInv == TypeOK /\ KeyInv /\ ResultInv /\ LandingInv

-----------------------------------------------------------------------------
\* Nothing has been requested yet.
LEMMA InitInv == Init => IInv
<1>1. Init => TypeOK
  BY RequestAssumption DEF Init, TypeOK, Nothing, Answers
<1>2. Init => OpenRequest /\ ThrowsAccounted /\ RecordsTruthful /\ HeldNotLanded
  BY DEF Init, OpenRequest, ThrowsAccounted, RecordsTruthful, HeldNotLanded,
         Nothing, Operations, Keys
<1>3. Init => /\ ThrowsOncePerKey /\ OneResultPerKey
              /\ ResultKeptUntilSeen /\ LandsOncePerThrow
  BY DEF Init, ThrowsOncePerKey, OneResultPerKey, ResultKeptUntilSeen,
         LandsOncePerThrow
<1>4. QED  BY <1>1, <1>2, <1>3 DEF IInv, KeyInv, ResultInv, LandingInv

\* Every step keeps the types: the bounds on keys and throws are guards.
LEMMA TypeStep == TypeOK /\ [Next]_vars => TypeOK'
<1> SUFFICES ASSUME TypeOK, [Next]_vars
             PROVE  TypeOK'
  OBVIOUS
<1> USE RequestAssumption DEF TypeOK, Nothing, Answers, Throws, ServerKeys, Keys,
        Operations
<1>1. CASE Prepare
  BY <1>1 DEF Prepare, board, retries, history
<1>2. ASSUME NEW k \in ServerKeys, Acknowledge(k)
      PROVE  TypeOK'
  BY <1>2 DEF Acknowledge, board, retries
<1>3. ASSUME NEW k \in ServerKeys, ReturnReceipt(k)
      PROVE  TypeOK'
  BY <1>3 DEF ReturnReceipt, Reply, protocol, board
<1>4. ASSUME NEW k \in Keys, NEW waits \in BOOLEAN, Throw(k, waits)
      PROVE  TypeOK'
  BY <1>4 DEF Throw, Reply, MayThrow
<1>5. ASSUME NEW t \in Throws, Confirm(t)
      PROVE  TypeOK'
  BY <1>5 DEF Confirm, Reply, protocol
<1>6. CASE EndOtherwise
  BY <1>6 DEF EndOtherwise, protocol, retries, history
<1>7. ASSUME NEW op \in Operations, Replay(op)
      PROVE  TypeOK'
  BY <1>7 DEF Replay, Reply, protocol, board
<1>8. ASSUME NEW op \in Operations, ReplayCached(op)
      PROVE  TypeOK'
  BY <1>8 DEF ReplayCached, protocol, board, retries
<1>9. ASSUME NEW op \in Operations, CacheExpire(op)
      PROVE  TypeOK'
  BY <1>9 DEF CacheExpire, protocol, board, history
<1>10. ASSUME NEW entry \in late, CacheSet(entry)
       PROVE  TypeOK'
  BY <1>10 DEF CacheSet, protocol, board, history
<1>11. CASE PurgeRecords
  BY <1>11 DEF PurgeRecords, protocol, board, history
<1>12. CASE UNCHANGED vars
  BY <1>12 DEF vars, protocol, board, retries, history
<1>13. QED
  BY <1>1, <1>2, <1>3, <1>4, <1>5, <1>6, <1>7, <1>8, <1>9, <1>10, <1>11, <1>12
     DEF Next

\* A confirmation lands the pending move, which has not landed before; a new
\* throw is a number higher than any landed one.
LEMMA LandingStep ==
  TypeOK /\ HeldNotLanded /\ LandsOncePerThrow /\ [Next]_vars
    => HeldNotLanded' /\ LandsOncePerThrow'
<1> SUFFICES ASSUME TypeOK, HeldNotLanded, LandsOncePerThrow, [Next]_vars
             PROVE  HeldNotLanded' /\ LandsOncePerThrow'
  OBVIOUS
<1>1. ASSUME NEW t \in Throws, Confirm(t)
      PROVE  HeldNotLanded' /\ LandsOncePerThrow'
  BY <1>1, RequestAssumption
     DEF Confirm, HeldNotLanded, LandsOncePerThrow, TypeOK, Throws, Nothing
<1>2. ASSUME NEW k \in Keys, NEW waits \in BOOLEAN, Throw(k, waits)
      PROVE  HeldNotLanded' /\ LandsOncePerThrow'
  BY <1>2, RequestAssumption
     DEF Throw, HeldNotLanded, LandsOncePerThrow, TypeOK, Throws, Nothing
<1>3. CASE EndOtherwise
  BY <1>3 DEF EndOtherwise, HeldNotLanded, LandsOncePerThrow, TypeOK, Throws,
              Nothing, history
<1>4. CASE UNCHANGED <<board, landed>>
  BY <1>4 DEF board, HeldNotLanded, LandsOncePerThrow
<1>5. QED
  BY <1>1, <1>2, <1>3, <1>4
     DEF Next, vars, history, board, Prepare, Acknowledge, ReturnReceipt, Replay,
         ReplayCached, CacheExpire, CacheSet, PurgeRecords

\* The open request is a key that has not thrown while its receipt is empty,
\* and every earlier key has been seen if it threw: so the one key that may
\* throw is one that never did.
LEMMA KeyStep == TypeOK /\ KeyInv /\ [Next]_vars => KeyInv'
<1> SUFFICES ASSUME TypeOK, KeyInv, [Next]_vars
             PROVE  KeyInv'
  OBVIOUS
<1> USE RequestAssumption DEF KeyInv
<1>1. CASE Prepare
  BY <1>1 DEF Prepare, OpenRequest, ThrowsAccounted, ThrowsOncePerKey,
              ResultKeptUntilSeen, TypeOK, Nothing, ServerKeys, retries, history
<1>2. ASSUME NEW k \in ServerKeys, Acknowledge(k)
      PROVE  KeyInv'
  BY <1>2 DEF Acknowledge, OpenRequest, ThrowsAccounted, ThrowsOncePerKey,
              ResultKeptUntilSeen, TypeOK, Nothing, ServerKeys, retries
<1>3. ASSUME NEW k \in Keys, NEW waits \in BOOLEAN, Throw(k, waits)
      PROVE  KeyInv'
  <2>1. OpenRequest'
    BY <1>3 DEF Throw, Reply, MayThrow, OpenRequest, TypeOK, Nothing
  <2>2. ThrowsAccounted'
    <3>1. ASSUME NEW a \in thrown', a[1] \in ServerKeys
          PROVE  a[1] <= issued'
      <4>1. k \in ServerKeys => k <= issued
        BY <1>3 DEF Throw, MayThrow, OpenRequest, TypeOK
      <4>2. a[1] = k \/ a \in thrown
        BY <1>3 DEF Throw
      <4>3. QED  BY <1>3, <3>1, <4>1, <4>2 DEF Throw, ThrowsAccounted
    <3>2. ASSUME NEW a \in thrown', purges' = 0, a[1] \in LegacyKeys
          PROVE  records'[<<"roll", a[1]>>] # Nothing
      <4>1. <<"roll", a[1]>> \in Operations
        BY <3>2 DEF Operations, Keys
      <4>2. records' = [records EXCEPT ![<<"roll", k>>] = throws'] /\ throws' # Nothing
        BY <1>3 DEF Throw, Reply, TypeOK, Nothing
      <4>3. a[1] = k \/ a \in thrown
        BY <1>3 DEF Throw
      <4>4. QED
        BY <1>3, <3>2, <4>1, <4>2, <4>3 DEF Throw, ThrowsAccounted, TypeOK
    <3>3. QED  BY <3>1, <3>2 DEF ThrowsAccounted
  <2>3. ASSUME NEW a \in thrown, a[1] = k
        PROVE  k \in LegacyKeys /\ purges # 0
    BY <1>3, <2>3 DEF Throw, MayThrow, OpenRequest, ThrowsAccounted,
                      ResultKeptUntilSeen, TypeOK, Nothing, Keys, Throws
  <2>4. ThrowsOncePerKey'
    BY <1>3, <2>3 DEF Throw, Reply, ThrowsOncePerKey
  <2>5. ResultKeptUntilSeen'
    BY <1>3, <2>3 DEF Throw, MayThrow, ResultKeptUntilSeen, OpenRequest, TypeOK,
                      Nothing, Throws
  <2>6. QED  BY <2>1, <2>2, <2>4, <2>5
<1>4. ASSUME NEW op \in Operations, NEW answer \in Answers \ {Nothing}, Reply(op, answer),
             UNCHANGED <<protocol, purges, thrown, seen>>
      PROVE  KeyInv'
  BY <1>4 DEF Reply, OpenRequest, ThrowsAccounted, ThrowsOncePerKey,
              ResultKeptUntilSeen, TypeOK, Nothing, protocol, Answers
<1>5. CASE PurgeRecords
  BY <1>5 DEF PurgeRecords, OpenRequest, ThrowsAccounted, ThrowsOncePerKey,
              ResultKeptUntilSeen, TypeOK, protocol, history
<1>6. CASE UNCHANGED <<protocol, records, purges, thrown, seen>>
  BY <1>6 DEF OpenRequest, ThrowsAccounted, ThrowsOncePerKey,
              ResultKeptUntilSeen, protocol
<1>7. ASSUME NEW k \in ServerKeys, ReturnReceipt(k)
      PROVE  KeyInv'
  BY <1>4, <1>7 DEF ReturnReceipt, Operations, Keys, TypeOK, Answers, protocol
<1>8. ASSUME NEW t \in Throws, Confirm(t)
      PROVE  KeyInv'
  BY <1>4, <1>8 DEF Confirm, Operations, TypeOK, Answers, protocol, Nothing
<1>9. ASSUME NEW op \in Operations, Replay(op)
      PROVE  KeyInv'
  BY <1>4, <1>9 DEF Replay, TypeOK
<1>10. QED
  BY <1>1, <1>2, <1>3, <1>5, <1>6, <1>7, <1>8, <1>9
     DEF Next, vars, protocol, retries, history, EndOtherwise, ReplayCached,
         CacheExpire, CacheSet

\* A reply that is true of its key keeps every record true.
LEMMA TruthfulReply ==
  ASSUME TypeOK, RecordsTruthful, OneResultPerKey,
         NEW op \in Operations, NEW answer,
         records' = [records EXCEPT ![op] = answer],
         late' = late \cup {<<op, answer>>},
         answered' = answered \cup {<<op, answer>>},
         cache' = cache,
         \A a \in thrown : a \in thrown',
         \A k \in ServerKeys : op = <<"roll", k>> => <<k, answer>> \in thrown'
  PROVE  RecordsTruthful' /\ OneResultPerKey'
<1>1. ASSUME NEW k \in ServerKeys
      PROVE  records'[<<"roll", k>>] # Nothing
               => <<k, records'[<<"roll", k>>]>> \in thrown'
  <2>1. <<"roll", k>> \in Operations
    BY DEF Operations, Keys
  <2>2. CASE op = <<"roll", k>>
    BY <2>1, <2>2 DEF TypeOK
  <2>3. CASE op # <<"roll", k>>
    BY <2>1, <2>3 DEF TypeOK, RecordsTruthful
  <2>4. QED  BY <2>2, <2>3
<1>2. ASSUME NEW k \in ServerKeys
      PROVE  cache'[<<"roll", k>>] # Nothing
               => <<k, cache'[<<"roll", k>>]>> \in thrown'
  BY DEF RecordsTruthful
<1>3. ASSUME NEW k \in ServerKeys, NEW entry \in late', entry[1] = <<"roll", k>>
      PROVE  <<k, entry[2]>> \in thrown'
  <2>1. CASE entry \in late
    BY <1>3, <2>1 DEF RecordsTruthful
  <2>2. CASE entry = <<op, answer>>
    BY <1>3, <2>2
  <2>3. QED  BY <2>1, <2>2
<1>4. RecordsTruthful'
  BY <1>1, <1>2, <1>3 DEF RecordsTruthful
<1>5. OneResultPerKey'
  BY DEF OneResultPerKey
<1>6. QED  BY <1>4, <1>5

\* Whatever is recorded, cached or answered was thrown under its key.
LEMMA ResultStep ==
  TypeOK /\ OpenRequest /\ RecordsTruthful /\ OneResultPerKey /\ [Next]_vars
    => RecordsTruthful' /\ OneResultPerKey'
<1> SUFFICES ASSUME TypeOK, OpenRequest, RecordsTruthful, OneResultPerKey,
                    [Next]_vars
             PROVE  RecordsTruthful' /\ OneResultPerKey'
  OBVIOUS
<1> DEFINE Told(told) == \A k \in ServerKeys :
                            told[<<"roll", k>>] # Nothing
                              => <<k, told[<<"roll", k>>]>> \in thrown
<1>0. \A k \in ServerKeys : <<"roll", k>> \in Operations
  BY DEF Operations, Keys
<1>1. ASSUME NEW k \in ServerKeys, ReturnReceipt(k)
      PROVE  RecordsTruthful' /\ OneResultPerKey'
  <2>1. PICK answer : answer = receipt  OBVIOUS
  <2>2. <<"roll", k>> \in Operations /\ <<k, answer>> \in thrown
    BY <1>1, <2>1 DEF ReturnReceipt, OpenRequest, Operations, Keys
  <2>3. QED
    BY <1>1, <2>1, <2>2, TruthfulReply DEF ReturnReceipt, Reply
<1>2. ASSUME NEW k \in Keys, NEW waits \in BOOLEAN, Throw(k, waits)
      PROVE  RecordsTruthful' /\ OneResultPerKey'
  <2>1. PICK answer : answer = throws'  OBVIOUS
  <2>2. <<"roll", k>> \in Operations /\ <<k, answer>> \in thrown'
    BY <1>2, <2>1 DEF Throw, Operations
  <2>3. QED
    BY <1>2, <2>1, <2>2, TruthfulReply DEF Throw, Reply
<1>3. ASSUME NEW t \in Throws, Confirm(t)
      PROVE  RecordsTruthful' /\ OneResultPerKey'
  <2>1. PICK answer : answer = landings'  OBVIOUS
  <2>2. <<"confirm", t>> \in Operations
    BY DEF Operations
  <2>3. QED
    BY <1>3, <2>1, <2>2, TruthfulReply DEF Confirm, Reply
<1>4. ASSUME NEW op \in Operations, Replay(op)
      PROVE  RecordsTruthful' /\ OneResultPerKey'
  <2>1. PICK answer : answer = records[op]  OBVIOUS
  <2>2. \A k \in ServerKeys : op = <<"roll", k>> => <<k, answer>> \in thrown
    BY <1>4, <2>1 DEF Replay, RecordsTruthful
  <2>3. QED
    BY <1>4, <2>1, <2>2, TruthfulReply DEF Replay, Reply
<1>5. ASSUME NEW op \in Operations, ReplayCached(op)
      PROVE  RecordsTruthful' /\ OneResultPerKey'
  <2>1. UNCHANGED <<records, cache, late, thrown>>
    BY <1>5 DEF ReplayCached, retries
  <2>2. RecordsTruthful'
    BY <2>1 DEF RecordsTruthful
  <2>3. \A k \in ServerKeys : op = <<"roll", k>> => <<k, cache[op]>> \in thrown
    BY <1>5 DEF ReplayCached, RecordsTruthful
  <2>4. ASSUME NEW k \in ServerKeys, NEW entry \in answered', entry[1] = <<"roll", k>>
        PROVE  <<k, entry[2]>> \in thrown
    <3>1. CASE entry \in answered
      BY <2>4, <3>1 DEF OneResultPerKey
    <3>2. CASE entry = <<op, cache[op]>>
      BY <2>3, <2>4, <3>2
    <3>3. QED  BY <1>5, <3>1, <3>2 DEF ReplayCached
  <2>5. QED  BY <2>1, <2>2, <2>4 DEF OneResultPerKey
<1>6. ASSUME NEW op \in Operations, CacheExpire(op)
      PROVE  RecordsTruthful' /\ OneResultPerKey'
  <2>1. Told(cache')
    BY <1>0, <1>6 DEF CacheExpire, RecordsTruthful, TypeOK
  <2>2. UNCHANGED <<records, late, thrown, answered>>
    BY <1>6 DEF CacheExpire, history
  <2>3. QED
    BY <2>1, <2>2 DEF RecordsTruthful, OneResultPerKey
<1>7. ASSUME NEW entry \in late, CacheSet(entry)
      PROVE  RecordsTruthful' /\ OneResultPerKey'
  <2>1. Told([cache EXCEPT ![entry[1]] = entry[2]])
    BY <1>0 DEF RecordsTruthful, TypeOK
  <2>2. Told(cache')
    BY <1>7, <2>1 DEF CacheSet, RecordsTruthful
  <2>3. /\ UNCHANGED <<records, thrown, answered>>
        /\ late' \subseteq late
    BY <1>7 DEF CacheSet, history
  <2>4. QED
    BY <2>2, <2>3 DEF RecordsTruthful, OneResultPerKey
<1>8. CASE PurgeRecords
  BY <1>8 DEF PurgeRecords, RecordsTruthful, OneResultPerKey, Operations, Keys,
              history
<1>9. CASE UNCHANGED <<records, cache, late, thrown, answered>>
  BY <1>9 DEF RecordsTruthful, OneResultPerKey
<1>10. QED
  BY <1>1, <1>2, <1>3, <1>4, <1>5, <1>6, <1>7, <1>8, <1>9
     DEF Next, vars, retries, history, Prepare, Acknowledge, EndOtherwise

\* The parts together are inductive.
LEMMA InvStep == IInv /\ [Next]_vars => IInv'
BY TypeStep, KeyStep, ResultStep, LandingStep
   DEF IInv, KeyInv, ResultInv, LandingInv

\* Every reachable state satisfies the inductive invariant.
LEMMA Invariance == Spec => []IInv
BY InitInv, InvStep, PTL DEF Spec

-----------------------------------------------------------------------------
(* The theorems *)

\* Type correctness of the request protocol.
THEOREM TypeCorrect == Spec => []TypeOK
<1>1. IInv => TypeOK
  BY DEF IInv
<1>2. QED  BY <1>1, Invariance, PTL

\* However often a roll is retried, from however many tabs, and whenever the
\* retry records are cleaned up, a server key spends one die at most.
THEOREM ServerKeysThrowOnce == Spec => []ThrowsOncePerKey
<1>1. IInv => ThrowsOncePerKey
  BY DEF IInv, KeyInv
<1>2. QED  BY <1>1, Invariance, PTL

\* Every answer to a server key, replayed or not, is the throw it made.
THEOREM RetriesAgree == Spec => []OneResultPerKey
<1>1. IInv => OneResultPerKey
  BY DEF IInv, ResultInv
<1>2. QED  BY <1>1, Invariance, PTL

\* No result of a server key is forgotten before it was acknowledged.
THEOREM ResultsAreKept == Spec => []ResultKeptUntilSeen
<1>1. IInv => ResultKeptUntilSeen
  BY DEF IInv, KeyInv
<1>2. QED  BY <1>1, Invariance, PTL

\* No pending move is confirmed twice.
THEOREM ConfirmationsLandOnce == Spec => []LandsOncePerThrow
<1>1. IInv => LandsOncePerThrow
  BY DEF IInv, LandingInv
<1>2. QED  BY <1>1, Invariance, PTL

-----------------------------------------------------------------------------
(***************************************************************************)
(* The safety half of RequestIsServed: one of the three steps that         *)
(* FairSpec asks for is always open, and none of them is ever undone.      *)
(***************************************************************************)

\* Confirmations on record are those of earlier throws.
Unconfirmed ==
  \A t \in Throws : records[<<"confirm", t>>] # Nothing => t <= throws /\ t # held

\* The open request can be acknowledged; or the move that stands in its way
\* can be confirmed; or its player may throw, and is not answered from an old
\* record.
NeverLockedOut ==
  request # Nothing =>
    \/ receipt # Nothing
    \/ held # Nothing /\ records[<<"confirm", held>>] = Nothing
    \/ held = Nothing /\ records[<<"roll", request>>] = Nothing /\ MayThrow(request)

\* Steps between the open request and its acknowledgement.
StepsLeft ==
  CASE request = Nothing                                        -> 0
    [] request # Nothing /\ receipt # Nothing                  -> 1
    [] request # Nothing /\ receipt = Nothing /\ held = Nothing -> 2
    [] OTHER                                                    -> 3

\* Nothing that anybody does while a request is open takes it further from its
\* end.
OnlyAdvances == [][request # Nothing => StepsLeft' <= StepsLeft]_vars

\* A throw is new to the records of confirmations, and a confirmation ends the
\* move it is recorded for.
LEMMA UnconfirmedStep == TypeOK /\ Unconfirmed /\ [Next]_vars => Unconfirmed'
<1> SUFFICES ASSUME TypeOK, Unconfirmed, [Next]_vars
             PROVE  Unconfirmed'
  OBVIOUS
<1>0. \A t \in Throws : <<"confirm", t>> \in Operations
  BY DEF Operations
<1>1. ASSUME NEW k \in Keys, NEW waits \in BOOLEAN, Throw(k, waits)
      PROVE  Unconfirmed'
  BY <1>0, <1>1, RequestAssumption
     DEF Throw, Reply, Unconfirmed, TypeOK, Throws, Nothing
<1>2. ASSUME NEW t \in Throws, Confirm(t)
      PROVE  Unconfirmed'
  BY <1>0, <1>2, RequestAssumption
     DEF Confirm, Reply, Unconfirmed, TypeOK, Throws, Nothing
<1>3. CASE EndOtherwise
  BY <1>3, RequestAssumption DEF EndOtherwise, retries, Unconfirmed, TypeOK, Throws, Nothing
<1>4. ASSUME NEW op \in Operations, Replay(op)
      PROVE  Unconfirmed'
  BY <1>0, <1>4 DEF Replay, Reply, board, Unconfirmed, TypeOK
<1>5. ASSUME NEW k \in ServerKeys, ReturnReceipt(k)
      PROVE  Unconfirmed'
  BY <1>0, <1>5 DEF ReturnReceipt, Reply, board, Unconfirmed, TypeOK
<1>6. CASE PurgeRecords
  BY <1>0, <1>6 DEF PurgeRecords, Unconfirmed
<1>7. CASE UNCHANGED <<records, throws, held>>
  BY <1>7 DEF Unconfirmed
<1>8. QED
  BY <1>1, <1>2, <1>3, <1>4, <1>5, <1>6, <1>7
     DEF Next, vars, board, retries, Prepare, Acknowledge, ReplayCached,
         CacheExpire, CacheSet

\* An open request never locks its team out, whatever was retried, lost or
\* cleaned up: while a die is left its player can always do something about it.
THEOREM RequestsCanBeServed == Spec => []NeverLockedOut
<1>1. Init => Unconfirmed
  BY DEF Init, Unconfirmed, Operations, Nothing
<1>2. Spec => [](IInv /\ Unconfirmed)
  <2>1. Init => IInv /\ Unconfirmed
    BY InitInv, <1>1
  <2>2. IInv /\ Unconfirmed /\ [Next]_vars => (IInv /\ Unconfirmed)'
    BY InvStep, UnconfirmedStep DEF IInv
  <2>3. QED  BY <2>1, <2>2, PTL DEF Spec
<1>3. IInv /\ Unconfirmed => NeverLockedOut
  <2> SUFFICES ASSUME IInv, Unconfirmed, request # Nothing, receipt = Nothing
               PROVE  \/ held # Nothing /\ records[<<"confirm", held>>] = Nothing
                      \/ /\ held = Nothing
                         /\ records[<<"roll", request>>] = Nothing
                         /\ MayThrow(request)
    BY DEF NeverLockedOut
  <2>1. MayThrow(request)
    BY DEF MayThrow
  <2>2. held # Nothing => records[<<"confirm", held>>] = Nothing
    BY RequestAssumption DEF IInv, TypeOK, Unconfirmed, Throws, Nothing
  <2>3. request \in ServerKeys
    BY RequestAssumption DEF IInv, TypeOK, ServerKeys, Nothing
  <2>4. records[<<"roll", request>>] = Nothing
    BY <2>3, RequestAssumption
       DEF IInv, KeyInv, ResultInv, OpenRequest, ResultKeptUntilSeen, RecordsTruthful
  <2>5. QED  BY <2>1, <2>2, <2>4
<1>4. QED  BY <1>2, <1>3, PTL

\* While a request is open nobody else throws, so no new move comes between it
\* and its acknowledgement, and its receipt is never lost: with
\* RequestsCanBeServed, three steps of its player end it.
THEOREM RequestsOnlyAdvance == Spec => OnlyAdvances
<1>1. TypeOK /\ [Next]_vars => [request # Nothing => StepsLeft' <= StepsLeft]_vars
  <2> SUFFICES ASSUME TypeOK, Next, request # Nothing
               PROVE  StepsLeft' <= StepsLeft
    OBVIOUS
  <2>1. \/ request' = Nothing
        \/ request' = request /\ receipt' # Nothing
        \/ request' = request /\ receipt' = receipt /\ held' \in {held, Nothing}
    <3>1. ASSUME NEW k \in Keys, NEW waits \in BOOLEAN, Throw(k, waits)
          PROVE  request' = request /\ receipt' # Nothing
      BY <3>1 DEF Throw, TypeOK, Nothing
    <3>2. ASSUME NEW k \in ServerKeys, Acknowledge(k)
          PROVE  request' = Nothing
      BY <3>2 DEF Acknowledge
    <3>3. CASE UNCHANGED protocol /\ held' \in {held, Nothing}
      BY <3>3 DEF protocol
    <3>4. QED
      BY <3>1, <3>2, <3>3
         DEF Next, Prepare, board, ReturnReceipt, Confirm, EndOtherwise, Replay,
             ReplayCached, CacheExpire, CacheSet, PurgeRecords
  <2>2. receipt # Nothing => receipt' # Nothing \/ request' = Nothing
    BY <2>1
  <2>3. QED  BY <2>1, <2>2 DEF StepsLeft
<1>2. QED  BY <1>1, TypeCorrect, PTL DEF Spec, OnlyAdvances
=============================================================================
