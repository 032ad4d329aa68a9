----------------------- MODULE TelegramApprovalProofs -----------------------
(***************************************************************************)
(* Proofs about TelegramApproval, for any number of cards, taps, failures  *)
(* and restarts.                                                           *)
(***************************************************************************)
EXTENDS TelegramApproval, SequenceTheorems, TLAPS

USE ApprovalConstants DEF cardVars, updateVars, pollVars, history

\* Initially nothing is decided and nothing placed.
LEMMA LatchInit == Init => ApprovalLatch
<1> SUFFICES ASSUME Init PROVE ApprovalLatch  OBVIOUS
<1>1. "null" \in Responses  BY DEF Responses
<1> QED  BY <1>1 DEF Init, ApprovalLatch

\* Steps that leave response and calls alone, and placement alone or idle,
\* keep the latch: the dispatcher, the operator, time, polling and a crash.
LEMMA LatchIdle == ASSUME ApprovalLatch, UNCHANGED <<response, calls>>,
                          placing' \in {placing, NoCard}
                   PROVE ApprovalLatch'
BY DEF ApprovalLatch

\* Handling one tap keeps the latch: only a card whose response was still
\* null goes on to placement.
LEMMA LatchRoute == ASSUME ApprovalLatch, Route PROVE ApprovalLatch'
<1> DEFINE c == taps[Head(batch)][1]
           b == taps[Head(batch)][2]
<1>1. UNCHANGED calls /\ placing = NoCard  BY DEF Route
<1>2. Decided(c, b) \in [Cards -> Responses]
  BY DEF Decided, ApprovalLatch, Responses
<1>3. \A x \in Cards : Decided(c, b)[x] = "null" => response[x] = "null"
  BY DEF Decided, ApprovalLatch
<1>4. response' \in {response, Decided(c, b)}  BY DEF Route
<1>5. /\ response' \in [Cards -> Responses]
      /\ \A x \in Cards : response'[x] = "null" => response[x] = "null"
  BY <1>2, <1>3, <1>4 DEF ApprovalLatch
<1>6. CASE placing' = NoCard
  BY <1>1, <1>5, <1>6 DEF ApprovalLatch
<1>7. CASE placing' # NoCard
  <2>1. /\ b = "approve" /\ Wins(c) /\ placing' = c
        /\ response' = Decided(c, b)
    BY <1>1, <1>7 DEF Route
  <2>2. response' = [response EXCEPT ![c] = "approved"]
    BY <2>1 DEF Decided
  <2>3. response[c] = "null"  BY <2>1 DEF Wins
  <2> QED  BY <1>1, <1>5, <2>1, <2>2, <2>3 DEF ApprovalLatch
<1>8. QED  BY <1>6, <1>7

\* Placement counts once and is over; a stale price only rewrites 'approved'.
LEMMA LatchPlaceApproved == ASSUME ApprovalLatch, PlaceApproved
                            PROVE ApprovalLatch'
<1>1. "stale_price" \in Responses  BY DEF Responses
<1>2. placing # NoCard /\ placing' = NoCard  BY DEF PlaceApproved
<1>3. calls' = [calls EXCEPT ![placing] = @ + 1]  BY DEF PlaceApproved
<1>4. calls' \in [Cards -> Nat]
  <2>1. CASE placing \in Cards  BY <1>3, <2>1 DEF ApprovalLatch
  <2>2. CASE placing \notin Cards
    <3>1. calls' = calls  BY <1>3, <2>2, Zenon DEF ApprovalLatch
    <3> QED  BY <3>1 DEF ApprovalLatch
  <2> QED  BY <2>1, <2>2
<1>5. \/ UNCHANGED response
      \/ response' = [response EXCEPT ![placing] = "stale_price"]
  BY DEF PlaceApproved
<1>6. response' \in [Cards -> Responses]  BY <1>1, <1>5 DEF ApprovalLatch
<1>7. ASSUME NEW c \in Cards
      PROVE /\ response'[c] = "null" => calls'[c] = 0 /\ placing' # c
            /\ placing' = c => response'[c] = "approved" /\ calls'[c] = 0
            /\ calls'[c] <= 1
  <2>1. CASE c = placing
    <3>1. response[c] = "approved" /\ calls[c] = 0  BY <2>1 DEF ApprovalLatch
    <3>2. response'[c] \in {"approved", "stale_price"}
      BY <1>5, <2>1, <3>1 DEF ApprovalLatch
    <3>3. calls'[c] = 1  BY <1>3, <2>1, <3>1 DEF ApprovalLatch
    <3> QED  BY <1>2, <3>2, <3>3
  <2>2. CASE c # placing
    <3>1. response'[c] = response[c] /\ calls'[c] = calls[c]
      BY <1>3, <1>5, <2>2 DEF ApprovalLatch
    <3> QED  BY <1>2, <3>1 DEF ApprovalLatch
  <2> QED  BY <2>1, <2>2
<1> QED  BY <1>4, <1>6, <1>7 DEF ApprovalLatch

\* The auto-skip turns null into 'auto_skipped' and touches nothing else.
LEMMA LatchAutoSkip == ASSUME ApprovalLatch, AutoSkip PROVE ApprovalLatch'
<1>1. "auto_skipped" \in Responses  BY DEF Responses
<1>2. UNCHANGED <<calls, placing>>  BY DEF AutoSkip
<1>3. CASE UNCHANGED response  BY <1>2, <1>3, LatchIdle
<1>4. CASE response' = [c \in Cards |-> IF c \in Overdue THEN "auto_skipped"
                                        ELSE response[c]]
  <2>1. \A c \in Overdue : response[c] = "null"  BY DEF Overdue
  <2> QED  BY <1>1, <1>2, <1>4, <2>1 DEF ApprovalLatch
<1> QED  BY <1>3, <1>4 DEF AutoSkip

\* Every step keeps the latch.
LEMMA LatchStep == ASSUME ApprovalLatch, [Next]_vars PROVE ApprovalLatch'
<1>1. ASSUME NEW c \in Cards, Send(c) PROVE ApprovalLatch'
  BY <1>1, LatchIdle DEF Send
<1>2. ASSUME NEW c \in Cards, EndDispatch(c) PROVE ApprovalLatch'
  BY <1>2, LatchIdle DEF EndDispatch
<1>3. ASSUME NEW c \in Cards, Expire(c) PROVE ApprovalLatch'
  BY <1>3, LatchIdle DEF Expire
<1>4. ASSUME NEW c \in Cards, NEW b \in Buttons, Tap(c, b) PROVE ApprovalLatch'
  BY <1>4, LatchIdle DEF Tap
<1>5. CASE Poll  BY <1>5, LatchIdle DEF Poll
<1>6. CASE Route  BY <1>6, LatchRoute
<1>7. CASE PlaceApproved  BY <1>7, LatchPlaceApproved
<1>8. CASE BatchDone  BY <1>8, LatchIdle DEF BatchDone
<1>9. CASE AutoSkip  BY <1>9, LatchAutoSkip
<1>10. CASE Crash  BY <1>10, LatchIdle DEF Crash
<1>11. CASE UNCHANGED vars  BY <1>11, LatchIdle DEF vars
<1> QED
  BY <1>1, <1>2, <1>3, <1>4, <1>5, <1>6, <1>7, <1>8, <1>9, <1>10, <1>11
     DEF Next, Poller

\* The latch holds in every reachable state.
THEOREM LatchHolds == Spec => []ApprovalLatch
BY LatchInit, LatchStep, PTL DEF Spec

\* A card leads to at most one placement, however often it is tapped and its
\* taps are delivered again after a restart (_route_callback).
THEOREM OneOrderPerCard == Spec => []AtMostOneOrder
<1>1. ApprovalLatch => AtMostOneOrder  BY DEF ApprovalLatch, AtMostOneOrder
<1> QED  BY <1>1, LatchHolds, PTL

\* One step never turns a card closed by the timeout or by a stale price into
\* an order, nor back into an open one.
LEMMA ClosedStep ==
    ASSUME ApprovalLatch, [Next]_vars, NEW c \in Cards,
           response[c] \in {"auto_skipped", "stale_price"}
    PROVE  calls'[c] = calls[c] /\ response'[c] \in {response[c], "skipped"}
<1>1. CASE UNCHANGED <<response, calls>>  BY <1>1
<1>2. CASE Route
  <2> DEFINE d == taps[Head(batch)][1]
             b == taps[Head(batch)][2]
  <2>1. UNCHANGED calls /\ response' \in {response, Decided(d, b)}
    BY <1>2 DEF Route
  <2>2. Decided(d, b)[c] \in {response[c], "skipped"}
    BY DEF Decided, Wins, ApprovalLatch
  <2> QED  BY <2>1, <2>2
<1>3. CASE PlaceApproved
  <2>1. placing # c  BY DEF ApprovalLatch
  <2> QED  BY <1>3, <2>1 DEF PlaceApproved, ApprovalLatch
<1>4. CASE AutoSkip
  <2>1. c \notin Overdue  BY DEF Overdue
  <2> QED  BY <1>4, <2>1 DEF AutoSkip
<1>5. CASE Poll \/ BatchDone \/ Crash  BY <1>1, <1>5 DEF Poll, BatchDone, Crash
<1>6. CASE \/ \E x \in Cards : Send(x) \/ EndDispatch(x) \/ Expire(x)
           \/ \E x \in Cards, b \in Buttons : Tap(x, b)
  BY <1>1, <1>6 DEF Send, EndDispatch, Expire, Tap
<1>7. CASE UNCHANGED vars  BY <1>1, <1>7 DEF vars
<1> QED  BY <1>2, <1>3, <1>4, <1>5, <1>6, <1>7 DEF Next, Poller

\* Cards closed by _auto_skip_expired_signals or by the drift check stay
\* closed for good.
THEOREM ClosedStayClosed == Spec => ClosedCardsStayClosed
<1>1. ApprovalLatch /\ [Next]_vars =>
        [\A c \in Cards : response[c] \in {"auto_skipped", "stale_price"} =>
            /\ calls'[c] = calls[c]
            /\ response'[c] \in {response[c], "skipped"}]_vars
  BY ClosedStep
<1> QED  BY <1>1, LatchHolds, PTL DEF Spec, ClosedCardsStayClosed
----------------------------------------------------------------------------
(* Types *)

\* What TypeOK says of the variables that are no sequences,
LEMMA PlainTypes ==
    ASSUME TypeOK
    PROVE  /\ card \in [Cards -> {"none", "open", "committed", "rolled back"}]
           /\ posted \subseteq Cards /\ expired \subseteq Cards
           /\ placing \in Cards \cup {NoCard}
           /\ phase \in {"poll", "route", "auto_skip"}
           /\ faults \in 0 .. MaxFaults
BY Zenon DEF TypeOK

\* of the decisions and the orders,
LEMMA ResponseTypes ==
    ASSUME TypeOK PROVE response \in [Cards -> Responses]
BY Zenon DEF TypeOK

LEMMA CallTypes ==
    ASSUME TypeOK PROVE calls \in [Cards -> Nat]
BY Zenon DEF TypeOK

\* and of the numbers of the updates.
LEMMA UpdateTypes ==
    ASSUME TypeOK
    PROVE  /\ Len(taps) \in Nat /\ DOMAIN taps = 1 .. Len(taps)
           /\ confirmed \in 0 .. Len(taps) /\ offset \in 0 .. Len(taps)
           /\ routed \subseteq 1 .. Len(taps)
<1>1. taps \in Seq(Cards \X Buttons)  BY Zenon DEF TypeOK
<1>2. Len(taps) \in Nat /\ DOMAIN taps = 1 .. Len(taps)
  BY <1>1, LenProperties, Zenon
<1> QED  BY <1>2, Zenon DEF TypeOK

\* A step that may fail spends at most one fault.
LEMMA FaultTypes ==
    ASSUME TypeOK, Fault \/ NoFault PROVE faults' \in 0 .. MaxFaults
<1>1. faults \in 0 .. MaxFaults  BY Zenon DEF TypeOK
<1> QED  BY <1>1 DEF Fault, NoFault

\* What is consumed is an update, and the rest of the batch are updates.
LEMMA ConsumeTypes ==
    ASSUME TypeOK, batch # <<>>
    PROVE  /\ Head(batch) \in 1 .. Len(taps) /\ Head(batch) = batch[1]
           /\ Tail(batch) \in Seq(1 .. Len(taps))
           /\ Len(taps) \in Nat
           /\ taps[Head(batch)][1] \in Cards
<1>1. taps \in Seq(Cards \X Buttons) /\ batch \in Seq(1 .. Len(taps))
  BY DEF TypeOK
<1>2. Head(batch) \in 1 .. Len(taps) /\ Tail(batch) \in Seq(1 .. Len(taps))
  BY <1>1, HeadTailProperties
<1>3. Len(taps) \in Nat  BY UpdateTypes
<1>4. taps[Head(batch)] \in Cards \X Buttons
  BY <1>1, <1>2, ElementOfSeq
<1> QED  BY <1>2, <1>3, <1>4

\* getUpdates returns the updates after those it forgets, in their order.
LEMMA PollTypes ==
    ASSUME TypeOK, Poll
    PROVE  /\ confirmed' \in 0 .. Len(taps) /\ confirmed' \in {confirmed, offset}
           /\ batch' \in Seq(1 .. Len(taps))
           /\ \/ batch' = batch
              \/ \A i \in DOMAIN batch' : batch'[i] = confirmed' + i
           /\ phase' \in {"poll", "route", "auto_skip"}
           /\ faults' \in 0 .. MaxFaults
           /\ UNCHANGED <<cardVars, response, expired, taps, offset, placing, history>>
<1> DEFINE known == IF offset > confirmed THEN offset ELSE confirmed
<1>1. /\ Len(taps) \in Nat /\ confirmed \in 0 .. Len(taps) /\ offset \in 0 .. Len(taps)
  BY UpdateTypes
<1>2. known \in 0 .. Len(taps) /\ known \in {confirmed, offset}
  BY <1>1
<1>3. faults' \in 0 .. MaxFaults
  BY FaultTypes DEF Poll
<1>4. CASE confirmed' = known /\ phase' = "route"
           /\ batch' = [i \in 1 .. Len(taps) - known |-> known + i]
  <2> DEFINE e(i) == known + i
             n == Len(taps) - known
  <2>1. n \in Nat /\ \A i \in 1 .. n : e(i) \in 1 .. Len(taps)
    BY <1>1, <1>2
  <2>2. [i \in 1 .. n |-> e(i)] \in Seq(1 .. Len(taps))
    <3> HIDE DEF n, e
    <3> QED  BY <2>1, IsASeq
  <2> QED  BY <1>2, <1>3, <1>4, <2>2 DEF Poll
<1>5. CASE confirmed' \in {confirmed, known} /\ phase' \in {"auto_skip", "poll"}
           /\ UNCHANGED batch
  <2>1. batch \in Seq(1 .. Len(taps))  BY Zenon DEF TypeOK
  <2> QED  BY <1>1, <1>2, <1>3, <1>5, <2>1 DEF Poll
<1> QED  BY <1>4, <1>5 DEF Poll

LEMMA TypeInit == Init => TypeOK
<1> SUFFICES ASSUME Init PROVE TypeOK  OBVIOUS
<1>1. /\ taps = <<>> /\ taps \in Seq(Cards \X Buttons) /\ Len(taps) = 0
      /\ batch \in Seq(1 .. Len(taps))
  BY EmptySeq DEF Init
<1>2. response \in [Cards -> Responses] /\ calls \in [Cards -> Nat]
  BY DEF Init, Responses
<1>3. confirmed \in 0 .. Len(taps) /\ offset \in 0 .. Len(taps) /\ faults \in 0 .. MaxFaults
  BY <1>1 DEF Init
<1> QED  BY <1>1, <1>2, <1>3 DEF Init, TypeOK

\* Every step keeps the types.
LEMMA TypeStep == ASSUME TypeOK, [Next]_vars PROVE TypeOK'
<1>1. CASE \E c \in Cards : Send(c) \/ EndDispatch(c) \/ Expire(c)
  <2>1. /\ card' \in [Cards -> {"none", "open", "committed", "rolled back"}]
        /\ posted' \subseteq Cards /\ expired' \subseteq Cards
        /\ faults' \in 0 .. MaxFaults
    BY <1>1, PlainTypes, FaultTypes DEF Send, EndDispatch, Expire
  <2>2. UNCHANGED <<response, updateVars, pollVars, history>>
    BY <1>1 DEF Send, EndDispatch, Expire
  <2> QED  BY <2>1, <2>2 DEF TypeOK
<1>2. ASSUME NEW c \in Cards, NEW b \in Buttons, Tap(c, b) PROVE TypeOK'
  <2>1. /\ taps' \in Seq(Cards \X Buttons) /\ Len(taps') = Len(taps) + 1
        /\ Len(taps) \in Nat
    <3>1. taps \in Seq(Cards \X Buttons)  BY Zenon DEF TypeOK
    <3>2. taps' = Append(taps, <<c, b>>)  BY <1>2 DEF Tap
    <3> QED  BY <3>1, <3>2, UpdateTypes, AppendProperties
  <2>2. /\ UNCHANGED <<card, posted, response, expired, confirmed>>
        /\ UNCHANGED <<offset, batch, placing, phase, routed, calls, faults>>
    BY <1>2 DEF Tap, NoFault
  <2>3. batch \in Seq(1 .. Len(taps'))
    <3>1. 1 .. Len(taps) \subseteq 1 .. Len(taps')  BY <2>1
    <3> QED  BY <3>1, SeqMonotonic DEF TypeOK
  <2>4. routed \subseteq DOMAIN taps'
    <3>1. DOMAIN taps' = 1 .. Len(taps')  BY <2>1, LenProperties
    <3> QED  BY <2>1, <3>1, UpdateTypes
  <2>5. confirmed \in 0 .. Len(taps') /\ offset \in 0 .. Len(taps')
    BY <2>1, UpdateTypes
  <2> QED  BY <2>1, <2>2, <2>3, <2>4, <2>5 DEF TypeOK
<1>3. CASE Poll
  BY <1>3, PollTypes DEF TypeOK
<1>4. CASE Route
  <2>1. /\ offset' \in 0 .. Len(taps) /\ batch' \in Seq(1 .. Len(taps))
        /\ routed' \subseteq DOMAIN taps
    BY <1>4, ConsumeTypes, UpdateTypes DEF Route, Consume
  <2>2. response' \in [Cards -> Responses]
    BY <1>4, ResponseTypes DEF Route, Decided, Responses
  <2>3. placing' \in Cards \cup {NoCard}
    BY <1>4, ConsumeTypes, PlainTypes DEF Route
  <2>4. faults' \in 0 .. MaxFaults
    BY <1>4, FaultTypes DEF Route
  <2>5. UNCHANGED <<card, posted, expired, taps, confirmed, phase, calls>>
    BY <1>4 DEF Route
  <2> QED  BY <2>1, <2>2, <2>3, <2>4, <2>5 DEF TypeOK
<1>5. CASE PlaceApproved
  <2>1. calls' \in [Cards -> Nat] /\ response' \in [Cards -> Responses]
    <3>1. placing \in Cards  BY <1>5, PlainTypes DEF PlaceApproved
    <3>2. calls' \in [Cards -> Nat]
      BY <1>5, <3>1, CallTypes DEF PlaceApproved
    <3>3. response' \in [Cards -> Responses]
      BY <1>5, ResponseTypes DEF PlaceApproved, Responses
    <3> QED  BY <3>2, <3>3
  <2>2. /\ UNCHANGED <<card, posted, expired, taps, confirmed, offset, batch, phase>>
        /\ UNCHANGED <<routed, faults>> /\ placing' = NoCard
    BY <1>5 DEF PlaceApproved, NoFault
  <2> QED  BY <2>1, <2>2 DEF TypeOK
<1>6. CASE BatchDone \/ AutoSkip
  <2>1. /\ response' \in [Cards -> Responses] /\ phase' \in {"poll", "auto_skip"}
        /\ faults' \in 0 .. MaxFaults
    BY <1>6, ResponseTypes, FaultTypes DEF BatchDone, AutoSkip, Responses
  <2>2. UNCHANGED <<card, posted, expired, taps, confirmed, offset, batch, placing,
                    routed, calls>>
    BY <1>6 DEF BatchDone, AutoSkip
  <2> QED  BY <2>1, <2>2 DEF TypeOK
<1>7. CASE Crash
  <2>1. card' \in [Cards -> {"none", "open", "committed", "rolled back"}]
    BY <1>7, PlainTypes DEF Crash
  <2>2. faults' \in 0 .. MaxFaults  BY <1>7, FaultTypes DEF Crash
  <2>3. batch' \in Seq(1 .. Len(taps)) /\ offset' \in 0 .. Len(taps)
    <3>1. batch' = <<>> /\ offset' = 0  BY <1>7 DEF Crash
    <3>2. 0 \in 0 .. Len(taps)  BY UpdateTypes
    <3> QED  BY <3>1, <3>2, EmptySeq, Zenon
  <2>4. UNCHANGED <<posted, response, expired, taps, confirmed, routed, calls>>
    BY <1>7 DEF Crash
  <2> QED  BY <1>7, <2>1, <2>2, <2>3, <2>4 DEF Crash, TypeOK
<1>8. CASE UNCHANGED vars
  BY <1>8 DEF vars, TypeOK
<1> QED  BY <1>1, <1>2, <1>3, <1>4, <1>5, <1>6, <1>7, <1>8 DEF Next, Poller

\* Every variable keeps its type: in particular the poller never asks for an
\* update that does not exist (run_polling_loop).
THEOREM TypeCorrect == Spec => []TypeOK
BY TypeInit, TypeStep, PTL DEF Spec

----------------------------------------------------------------------------
(* No tap is forgotten before it was routed *)

LEMMA ForgottenStep ==
    ASSUME TypeOK, TypeOK', ForgottenWereRouted, [Next]_vars
    PROVE  ForgottenWereRouted'
<1>1. CASE Poll
  <2>1. confirmed' \in {confirmed, offset} /\ UNCHANGED <<offset, routed>>
    BY <1>1, PollTypes
  <2>2. CASE batch' = batch
    BY <2>1, <2>2 DEF ForgottenWereRouted, Consecutive
  <2>3. CASE \A i \in DOMAIN batch' : batch'[i] = confirmed' + i
    <3>1. confirmed' \in Nat /\ DOMAIN batch' = 1 .. Len(batch')
          /\ Len(batch') \in Nat
      <4>1. batch' \in Seq(1 .. Len(taps))  BY <1>1, PollTypes
      <4> QED  BY <1>1, <4>1, UpdateTypes, PollTypes, LenProperties
    <3>2. batch' # <<>> => Head(batch') = confirmed' + 1 /\ batch'[1] = confirmed' + 1
      <4>1. batch' # <<>> => Len(batch') >= 1 /\ Head(batch') = batch'[1]
        BY <1>1, <3>1, PollTypes, EmptySeq
      <4> QED  BY <2>3, <3>1, <4>1
    <3>3. Consecutive'
      <4> SUFFICES ASSUME NEW i \in DOMAIN batch' PROVE batch'[i] = batch'[1] + i - 1
        BY DEF Consecutive
      <4>1. 1 \in DOMAIN batch' /\ i \in Nat  BY <3>1
      <4> QED  BY <2>3, <3>1, <4>1
    <3>4. 1 .. confirmed' \subseteq routed'
      BY <2>1 DEF ForgottenWereRouted
    <3> QED  BY <2>1, <3>1, <3>2, <3>3, <3>4 DEF ForgottenWereRouted
  <2> QED  BY <1>1, <2>2, <2>3, PollTypes
<1>2. CASE Route
  <2> DEFINE h == Head(batch)
  <2>1. /\ batch # <<>> /\ offset' = h /\ batch' = Tail(batch)
        /\ routed' = routed \cup {h} /\ UNCHANGED confirmed
    BY <1>2 DEF Route, Consume, updateVars
  <2>2. /\ h \in Nat \ {0} /\ h = batch[1] /\ 1 .. (h - 1) \subseteq routed
    BY <2>1, ConsumeTypes DEF ForgottenWereRouted
  <2>3. 1 .. h \subseteq routed'
    BY <2>1, <2>2
  <2>4. /\ Len(Tail(batch)) = Len(batch) - 1 /\ Len(batch) \in Nat
        /\ DOMAIN batch = 1 .. Len(batch)
        /\ DOMAIN Tail(batch) = 1 .. (Len(batch) - 1)
        /\ \A i \in 1 .. (Len(batch) - 1) : Tail(batch)[i] = batch[i + 1]
        /\ Tail(batch) # <<>> => Len(batch) > 1 /\ Head(Tail(batch)) = Tail(batch)[1]
    <3>1. batch \in Seq(1 .. Len(taps))  BY Zenon DEF TypeOK
    <3>2. /\ Tail(batch) \in Seq(1 .. Len(taps)) /\ Len(Tail(batch)) = Len(batch) - 1
          /\ \A i \in 1 .. Len(Tail(batch)) : Tail(batch)[i] = batch[i + 1]
      BY <2>1, <3>1, HeadTailProperties
    <3>3. /\ Len(batch) \in Nat /\ DOMAIN batch = 1 .. Len(batch)
          /\ DOMAIN Tail(batch) = 1 .. Len(Tail(batch))
      BY <3>1, <3>2, LenProperties
    <3>4. Tail(batch) # <<>> => Len(Tail(batch)) >= 1 /\ Head(Tail(batch)) = Tail(batch)[1]
      BY <3>2, EmptySeq
    <3> QED  BY <3>2, <3>3, <3>4
  <2>5. \A i \in 1 .. (Len(batch) - 1) : Tail(batch)[i] = h + i
    BY <2>2, <2>4 DEF ForgottenWereRouted, Consecutive
  <2>6. Consecutive'
    BY <2>1, <2>2, <2>4, <2>5 DEF Consecutive
  <2>7. batch' # <<>> => Head(batch') = h + 1
    BY <2>1, <2>4, <2>5
  <2> HIDE DEF h
  <2> QED  BY <2>1, <2>2, <2>3, <2>6, <2>7 DEF ForgottenWereRouted
<1>3. CASE Crash
  <2>1. /\ offset' = 0 /\ batch' = <<>> /\ UNCHANGED <<confirmed, routed>>
    BY <1>3 DEF Crash
  <2> QED  BY <2>1 DEF ForgottenWereRouted, Consecutive
<1>4. CASE UNCHANGED <<confirmed, offset, batch, routed>>
  BY <1>4 DEF ForgottenWereRouted, Consecutive
<1>5. \/ Poll \/ Route \/ Crash
      \/ UNCHANGED <<confirmed, offset, batch, routed>>
  BY DEF Next, Poller, Send, EndDispatch, Expire, Tap, PlaceApproved, BatchDone,
         AutoSkip, vars
<1> QED  BY <1>1, <1>2, <1>3, <1>4, <1>5

\* Telegram drops an update only once it was routed, although the poller loses
\* its offset when it restarts: a tap may be routed twice, never not at all.
THEOREM NoTapForgotten == Spec => []ForgottenWereRouted
<1>1. Init => ForgottenWereRouted
  BY DEF Init, ForgottenWereRouted, Consecutive
<1>2. TypeOK /\ TypeOK' /\ ForgottenWereRouted /\ [Next]_vars => ForgottenWereRouted'
  BY ForgottenStep
<1> QED  BY <1>1, <1>2, TypeCorrect, PTL DEF Spec
=============================================================================
