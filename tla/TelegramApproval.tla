-------------------------- MODULE TelegramApproval --------------------------
(***************************************************************************)
(* The approval handshake of trading mode telegram-approve: the dispatcher *)
(* posts a card, the operator taps its buttons, Telegram queues the taps,  *)
(* and one poller task fetches them, decides the card's row and places the *)
(* order.  The poller also skips cards past their timeout.  Placement      *)
(* itself is TradeLifecycle; here it is one call with its outcome.         *)
(***************************************************************************)
EXTENDS Naturals, Sequences, FiniteSets, TLC

CONSTANTS
    Cards,      \* signals, each with its own id and telegram_signals row
    MaxTaps,    \* bound on button presses
    MaxFaults   \* bound on failed requests, failed writes and crashes

NoCard == "no card"

ASSUME ApprovalConstants ==
    /\ MaxTaps \in Nat /\ MaxFaults \in Nat
    /\ NoCard \notin Cards

VARIABLES
    card,       \* card[c]: how far the dispatcher got with c
    posted,     \* cards visible to the operator in Telegram
    response,   \* response[c]: the response column of a committed row
    expired,    \* cards whose sent_at is past the approval timeout
    taps,       \* every tap so far, in update_id order, as <<card, button>>
    confirmed,  \* Telegram has dropped the updates up to this one
    offset,     \* the poller's next offset minus one; memory, not persisted
    batch,      \* update numbers of the current batch still to be routed
    placing,    \* the card _place_approved_order runs for, or NoCard
    phase,      \* where the poller's loop stands
    routed,     \* update numbers routed at least once
    calls,      \* calls[c]: how often placement was called for c
    faults

cardVars   == <<card, posted>>
updateVars == <<taps, confirmed>>
pollVars   == <<offset, batch, placing, phase>>
history    == <<routed, calls>>
vars == <<cardVars, response, expired, updateVars, pollVars, history, faults>>

\* "adjust" stands for every update that leaves the response alone: the
\* leverage buttons, "custom", an unauthorised or an unknown callback.
Buttons   == {"approve", "skip", "adjust"}
Responses == {"null", "approved", "skipped", "auto_skipped", "stale_price"}

\* "open" is the dispatcher's uncommitted transaction around the INSERT and
\* the sendMessage inside it.
HasRow(c) == card[c] = "committed"

Fault   == faults < MaxFaults /\ faults' = faults + 1
NoFault == UNCHANGED faults

Init ==
    /\ card = [c \in Cards |-> "none"]
    /\ posted = {}
    /\ response = [c \in Cards |-> "null"]
    /\ expired = {}
    /\ taps = <<>> /\ confirmed = 0
    /\ offset = 0 /\ batch = <<>> /\ placing = NoCard /\ phase = "poll"
    /\ routed = {}
    /\ calls = [c \in Cards |-> 0]
    /\ faults = 0

----------------------------------------------------------------------------
(* The dispatcher *)

\* _send_telegram_signal: INSERT, then sendMessage, in the caller's
\* transaction; a failed POST leaves the row without a message.
Send(c) ==
    /\ card[c] = "none"
    /\ card' = [card EXCEPT ![c] = "open"]
    /\ \/ posted' = posted \cup {c} /\ NoFault
       \/ UNCHANGED posted /\ Fault
    /\ UNCHANGED <<response, expired, updateVars, pollVars, history>>

\* The caller commits; or an exception after the POST rolls the row back.
EndDispatch(c) ==
    /\ card[c] = "open"
    /\ \/ card' = [card EXCEPT ![c] = "committed"] /\ NoFault
       \/ card' = [card EXCEPT ![c] = "rolled back"] /\ Fault
    /\ UNCHANGED <<posted, response, expired, updateVars, pollVars, history>>

----------------------------------------------------------------------------
(* The operator and Telegram *)

Tap(c, b) ==
    /\ c \in posted
    /\ Len(taps) < MaxTaps
    /\ taps' = Append(taps, <<c, b>>)
    /\ NoFault
    /\ UNCHANGED <<cardVars, response, expired, confirmed, pollVars, history>>

\* TELEGRAM_APPROVAL_TIMEOUT_SECONDS pass after sent_at.
Expire(c) ==
    /\ card[c] # "none"
    /\ c \notin expired
    /\ expired' = expired \cup {c}
    /\ NoFault
    /\ UNCHANGED <<cardVars, response, updateVars, pollVars, history>>

----------------------------------------------------------------------------
(* The poller *)

\* getUpdates(offset): Telegram forgets what lies below the offset and
\* returns the rest.  A non-200 answer goes on to the auto-skip with nothing
\* fetched; an exception skips the auto-skip too.
Poll ==
    /\ phase = "poll"
    /\ LET known == IF offset > confirmed THEN offset ELSE confirmed
       IN \/ /\ confirmed' = known
             /\ batch' = [i \in 1 .. Len(taps) - known |-> known + i]
             /\ phase' = "route"
             /\ NoFault
          \/ /\ Fault
             /\ confirmed' \in {confirmed, known}
             /\ phase' \in {"auto_skip", "poll"}
             /\ UNCHANGED batch
    /\ UNCHANGED <<cardVars, response, expired, taps, offset, placing, history>>

MUT_ConsumeOneTooMany == offset' = Head(batch) + 1 /\ batch' = Tail(batch)

\* The update at the head of the batch is consumed, whatever comes of it.
Consume == offset' = Head(batch) /\ batch' = Tail(batch)

MUT_WinsUnguarded(c) == HasRow(c)

\* UPDATE ... SET response='approved' WHERE id=:id AND response IS NULL finds
\* its row.
Wins(c) == HasRow(c) /\ response[c] = "null"

\* The response column once tap b on c is handled.  Skip writes whatever the
\* row says; the leverage buttons leave it alone.
Decided(c, b) ==
    CASE b = "approve" /\ Wins(c) -> [response EXCEPT ![c] = "approved"]
      [] b = "skip" /\ HasRow(c)  -> [response EXCEPT ![c] = "skipped"]
      [] OTHER                    -> response

\* _route_callback and handle_callback for one update, one transaction.  A
\* won approve goes on to placement, another one is answered "lost race"
\* and places nothing.  An exception, before or after the commit, is logged
\* and the update is gone.
Route ==
    /\ phase = "route"
    /\ placing = NoCard
    /\ batch # <<>>
    /\ Consume
    /\ routed' = routed \cup {Head(batch)}
    /\ LET c == taps[Head(batch)][1]
           b == taps[Head(batch)][2]
       IN \/ /\ response' = Decided(c, b)
             /\ placing' = IF b = "approve" /\ Wins(c) THEN c ELSE NoCard
             /\ NoFault
          \/ /\ response' \in {response, Decided(c, b)}
             /\ Fault
             /\ UNCHANGED placing
    /\ UNCHANGED <<cardVars, expired, updateVars, phase, calls>>

\* _place_approved_order, right after the commit of 'approved': refused,
\* failed or placed, or stale, which also rewrites the response.
PlaceApproved ==
    /\ placing # NoCard
    /\ calls' = [calls EXCEPT ![placing] = @ + 1]
    /\ \/ UNCHANGED response
       \/ response' = [response EXCEPT ![placing] = "stale_price"]
    /\ placing' = NoCard
    /\ NoFault
    /\ UNCHANGED <<cardVars, expired, updateVars, offset, batch, phase, routed>>

BatchDone ==
    /\ phase = "route" /\ batch = <<>> /\ placing = NoCard
    /\ phase' = "auto_skip"
    /\ NoFault
    /\ UNCHANGED <<cardVars, response, expired, updateVars, offset, batch, placing,
                   history>>

MUT_Overdue == {c \in Cards : HasRow(c) /\ c \in expired}

\* Rows the auto-skip UPDATE matches.
Overdue == {c \in Cards : HasRow(c) /\ c \in expired /\ response[c] = "null"}

MUT_AutoSkipNeverAgain ==
    /\ phase = "auto_skip"
    /\ phase' = "poll"
    /\ NoFault
    /\ UNCHANGED <<cardVars, response, expired, updateVars, offset, batch, placing,
                   history>>

\* _auto_skip_expired_signals; a database error is logged and left for the
\* next cycle.
AutoSkip ==
    /\ phase = "auto_skip"
    /\ \/ /\ response' = [c \in Cards |-> IF c \in Overdue THEN "auto_skipped"
                                          ELSE response[c]]
          /\ NoFault
       \/ Fault /\ UNCHANGED response
    /\ phase' = "poll"
    /\ UNCHANGED <<cardVars, expired, updateVars, offset, batch, placing, history>>

\* The process dies and restarts: the offset was never persisted, open
\* transactions roll back, an approved card may never reach placement.
Crash ==
    /\ Fault
    /\ card' = [c \in Cards |-> IF card[c] = "open" THEN "rolled back" ELSE card[c]]
    /\ offset' = 0 /\ batch' = <<>> /\ placing' = NoCard /\ phase' = "poll"
    /\ UNCHANGED <<posted, response, expired, updateVars, history>>

Poller == Poll \/ Route \/ PlaceApproved \/ BatchDone \/ AutoSkip

Next ==
    \/ \E c \in Cards : Send(c) \/ EndDispatch(c) \/ Expire(c)
    \/ \E c \in Cards, b \in Buttons : Tap(c, b)
    \/ Poller
    \/ Crash

Spec == Init /\ [][Next]_vars

\* The poller's loop runs on whatever a request returned, dispatches end, and
\* time passes.  Nothing is assumed of the operator.
FairSpec ==
    /\ Spec
    /\ WF_vars(Poller)
    /\ \A c \in Cards : WF_vars(EndDispatch(c)) /\ WF_vars(Expire(c))

----------------------------------------------------------------------------
(* What must hold *)

\* Every variable keeps its type.
TypeOK ==
    /\ card \in [Cards -> {"none", "open", "committed", "rolled back"}]
    /\ posted \subseteq Cards
    /\ response \in [Cards -> Responses]
    /\ expired \subseteq Cards
    /\ taps \in Seq(Cards \X Buttons)
    /\ confirmed \in 0 .. Len(taps)
    /\ offset \in 0 .. Len(taps)
    /\ batch \in Seq(1 .. Len(taps))
    /\ placing \in Cards \cup {NoCard}
    /\ phase \in {"poll", "route", "auto_skip"}
    /\ routed \subseteq DOMAIN taps
    /\ calls \in [Cards -> Nat]
    /\ faults \in 0 .. MaxFaults

\* However often the operator taps and Telegram delivers a tap again, a card
\* leads to at most one placement: the conditional UPDATE is the only latch,
\* the poller's offset being lost with the process.
AtMostOneOrder == \A c \in Cards : calls[c] <= 1

\* The latch behind AtMostOneOrder, inductive: an undecided card was never
\* handed to placement, a card in placement is approved and there for the
\* first time.
ApprovalLatch ==
    /\ response \in [Cards -> Responses]
    /\ calls \in [Cards -> Nat]
    /\ \A c \in Cards :
          /\ response[c] = "null" => calls[c] = 0 /\ placing # c
          /\ placing = c => response[c] = "approved" /\ calls[c] = 0
          /\ calls[c] <= 1

\* Once the timeout or a stale price has closed a card, the card never turns
\* into an order: 'auto_skipped' gives way to an explicit skip only.
ClosedCardsStayClosed ==
    [][\A c \in Cards : response[c] \in {"auto_skipped", "stale_price"} =>
          /\ calls'[c] = calls[c]
          /\ response'[c] \in {response[c], "skipped"}]_vars

\* The batch is a run of consecutive updates.
Consecutive == \A i \in DOMAIN batch : batch[i] = batch[1] + i - 1

\* Telegram forgets an update only after it was routed: all that lies below the
\* offset, below the batch and below what is confirmed was.
ForgottenWereRouted ==
    /\ 1 .. confirmed \subseteq routed
    /\ 1 .. offset \subseteq routed
    /\ Consecutive
    /\ batch # <<>> => 1 .. (Head(batch) - 1) \subseteq routed

\* Every row that was committed is decided at last, if by nobody else then by
\* the timeout, although requests and writes fail now and then.
EveryCardDecided ==
    \A c \in Cards : HasRow(c) ~> response[c] # "null"

\* Every tap reaches _route_callback at least once: Telegram is not told to
\* forget an update before its turn, even when the poller loses its offset.
EveryTapRouted ==
    \A n \in 1 .. MaxTaps : Len(taps) >= n ~> n \in routed
=============================================================================
