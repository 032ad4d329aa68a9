------------------------------- MODULE TaxLots -------------------------------
(* The tax records (trading/tax/): the queue of lots a sale is matched with, *)
(* the dollar's rate at the close of a trade, and the events of a year.      *)
EXTENDS Integers, Sequences

CONSTANTS
    Assets,         \* the queues: a user, symbol and exchange each
    Quantities,     \* of purchases and sales
    Tolerance,      \* the 1e-9 of the matcher
    Rates,          \* what the service may quote
    MaxBuys, MaxEvents, MaxMonth, MaxFaults

VARIABLES
    lots,       \* FIFOQueue.lots
    bought,     \* every purchase: its asset and quantity
    matched,    \* how much of each has been sold
    sale,       \* the sale being matched and recorded
    month,      \* now, in months since a January
    fx,         \* fx_rates: the rate of a bucket of time, 0 for none
    taxed,      \* tax_events
    faults

taxVars == <<lots, bought, matched, sale, month, fx, taxed, faults>>

Smaller(a, b) == IF a < b THEN a ELSE b
Fault == faults < MaxFaults /\ faults' = faults + 1

Init ==
    /\ lots = [a \in Assets |-> <<>>] /\ bought = <<>> /\ matched = <<>> /\ sale = {}
    /\ month \in {0, 2} /\ fx = [m \in 0..MaxMonth |-> 0] /\ taxed = <<>> /\ faults = 0

\* record_buy appends a lot.
RecordBuy(a, qty) ==
    /\ sale = {} /\ Len(bought) < MaxBuys /\ qty > 0
    /\ bought' = Append(bought, [asset |-> a, qty |-> qty]) /\ matched' = Append(matched, 0)
    /\ lots' = [lots EXCEPT ![a] = Append(@, [id |-> Len(bought) + 1, left |-> qty])]
    /\ UNCHANGED <<sale, month, fx, taxed, faults>>

\* match_sell refuses what the queue does not hold, within the tolerance.
Total(queue) ==
    LET after[k \in 1..(Len(queue) + 1)] ==
            IF k > Len(queue) THEN 0 ELSE queue[k].left + after[k + 1]
    IN after[1]
Held(a) == Total(lots[a])
MatchSell(a, qty) ==
    /\ sale = {} /\ Len(taxed) < MaxEvents /\ qty > 0 /\ Held(a) >= qty - Tolerance
    /\ sale' = {[asset |-> a, qty |-> qty, open |-> qty, parts |-> <<>>, asked |-> {}]}
    /\ UNCHANGED <<lots, bought, matched, month, fx, taxed, faults>>
\* Its loop takes from the oldest lot, and drops it when no more than the
\* tolerance is left.
Matching(s) == s.open > 0 /\ lots[s.asset] # <<>>
TakeHead(s) ==
    /\ s \in sale /\ Matching(s)
    /\ LET queue == lots[s.asset]
           head  == Head(queue)
           take  == Smaller(head.left, s.open)
           left  == head.left - take
       IN /\ lots' = [lots EXCEPT ![s.asset] =
                         (IF left <= Tolerance THEN <<>>
                          ELSE <<[id |-> head.id, left |-> left]>>) \o Tail(queue)]
          /\ matched' = [matched EXCEPT ![head.id] = @ + take]
          /\ sale' = {[s EXCEPT !.open = @ - take,
                                !.parts = Append(@, [id |-> head.id, qty |-> take])]}
    /\ UNCHANGED <<bought, month, fx, taxed, faults>>

\* get_usd_inr: the bucket of the time of the call is looked up, and if it has no
\* rate the service is asked; time passes meanwhile.
AskRate(s) ==
    /\ s \in sale /\ ~Matching(s) /\ s.asked = {}
    /\ sale' = {[s EXCEPT !.asked = {month}]}
    /\ UNCHANGED <<lots, bought, matched, month, fx, taxed, faults>>

\* The year of an event begins in April.
MUT_FyYear(m) == IF m % 12 > 3 THEN m \div 12 ELSE (m \div 12) - 1    \* in May
FyYear(m) == IF m % 12 >= 3 THEN m \div 12 ELSE (m \div 12) - 1
Event(s, m, from, rates) ==
    [asset |-> s.asset, qty |-> s.qty, parts |-> s.parts, month |-> m, fy |-> FyYear(m),
     from |-> from, rate |-> rates[from]]
Record(s, m, from) ==
    /\ fx' = fx /\ taxed' = Append(taxed, Event(s, m, from, fx)) /\ sale' = {}
    /\ UNCHANGED <<lots, bought, matched, month>>

Asking(s, m) == s \in sale /\ ~Matching(s) /\ s.asked = {m}
Cached(s, m) == Asking(s, m) /\ fx[m] # 0 /\ Record(s, m, m) /\ faults' = faults
\* A rate that is fetched is kept, in the caller's transaction with the event.
Fetched(s, m, rate) ==
    /\ Asking(s, m) /\ fx[m] = 0
    /\ fx' = [fx EXCEPT ![m] = rate] /\ taxed' = Append(taxed, Event(s, m, m, fx')) /\ sale' = {}
    /\ UNCHANGED <<lots, bought, matched, month, faults>>
\* Without the service the newest rate serves, whatever its age.
Newest(m) == fx[m] # 0 /\ \A n \in DOMAIN fx : fx[n] # 0 => n <= m
Stale(s, m, old) == Asking(s, m) /\ fx[m] = 0 /\ Newest(old) /\ Record(s, m, old) /\ Fault
\* Without any, or when the insert fails, the event is lost, and its lots with it.
Lost(s, m) ==
    /\ Asking(s, m) /\ Fault /\ sale' = {}
    /\ UNCHANGED <<lots, bought, matched, month, fx, taxed>>

PassTime ==
    /\ month < MaxMonth /\ month' = month + 1
    /\ UNCHANGED <<lots, bought, matched, sale, fx, taxed, faults>>

Next ==
    \/ \E a \in Assets, qty \in Quantities : RecordBuy(a, qty) \/ MatchSell(a, qty)
    \/ \E s \in sale : TakeHead(s) \/ AskRate(s)
    \/ \E s \in sale, m \in 0..MaxMonth :
           \/ Cached(s, m) \/ Lost(s, m)
           \/ \E rate \in Rates : Fetched(s, m, rate)
           \/ \E old \in 0..MaxMonth : Stale(s, m, old)
    \/ PassTime

Spec == Init /\ [][Next]_taxVars

-----------------------------------------------------------------------------
Parts(p) == p.id \in DOMAIN bought /\ p.qty > 0
TypeOK ==
    /\ DOMAIN lots = Assets /\ month \in 0..MaxMonth /\ faults \in 0..MaxFaults
    /\ \A a \in Assets : \A k \in DOMAIN lots[a] : lots[a][k].id \in DOMAIN bought
    /\ DOMAIN matched = DOMAIN bought
    /\ \A s \in sale : s.asset \in Assets /\ s.open \in 0..s.qty /\ \A k \in DOMAIN s.parts : Parts(s.parts[k])

\* First in, first out: nothing of a purchase is sold before the older ones of
\* its asset are, but for the tolerance; and none is sold twice.
FirstInFirstOut ==
    \A i, j \in DOMAIN bought :
        /\ matched[i] <= bought[i].qty
        /\ i < j /\ bought[i].asset = bought[j].asset /\ matched[j] > 0 =>
               bought[i].qty - matched[i] <= Tolerance

\* What is not in the queue of its own asset is sold, and what is in it is what
\* is left.
QueueIsTheRest ==
    \A i \in DOMAIN bought :
        \/ \E k \in DOMAIN lots[bought[i].asset] :
               /\ lots[bought[i].asset][k].id = i
               /\ lots[bought[i].asset][k].left = bought[i].qty - matched[i]
        \/ /\ bought[i].qty - matched[i] <= Tolerance
           /\ \A a \in Assets : \A k \in DOMAIN lots[a] : lots[a][k].id # i

\* A sale that was accepted is covered by its lots, but for the tolerance.
SaleIsCovered ==
    \A s \in sale : s.asked # {} => s.open <= Tolerance

\* An event bears the rate of its own bucket, or the newest that there was; and
\* the year it is filed under holds twelve months.
RateOfItsTime ==
    \A k \in DOMAIN taxed :
        /\ fx[taxed[k].from] = taxed[k].rate /\ taxed[k].from <= taxed[k].month
        /\ \A m \in DOMAIN fx : taxed[k].from < m /\ m < taxed[k].month => fx[m] = 0
        /\ \A j \in DOMAIN taxed :
               taxed[j].fy = taxed[k].fy <=>
                   (taxed[j].month + 9) \div 12 = (taxed[k].month + 9) \div 12
=============================================================================
