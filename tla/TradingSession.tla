--------------------------- MODULE TradingSession ---------------------------
(***************************************************************************)
(* The investor's paper trading session, experimental/investor.py: an      *)
(* order is proposed, checked against the risk limits, approved (by a      *)
(* human, or at once under "auto"), checked again, filled by the paper     *)
(* broker and booked in the portfolio, while prices and days move on.      *)
(*                                                                         *)
(* Abstractions.  All calls are synchronous: an action is one call of the  *)
(* session, which reads the clock once; only propose() under "auto" reads  *)
(* it twice, and is two actions.  The feed is deterministic in the hour,   *)
(* so an hour brings prices and does not change them.  Money is integers:  *)
(* constants are chosen so that no division rounds.  basis[s] stands for   *)
(* avg_price * qty of a position.  Rationales, ids and reasons are text    *)
(* nothing depends on; a proposal is known by its place in the dict.       *)
(* allow_short and allow_leverage are off, and the broker's least          *)
(* commission is zero, which are their defaults.                           *)
(***************************************************************************)
EXTENDS Integers, Sequences, FiniteSets, Functions

CONSTANTS
  Symbols,                           (* the session's symbols              *)
  Crypto,                            (* those whose market never closes    *)
  LotSize,
  Feeds,                             (* histories: per hour the date, the  *)
                                     (*   prices, are equities trading      *)
  Orders, None,                      (* orders proposed; no limit or fill  *)
  Bps,                               (* 10_000, scaled down                *)
  CryptoSpread, OpenSpread, ClosedSpread,  (* quote()'s half spreads       *)
  Slippage, Commission,              (* of PaperBroker                     *)
  StartingCash,
  Allowlist, MaxOrderNotional, MinOrderNotional,   (* RiskLimits, its      *)
  MaxPositionWeight, MaxGrossExposure,             (*   fractions per cent *)
  MinCashBuffer, DailyLossLimit, MaxOrdersPerDay,
  MaxProposals, MaxJournal           (* bounds                             *)

Sides == {"buy", "sell"}

OrderRecords == [symbol : Symbols, side : Sides, qty : Int, limit : Int \cup {None}]

FillRecords ==
  [symbol : Symbols, side : Sides, qty : Nat \ {0}, price : Nat, commission : Nat, day : Nat]

(* Days follow each other: the clock does not go back.                     *)
Histories ==
  {h \in Seq([day : Nat, last : [Symbols -> Nat], trading : BOOLEAN]) :
     Len(h) > 0 /\ \A i \in 1..(Len(h) - 1) : h[i].day <= h[i + 1].day}

ASSUME TradingAssumption ==
  /\ IsFiniteSet(Symbols) /\ Crypto \subseteq Symbols
  /\ Orders \subseteq OrderRecords /\ Feeds \subseteq Histories
  /\ None \notin Int /\ None \notin FillRecords
  /\ {LotSize, Bps} \subseteq Nat \ {0}
  /\ {CryptoSpread, OpenSpread, ClosedSpread, Slippage, Commission} \subseteq 0..Bps
  /\ {StartingCash, MaxPositionWeight, MinCashBuffer, MaxOrdersPerDay} \subseteq Nat
  /\ {MaxProposals, MaxJournal} \subseteq Nat

(* The cash buffer pays for what the largest position may cost beyond the  *)
(* touch, as the defaults do (25%, 5%, 5 and 2 basis points).              *)
ASSUME BufferAssumption ==
  MaxPositionWeight * ((Bps + Slippage) * (Bps + Commission) - Bps * Bps) <= MinCashBuffer * (Bps * Bps)

VARIABLES
  feed, hour,                (* the history, and the hour it is now        *)
  cash, qty, basis, realised, fills,          (* Portfolio                 *)
  halted, autonomy,
  proposals, journal,
  ordersToday, sessionDay, dayStart,          (* _orders_today, _day, ...  *)
  executing                  (* proposal an "auto" propose() is to approve *)

clock == <<feed, hour>>
portfolio == <<cash, qty, basis, realised, fills>>
counters == <<ordersToday, sessionDay, dayStart>>
vars == <<clock, portfolio, halted, autonomy, proposals, journal, counters, executing>>

day == feed[hour].day

last == feed[hour].last

(* market_is_open() *)
Open(s) == s \in Crypto \/ feed[hour].trading

(* SyntheticFeed.quote(): the touch around last()                          *)
HalfSpread(s) ==
  (last[s] * (IF s \in Crypto THEN CryptoSpread ELSE IF Open(s) THEN OpenSpread ELSE ClosedSpread))
    \div Bps

Bid(s) == last[s] - HalfSpread(s)

Ask(s) == last[s] + HalfSpread(s)

(* Instrument.round_qty(): towards zero, to whole lots                     *)
RoundQty(q) == IF q < 0 THEN -(((-q) \div LotSize) * LotSize) ELSE (q \div LotSize) * LotSize

MarketValue == SumFunction([s \in Symbols |-> qty[s] * last[s]])

Equity == cash + MarketValue

Abs(n) == IF n < 0 THEN -n ELSE n

(***************************************************************************)
(* RiskLimits.check(): why an order is refused.                            *)
(***************************************************************************)
Touch(o) == IF o.side = "buy" THEN Ask(o.symbol) ELSE Bid(o.symbol)

Notional(o) == Abs(o.qty) * Touch(o)

(* mutant: the cash buffer is forgotten                                    *)
BuyReasonNoBuffer(o) ==
  \/ Notional(o) > cash
  \/ /\ Equity > 0
     /\ \/ (qty[o.symbol] * Ask(o.symbol) + Notional(o)) * 100 > MaxPositionWeight * Equity
        \/ (MarketValue + Notional(o)) * 100 > MaxGrossExposure * Equity

BuyReason(o) ==
  \/ Notional(o) > cash
  \/ /\ Equity > 0
     /\ \/ (cash - Notional(o)) * 100 < MinCashBuffer * Equity
        \/ (qty[o.symbol] * Ask(o.symbol) + Notional(o)) * 100 > MaxPositionWeight * Equity
        \/ (MarketValue + Notional(o)) * 100 > MaxGrossExposure * Equity

SellReason(o) == o.qty > qty[o.symbol]

DailyLoss == dayStart > 0 /\ (dayStart - Equity) * 100 >= DailyLossLimit * dayStart

Refused(o) ==
  \/ halted
  \/ o.symbol \notin Allowlist
  \/ o.qty <= 0
  \/ o.qty # RoundQty(o.qty)
  \/ ~Open(o.symbol)
  \/ Notional(o) > MaxOrderNotional
  \/ 0 < Notional(o) /\ Notional(o) < MinOrderNotional
  \/ ordersToday >= MaxOrdersPerDay
  \/ DailyLoss
  \/ o.side = "buy" /\ BuyReason(o)
  \/ o.side = "sell" /\ SellReason(o)

(***************************************************************************)
(* PaperBroker.place(): the touch plus slippage, or no fill at all when    *)
(* that is worse than the limit.                                           *)
(***************************************************************************)
Slipped(o) ==
  IF o.side = "buy" THEN Touch(o) + (Touch(o) * Slippage) \div Bps
                    ELSE Touch(o) - (Touch(o) * Slippage) \div Bps

Marketable(o) ==
  o.limit # None => IF o.side = "buy" THEN Slipped(o) <= o.limit ELSE Slipped(o) >= o.limit

FillOf(o) ==
  [symbol |-> o.symbol, side |-> o.side, qty |-> o.qty, price |-> Slipped(o),
   commission |-> (o.qty * Slipped(o) * Commission) \div Bps, day |-> day]

CashDelta(f) ==
  IF f.side = "buy" THEN -(f.qty * f.price) - f.commission ELSE f.qty * f.price - f.commission

(***************************************************************************)
(* Portfolio.apply().                                                      *)
(***************************************************************************)
(* mutant: what is left after a sale keeps the cost of the whole position  *)
BookWhole(f) ==
  /\ cash' = cash + CashDelta(f)
  /\ fills' = Append(fills, f)
  /\ qty' = [qty EXCEPT ![f.symbol] = IF f.side = "buy" THEN @ + f.qty ELSE @ - f.qty]
  /\ basis' = [basis EXCEPT ![f.symbol] = IF f.side = "buy" THEN @ + f.price * f.qty ELSE @]
  /\ realised' = [realised EXCEPT ![f.symbol] = IF f.side = "buy" THEN @ ELSE
                    @ + f.price * f.qty - (basis[f.symbol] * f.qty) \div qty[f.symbol]]

Book(f) ==
  /\ cash' = cash + CashDelta(f)
  /\ fills' = Append(fills, f)
  /\ IF f.side = "buy"
     THEN /\ qty' = [qty EXCEPT ![f.symbol] = @ + f.qty]
          /\ basis' = [basis EXCEPT ![f.symbol] = @ + f.price * f.qty]
          /\ UNCHANGED realised
     ELSE LET sold == (basis[f.symbol] * f.qty) \div qty[f.symbol]
          IN /\ qty' = [qty EXCEPT ![f.symbol] = @ - f.qty]
             /\ basis' = [basis EXCEPT ![f.symbol] = @ - sold]
             /\ realised' = [realised EXCEPT ![f.symbol] = @ + f.price * f.qty - sold]

(***************************************************************************)
(* TradingSession.                                                         *)
(***************************************************************************)
Record(kind, id) == journal' = Append(journal, [kind |-> kind, id |-> id])

(* mutant: the counters of the day are restarted by every mark             *)
MarkAlways(orders, equity) == ordersToday' = 0 /\ sessionDay' = day /\ dayStart' = equity

(* mark(): the first mark of a day restarts the counters from the equity   *)
(* of that moment, which a fill of the same call is already part of        *)
Mark(orders, equity) ==
  IF day # sessionDay
  THEN ordersToday' = 0 /\ sessionDay' = day /\ dayStart' = equity
  ELSE ordersToday' = orders /\ UNCHANGED <<sessionDay, dayStart>>

Init ==
  /\ feed \in Feeds /\ hour = 1
  /\ cash = StartingCash
  /\ qty = [s \in Symbols |-> 0] /\ basis = qty /\ realised = qty
  /\ fills = <<>>
  /\ halted = FALSE /\ autonomy \in {"advisory", "confirm", "auto"}
  /\ proposals = <<>> /\ journal = <<>>
  /\ ordersToday = 0 /\ sessionDay = day /\ dayStart = Equity
  /\ executing = 0

Tick ==
  /\ hour < Len(feed)
  /\ hour' = hour + 1
  /\ UNCHANGED <<feed, portfolio, halted, autonomy, proposals, journal, counters, executing>>

Idle == executing = 0 /\ Len(journal) < MaxJournal

(* propose(): marks, checks, journals; the order waits only if nothing     *)
(* speaks against it and the session is not advisory                       *)
Propose(o) ==
  /\ Idle
  /\ Len(proposals) < MaxProposals
  /\ UNCHANGED <<clock, portfolio, halted, autonomy>>
  /\ Mark(ordersToday, Equity)
  /\ LET order == [o EXCEPT !.qty = RoundQty(@)]
         id == Len(proposals) + 1
         refused == Refused(order)'   (* the check reads the marked day      *)
     IN /\ proposals' = Append(proposals,
             [order |-> order, fill |-> None,
              status |-> IF refused THEN "refused"
                         ELSE IF autonomy = "advisory" THEN "advisory" ELSE "pending"])
        /\ Record("proposal", id)
        /\ executing' = IF ~refused /\ autonomy = "auto" THEN id ELSE 0

(* mutant: any proposal that was allowed when it was made is executed      *)
ApproveAgain(id) ==
  LET o == proposals[id].order
      fill == FillOf(o)
  IN /\ executing \in {0, id}
     /\ executing = 0 => Idle
     /\ UNCHANGED <<clock, halted, autonomy>>
     /\ autonomy # "advisory"
     /\ proposals[id].status # "refused"
     /\ ~Refused(o)
     /\ Marketable(o)
     /\ Book(fill)
     /\ proposals' = [proposals EXCEPT ![id].status = "filled", ![id].fill = fill]
     /\ Record("fill", id)
     /\ Mark(ordersToday + 1, Equity')
     /\ executing' = 0

(* approve(), of a pending proposal by a human or by propose(): the limits *)
(* are checked against the counters of the last mark, which may be         *)
(* yesterday's, and only then is the day rolled                            *)
Approve(id) ==
  LET o == proposals[id].order
      fill == FillOf(o)
  IN /\ executing \in {0, id}
     /\ executing = 0 => Idle
     /\ UNCHANGED <<clock, halted, autonomy>>
     /\ autonomy # "advisory"
     /\ proposals[id].status = "pending"
     /\ ~Refused(o)
     /\ Marketable(o)
     /\ Book(fill)
     /\ proposals' = [proposals EXCEPT ![id].status = "filled", ![id].fill = fill]
     /\ Record("fill", id)
     /\ Mark(ordersToday + 1, Equity')
     /\ executing' = 0

(* approve() raises inside propose(): the proposal was registered, is      *)
(* journalled and stays pending, for a human to approve                    *)
ApproveRaises ==
  /\ executing # 0
  /\ LET o == proposals[executing].order IN Refused(o) \/ ~Marketable(o)
  /\ executing' = 0
  /\ UNCHANGED <<clock, portfolio, halted, autonomy, proposals, journal, counters>>

(* reject(): whatever the proposal's status is                             *)
Reject(id) ==
  /\ Idle
  /\ proposals' = [proposals EXCEPT ![id].status = "rejected"]
  /\ Record("rejected", id)
  /\ UNCHANGED <<clock, portfolio, halted, autonomy, counters, executing>>

Halt ==
  /\ Idle
  /\ halted' = TRUE
  /\ Record("halt", 0)
  /\ UNCHANGED <<clock, portfolio, autonomy, proposals, counters, executing>>

Resume ==
  /\ Idle
  /\ halted' = FALSE
  /\ Record("resume", 0)
  /\ UNCHANGED <<clock, portfolio, autonomy, proposals, counters, executing>>

(* mark(), called by hand                                                  *)
MarkNow ==
  /\ Idle
  /\ Mark(ordersToday, Equity)
  /\ UNCHANGED <<clock, portfolio, halted, autonomy, proposals, journal, executing>>

Next ==
  \/ Tick
  \/ MarkNow
  \/ \E o \in Orders : Propose(o)
  \/ \E id \in DOMAIN proposals : Approve(id) \/ Reject(id)
  \/ ApproveRaises
  \/ Halt
  \/ Resume

Spec == Init /\ [][Next]_vars

-----------------------------------------------------------------------------
(***************************************************************************)
(* Properties.                                                             *)
(***************************************************************************)

Filled == {id \in DOMAIN proposals : proposals[id].fill # None}

Total(f) == SumFunction(f)

(* Double entry: the fills of the proposals, and nothing else, moved the   *)
(* cash and the positions; what was paid for the positions held, less the  *)
(* profit realised and the commissions paid, is the cash that is gone.     *)
BookBalances ==
  /\ cash = StartingCash + Total([id \in Filled |-> CashDelta(proposals[id].fill)])
  /\ \A s \in Symbols :
       qty[s] = Total([id \in {i \in Filled : proposals[i].fill.symbol = s} |->
                  IF proposals[id].fill.side = "buy" THEN proposals[id].fill.qty
                                                     ELSE -proposals[id].fill.qty])
  /\ cash + Total(basis) = StartingCash + Total(realised)
       - Total([i \in DOMAIN fills |-> fills[i].commission])

(* The session is the only path to a fill, and the journal tells it: its   *)
(* fill entries are the portfolio's fills in order, each of a proposal     *)
(* journalled before, filled once, not rejected before, in no halt.        *)
FillEntries == {i \in DOMAIN journal : journal[i].kind = "fill"}

Before(i, kind, id) == {j \in 1..i : journal[j].kind = kind /\ journal[j].id = id}

FillsAudited ==
  /\ Cardinality(FillEntries) = Len(fills)
  /\ \A i \in FillEntries :
       /\ proposals[journal[i].id].fill = fills[Cardinality(FillEntries \cap (1..i))]
       /\ Before(i, "proposal", journal[i].id) # {}
       /\ Before(i, "rejected", journal[i].id) = {}
       /\ Before(i - 1, "fill", journal[i].id) = {}
       /\ \A h \in Before(i, "halt", 0) : \E r \in Before(i, "resume", 0) : r > h

(* No shorting, no leverage: the limits are checked at the touch, the fill *)
(* costs slippage and commission more; the cash buffer must cover those.   *)
NoOverdraft == cash >= 0 /\ \A s \in Symbols : qty[s] >= 0

FillsOn(d) == {i \in DOMAIN fills : fills[i].day = d}

(* approve() counts a fill against the day of the last mark: on a new day  *)
(* one fill, and no more than one, escapes that day's cap.                 *)
FillsPerDay == \A d \in {moment.day : moment \in Range(feed)} : Cardinality(FillsOn(d)) <= MaxOrdersPerDay + 1
=============================================================================
